----------------------------- MODULE MincInterp -----------------------------
(***************************************************************************)
(* The Minc interpreter, Node.cpp and Scope.cpp: how the tree of a score's *)
(* statements is executed.  A function's body is one tree, shared by every *)
(* activation of the function: each node keeps the value and the symbol    *)
(* that its last execution left, and a recursive call overwrites both      *)
(* under a caller that may not have read them yet.  Everything else the    *)
(* interpreter knows (scopes, argument lists, counters, the pending        *)
(* return) is static and must be balanced whichever way a statement ends.  *)
(*                                                                         *)
(* One step of the machine executes one statement of the top level, as     *)
(* go() does; within it Exec follows exct() from node to node and carries  *)
(* the interpreter's state along.  An exception is the field raised: what  *)
(* the code would do after the throw does nothing, what its destructors    *)
(* and handlers do is done.                                                *)
(*                                                                         *)
(* Abstracted: a node is known by its path from the root of its tree, and  *)
(* a chain of list elements or statements is one node with many children;  *)
(* a value is a small number or a function, so nothing is left of the      *)
(* operators on other types; of two functions neither is below the other   *)
(* (the code compares addresses).  Lists, maps, structs and methods,       *)
(* strings, includes and warnings are left out.  A definition named for a  *)
(* deviation of another (StoreTargetFirst) is that definition with a       *)
(* plausible bug.                                                          *)
(***************************************************************************)
EXTENDS Integers, SequencesExt

CONSTANTS
  Scores,      \* what a session begins with: statements, function definitions among them
  Statements,  \* statements that may follow
  Builtins,    \* names of built-in functions; the calls print their arguments
  MAXSTACK,    \* nested lists and calls (32 in minc_internal.h)
  MAXDISPARGS, \* arguments of a call (1024 in maxdispargs.h)
  MaxSteps     \* bound: statements of a session

ASSUME StackAssumption == MAXSTACK \in Nat \ {0} /\ MAXDISPARGS \in Nat \ {0}
ASSUME StepsAssumption == MaxSteps \in Nat

VARIABLES
  interp,  \* the interpreter's state, see Initial
  last,    \* history: the statement that was executed last
  steps    \* statements executed

vars == <<interp, last, steps>>

-----------------------------------------------------------------------------
(* Trees.  kind, symbol name, number, children.                            *)

Tree(kind, name, num, kids) == [kind |-> kind, name |-> name, num |-> num, kids |-> kids]
Noop            == Tree("noop", "", 0, <<>>)
Con(x)          == Tree("const", "", x, <<>>)
Load(s)         == Tree("load", s, 0, <<>>)
Store(s, e)     == Tree("store", "", 0, <<Tree("auto", s, 0, <<>>), e>>)
OpAssign(s, op, e) == Tree("opassign", op, 0, <<Load(s), e>>)
Op(op, a, b)    == Tree("op", op, 0, <<a, b>>)
Rel(op, a, b)   == Tree("relation", op, 0, <<a, b>>)
Not(a)          == Tree("not", "", 0, <<a>>)
And(a, b)       == Tree("and", "", 0, <<a, b>>)
Or(a, b)        == Tree("or", "", 0, <<a, b>>)
Ternary(a, b, c) == Tree("ternary", "", 0, <<a, b, c>>)
If(a, b)        == Tree("if", "", 0, <<a, b>>)
IfElse(a, b, c) == Tree("ifelse", "", 0, <<a, b, c>>)
While(a, b)     == Tree("while", "", 0, <<a, b>>)
For(i, a, n, b) == Tree("for", "", 0, <<i, a, n, b>>)
Block(stmts)    == Tree("block", "", 0, <<Tree("seq", "", 0, stmts)>>)
Seqn(stmts)     == Tree("seq", "", 0, stmts)
Decl(s)         == Tree("decl", s, 0, <<>>)
Call(f, args)   == Tree("call", "", 0, <<Load(f), Tree("args", "", 0, args)>>)
Ret(e)          == Tree("ret", "", 0, <<e>>)
Switch(e, clauses) == Tree("switch", "", 0, <<e, Tree("clauses", "", 0, clauses)>>)
Label(e)        == Tree("label", "", 0, <<e>>)
Case(labels, b) ==
  Tree("case", "", 0, <<Tree("labels", "", 0, [n \in DOMAIN labels |-> Label(labels[n])]), b>>)
Default(b)      == Tree("default", "", 0, <<b>>)
\* A function: parameters, statements, the return it must end with.
FuncDef(f, params, stmts, e) ==
  Tree("funcdef", f, 0,
       <<Tree("params", "", 0, [n \in DOMAIN params |-> Decl(params[n])]),
         Tree("funcbody", "", 0, <<Seqn(stmts), Ret(e)>>)>>)
-----------------------------------------------------------------------------
(* The interpreter's state.                                                *)

Num(x) == [type |-> "float", num |-> x, fun |-> ""]
Fun(f) == [type |-> "mfunction", num |-> 0, fun |-> f]
Void   == [type |-> "void", num |-> 0, fun |-> ""]
Bit(b) == Num(IF b THEN 1 ELSE 0)

\* MincValue::operator bool
Truth(v) == v.type = "mfunction" \/ v.num # 0

NoReturn == [set |-> FALSE, value |-> Void]

Initial ==
  [value      |-> <<>>,     \* per path, Node::v
   symbol     |-> <<>>,     \* per path, Node::_symbol
   strict     |-> {},       \* paths of the stores that lost _allowTypeOverwrite
   heap       |-> <<>>,     \* the symbols that are allocated: value and scope
   next       |-> 1,        \* name of the next symbol
   global     |-> <<>>,     \* global scope: symbols by their names
   scopes     |-> <<>>,     \* the scopes above it in the current stack
   callStack  |-> <<>>,     \* the stacks of the callers
   called     |-> <<>>,     \* sCalledFunctions
   list       |-> <<>>,     \* sMincList
   lists      |-> <<>>,     \* list_stack
   ret        |-> NoReturn, \* ReturnPending
   unresolved |-> "",       \* FunctionUnresolved
   lookup     |-> FALSE,    \* sFunctionLookupActive
   callDepth  |-> 0,        \* sFunctionCallDepth
   ifDepth    |-> 0,        \* sIfElseBlockDepth
   inArgs     |-> FALSE,    \* inCalledFunctionArgList
   funs       |-> <<>>,     \* the trees of the functions by their names
   raised     |-> FALSE,    \* an exception is on its way
   shared     |-> TRUE,     \* FALSE: each activation has a tree of its own
   calls      |-> 0,        \* calls in this statement
   stale      |-> FALSE,    \* history: a symbol was used after its scope was left
   noCaller   |-> FALSE,    \* history: sCalledFunctions.back() of an empty vector
   late       |-> FALSE,    \* history: a node was executed with a return pending
   out        |-> <<>>]     \* history: what the built-in functions were called with

Known(f, k) == k \in DOMAIN f

\* What follows a throw is not done.
Do(m, n) == IF m.raised THEN m ELSE n
Raise(m) == [m EXCEPT !.raised = TRUE]

Value(m, p)  == IF Known(m.value, p) THEN m.value[p] ELSE Void
Symbol(m, p) == IF Known(m.symbol, p) THEN m.symbol[p] ELSE 0
SetValue(m, p, v)  == Do(m, [m EXCEPT !.value = (p :> v) @@ @])
SetSymbol(m, p, s) == Do(m, [m EXCEPT !.symbol = (p :> s) @@ @])

-----------------------------------------------------------------------------
(* Scopes.                                                                 *)

current_scope(m) == Len(m.scopes)

\* Scopes from the outermost to the innermost, of which the caller's are no part.
Visible(m) == <<m.global>> \o m.scopes

\* lookupSymbol: the symbol in the innermost scope that has the name, or 0.
LookupAny(m, s) ==
  LET n == SelectLastInSeq(Visible(m), LAMBDA scope : Known(scope, s))
  IN IF n = 0 THEN 0 ELSE Visible(m)[n][s]
LookupThis(m, s) ==
  LET scope == Last(Visible(m)) IN IF Known(scope, s) THEN scope[s] ELSE 0

\* installSymbol
Install(m, s, isGlobal, v) ==
  LET depth == IF isGlobal THEN 0 ELSE current_scope(m)
      n == [m EXCEPT !.next = @ + 1,
                     !.heap = (m.next :> [value |-> v, scope |-> depth]) @@ @]
  IN IF depth = 0 THEN [n EXCEPT !.global = (s :> m.next) @@ @]
                  ELSE [n EXCEPT !.scopes[depth] = (s :> m.next) @@ @]

\* The symbols of scopes that are left are deleted.
Free(m, scopes) ==
  LET dead == UNION {{scope[s] : s \in DOMAIN scope} : scope \in Range(scopes)}
  IN [m EXCEPT !.heap = [i \in DOMAIN @ \ dead |-> @[i]]]

push_scope(m) == Do(m, [m EXCEPT !.scopes = Append(@, <<>>)])
pop_scope(m)  == [Free(m, <<Last(m.scopes)>>) EXCEPT !.scopes = Front(@)]

\* A symbol is written through a node's pointer.
SetSymbolValue(m, s, v) ==
  Do(m, IF Known(m.heap, s) THEN [m EXCEPT !.heap[s].value = v]
                            ELSE Raise([m EXCEPT !.stale = TRUE]))

-----------------------------------------------------------------------------
(* Executing a tree.                                                       *)

\* Exec(p, t, m): the state after the node t with path p has been executed.
RECURSIVE Exec(_, _, _)

Kid(p, i) == Append(p, i)
ExecKid(p, t, i, m) == Exec(Kid(p, i), t.kids[i], m)
ExecKids(p, t, m) ==
  FoldLeft(LAMBDA n, i : ExecKid(p, t, i, n), m, [i \in DOMAIN t.kids |-> i])
KidTruth(m, p, i) == ~m.raised /\ Truth(Value(m, Kid(p, i)))

LoadSym(p, t, m) ==
  LET s == LookupAny(m, t.name)
      n == SetSymbol(m, p, s)
  IN IF s # 0 THEN SetValue(n, p, m.heap[s].value)
     ELSE IF m.lookup THEN [n EXCEPT !.unresolved = t.name]
     ELSE Raise(n)

\* UseLocalScope, but a function that is called in an if declares in the global scope.
UseScopeOfIf(m) == m.ifDepth = 0
\* The scope a variable is declared in that is assigned to for the first time.
UseLocalScope(m) == m.callDepth > 0 \/ m.ifDepth = 0

\* lookupOrAutodeclare
AutoDeclLoadSym(p, t, m) ==
  LET s == LookupAny(m, t.name)
      n == IF s # 0 THEN m ELSE Install(m, t.name, ~UseLocalScope(m), Void)
      found == IF s # 0 THEN s ELSE m.next
  IN SetValue(SetSymbol(n, p, found), p, n.heap[found].value)

\* Symbol::copyValue and the rule about types.  A store that has found a function in its
\* target overwrites no type by another from then on, not even a number by a function.
StoreValue(p, m) ==
  LET v == Value(m, Kid(p, 2))
      target == Symbol(m, Kid(p, 1))
      n == IF m.raised \/ Value(m, Kid(p, 1)).type # "mfunction" THEN m
           ELSE [m EXCEPT !.strict = @ \cup {p}]
  IN IF /\ p \in n.strict /\ Known(n.heap, target)
        /\ n.heap[target].value.type \notin {"void", v.type}
     THEN Raise(n)
     ELSE SetValue(SetSymbolValue(n, target, v), p, v)

\* StoreNode, but the target is looked up before the expression is evaluated.
StoreTargetFirst(p, t, m) == StoreValue(p, ExecKid(p, t, 2, ExecKid(p, t, 1, m)))

\* The target is looked up last.
StoreNode(p, t, m) == StoreValue(p, ExecKid(p, t, 1, ExecKid(p, t, 2, m)))

\* doOperation: of a function it only warns, and the node keeps its value.
Arith(m, p, op, a, b) ==
  IF a.type = "mfunction" \/ (a.type = "float" /\ b.type = "mfunction") THEN m
  ELSE IF "void" \in {a.type, b.type} THEN Raise(m)
  ELSE SetValue(m, p, Num(CASE op = "+" -> a.num + b.num
                            [] op = "-" -> a.num - b.num
                            [] op = "*" -> a.num * b.num))

\* NodeOpAssign: the target is looked up first.
OpAssignNode(p, t, m) ==
  LET n == ExecKid(p, t, 2, ExecKid(p, t, 1, m))
      target == Symbol(n, Kid(p, 1))
  IN IF ~n.raised /\ ~Known(n.heap, target) THEN Raise([n EXCEPT !.stale = TRUE])
     ELSE LET done == Arith(n, p, t.name, n.heap[target].value, Value(n, Kid(p, 2)))
          IN Do(n, SetSymbolValue(done, target, Value(done, p)))

\* NodeOp and NodeRelation: the operands are references to the children's values, and
\* the first is read after the second has been executed.
OpNode(p, t, m) ==
  LET n == ExecKids(p, t, m)
  IN Arith(n, p, t.name, Value(n, Kid(p, 1)), Value(n, Kid(p, 2)))
\* Comparing: zero and void are equal, whatever else has another type differs, and is
\* ordered by its bits: zero, addresses, positive numbers, negative ones.
IsZero(v) == v.num = 0 /\ v.type # "mfunction"
rawValue(v) == CASE IsZero(v)            -> 0
                 [] v.type = "mfunction" -> 1
                 [] v.num > 0            -> 2
                 [] OTHER                -> 3
Less(a, b) == IF {a.type, b.type} = {"float"} THEN a.num < b.num
              ELSE rawValue(a) < rawValue(b)
Compare(op, a, b) ==
  CASE op = "==" -> IF IsZero(b) THEN IsZero(a) ELSE a = b
    [] op = "<"  -> Less(a, b)
    [] op = ">"  -> Less(b, a)
RelationNode(p, t, m) ==
  LET n == ExecKids(p, t, m)
  IN SetValue(n, p, Bit(Compare(t.name, Value(n, Kid(p, 1)), Value(n, Kid(p, 2)))))

NotNode(p, t, m) ==
  LET n == ExecKids(p, t, m) IN SetValue(n, p, Bit(~Truth(Value(n, Kid(p, 1)))))

\* NodeAnd and NodeOr set their value to false before they execute their children.
AndNode(p, t, m) ==
  LET a == ExecKid(p, t, 1, SetValue(m, p, Bit(FALSE)))
      b == ExecKid(p, t, 2, a)
  IN IF ~KidTruth(a, p, 1) THEN a
     ELSE IF KidTruth(b, p, 2) THEN SetValue(b, p, Bit(TRUE)) ELSE b
OrNode(p, t, m) ==
  LET a == ExecKid(p, t, 1, SetValue(m, p, Bit(FALSE)))
      b == ExecKid(p, t, 2, a)
  IN IF KidTruth(a, p, 1) THEN SetValue(a, p, Bit(TRUE))
     ELSE IF KidTruth(b, p, 2) THEN SetValue(b, p, Bit(TRUE)) ELSE b

TernaryNode(p, t, m) ==
  LET c == ExecKid(p, t, 1, m)
      i == IF KidTruth(c, p, 1) THEN 2 ELSE 3
      n == ExecKid(p, t, i, c)
  IN SetValue(n, p, Value(n, Kid(p, i)))

\* FunctionBalance for the depth of ifs.
If_(m)    == Do(m, [m EXCEPT !.ifDepth = @ + 1])
\* EndIf_, but an exception passes it by.
EndIfUnlessRaised(m) == IF m.raised THEN m ELSE [m EXCEPT !.ifDepth = @ - 1]
EndIf_(m) == [m EXCEPT !.ifDepth = @ - 1]
IfNode(p, t, m) ==
  LET c == ExecKid(p, t, 1, If_(m))
  IN EndIf_(IF KidTruth(c, p, 1) THEN ExecKid(p, t, 2, c)
            ELSE IF Len(t.kids) = 3 THEN ExecKid(p, t, 3, c) ELSE c)

\* SeqNode, but a pending return is not looked for.
SeqToTheEnd(p, t, m) == ExecKids(p, t, m)

\* The statements after one that returned are not executed.
SeqNode(p, t, m) ==
  FoldLeft(LAMBDA n, i : IF n.ret.set THEN n ELSE ExecKid(p, t, i, n), m,
           [i \in DOMAIN t.kids |-> i])

\* While the condition holds and nothing returned: the body, and then the step.
RECURSIVE Loop(_, _, _, _)
Loop(p, t, k, m) ==
  LET c == ExecKid(p, t, k.cond, m)
      b == ExecKid(p, t, k.body, c)
  IN IF ~KidTruth(c, p, k.cond) THEN c
     ELSE IF b.raised \/ b.ret.set THEN b
     ELSE Loop(p, t, k, IF k.step = 0 THEN b ELSE ExecKid(p, t, k.step, b))
WhileNode(p, t, m) == Loop(p, t, [cond |-> 1, body |-> 2, step |-> 0], m)
ForNode(p, t, m) ==
  Loop(p, t, [cond |-> 2, body |-> 4, step |-> 3], ExecKid(p, t, 1, m))

\* A block has a scope of its own, but not in an if of the top level.
BlockNode(p, t, m) ==
  IF m.ifDepth = 0 \/ m.callDepth > 0 THEN pop_scope(ExecKid(p, t, 1, push_scope(m)))
  ELSE ExecKid(p, t, 1, m)

\* inCalledFunctionArgList: in a list of parameters only this scope's names count, and
\* none may be used twice; elsewhere a variable of the same scope is used again.
DeclNode(p, t, m) ==
  LET s == IF m.inArgs THEN LookupThis(m, t.name) ELSE LookupAny(m, t.name)
      here == s # 0 /\ m.heap[s].scope = current_scope(m)
  IN IF ~here THEN SetSymbol(Install(m, t.name, FALSE, Num(0)), p, m.next)
     ELSE IF m.inArgs THEN Raise([m EXCEPT !.noCaller = @ \/ m.called = <<>>])
     ELSE SetSymbol(m, p, s)

-----------------------------------------------------------------------------
(* switch.  A node is handed the value to match in its own value, and      *)
(* leaves there whether it matched.                                        *)

SwitchNode(p, t, m) ==
  LET n == ExecKid(p, t, 1, m)
  IN ExecKid(p, t, 2, SetValue(n, Kid(p, 2), Value(n, Kid(p, 1))))

\* NodeCaseClauseList and NodeCaseLabelList: the first child that matches ends the list.
\* What is to be matched is saved before a child runs: it may execute this node again.
MatchListNode(p, t, m) ==
  LET v == Value(m, p)
      try(n, i) == LET tried == ExecKid(p, t, i, SetValue(n, Kid(p, i), v))
                   IN SetValue(tried, p, Value(tried, Kid(p, i)))
  IN FoldLeft(LAMBDA n, i : IF i > 1 /\ Truth(Value(n, p)) THEN n ELSE try(n, i),
              m, [i \in DOMAIN t.kids |-> i])

\* NodeCaseLabel: the label's value is compared with what was handed to the node.
LabelNode(p, t, m) ==
  LET n == ExecKid(p, t, 1, m)
  IN SetValue(n, p, Bit(Compare("==", Value(n, Kid(p, 1)), Value(m, p))))

\* NodeCaseClause and NodeDefaultClause
CaseNode(p, t, m) ==
  LET n == ExecKid(p, t, 1, SetValue(m, Kid(p, 1), Value(m, p)))
      matched == KidTruth(n, p, 1)
  IN SetValue(IF matched THEN ExecKid(p, t, 2, n) ELSE n, p, Bit(matched))
DefaultNode(p, t, m) == SetValue(ExecKid(p, t, 1, m), p, Bit(TRUE))

-----------------------------------------------------------------------------
(* Calls.                                                                  *)

\* NodeFuncDecl and NodeFuncDef
FuncDefNode(p, t, m) ==
  IF current_scope(m) > 0 \/ Known(m.global, t.name) THEN Raise(m)
  ELSE SetSymbol([Install(m, t.name, TRUE, Fun(t.name)) EXCEPT !.funs = (t.name :> t) @@ @],
                 Kid(p, 1), m.next)

push_list(m) == IF Len(m.lists) >= MAXSTACK THEN Raise(m)
                ELSE [m EXCEPT !.lists = Append(@, m.list), !.list = <<>>]
pop_list(m)  == [m EXCEPT !.list = Last(m.lists), !.lists = Front(@)]

\* NodeListElem: each argument is copied as soon as it is evaluated, if there is room.
ArgsNode(p, t, m) ==
  FoldLeft(LAMBDA n, i :
             LET e == ExecKid(p, t, i, n)
             IN IF Len(n.list) = MAXDISPARGS THEN Raise(n)
                ELSE Do(e, [e EXCEPT !.list = Append(@, Value(e, Kid(p, i)))]),
           m, [i \in DOMAIN t.kids |-> i])

\* NodeArgListElem: declare a parameter and give it its argument, or 0.
ParamNode(p, t, i, m) ==
  LET n == ExecKid(p, t, i, m)
      v == IF i <= Len(n.list) THEN n.list[i] ELSE Num(0)
  IN IF Len(n.list) > Len(t.kids) \/ v.type # "float" THEN Raise(n)
     ELSE SetSymbolValue(n, Symbol(n, Kid(p, i)), v)
\* NodeArgList: an argument that does not fit leaves inCalledFunctionArgList set.
ParamsNode(p, t, m) ==
  LET n == FoldLeft(LAMBDA n, i : Do(n, ParamNode(p, t, i, n)), [m EXCEPT !.inArgs = TRUE],
                    [i \in DOMAIN t.kids |-> i])
  IN Do(n, Install([n EXCEPT !.inArgs = FALSE], "_n_args", FALSE, Num(Len(n.list))))

RetNode(p, t, m) ==
  LET n == ExecKid(p, t, 1, m)
      r == SetValue(n, p, Value(n, Kid(p, 1)))
  IN Do(r, [r EXCEPT !.ret = [set |-> TRUE, value |-> Value(r, p)]])

FuncBodyNode(p, t, m) ==
  LET n == ExecKid(p, t, 1, m)
      r == ExecKid(p, t, 2, n)
  IN IF n.ret.set THEN n ELSE SetValue(r, p, Value(r, Kid(p, 2)))

\* How a call ends: the scopes of the activation are left, the caller's come back.
\* What an exception passed over must not reach the next call.
LeaveFunction(m) ==
  [Free(m, m.scopes) EXCEPT !.scopes = Last(m.callStack), !.callStack = Front(@),
                            !.called = Front(@), !.callDepth = @ - 1,
                            !.ret = NoReturn, !.unresolved = ""]

\* callMincFunction: the value that was returned goes to the node p.
callMincFunction(p, f, m) ==
  LET root == IF m.shared THEN <<f>> ELSE <<f, m.calls>>
      entered == [m EXCEPT !.called = Append(@, f), !.callStack = Append(@, m.scopes),
                           !.scopes = << <<>> >>, !.callDepth = @ + 1, !.calls = @ + 1]
      n == ExecKid(root, m.funs[f], 2, ExecKid(root, m.funs[f], 1, entered))
      returned == IF n.ret.set THEN n.ret.value ELSE Value(n, Kid(root, 2))
  IN SetValue(LeaveFunction(n), p, returned)

\* callBuiltinFunction: that there is no such function is only said, by default.
callBuiltinFunction(p, f, m) ==
  IF m.raised THEN m
  ELSE IF f \in Builtins THEN SetValue([m EXCEPT !.out = Append(@, m.list)], p, Num(0))
  ELSE SetValue(m, p, Void)

\* NodeFunctionCall: the function is looked up, then there is a list for the arguments.
CallNode(p, t, m) ==
  LET found == [ExecKid(p, t, 1, [m EXCEPT !.lookup = TRUE]) EXCEPT !.lookup = FALSE]
      name == found.unresolved
      f == Value(found, Kid(p, 1))
      n == push_list([found EXCEPT !.unresolved = ""])
      args == ExecKid(p, t, 2, n)
  IN IF n.raised THEN n
     ELSE pop_list(IF name # "" THEN callBuiltinFunction(p, name, args)
                   ELSE IF f.type # "mfunction" THEN Raise(n)
                   ELSE IF args.raised THEN args
                   ELSE callMincFunction(p, f.fun, args))

-----------------------------------------------------------------------------
(* exct and what a score does.                                             *)

NodeOf(p, t, m) ==
  CASE t.kind = "noop"     -> m
    [] t.kind = "const"    -> SetValue(m, p, Num(t.num))
    [] t.kind = "load"     -> LoadSym(p, t, m)
    [] t.kind = "auto"     -> AutoDeclLoadSym(p, t, m)
    [] t.kind = "store"    -> StoreNode(p, t, m)
    [] t.kind = "opassign" -> OpAssignNode(p, t, m)
    [] t.kind = "op"       -> OpNode(p, t, m)
    [] t.kind = "relation" -> RelationNode(p, t, m)
    [] t.kind = "not"      -> NotNode(p, t, m)
    [] t.kind = "and"      -> AndNode(p, t, m)
    [] t.kind = "or"       -> OrNode(p, t, m)
    [] t.kind = "ternary"  -> TernaryNode(p, t, m)
    [] t.kind \in {"if", "ifelse"} -> IfNode(p, t, m)
    [] t.kind = "while"    -> WhileNode(p, t, m)
    [] t.kind = "for"      -> ForNode(p, t, m)
    [] t.kind = "block"    -> BlockNode(p, t, m)
    [] t.kind = "seq"      -> SeqNode(p, t, m)
    [] t.kind = "decl"     -> DeclNode(p, t, m)
    [] t.kind = "switch"   -> SwitchNode(p, t, m)
    [] t.kind \in {"clauses", "labels"} -> MatchListNode(p, t, m)
    [] t.kind = "label"    -> LabelNode(p, t, m)
    [] t.kind = "case"     -> CaseNode(p, t, m)
    [] t.kind = "default"  -> DefaultNode(p, t, m)
    [] t.kind = "funcdef"  -> FuncDefNode(p, t, m)
    [] t.kind = "params"   -> ParamsNode(p, t, m)
    [] t.kind = "funcbody" -> FuncBodyNode(p, t, m)
    [] t.kind = "ret"      -> RetNode(p, t, m)
    [] t.kind = "args"     -> ArgsNode(p, t, m)
    [] t.kind = "call"     -> CallNode(p, t, m)
Exec(p, t, m) == Do(m, NodeOf(p, t, [m EXCEPT !.late = @ \/ m.ret.set]))

\* go: a statement of the top level is executed, and its tree is not used again.
go(t, m) ==
  LET n == Exec(<<"top">>, t, m)
      kept(paths) == {p \in paths : Head(p) # "top"}
  IN [n EXCEPT !.value = Restrict(@, kept(DOMAIN @)), !.symbol = Restrict(@, kept(DOMAIN @)),
               !.strict = kept(@)]

\* parse_score_buffer: an exception ends the score; the symbols are preserved.
parse(score, m) ==
  FoldLeft(LAMBDA n, t : Do(n, go(t, n)),
           [m EXCEPT !.raised = FALSE, !.calls = 0, !.out = <<>>], score)

Init == interp = Initial /\ last = <<>> /\ steps = 0

\* After a step whose outcome the code leaves undefined there is none.
Play(score) ==
  /\ steps < MaxSteps
  /\ ~interp.stale /\ ~interp.noCaller
  /\ interp' = parse(score, interp)
  /\ last' = score
  /\ steps' = steps + 1

Define  == steps = 0 /\ \E score \in Scores : Play(score)
Perform == steps > 0 /\ \E t \in Statements : Play(<<t>>)
Finished ==
  /\ steps = MaxSteps \/ interp.stale \/ interp.noCaller
  /\ UNCHANGED vars

Next == Define \/ Perform \/ Finished
Spec == Init /\ [][Next]_vars

-----------------------------------------------------------------------------
(* Properties.                                                             *)

\* Whichever way a score ends, nothing of it is left on the stacks of scopes, calls and
\* argument lists, every symbol of a scope that was left is freed and none that is
\* global, and no return, lookup or nesting depth reaches the next score.
\* inCalledFunctionArgList is not among them: see DeclNode and ParamsNode.
StaticsBalanced ==
  /\ interp.scopes = <<>> /\ interp.callStack = <<>> /\ interp.called = <<>>
  /\ interp.list = <<>> /\ interp.lists = <<>>
  /\ interp.callDepth = 0 /\ interp.ifDepth = 0
  /\ ~interp.ret.set /\ interp.unresolved = "" /\ ~interp.lookup
  /\ DOMAIN interp.heap = Range(interp.global)

\* Once a function returned, from however deep in blocks, loops and switches, nothing more
\* of its body is executed: not the next statement, nor the step or the condition of a loop.
ReturnIsLast == ~interp.late

\* No symbol is used after its scope was left ("we accessed a variable after leaving its
\* scope!", Symbol.cpp and Node.cpp).
NoStaleSymbol == ~interp.stale

RECURSIVE HasCall(_), Exposed(_), MakesGlobal(_, _, _)
HasCall(t) == t.kind = "call" \/ \E i \in DOMAIN t.kids : HasCall(t.kids[i])
\* The tree has an operator that executes a call while a result is in its own or in its
\* first operand's node.
Exposed(t) ==
  \/ t.kind \in {"op", "relation", "opassign"} /\ HasCall(t.kids[2])
  \/ t.kind \in {"and", "or"} /\ HasCall(t)
  \/ \E i \in DOMAIN t.kids : Exposed(t.kids[i])

Outcome(m) ==
  [raised |-> m.raised, out |-> m.out,
   globals |-> [s \in DOMAIN m.global |-> m.heap[m.global[s]].value]]

\* Unless an operator is exposed, no score can tell that the activations of a function
\* share its tree: the variables, the calls of built-in functions and the error are those
\* of an interpreter that gives every activation a tree of its own.
SharingUnseen ==
  [][ (\A t \in Range(interp'.funs) \cup Range(last') : ~Exposed(t))
        => Outcome(interp') = Outcome(parse(last', [interp EXCEPT !.shared = FALSE])) ]_vars

\* Names that a statement makes global: what it declares outside of blocks and assigns to
\* outside of blocks or in an if, where a block is no scope; nothing that a function does.
MakesGlobal(t, inIf, inScope) ==
  CASE t.kind = "funcdef" -> {t.name}
    [] t.kind = "auto"    -> IF inIf \/ ~inScope THEN {t.name} ELSE {}
    [] t.kind = "decl"    -> IF inScope THEN {} ELSE {t.name}
    [] OTHER ->
         UNION {MakesGlobal(t.kids[i], inIf \/ t.kind \in {"if", "ifelse"},
                            inScope \/ (t.kind = "block" /\ ~inIf)) : i \in DOMAIN t.kids}

\* Calling a function, in an if or not, adds no global variable: a score's global names
\* are those its own statements make.
CallsAddNoGlobal ==
  [][ DOMAIN interp'.global \subseteq
        DOMAIN interp.global \cup UNION {MakesGlobal(t, FALSE, FALSE) : t \in Range(last')} ]_vars
=============================================================================
