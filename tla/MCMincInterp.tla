---------------------------- MODULE MCMincInterp ----------------------------
(* Sessions of the Minc interpreter: a function in one of several forms,   *)
(* most of which call themselves, and statements that use it.              *)
EXTENDS MincInterp

n == Load("n")
Again == Call("f", <<Op("-", n, Con(1))>>)
Positive == Rel(">", n, Con(0))
\* f(n) has the local variable x; at 0 it returns 1.
Body(stmts, e) == FuncDef("f", <<"n">>, <<If(Not(Positive), Block(<<Ret(Con(1))>>))>> \o stmts, e)

Bodies == {
  Body(<<Decl("x"), Store("x", Again)>>, Op("+", Load("x"), n)),
  Body(<<Store("x", Again), Store("y", Op("*", Load("x"), Con(2)))>>, Load("y")),
  Body(<<>>, Op("+", Again, n)),
  Body(<<>>, Ternary(Rel("==", Again, Con(1)), n, Op("*", Again, Con(2)))),
  Body(<<For(Store("i", Con(0)), Rel("<", Load("i"), n), OpAssign("i", "+", Con(1)),
             Block(<<If(Rel("==", Again, n), Block(<<Ret(Load("i"))>>))>>))>>, Con(7)),
  Body(<<While(Positive, Block(<<Store("n", Op("-", n, Con(1))), Decl("x"), Store("x", Again),
                                 If(Rel(">", Load("x"), Con(1)), Ret(Load("x")))>>))>>, Con(3)),
  Body(<<Switch(Again, <<Case(<<Again, Con(3)>>, Block(<<Store("x", Again), Ret(Load("x"))>>)),
                         Case(<<n>>, Block(<<Ret(Con(4))>>)),
                         Default(Block(<<Store("x", Con(5))>>))>>)>>, Con(6)),
  Body(<<Call("print", <<n, Again, n>>)>>, Call("missing", <<n>>)),
  Body(<<IfElse(Rel(">", n, Con(1)), Block(<<Store("x", Again)>>), Block(<<Store("x", n)>>)),
         Block(<<Decl("n"), Store("n", Con(9))>>)>>, Load("n")),
  FuncDef("f", <<"n">>, <<Decl("x")>>, Call("f", <<n>>)),
  FuncDef("f", <<"n", "m">>, <<Store("x", Op("+", n, Load("m")))>>, Load("x"))}
ExposedBodies == {
  Body(<<>>, Op("+", n, Again)),
  Body(<<Decl("x"), Store("x", n), OpAssign("x", "+", Again)>>, Load("x")),
  Body(<<>>, And(Again, Rel(">", n, Con(5))))}

AllScores  == {<<b>> : b \in Bodies \cup ExposedBodies}

F(args) == Call("f", args)
Uses == {
  Store("y", F(<<Con(2)>>)),
  Store("y", F(<<>>)),
  Store("y", F(<<Con(1), Con(2)>>)),
  Store("y", F(<<Load("f")>>)),
  Call("print", <<F(<<Con(1)>>), Load("y"), Rel(">", Load("f"), Con(1))>>),
  If(F(<<Con(1)>>), Block(<<Store("x", F(<<Con(2)>>)), Decl("z")>>)),
  Block(<<Decl("x"), Store("x", F(<<Con(1)>>)), If(Load("x"), Store("w", Load("x")))>>),
  Seqn(<<Decl("x"), Store("x", Load("undefined"))>>),
  FuncDef("f", <<>>, <<>>, Con(0)),
  Seqn(<<Store("f", Con(1)), Store("y", Con(1))>>),
  Call("print", <<F(<<Con(1)>>), Load("y"), Con(1), F(<<Con(2)>>)>>)}
=============================================================================
