----------------------------- MODULE MCBusGraph -----------------------------
(* BusGraph with aux buses 0 .. 3 and one output.                          *)
EXTENDS BusGraph, TLC

CONSTANTS A, B

Slot(auxin, auxout, out) == [auxin |-> auxin, auxout |-> auxout, out |-> out]
AuxToAux(a, b) == Slot(<<a>>, <<b>>, <<>>)

\* Three buses connected in every way, sources and outputs, instruments with two
\* buses on a side (two ways of one length from bus 0 to bus 3), and one with both
\* kinds of outputs.
GraphSlots == {AuxToAux(a, b) : a, b \in 0 .. 2} \cup
  {Slot(<<>>, <<0>>, <<>>), Slot(<<0>>, <<1, 2>>, <<>>), Slot(<<1, 2>>, <<3>>, <<>>),
   Slot(<<0, 1>>, <<2, 3>>, <<>>), Slot(<<3>>, <<>>, <<0>>), Slot(<<>>, <<1>>, <<1>>)}
\* One instrument in one chain, configured again and again.
ChainSlots == {AuxToAux(0, 1)}
\* Sources and outputs, no chain.
FlatSlots == {Slot(<<>>, <<b>>, <<>>) : b \in 0 .. 1}
             \cup {Slot(<<>>, <<0, 2>>, <<>>)}
             \cup {Slot(<<0>>, <<>>, <<c>>) : c \in 0 .. 1}

\* A score that is parsed before it is played, and a session.
ScoreAndSession == FALSE :> GraphSlots @@ TRUE :> FlatSlots
ThreeOrTwoCalls == FALSE :> 3 @@ TRUE :> 2
ChainScore == FALSE :> ChainSlots
EightCalls == FALSE :> 8
=============================================================================
