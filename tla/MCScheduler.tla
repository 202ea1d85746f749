---------------------------- MODULE MCScheduler ----------------------------
(* Scheduler with two notes on two channels and one aux bus.               *)
EXTENDS Scheduler, TLC

CONSTANTS i1, i2

TwoInsts == {i1, i2}
Aux  == <<"TO_AUX", 0>>
Left == <<"TO_OUT", 0>>
Right == <<"TO_OUT", 1>>
ThreeQueues == <<Aux, Left, Right>>
StereoSlots == {{Aux}, {Left}, {Left, Right}}
TwoQueues == <<Left, Right>>
TwoSlots == {{Left}, {Left, Right}}

InstSymmetry == Permutations(TwoInsts)
=============================================================================
