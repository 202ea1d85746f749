---------------------------- MODULE MCInputFiles ----------------------------
(* InputFiles with three instruments and a table of two slots.             *)
EXTENDS InputFiles, TLC

CONSTANTS i1, i2, i3, stereo, mono, nine, missing

ThreeInsts == {i1, i2, i3}
FiveNames  == {AUDIO, stereo, mono, nine, missing}
Channels   == (AUDIO :> 2) @@ (stereo :> 2) @@ (mono :> 1) @@ (nine :> 9)
              @@ (missing :> 0)
AllHosts   == {h \in HostType : h.dispatch => h.stops}
InstSymmetry == Permutations(ThreeInsts)
=============================================================================
