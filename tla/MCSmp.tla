------------------------------- MODULE MCSmp --------------------------------
(* Instances of Smp for TLC: a BSP that is not CPU 0, and waits short      *)
(* enough for several to time out while APs are still on their way.        *)
EXTENDS Smp

NoneMissed == {}
FirstMissed == {1}
BothMissed == {1, 2}
=============================================================================
