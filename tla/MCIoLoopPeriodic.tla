------------------------- MODULE MCIoLoopPeriodic -------------------------
(* Instances of IoLoopPeriodic for TLC.                                    *)
EXTENDS IoLoopPeriodic

\* The second timeout varies, among others that are alike.
OneVaries == [h \in 0..(MaxHandles - 1) |-> IF h = 1 THEN {0, 2} ELSE {2}]

AllVary == [h \in 0..(MaxHandles - 1) |-> {0, 1}]
=============================================================================
