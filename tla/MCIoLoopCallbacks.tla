------------------------- MODULE MCIoLoopCallbacks -------------------------
(* Instances of IoLoopCallbacks for TLC.                                   *)
EXTENDS IoLoopCallbacks
=============================================================================
