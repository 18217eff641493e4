------------------------- MODULE MCIoLoopTimeouts -------------------------
(* Instances of IoLoopTimeouts for TLC.                                    *)
EXTENDS IoLoopTimeouts
=============================================================================
