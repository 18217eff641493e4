------------------------- MODULE MCIoLoopHandlers -------------------------
(* Instances of IoLoopHandlers for TLC.                                    *)
EXTENDS IoLoopHandlers
=============================================================================
