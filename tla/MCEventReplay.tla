---------------------------- MODULE MCEventReplay ----------------------------
(* A small instance of EventReplay.                                        *)
EXTENDS EventReplay
=============================================================================
