----------------------------- MODULE MCEventHub -----------------------------
(* Small instances of EventHub for TLC: every bound is in the .cfg file.    *)
EXTENDS EventHub

CONSTANTS c1
=============================================================================
