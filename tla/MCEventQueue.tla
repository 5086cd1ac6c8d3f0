---------------------------- MODULE MCEventQueue ----------------------------
(* Three events, times up to 4, callbacks that set or unset two events.     *)
EXTENDS EventQueue
=============================================================================
