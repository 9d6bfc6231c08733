---------------------------- MODULE MCEventBridge ----------------------------
(* Small instances of the event bridge. *)
EXTENDS EventBridge

AllFaults == FaultKind

==============================================================================
