--------------------------- MODULE MCSubmitCooldown ---------------------------
(* Two requests of one user may be in flight at a time. *)
EXTENDS SubmitCooldown, TLC

CONSTANTS r1, r2, u1

MCUserOf == r1 :> u1 @@ r2 :> u1

==============================================================================
