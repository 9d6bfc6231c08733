---------------------------- MODULE EventDelivery ----------------------------
(***************************************************************************)
(* What the event bridge promises to the rest of the judge: at-most-once   *)
(* delivery.  An event that the CMS publishes is claimed once, together    *)
(* with everything else that is queued at that moment; a claimed event is  *)
(* handled or forgotten; and an event that left the queue never returns to *)
(* it.  Nothing here says that a claimed event is handled: a scan may      *)
(* claim an event without taking it into custody, and custody ends with a  *)
(* crash or after the last failed attempt.                                 *)
(***************************************************************************)
EXTENDS Naturals

VARIABLES
  published,   \* events the CMS has published so far: 1 .. published
  queued,      \* published and not yet claimed
  custody,     \* claimed, on the way to the handler or being handled
  handled      \* the handler returned without an error

vars == <<published, queued, custody, handled>>

TypeOK ==
  /\ published \in Nat
  /\ queued \subseteq 1 .. published
  /\ custody \subseteq 1 .. published
  /\ handled \subseteq 1 .. published

Init ==
  /\ published = 0
  /\ queued = {}
  /\ custody = {}
  /\ handled = {}

(* The CMS commits a transaction: its triggers insert new event rows. *)
Publish ==
  /\ published' \in Nat
  /\ published' > published
  /\ queued' = queued \cup (published + 1 .. published')
  /\ UNCHANGED <<custody, handled>>

(* The queue is emptied; only the events of S are kept for handling. *)
Claim(S) ==
  /\ S \subseteq queued
  /\ queued' = {}
  /\ custody' = custody \cup S
  /\ UNCHANGED <<published, handled>>

Handle(e) ==
  /\ e \in custody
  /\ custody' = custody \ {e}
  /\ handled' = handled \cup {e}
  /\ UNCHANGED <<published, queued>>

Forget(S) ==
  /\ S \subseteq custody
  /\ custody' = custody \ S
  /\ UNCHANGED <<published, queued, handled>>

Next ==
  \/ Publish
  \/ \E S \in SUBSET queued : Claim(S)
  \/ \E e \in custody : Handle(e)
  \/ \E S \in SUBSET custody : Forget(S)

Spec == Init /\ [][Next]_vars

(* At-most-once: an event is waiting, or in custody, or done; never two of *)
(* these, so an event that was handled is never handed out again.          *)
AtMostOnce ==
  /\ queued \cap custody = {}
  /\ queued \cap handled = {}
  /\ custody \cap handled = {}

==============================================================================
