--------------------------- MODULE SubmitCooldown ----------------------------
(***************************************************************************)
(* The submission cooldown of the API.  MakeSubmission first runs          *)
(* CanUserSubmit, a transaction that compares the server's time with the   *)
(* user's last_submission_ms and overwrites it, and then hands the         *)
(* sources to the CMS in another transaction.  Requests run concurrently   *)
(* at READ COMMITTED: a plain SELECT does not wait for a writer, an UPDATE *)
(* waits until the previous writer of the row has committed or rolled back.*)
(*                                                                         *)
(* Time is in ticks, TicksPerMs to the millisecond: the clock is finer     *)
(* than the stored column.                                                 *)
(***************************************************************************)
EXTENDS Integers

CONSTANTS
  Request,      \* request slots, each serving one request after another
  User,         \* registered users
  UserOf,       \* the user whose requests a slot serves
  Cooldown,     \* SubmissionCooldown, in milliseconds
  TicksPerMs,   \* resolution of the clock
  MaxTime,      \* bound: the largest time
  Debug,        \* is the time-mocking API enabled?
  None          \* no request

ASSUME UserOfAssumption == UserOf \in [Request -> User]
ASSUME TimeAssumption ==
  /\ Cooldown \in Nat
  /\ TicksPerMs \in Nat \ {0}
  /\ MaxTime \in Nat
ASSUME DebugAssumption == Debug \in BOOLEAN
ASSUME NoneAssumption == None \notin Request

VARIABLES
  time,       \* what Server.GetTime returns
  last,       \* oia_user.last_submission_ms, committed
  lock,       \* the request holding the lock on a user's row, or None
  pc,         \* control state of a request
  now,        \* the time a request has read
  seen,       \* last_submission, as the check of a request has read it
  \* history
  made,       \* the user's submissions: which request, at which time read
  raced       \* users with two requests past the check before the first commit

vars == <<time, last, lock, pc, now, seen, made, raced>>

State == {"idle", "read", "charge", "commit", "submit"}

TypeOK ==
  /\ time \in 0 .. MaxTime
  /\ last \in [User -> Nat]
  /\ lock \in [User -> Request \cup {None}]
  /\ \A u \in User : lock[u] # None => UserOf[lock[u]] = u /\ pc[lock[u]] = "commit"
  /\ pc \in [Request -> State]
  /\ now \in [Request -> 0 .. MaxTime]
  /\ seen \in [Request -> Nat]
  /\ made \in [User -> SUBSET (Request \X (0 .. MaxTime))]
  /\ raced \subseteq User

Init ==
  /\ time \in 0 .. MaxTime
  /\ last = [u \in User |-> 0]
  /\ lock = [u \in User |-> None]
  /\ pc = [r \in Request |-> "idle"]
  /\ now = [r \in Request |-> 0]
  /\ seen = [r \in Request |-> 0]
  /\ made = [u \in User |-> {}]
  /\ raced = {}

Goto(r, s) == pc' = [pc EXCEPT ![r] = s]

(* The transaction begins and the time is read. *)
Begin(r) ==
  /\ pc[r] = "idle"
  /\ now' = [now EXCEPT ![r] = time]
  /\ Goto(r, "read")
  /\ UNCHANGED <<time, last, lock, seen, made, raced>>

(* Mutants of TooEarly: whole milliseconds, off by one; and a time before  *)
(* the last submission taken for one after it.                             *)
TooEarlyByMs(r) == last[UserOf[r]] + Cooldown > now[r] \div TicksPerMs + 1

TooEarlyElapsed(r) ==
  LET elapsed == now[r] - last[UserOf[r]] * TicksPerMs
  IN  elapsed \in -Cooldown * TicksPerMs + 1 .. Cooldown * TicksPerMs - 1

(* last_submission.Add(cooldown).After(now): the end of the cooldown itself*)
(* is no longer too early.                                                 *)
TooEarly(r) == (last[UserOf[r]] + Cooldown) * TicksPerMs > now[r]

(* A request between its check and its commit is past it. *)
Passed(r) == pc[r] \in {"charge", "commit"}

(* SELECT last_submission_ms, and the early return with status 429. *)
Refuse(r) ==
  /\ pc[r] = "read"
  /\ TooEarly(r)
  /\ Goto(r, "idle")
  /\ UNCHANGED <<time, last, lock, now, seen, made, raced>>

Pass(r) ==
  /\ pc[r] = "read"
  /\ ~TooEarly(r)
  /\ seen' = [seen EXCEPT ![r] = last[UserOf[r]]]
  /\ Goto(r, "charge")
  /\ raced' = IF \E q \in Request : UserOf[q] = UserOf[r] /\ Passed(q)
              THEN raced \cup {UserOf[r]} ELSE raced
  /\ UNCHANGED <<time, last, lock, now, made>>

(* UPDATE: waits for the lock on the user's row. *)
Charge(r) ==
  /\ pc[r] = "charge"
  /\ lock[UserOf[r]] = None
  /\ lock' = [lock EXCEPT ![UserOf[r]] = r]
  /\ Goto(r, "commit")
  /\ UNCHANGED <<time, last, now, seen, made, raced>>

(* A statement fails.  The UPDATE's error is dropped, but the transaction  *)
(* is aborted and the deferred Close turns its failed commit into the      *)
(* request's error.                                                        *)
StatementFails(r) ==
  /\ pc[r] \in {"read", "charge"}
  /\ Goto(r, "idle")
  /\ UNCHANGED <<time, last, lock, now, seen, made, raced>>

(* Mutant of Unlock: the transaction is never closed. *)
UnlockForgotten(r) == UNCHANGED lock

(* The deferred Close ends the transaction, and with it the lock. *)
Unlock(r) == lock' = [lock EXCEPT ![UserOf[r]] = None]

(* Mutant of Record: a millisecond early. *)
RecordRoundedDown(r) ==
  last' = [last EXCEPT ![UserOf[r]] = (now[r] \div TicksPerMs) - 1]

(* UnixMilli truncates. *)
Record(r) == last' = [last EXCEPT ![UserOf[r]] = now[r] \div TicksPerMs]

Commit(r) ==
  /\ pc[r] = "commit"
  /\ Record(r)
  /\ Unlock(r)
  /\ Goto(r, "submit")
  /\ UNCHANGED <<time, now, seen, made, raced>>

(* The commit fails, with or without effect: the request is refused. *)
CommitFails(r) ==
  /\ pc[r] = "commit"
  /\ Record(r) \/ UNCHANGED last
  /\ Unlock(r)
  /\ Goto(r, "idle")
  /\ UNCHANGED <<time, now, seen, made, raced>>

(* Bridge.MakeSubmission stores the submission in the CMS, whether or not  *)
(* the caller learns of it.                                                *)
Submit(r) ==
  /\ pc[r] = "submit"
  /\ made' = [made EXCEPT ![UserOf[r]] = @ \cup {<<r, now[r]>>}]
  /\ Goto(r, "idle")
  /\ UNCHANGED <<time, last, lock, now, seen, raced>>

(* It fails: the cooldown has been charged for nothing. *)
SubmitFails(r) ==
  /\ pc[r] = "submit"
  /\ Goto(r, "idle")
  /\ UNCHANGED <<time, last, lock, now, seen, made, raced>>

(* The process ends with requests in flight: open transactions roll back. *)
Crash ==
  /\ pc' = [r \in Request |-> "idle"]
  /\ lock' = [u \in User |-> None]
  /\ UNCHANGED <<time, last, now, seen, made, raced>>

Tick ==
  /\ time < MaxTime
  /\ time' = time + 1
  /\ UNCHANGED <<last, lock, pc, now, seen, made, raced>>

(* /mock/time/set and /mock/time/unset: the time jumps, also back. *)
MockTime ==
  /\ Debug
  /\ time' \in 0 .. MaxTime
  /\ UNCHANGED <<last, lock, pc, now, seen, made, raced>>

Step(r) ==
  \/ Begin(r) \/ Refuse(r) \/ Pass(r)
  \/ Charge(r) \/ StatementFails(r)
  \/ Commit(r) \/ CommitFails(r)
  \/ Submit(r) \/ SubmitFails(r)

Next == (\E r \in Request : Step(r)) \/ Crash \/ Tick \/ MockTime

Spec == Init /\ [][Next]_vars

------------------------------------------------------------------------------
(* Two times lie within the cooldown of each other, not counting the       *)
(* fraction of a millisecond that last_submission_ms drops.                *)
Within(m, n) == n \in m - (Cooldown - 1) * TicksPerMs .. m + (Cooldown - 1) * TicksPerMs

CooldownOf(u) ==
  \A m, n \in made[u] : m # n => ~Within(m[2], n[2])

(* The cooldown as the tests know it (scripts/src/oia/tests.py:110-118):   *)
(* of two submissions of a user within the cooldown, one is refused.       *)
CooldownKept == \A u \in User : CooldownOf(u)

(* It is kept, whatever fails and however the mocked time jumps, as long as*)
(* no request of the user passes the check of api.go:53 while another that *)
(* passed it has not committed: the check and the update do not exclude    *)
(* each other.                                                             *)
CooldownKeptUnlessRaced == \A u \in User \ raced : CooldownOf(u)

(* Why it is kept, as an inductive invariant: of the user's requests past  *)
(* the check there is one at most, its time lies behind the cooldown; and  *)
(* what reached the CMS, or still may, was charged and lies apart.         *)
Recorded(u) ==
  made[u] \cup {m \in Request \X (0 .. MaxTime) :
                  UserOf[m[1]] = u /\ pc[m[1]] = "submit" /\ now[m[1]] = m[2]}

ChargeOf(u) ==
  /\ \A q, r \in Request :
       (UserOf[q] = u /\ UserOf[r] = u /\ Passed(q) /\ Passed(r)) => q = r
  /\ \A r \in Request : (UserOf[r] = u /\ Passed(r)) => ~TooEarly(r)
  /\ \A m \in Recorded(u) : m[2] < (last[u] + 1) * TicksPerMs
  /\ \A m, n \in Recorded(u) : m # n => ~Within(m[2], n[2])

ChargeInv == \A u \in User \ raced : ChargeOf(u)

(* What reaches the CMS has been charged before, and durably: no crash,    *)
(* failed commit or failed request leaves a submission that the next check *)
(* does not see.  Users whose requests have raced are left out: there the  *)
(* last commit may put an earlier charge over a later one.                 *)
SubmissionIsCharged ==
  \A u \in User \ raced : \A m \in made[u] : m[2] < (last[u] + 1) * TicksPerMs

(* The UPDATE of store.go:117 overwrites whatever another request has      *)
(* written since the check, so the end of a user's cooldown can move back. *)
(* It does so in no other way, neither for refused requests nor when the   *)
(* mocked time jumps: only the commit of a request that raced moves it     *)
(* back, one whose check read less than what it overwrites; and never to   *)
(* less than a cooldown after what that check read.                        *)
ChargeMovesBackOnlyByStaleCheck ==
  [][\A u \in User : last'[u] < last[u] =>
       \E r \in Request :
         /\ UserOf[r] = u /\ u \in raced
         /\ pc[r] = "commit" /\ pc'[r] # "commit"
         /\ seen[r] < last[u]
         /\ last'[u] >= seen[r] + Cooldown]_vars

(* Why, as an inductive invariant: a request past the check lies a cooldown*)
(* after what its check read, which nobody has overwritten unless the user *)
(* has raced.                                                              *)
SeenInv ==
  \A r \in Request : Passed(r) =>
    /\ (seen[r] + Cooldown) * TicksPerMs <= now[r]
    /\ UserOf[r] \in raced \/ seen[r] = last[UserOf[r]]

==============================================================================
