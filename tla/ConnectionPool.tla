---------------------------- MODULE ConnectionPool -----------------------------
(***************************************************************************)
(* The DBClient of the bridge to the CMS: a pool of Size connections that  *)
(* transactions share.  (The judge's own DBClient has no listener.)  The   *)
(* clients are API requests, whose context ends when the client hangs up;  *)
(* the workers are the goroutines that handle events, whose context never  *)
(* ends.  Each runs one transaction after another and holds a connection   *)
(* from Tx to Close; the listener holds one for as long as it listens.     *)
(*                                                                         *)
(* Close returns before it releases when its COMMIT or ROLLBACK fails      *)
(* (store.go:78-80), so every such failure costs the pool a connection.    *)
(***************************************************************************)
EXTENDS Naturals, FiniteSets

CONSTANTS
  Client,     \* slots of the HTTP server, each serving one request after another
  Worker,     \* the scanner, the consumer and its handler
  Size,       \* connections of the pool
  MaxFaults   \* bound: faults in one behaviour

User == Client \cup Worker

ASSUME PoolAssumption ==
  /\ IsFiniteSet(User)
  /\ Client \cap Worker = {}
  /\ Size \in Nat \ {0}
  /\ MaxFaults \in Nat

VARIABLES
  pc,         \* where a user is in its transaction
  gone,       \* clients whose request has been cancelled
  free,       \* connections to be had
  listener,   \* the session of ListenOn
  \* history
  lost,       \* connections that Close or ListenOn did not release
  faults      \* faults so far

vars == <<pc, gone, free, listener, lost, faults>>

(* "failed": a call returned an error that the function passes on to Close. *)
(* "aborted": a statement failed and the function has dropped its error.    *)
State == {"idle", "acquire", "begin", "open", "failed", "aborted"}

TypeOK ==
  /\ pc \in [User -> State]
  /\ gone \subseteq Client
  /\ free \in 0 .. Size
  /\ listener \in {"starting", "listening", "ended"}
  /\ lost \in 0 .. Size
  /\ faults \in 0 .. MaxFaults

Init ==
  /\ pc = [u \in User |-> "idle"]
  /\ gone = {}
  /\ free = Size
  /\ listener = "starting"
  /\ lost = 0
  /\ faults = 0

Goto(u, s) == pc' = [pc EXCEPT ![u] = s]

Fault ==
  /\ faults < MaxFaults
  /\ faults' = faults + 1

------------------------------------------------------------------------------
(* A request arrives, or a goroutine of the event path gets to its next    *)
(* transaction.  RunServer starts both after ListenOn has returned.        *)
Ask(u) ==
  /\ pc[u] = "idle"
  /\ listener # "starting"
  /\ Goto(u, "acquire")
  /\ gone' = gone \ {u}
  /\ UNCHANGED <<free, listener, lost, faults>>

(* The pool serves those who wait in turn; a context may end just after.   *)
Acquire(u) ==
  /\ pc[u] = "acquire"
  /\ free > 0
  /\ free' = free - 1
  /\ Goto(u, "begin")
  /\ UNCHANGED <<gone, listener, lost, faults>>

(* Tx returns neither a transaction nor an error; the handler panics on    *)
(* the nil and net/http recovers.                                          *)
GiveUp(u) ==
  /\ pc[u] = "acquire"
  /\ u \in gone
  /\ Goto(u, "idle")
  /\ UNCHANGED <<gone, free, listener, lost, faults>>

(* Mutant of Begin: it goes on without asking the context. *)
BeginAnyContext(u) ==
  /\ pc[u] = "begin"
  /\ Goto(u, "open")
  /\ UNCHANGED <<gone, free, listener, lost, faults>>

Begin(u) ==
  /\ pc[u] = "begin"
  /\ u \notin gone
  /\ Goto(u, "open")
  /\ UNCHANGED <<gone, free, listener, lost, faults>>

Release == free' = free + 1

(* Mutant of BeginFails: the connection is kept. *)
BeginFailsKeeps(u) ==
  /\ pc[u] = "begin"
  /\ \/ u \in gone /\ UNCHANGED faults
     \/ Fault
  /\ Goto(u, "idle")
  /\ UNCHANGED <<gone, free, listener, lost>>

(* The context has ended, or the session turns out to be broken. *)
BeginFails(u) ==
  /\ pc[u] = "begin"
  /\ \/ u \in gone /\ UNCHANGED faults
     \/ Fault
  /\ Release
  /\ Goto(u, "idle")
  /\ UNCHANGED <<gone, listener, lost>>

(* A statement fails and its error is returned; or the function returns an *)
(* error of its own, as when a submission comes too early.                 *)
Fails(u) ==
  /\ pc[u] = "open"
  /\ Goto(u, "failed")
  /\ UNCHANGED <<gone, free, listener, lost, faults>>

(* A statement fails and its error is dropped, as by attachment.go:22-30,  *)
(* which does not ask for rows.Err (and in the judge's pool by api.go:62). *)
FailsUnseen(u) ==
  /\ pc[u] = "open"
  /\ Fault
  /\ Goto(u, "aborted")
  /\ UNCHANGED <<gone, free, listener, lost>>

------------------------------------------------------------------------------
(* What follows a Close: the user's next transaction or the end.  It goes  *)
(* on even after a failed Close: WithUserAuth and handleSubmission lose    *)
(* that error.                                                             *)
Ends(u) == \E s \in {"acquire", "idle"} : Goto(u, s)

(* Mutant of Close: a rollback does not release. *)
CloseKeepsRolledBack(u) ==
  /\ pc[u] \in {"open", "failed"}
  /\ u \notin gone
  /\ free' = IF pc[u] = "open" THEN free + 1 ELSE free
  /\ Ends(u)
  /\ UNCHANGED <<gone, listener, lost, faults>>

(* COMMIT of an open transaction, ROLLBACK of a failed one. *)
Close(u) ==
  /\ pc[u] \in {"open", "failed"}
  /\ u \notin gone
  /\ Release
  /\ Ends(u)
  /\ UNCHANGED <<gone, listener, lost, faults>>

(* The context has ended, the session is broken, or the server answers     *)
(* COMMIT with ROLLBACK.                                                   *)
CloseFails(u) ==
  /\ \/ /\ pc[u] \in {"open", "failed"}
        /\ \/ u \in gone /\ UNCHANGED faults
           \/ Fault
     \/ pc[u] = "aborted" /\ UNCHANGED faults
  /\ lost' = lost + 1
  /\ Ends(u)
  /\ UNCHANGED <<gone, free, listener>>

------------------------------------------------------------------------------
(* The client of a request goes away. *)
HangUp(c) ==
  /\ pc[c] # "idle"
  /\ c \notin gone
  /\ Fault
  /\ gone' = gone \cup {c}
  /\ UNCHANGED <<pc, free, listener, lost>>

Listen ==
  /\ listener = "starting"
  /\ free' = free - 1
  /\ listener' = "listening"
  /\ UNCHANGED <<pc, gone, lost, faults>>

(* LISTEN fails: ListenOn returns without a Release. *)
ListenFails ==
  /\ listener = "starting"
  /\ Fault
  /\ free' = free - 1
  /\ lost' = lost + 1
  /\ listener' = "ended"
  /\ UNCHANGED <<pc, gone>>

(* Mutant of ListenerEnds: the error does not end the loop. *)
ListenerEndsTwice ==
  /\ listener = "listening"
  /\ Fault
  /\ Release
  /\ UNCHANGED <<pc, gone, listener, lost>>

(* WaitForNotification fails. *)
ListenerEnds ==
  /\ listener = "listening"
  /\ Fault
  /\ Release
  /\ listener' = "ended"
  /\ UNCHANGED <<pc, gone, lost>>

(* The pool cannot connect, so Tx returns a nil transaction: a request is  *)
(* recovered, a panic of a goroutine ends the process.                     *)
ConnectFails(c) ==
  /\ pc[c] = "acquire"
  /\ Fault
  /\ Goto(c, "idle")
  /\ UNCHANGED <<gone, free, listener, lost>>

Crash ==
  /\ Fault
  /\ pc' = [u \in User |-> "idle"]
  /\ gone' = {}
  /\ free' = Size
  /\ listener' = "starting"
  /\ lost' = 0

Listening == IF listener = "listening" THEN 1 ELSE 0

(* Everybody waits for a pool that has nothing left to give. *)
Starved ==
  /\ lost + Listening = Size
  /\ \A u \in User : pc[u] = "acquire"
  /\ UNCHANGED vars

------------------------------------------------------------------------------
Step(u) ==
  \/ GiveUp(u) \/ Begin(u) \/ BeginFails(u) \/ Fails(u) \/ FailsUnseen(u)
  \/ Close(u) \/ CloseFails(u)

Next ==
  \/ \E u \in User : Ask(u) \/ Acquire(u) \/ Step(u)
  \/ \E c \in Client : HangUp(c) \/ ConnectFails(c)
  \/ Listen \/ ListenFails \/ ListenerEnds
  \/ Crash
  \/ Starved

(* A transaction runs to its end; the pool serves those who wait in turn.  *)
Fairness ==
  /\ \A u \in User : WF_vars(Step(u)) /\ SF_vars(Acquire(u))
  /\ WF_vars(Listen)

Spec == Init /\ [][Next]_vars /\ Fairness

------------------------------------------------------------------------------
Holders == {u \in User : pc[u] \in {"begin", "open", "failed", "aborted"}}

(* Every connection is free, held by one transaction or the listener, or   *)
(* lost to a Close or a ListenOn that failed (store.go:35-38, 60, 78-81).  *)
Accounted == free + Cardinality(Holders) + Listening + lost = Size

(* A fault costs at most one connection: a request that was hung up on,    *)
(* though it goes on with further transactions after a Close that failed,  *)
(* gets no other connection to lose.                                       *)
FaultCostsOne == lost <= faults

(* Whoever waits for a connection gets one or gives up, unless every       *)
(* connection that the listener does not hold has been lost.               *)
Served ==
  \A u \in User :
    (pc[u] = "acquire") ~> (pc[u] # "acquire" \/ lost + Listening = Size)

------------------------------------------------------------------------------
(* Why a fault costs no more than one: the transactions whose Close cannot *)
(* succeed have each had a fault of their own that cost nothing so far;    *)
(* and ListenOn has the pool to itself.                                    *)
Doomed ==
  {u \in User : pc[u] = "aborted" \/ (u \in gone /\ pc[u] \in {"open", "failed"})}

DoomedInv == lost + Cardinality(Doomed) <= faults

StartInv == listener = "starting" => free = Size /\ \A u \in User : pc[u] = "idle"

IInv == TypeOK /\ Accounted /\ DoomedInv /\ StartInv

==============================================================================
