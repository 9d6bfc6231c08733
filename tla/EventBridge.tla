----------------------------- MODULE EventBridge -----------------------------
(***************************************************************************)
(* The event bridge of pkg/cmsbridge.  Triggers on the CMS tables insert a *)
(* row into event_queue inside the transaction that changed the CMS        *)
(* object, and NOTIFY the listening session when it commits.  Inside the   *)
(* judge process three goroutines turn those rows into handler calls:      *)
(*                                                                         *)
(*   listener  waits for notifications        (store.DBClient.ListenOn)    *)
(*   scanner   reads and marks the unseen rows, then sends them one by one *)
(*             on an unbuffered channel       (GetNotificationChannel)     *)
(*   consumer  calls the handler, with retries, and deletes the row        *)
(*             (CmsBridge.HandleEvents)                                    *)
(*                                                                         *)
(* Row ids are numbered in commit order.  A SERIAL column need not be, but *)
(* no query of the code orders or compares ids, so nothing depends on it.  *)
(***************************************************************************)
EXTENDS Integers, Sequences, FiniteSets

CONSTANTS
  Task,          \* CMS task ids
  Submission,    \* CMS submission ids
  Retries,       \* handler attempts per event (the code's 10)
  MaxRows,       \* bound: rows ever inserted into event_queue
  MaxCommit,     \* bound: rows inserted by one CMS transaction
  Faults         \* the kinds of fault that may happen, a subset of FaultKind

FaultKind == {"crash", "listen", "scan", "handler", "delete"}

Object == Task \cup Submission

ASSUME ObjectAssumption == Task \cap Submission = {}
ASSUME BoundAssumption ==
  /\ Retries \in Nat \ {0}
  /\ MaxRows \in Nat
  /\ MaxCommit \in Nat \ {0}
ASSUME FaultAssumption == Faults \subseteq FaultKind

VARIABLES
  \* durable: the table event_queue
  log,         \* log[i] is the (object_type, foreign_id) of row i
  unseen,      \* rows with seen = false
  seen,        \* rows with seen = true, not deleted yet
  \* the judge process: lost in a crash
  up,          \* is the process running?
  listening,   \* does the listener's session still receive notifications?
  notifs,      \* notifications received and not yet taken by the scanner
  scan,        \* control state of the scanner
  batch,       \* rows the scanner has read and not yet sent
  consumer,    \* control state of the consumer
  cur,         \* the row being handled, 0 if none
  tries,       \* failed attempts on cur
  \* history
  stranded,    \* the last scan failed: the rows it left have no wake-up
  handled      \* rows whose handler call returned nil

table == <<log, unseen, seen>>
scanner == <<scan, batch>>
handling == <<consumer, cur, tries>>
process == <<up, listening, notifs, scanner, handling>>
vars == <<table, process, stranded, handled>>

ScanState == {"off", "select", "mark", "push", "error", "wait"}
ConsumerState == {"off", "recv", "handle", "delete"}

TypeOK ==
  /\ log \in Seq(Object)
  /\ unseen \subseteq DOMAIN log
  /\ seen \subseteq DOMAIN log
  /\ up \in BOOLEAN
  /\ listening \in BOOLEAN
  /\ notifs \in Nat
  /\ scan \in ScanState
  /\ batch \subseteq DOMAIN log
  /\ consumer \in ConsumerState
  /\ cur \in IF consumer \in {"handle", "delete"} THEN DOMAIN log ELSE {0}
  /\ tries \in 0 .. Retries - 1
  /\ stranded \in BOOLEAN
  /\ handled \subseteq DOMAIN log

Down ==
  /\ up = FALSE
  /\ listening = FALSE
  /\ notifs = 0
  /\ scan = "off"
  /\ batch = {}
  /\ consumer = "off"
  /\ cur = 0
  /\ tries = 0

(* Without a process there is nothing in memory. *)
Halted == ~up => Down

Init ==
  /\ log = <<>>
  /\ unseen = {}
  /\ seen = {}
  /\ Down
  /\ stranded = FALSE
  /\ handled = {}

------------------------------------------------------------------------------
(* Mutant of CmsCommit: the listener drops a notification that finds the   *)
(* scanner busy, instead of waiting to hand it over.                       *)
CmsCommitDropsNotify(objs) ==
  /\ Len(log) + Len(objs) <= MaxRows
  /\ log' = log \o objs
  /\ unseen' = unseen \cup (Len(log) + 1 .. Len(log) + Len(objs))
  /\ notifs' = IF listening /\ scan = "wait" THEN notifs + 1 ELSE notifs
  /\ UNCHANGED <<seen, up, listening, scanner, handling, stranded, handled>>

(* A CMS transaction that inserts or updates tasks, submissions or         *)
(* submission results commits: one event row per changed row, and a single *)
(* notification, since equal NOTIFYs of a transaction are merged.          *)
CmsCommit(objs) ==
  /\ Len(log) + Len(objs) <= MaxRows
  /\ log' = log \o objs
  /\ unseen' = unseen \cup (Len(log) + 1 .. Len(log) + Len(objs))
  /\ notifs' = IF listening THEN notifs + 1 ELSE notifs
  /\ UNCHANGED <<seen, up, listening, scanner, handling, stranded, handled>>

------------------------------------------------------------------------------
(* RunServer starts the goroutines: LISTEN is executed before the first    *)
(* scan, which picks up what was inserted while no process was running.    *)
Start ==
  /\ ~up
  /\ up' = TRUE
  /\ listening' = TRUE
  /\ scan' = "select"
  /\ consumer' = "recv"
  /\ stranded' = FALSE
  /\ UNCHANGED <<table, notifs, batch, cur, tries, handled>>

(* ListenOn fails: HandleEvents returns an error, which RunServer ignores, *)
(* and the server runs on without the bridge.                              *)
StartDeaf ==
  /\ "listen" \in Faults
  /\ ~up
  /\ up' = TRUE
  /\ UNCHANGED <<table, listening, notifs, scanner, handling, stranded, handled>>

(* WaitForNotification fails.  The listener drops its connection and ends; *)
(* notifications already buffered may still have been passed on, and the   *)
(* channel is never closed.                                                *)
ListenerFails ==
  /\ "listen" \in Faults
  /\ listening
  /\ listening' = FALSE
  /\ \E n \in 0 .. notifs : notifs' = n
  /\ UNCHANGED <<table, up, scanner, handling, stranded, handled>>

(* The process ends: killed, or by a panic of one of the goroutines, such  *)
(* as the nil transaction that Tx returns when the pool gives no           *)
(* connection.  An open transaction is rolled back by the database.        *)
ProcessEnds ==
  /\ up
  /\ up' = FALSE
  /\ listening' = FALSE
  /\ notifs' = 0
  /\ scan' = "off"
  /\ batch' = {}
  /\ consumer' = "off"
  /\ cur' = 0
  /\ tries' = 0
  /\ stranded' = FALSE
  /\ UNCHANGED <<table, handled>>

Crash ==
  /\ "crash" \in Faults
  /\ ProcessEnds

------------------------------------------------------------------------------
(* Mutant of Selected: no WHERE seen = false. *)
SelectedAll == unseen \cup seen

(* The rows that the scanner's SELECT returns. *)
Selected == unseen

(* GetNotifications, first statement: SELECT ... WHERE seen = false. *)
ScanSelect ==
  /\ scan = "select"
  /\ batch' = Selected
  /\ scan' = "mark"
  /\ stranded' = FALSE
  /\ UNCHANGED <<table, up, listening, notifs, handling, handled>>

(* GetNotifications, second statement, and the commit: UPDATE event_queue  *)
(* SET seen = true has no WHERE clause and, at READ COMMITTED, a snapshot  *)
(* of its own, so it also marks the rows committed since the SELECT.  Rows *)
(* committed between the UPDATE and the commit are in neither snapshot and *)
(* may as well come later: the two are one step.                           *)
MarkAllSeen ==
  /\ seen' = seen \cup unseen
  /\ unseen' = {}
  /\ UNCHANGED log

ScanMark ==
  /\ scan = "mark"
  /\ MarkAllSeen
  /\ scan' = "push"
  /\ UNCHANGED <<batch, up, listening, notifs, handling, stranded, handled>>

(* Mutant of ScanFails: the rows are sent although the commit failed. *)
ScanFailsUnchecked ==
  /\ "scan" \in Faults
  /\ scan = "mark"
  /\ scan' = "push"
  /\ stranded' = TRUE
  /\ UNCHANGED <<table, batch, up, listening, notifs, handling, handled>>

(* A statement or the commit fails: the transaction is rolled back and an  *)
(* error event goes down the channel in place of the rows.                 *)
ScanFails ==
  /\ "scan" \in Faults
  /\ scan \in {"select", "mark"}
  /\ scan' = "error"
  /\ batch' = {}
  /\ stranded' = TRUE
  /\ UNCHANGED <<table, up, listening, notifs, handling, handled>>

(* The commit takes effect but its acknowledgement is lost: Close reports  *)
(* an error and the rows, now seen, are not sent.                          *)
ScanCommitUnacked ==
  /\ "scan" \in Faults
  /\ scan = "mark"
  /\ MarkAllSeen
  /\ scan' = "error"
  /\ batch' = {}
  /\ UNCHANGED <<up, listening, notifs, handling, stranded, handled>>

(* The consumer receives the error event, logs it and receives again. *)
SendError ==
  /\ scan = "error"
  /\ consumer = "recv"
  /\ scan' = "wait"
  /\ UNCHANGED <<table, up, listening, notifs, batch, handling, stranded, handled>>

TaskRows(S) == {e \in S : log[e] \in Task}

(* Mutant of Front: the batch is not sorted. *)
FrontUnsorted(S) == S

(* The order of the sorted batch: tasks before submissions.  Neither the   *)
(* SELECT nor sort.Slice fixes an order within a type.                     *)
Front(S) == IF TaskRows(S) # {} THEN TaskRows(S) ELSE S

(* A rendezvous on the unbuffered channel. *)
SendEvent ==
  /\ scan = "push"
  /\ consumer = "recv"
  /\ \E e \in Front(batch) :
       /\ cur' = e
       /\ batch' = batch \ {e}
  /\ consumer' = "handle"
  /\ tries' = 0
  /\ UNCHANGED <<table, up, listening, notifs, scan, stranded, handled>>

ScanDone ==
  /\ scan = "push"
  /\ batch = {}
  /\ scan' = "wait"
  /\ UNCHANGED <<table, up, listening, notifs, batch, handling, stranded, handled>>

(* One scan for every notification, however many rows it stands for. *)
Wake ==
  /\ scan = "wait"
  /\ notifs > 0
  /\ notifs' = notifs - 1
  /\ scan' = "select"
  /\ UNCHANGED <<table, up, listening, batch, handling, stranded, handled>>

------------------------------------------------------------------------------
(* The handler returns nil: leave the retry loop. *)
HandlerReturns ==
  /\ consumer = "handle"
  /\ handled' = handled \cup {cur}
  /\ consumer' = "delete"
  /\ tries' = 0
  /\ UNCHANGED <<table, up, listening, notifs, scanner, cur, stranded>>

(* Mutants of HandlerFails: one attempt too many, and retrying for ever. *)
HandlerFailsOffByOne ==
  /\ "handler" \in Faults
  /\ consumer = "handle"
  /\ IF tries < Retries
     THEN tries' = tries + 1 /\ UNCHANGED consumer
     ELSE tries' = 0 /\ consumer' = "delete"
  /\ UNCHANGED <<table, up, listening, notifs, scanner, cur, stranded, handled>>

HandlerFailsForever ==
  /\ "handler" \in Faults
  /\ consumer = "handle"
  /\ tries' = (tries + 1) % Retries
  /\ UNCHANGED <<table, up, listening, notifs, scanner, consumer, cur, stranded, handled>>

(* The handler returns an error: try again at once, and after the last     *)
(* attempt log it and go on as if the event had been handled.              *)
HandlerFails ==
  /\ "handler" \in Faults
  /\ consumer = "handle"
  /\ IF tries + 1 < Retries
     THEN tries' = tries + 1 /\ UNCHANGED consumer
     ELSE tries' = 0 /\ consumer' = "delete"
  /\ UNCHANGED <<table, up, listening, notifs, scanner, cur, stranded, handled>>

(* DeleteNotification in a transaction of its own. *)
DeleteRow ==
  /\ consumer = "delete"
  /\ seen' = seen \ {cur}
  /\ consumer' = "recv"
  /\ cur' = 0
  /\ UNCHANGED <<log, unseen, up, listening, notifs, scanner, tries, stranded, handled>>

(* That transaction fails to begin, to execute or to commit: the row stays *)
(* in the table, seen, and the consumer goes on.                           *)
DeleteFails ==
  /\ "delete" \in Faults
  /\ consumer = "delete"
  /\ consumer' = "recv"
  /\ cur' = 0
  /\ UNCHANGED <<table, up, listening, notifs, scanner, tries, stranded, handled>>

------------------------------------------------------------------------------
Writes == UNION {[1 .. n -> Object] : n \in 1 .. MaxCommit}

Cms == \E objs \in Writes : CmsCommit(objs)

Scanner ==
  \/ ScanSelect \/ ScanMark \/ ScanFails \/ ScanCommitUnacked
  \/ SendError \/ SendEvent \/ ScanDone \/ Wake

Consumer == HandlerReturns \/ HandlerFails \/ DeleteRow \/ DeleteFails

(* The goroutines, if they run at all, wait for the CMS.  When the CMS is  *)
(* at its bound nothing is left to do; any other state without a successor *)
(* is a deadlock of the goroutines.                                        *)
AtRest ==
  /\ up
  /\ scan = "off" \/ (scan = "wait" /\ notifs = 0 /\ consumer = "recv")

Quiescent ==
  /\ Len(log) = MaxRows
  /\ AtRest
  /\ UNCHANGED vars

Next ==
  \/ Cms
  \/ Start \/ StartDeaf \/ ListenerFails \/ Crash
  \/ Scanner
  \/ Consumer
  \/ Quiescent

Spec == Init /\ [][Next]_vars

(* The scanner and the consumer are goroutines whose database and handler  *)
(* calls return.  Nothing is assumed of the CMS, of the listener, of faults*)
(* or of whoever starts the process.                                       *)
Fairness == WF_vars(Scanner) /\ WF_vars(Consumer)

FairSpec == Spec /\ Fairness

------------------------------------------------------------------------------
(* Rows on the way to the handler or in its hands. *)
Custody ==
  (IF scan = "push" THEN batch ELSE {})
    \cup (IF consumer = "handle" THEN {cur} ELSE {})

Delivery == INSTANCE EventDelivery WITH
  published <- Len(log), queued <- unseen, custody <- Custody, handled <- handled

(* The bridge delivers at most once: whatever the interleaving, and across *)
(* crashes and restarts, a row that was handed out or given up is never    *)
(* handed out again (store.go marks it seen and commits before sending).   *)
DeliversAtMostOnce == Delivery!Spec

(* The exclusive custody the refinement rests on: a row is unseen, waiting *)
(* in the pushed batch, in the consumer's hands, or done.                  *)
ExclusiveCustody ==
  /\ Delivery!AtMostOnce
  /\ cur \notin batch

(* Why custody is exclusive, as an inductive invariant: what the scanner   *)
(* read stays unseen until it is marked, whatever is inserted meanwhile;   *)
(* once marked, the batch precedes everything that is unseen; and the      *)
(* consumer's row is in neither.                                           *)
BatchInv ==
  /\ scan = "mark" => batch \subseteq unseen
  /\ scan = "push" => \A e \in batch, u \in unseen : e < u
  /\ scan \notin {"mark", "push"} => batch = {}
  /\ cur \notin unseen \cup batch

HandledInv ==
  /\ handled \cap (unseen \cup batch) = {}
  /\ consumer = "handle" => cur \notin handled

(* No lost wake-up: while the listener lives, an unseen row has a          *)
(* notification pending or a scan under way that will cover it, except for *)
(* the rows left by a scan that failed, which wait for the next event.     *)
NoLostWakeup ==
  (listening /\ unseen # {} /\ ~stranded)
    => (notifs > 0 \/ scan \in {"select", "mark"})

(* "Always process tasks first, so submissions are processed after the     *)
(* associated task" (store.go:87): when a submission row is handed to the  *)
(* consumer, no task row committed before it is still unseen or in the     *)
(* batch, whichever scans picked the two up.                               *)
TasksFirst ==
  [][\A e \in DOMAIN log :
       (cur # e /\ cur' = e /\ log[e] \in Submission)
         => \A t \in 1 .. e :
              log[t] \in Task => t \notin unseen \cup batch']_vars

(* Every row leaves the bridge: once a process keeps listening, a row that *)
(* is waiting is picked up and handled, or given up after its last attempt;*)
(* only a failed scan can leave it behind.                                 *)
Settles ==
  <>[]listening =>
    \A e \in 1 .. MaxRows :
      e \in unseen ~> (e \notin unseen \cup Custody \/ stranded)

==============================================================================
