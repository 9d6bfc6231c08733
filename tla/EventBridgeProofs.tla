-------------------------- MODULE EventBridgeProofs --------------------------
(***************************************************************************)
(* Proofs about the event bridge, for every set of tasks and submissions,  *)
(* every number of retries, every bound and every set of faults.           *)
(***************************************************************************)
EXTENDS EventBridge, SequenceTheorems, TLAPS

USE BoundAssumption

(* What TypeOK says of the table, in the form the provers use. *)
LEMMA Rows ==
  ASSUME TypeOK
  PROVE  /\ Len(log) \in Nat
         /\ DOMAIN log = 1 .. Len(log)
         /\ 0 \notin DOMAIN log
  BY DEF TypeOK

(* A commit only appends to the log. *)
LEMMA Appended ==
  ASSUME TypeOK, NEW objs \in Writes, CmsCommit(objs)
  PROVE  /\ log' \in Seq(Object)
         /\ Len(log') = Len(log) + Len(objs)
         /\ Len(objs) \in Nat \ {0}
         /\ DOMAIN log \subseteq DOMAIN log'
         /\ \A e \in DOMAIN log : log'[e] = log[e]
<1>1. PICK n \in 1 .. MaxCommit : objs \in [1 .. n -> Object]
  BY DEF Writes
<1>2. objs \in Seq(Object) /\ Len(objs) = n /\ n \in Nat \ {0}
  BY <1>1
<1>3. log' = log \o objs /\ log \in Seq(Object)
  BY DEF CmsCommit, TypeOK
<1>4. /\ log' \in Seq(Object)
      /\ Len(log') = Len(log) + Len(objs)
      /\ \A e \in 1 .. Len(log) + Len(objs) :
           log'[e] = IF e <= Len(log) THEN log[e] ELSE objs[e - Len(log)]
  BY <1>2, <1>3, ConcatProperties
<1>5. Len(log) \in Nat /\ DOMAIN log = 1 .. Len(log) /\ DOMAIN log' = 1 .. Len(log')
  BY <1>3, <1>4
<1>6. \A e \in DOMAIN log : log'[e] = log[e]
  BY <1>2, <1>4, <1>5
<1> QED BY <1>2, <1>4, <1>5, <1>6

TypeInv == TypeOK /\ Halted

(* The table and the three goroutines keep their types, and a process that *)
(* is not running has no memory.                                           *)
THEOREM TypeInvariant == Spec => []TypeInv
<1>1. Init => TypeInv
  <2> SUFFICES ASSUME Init PROVE TypeInv
    OBVIOUS
  <2>1. log \in Seq(Object) /\ 0 \in 0 .. Retries - 1
    BY DEF Init
  <2> QED BY <2>1 DEF Init, Down, Halted, TypeInv, TypeOK, ScanState, ConsumerState
<1>2. TypeInv /\ [Next]_vars => TypeInv'
  <2> SUFFICES ASSUME TypeInv, [Next]_vars PROVE TypeInv'
    OBVIOUS
  <2> USE DEF vars, table, process, scanner, handling, Halted, Down, ScanState, ConsumerState
  <2>1. CASE Cms
    <3>1. PICK objs \in Writes : CmsCommit(objs)
      BY <2>1 DEF Cms
    <3>2. Len(log) + 1 .. Len(log) + Len(objs) \subseteq DOMAIN log'
      BY <3>1, Appended, Rows DEF TypeInv
    <3>3. /\ log' \in Seq(Object)
          /\ DOMAIN log \subseteq DOMAIN log'
      BY <3>1, Appended DEF TypeInv
    <3>4. notifs' \in Nat
      BY <3>1 DEF TypeInv, TypeOK, CmsCommit
    <3>5. Halted'
      BY <3>1 DEF TypeInv, TypeOK, CmsCommit
    <3> QED BY <3>1, <3>2, <3>3, <3>4, <3>5 DEF TypeInv, TypeOK, CmsCommit
  <2>2. CASE Start
    BY <2>2 DEF TypeInv, TypeOK, Start
  <2>3. CASE StartDeaf
    BY <2>3 DEF TypeInv, TypeOK, StartDeaf
  <2>4. CASE ListenerFails
    <3>1. notifs' \in Nat
      BY <2>4 DEF TypeInv, TypeOK, ListenerFails
    <3>2. up
      BY <2>4 DEF TypeInv, ListenerFails
    <3> QED BY <2>4, <3>1, <3>2 DEF TypeInv, TypeOK, ListenerFails
  <2>5. CASE Crash
    <3>1. 0 \in 0 .. Retries - 1
      OBVIOUS
    <3>2. UNCHANGED <<log, unseen, seen, handled>> /\ Down' /\ stranded' = FALSE
      BY <2>5 DEF Crash, ProcessEnds
    <3> QED BY <3>1, <3>2 DEF TypeInv, TypeOK
  <2>6. CASE ScanSelect
    BY <2>6 DEF TypeInv, TypeOK, ScanSelect, Selected
  <2>7. CASE ScanMark
    BY <2>7 DEF TypeInv, TypeOK, ScanMark, MarkAllSeen
  <2>8. CASE ScanFails
    BY <2>8 DEF TypeInv, TypeOK, ScanFails
  <2>9. CASE ScanCommitUnacked
    BY <2>9 DEF TypeInv, TypeOK, ScanCommitUnacked, MarkAllSeen
  <2>10. CASE SendError
    BY <2>10 DEF TypeInv, TypeOK, SendError
  <2>11. CASE SendEvent
    BY <2>11 DEF TypeInv, TypeOK, SendEvent, Front, TaskRows
  <2>12. CASE ScanDone
    BY <2>12 DEF TypeInv, TypeOK, ScanDone
  <2>13. CASE Wake
    BY <2>13 DEF TypeInv, TypeOK, Wake
  <2>14. CASE HandlerReturns
    <3>1. cur \in DOMAIN log
      BY <2>14 DEF TypeInv, TypeOK, HandlerReturns
    <3> QED BY <2>14 DEF TypeInv, TypeOK, HandlerReturns
  <2>15. CASE HandlerFails
    BY <2>15 DEF TypeInv, TypeOK, HandlerFails
  <2>16. CASE DeleteRow
    BY <2>16 DEF TypeInv, TypeOK, DeleteRow
  <2>17. CASE DeleteFails
    BY <2>17 DEF TypeInv, TypeOK, DeleteFails
  <2>18. CASE Quiescent \/ UNCHANGED vars
    BY <2>18 DEF TypeInv, TypeOK, Quiescent
  <2> QED
    BY <2>1, <2>2, <2>3, <2>4, <2>5, <2>6, <2>7, <2>8, <2>9, <2>10, <2>11,
       <2>12, <2>13, <2>14, <2>15, <2>16, <2>17, <2>18
    DEF Next, Scanner, Consumer
<1> QED BY <1>1, <1>2, PTL DEF Spec

(* The type invariant that the runs check (TypeOK). *)
THEOREM TypeCorrect == Spec => []TypeOK
<1>1. TypeInv => TypeOK
  BY DEF TypeInv
<1> QED BY <1>1, TypeInvariant, PTL

------------------------------------------------------------------------------
IInv == TypeInv /\ BatchInv /\ HandledInv

(* At the start no row exists and no process runs.                         *)
LEMMA IInvInit == Init => IInv
<1> SUFFICES ASSUME Init PROVE IInv
  OBVIOUS
<1>1. log \in Seq(Object) /\ 0 \in 0 .. Retries - 1
  BY DEF Init
<1> QED
  BY <1>1 DEF Init, Down, Halted, IInv, TypeInv, TypeOK, BatchInv, HandledInv,
              ScanState, ConsumerState

(* No step hands out, or claims, a row twice. *)
LEMMA IInvStep ==
  ASSUME IInv, TypeInv', [Next]_vars
  PROVE  IInv'
<1> SUFFICES BatchInv' /\ HandledInv'
  BY DEF IInv
<1> USE DEF vars, table, process, scanner, handling, IInv, TypeInv, TypeOK, BatchInv, HandledInv
<1>1. CASE Cms
  <2>1. PICK objs \in Writes : CmsCommit(objs)
    BY <1>1 DEF Cms
  <2>2. DOMAIN log = 1 .. Len(log) /\ Len(log) \in Nat /\ Len(objs) \in Nat
    BY <2>1, Rows, Appended
  <2> DEFINE new == Len(log) + 1 .. Len(log) + Len(objs)
  <2> HIDE DEF TypeOK, BatchInv, HandledInv
  <2>0. unseen' = unseen \cup new
    BY <2>1 DEF CmsCommit
  <2>3. \A u \in unseen' : u \in unseen \/ u > Len(log)
    BY <2>0, <2>2
  <2>4. \A e \in DOMAIN log : e \in unseen' => e \in unseen
    BY <2>2, <2>3 DEF TypeOK
  <2>5. unseen \subseteq unseen' /\ 0 \notin unseen'
    BY <2>0, <2>2 DEF TypeOK
  <2>6. UNCHANGED <<scan, batch, consumer, cur, handled>>
    BY <2>1 DEF CmsCommit
  <2>7. BatchInv'
    <3>1. scan = "push" => \A e \in batch, u \in unseen' : e < u
      BY <2>2, <2>3 DEF TypeOK, BatchInv
    <3>2. cur \notin unseen'
      BY <2>4, <2>5 DEF TypeOK, BatchInv
    <3> QED BY <2>5, <2>6, <3>1, <3>2 DEF BatchInv
  <2>8. HandledInv'
    BY <2>4, <2>6 DEF TypeOK, HandledInv
  <2> QED BY <2>7, <2>8
<1>2. CASE Start
  BY <1>2 DEF Start, Halted, Down
<1>3. CASE StartDeaf
  BY <1>3 DEF StartDeaf
<1>4. CASE ListenerFails
  BY <1>4 DEF ListenerFails
<1>5. CASE Crash
  BY <1>5, Rows DEF Crash, ProcessEnds
<1>6. CASE ScanSelect
  BY <1>6 DEF ScanSelect, Selected
<1>7. CASE ScanMark
  BY <1>7 DEF ScanMark, MarkAllSeen
<1>8. CASE ScanFails
  BY <1>8 DEF ScanFails
<1>9. CASE ScanCommitUnacked
  BY <1>9 DEF ScanCommitUnacked, MarkAllSeen
<1>10. CASE SendError
  BY <1>10 DEF SendError
<1>11. CASE SendEvent
  <2> HIDE DEF TypeOK, BatchInv, HandledInv
  <2>0. Front(batch) \subseteq batch
    BY DEF Front, TaskRows
  <2>1. PICK e \in batch : cur' = e /\ batch' = batch \ {e}
    BY <1>11, <2>0 DEF SendEvent
  <2>2. UNCHANGED <<unseen, scan, handled>> /\ scan = "push"
    BY <1>11 DEF SendEvent
  <2>3. e \in Nat
    BY Rows DEF TypeOK
  <2>4. e \notin unseen /\ e \notin handled
    BY <2>2, <2>3 DEF BatchInv, HandledInv
  <2> QED BY <2>1, <2>2, <2>4 DEF BatchInv, HandledInv
<1>12. CASE ScanDone
  BY <1>12 DEF ScanDone
<1>13. CASE Wake
  BY <1>13 DEF Wake
<1>14. CASE HandlerReturns
  BY <1>14 DEF HandlerReturns
<1>15. CASE HandlerFails
  BY <1>15 DEF HandlerFails
<1>16. CASE DeleteRow
  BY <1>16, Rows DEF DeleteRow
<1>17. CASE DeleteFails
  BY <1>17, Rows DEF DeleteFails
<1>18. CASE Quiescent \/ UNCHANGED vars
  BY <1>18 DEF Quiescent
<1> QED
  BY <1>1, <1>2, <1>3, <1>4, <1>5, <1>6, <1>7, <1>8, <1>9, <1>10, <1>11,
     <1>12, <1>13, <1>14, <1>15, <1>16, <1>17, <1>18
  DEF Next, Scanner, Consumer

(* Whatever is inserted while a scan is under way, and across crashes, the *)
(* scanner, the consumer and the table never share a row.                  *)
THEOREM Inductive == Spec => []IInv
<1>1. IInv /\ TypeInv' /\ [Next]_vars => IInv'
  BY IInvStep
<1> QED BY <1>1, IInvInit, TypeInvariant, PTL DEF Spec

(* A row is unseen, in the pushed batch, with the consumer, or done.       *)
THEOREM Exclusive == Spec => []ExclusiveCustody
<1>1. IInv => ExclusiveCustody
  <2> SUFFICES ASSUME IInv PROVE ExclusiveCustody
    OBVIOUS
  <2>1. scan = "push" => unseen \cap batch = {}
    BY Rows DEF IInv, TypeInv, TypeOK, BatchInv
  <2> QED
    BY <2>1 DEF IInv, BatchInv, HandledInv, ExclusiveCustody, Delivery!AtMostOnce, Custody
<1> QED BY <1>1, Inductive, PTL

------------------------------------------------------------------------------
(* A waiting row has a notification pending or a scan that will cover it,  *)
(* unless the last scan failed or nobody listens.                          *)
THEOREM WakeupKept == Spec => []NoLostWakeup
<1>1. Init => NoLostWakeup
  BY DEF Init, NoLostWakeup
<1>2. TypeOK /\ NoLostWakeup /\ [Next]_vars => NoLostWakeup'
  <2> SUFFICES ASSUME TypeOK, NoLostWakeup, [Next]_vars PROVE NoLostWakeup'
    OBVIOUS
  <2>1. notifs \in Nat
    BY DEF TypeOK
  <2> USE DEF vars, table, process, scanner, handling, NoLostWakeup
  <2>2. CASE Cms
    BY <2>1, <2>2 DEF Cms, CmsCommit
  <2>3. CASE Start \/ StartDeaf
    BY <2>3 DEF Start, StartDeaf
  <2>4. CASE ListenerFails
    BY <2>4 DEF ListenerFails
  <2>5. CASE Crash
    BY <2>5 DEF Crash, ProcessEnds
  <2>6. CASE ScanSelect \/ Wake
    BY <2>6 DEF ScanSelect, Wake
  <2>7. CASE ScanMark \/ ScanCommitUnacked
    BY <2>7 DEF ScanMark, ScanCommitUnacked, MarkAllSeen
  <2>8. CASE ScanFails
    BY <2>8 DEF ScanFails
  <2>9. CASE SendError \/ SendEvent \/ ScanDone
    BY <2>9 DEF SendError, SendEvent, ScanDone
  <2>10. CASE Consumer
    BY <2>10 DEF Consumer, HandlerReturns, HandlerFails, DeleteRow, DeleteFails
  <2>11. CASE Quiescent \/ UNCHANGED vars
    BY <2>11 DEF Quiescent
  <2> QED
    BY <2>2, <2>3, <2>4, <2>5, <2>6, <2>7, <2>8, <2>9, <2>10, <2>11 DEF Next, Scanner
<1> QED BY <1>1, <1>2, TypeCorrect, PTL DEF Spec

(* A row reaches the consumer only through SendEvent. *)
LEMMA HandedOut ==
  ASSUME TypeInv, [Next]_vars, NEW e \in DOMAIN log, cur # e, cur' = e
  PROVE  SendEvent
<1>1. e # 0 /\ cur' # 0 /\ cur' # cur
  BY Rows DEF TypeInv
<1> USE DEF vars, table, process, scanner, handling
<1>2. ~Cms
  BY <1>1 DEF Cms, CmsCommit
<1>3. ~(Start \/ StartDeaf \/ ListenerFails \/ Crash)
  BY <1>1 DEF Start, StartDeaf, ListenerFails, Crash, ProcessEnds
<1>4. ~(ScanSelect \/ ScanMark \/ ScanFails \/ ScanCommitUnacked)
  BY <1>1 DEF ScanSelect, ScanMark, ScanFails, ScanCommitUnacked
<1>5. ~(SendError \/ ScanDone \/ Wake)
  BY <1>1 DEF SendError, ScanDone, Wake
<1>6. ~Consumer
  BY <1>1 DEF Consumer, HandlerReturns, HandlerFails, DeleteRow, DeleteFails
<1>7. ~(Quiescent \/ UNCHANGED vars)
  BY <1>1 DEF Quiescent
<1> QED BY <1>2, <1>3, <1>4, <1>5, <1>6, <1>7 DEF Next, Scanner

(* A submission is handed out only when no earlier task row waits. *)
THEOREM TasksGoFirst == Spec => TasksFirst
<1> DEFINE First ==
      \A e \in DOMAIN log :
        (cur # e /\ cur' = e /\ log[e] \in Submission)
          => \A t \in 1 .. e : log[t] \in Task => t \notin unseen \cup batch'
<1>1. IInv /\ [Next]_vars => First
  <2> SUFFICES ASSUME IInv, [Next]_vars, NEW e \in DOMAIN log,
                      cur # e, cur' = e, log[e] \in Submission,
                      NEW t \in 1 .. e, log[t] \in Task
               PROVE  t \notin unseen \cup batch'
    OBVIOUS
  <2>1. SendEvent
    BY HandedOut DEF IInv
  <2>2. e \in Front(batch) /\ batch' = batch \ {e} /\ scan = "push"
    BY <2>1 DEF SendEvent
  <2>3. log[e] \notin Task
    BY ObjectAssumption
  <2>4. TaskRows(batch) = {} /\ e \in batch
    BY <2>2, <2>3 DEF Front, TaskRows
  <2>5. t \notin batch'
    BY <2>2, <2>4 DEF TaskRows
  <2>6. e \in Nat /\ t \in Nat /\ t <= e
    BY Rows DEF IInv, TypeInv
  <2>7. \A u \in unseen : u \in Nat /\ e < u
    BY <2>2, <2>4, Rows DEF IInv, TypeInv, TypeOK, BatchInv
  <2>8. t \notin unseen
    BY <2>6, <2>7
  <2> QED BY <2>5, <2>8
<1>2. IInv /\ [Next]_vars => [First]_vars
  BY <1>1
<1> QED BY <1>2, Inductive, PTL DEF Spec, TasksFirst

------------------------------------------------------------------------------
(* The bridge implements at-most-once delivery: CmsCommit publishes,       *)
(* marking claims, HandlerReturns handles, the last failed attempt and the *)
(* end of the process forget, and every other step is invisible.           *)
THEOREM Implements == Spec => DeliversAtMostOnce
<1>1. Init => Delivery!Init
  BY DEF Init, Down, Delivery!Init, Custody
<1>2. IInv /\ [Next]_vars => [Delivery!Next]_(Delivery!vars)
  <2> SUFFICES ASSUME IInv, [Next]_vars
               PROVE  Delivery!Next \/ UNCHANGED Delivery!vars
    OBVIOUS
  <2> USE DEF vars, table, process, scanner, handling
  <2>1. CASE Cms
    <3>1. PICK objs \in Writes : CmsCommit(objs)
      BY <2>1 DEF Cms
    <3>2. Len(log') \in Nat /\ Len(log') = Len(log) + Len(objs) /\ Len(log') > Len(log)
      BY <3>1, Appended, Rows DEF IInv, TypeInv
    <3>3. UNCHANGED <<Custody, handled>>
      BY <3>1 DEF CmsCommit, Custody
    <3>4. Delivery!Publish
      BY <3>1, <3>2, <3>3 DEF CmsCommit, Delivery!Publish
    <3> QED BY <3>4 DEF Delivery!Next
  <2>2. CASE Start \/ StartDeaf \/ ListenerFails
    <3>1. UNCHANGED <<log, unseen, handled, batch, cur>>
      BY <2>2 DEF Start, StartDeaf, ListenerFails
    <3>2. UNCHANGED Custody
      BY <2>2, <3>1 DEF Start, StartDeaf, ListenerFails, Custody, IInv, TypeInv, Halted, Down
    <3> QED BY <3>1, <3>2 DEF Delivery!vars
  <2>3. CASE Crash
    <3>1. UNCHANGED <<log, unseen, handled>> /\ Custody' = {}
      BY <2>3 DEF Crash, ProcessEnds, Custody
    <3>2. Delivery!Forget(Custody)
      BY <3>1 DEF Delivery!Forget
    <3> QED BY <3>2 DEF Delivery!Next
  <2>4. CASE ScanSelect \/ ScanFails \/ SendError \/ Wake
    <3>1. UNCHANGED <<log, unseen, handled, consumer, cur>>
          /\ scan # "push" /\ scan' # "push"
      BY <2>4 DEF ScanSelect, ScanFails, SendError, Wake
    <3>2. UNCHANGED Custody
      BY <3>1 DEF Custody
    <3> QED BY <3>1, <3>2 DEF Delivery!vars
  <2>5. CASE ScanMark
    <3>1. /\ scan = "mark" /\ scan' = "push" /\ unseen' = {}
          /\ UNCHANGED <<log, handled, batch, consumer, cur>>
      BY <2>5 DEF ScanMark, MarkAllSeen
    <3>2. batch \subseteq unseen
      BY <3>1 DEF IInv, BatchInv
    <3>3. Custody' = Custody \cup batch
      BY <3>1 DEF Custody
    <3>4. Delivery!Claim(batch)
      BY <3>1, <3>2, <3>3 DEF Delivery!Claim
    <3> QED BY <3>2, <3>4 DEF Delivery!Next
  <2>6. CASE ScanCommitUnacked
    <3>1. /\ scan = "mark" /\ scan' = "error" /\ unseen' = {}
          /\ UNCHANGED <<log, handled, consumer, cur>>
      BY <2>6 DEF ScanCommitUnacked, MarkAllSeen
    <3>2. Custody' = Custody \cup {}
      BY <3>1 DEF Custody
    <3>3. Delivery!Claim({})
      BY <3>1, <3>2 DEF Delivery!Claim
    <3> QED BY <3>3 DEF Delivery!Next
  <2>7. CASE SendEvent
    <3>1. Front(batch) \subseteq batch
      BY DEF Front, TaskRows
    <3>2. PICK e \in batch : cur' = e /\ batch' = batch \ {e}
      BY <2>7, <3>1 DEF SendEvent
    <3>3. /\ scan = "push" /\ consumer = "recv" /\ consumer' = "handle"
          /\ UNCHANGED <<log, unseen, handled, scan>>
      BY <2>7 DEF SendEvent
    <3>4. UNCHANGED Custody
      BY <3>2, <3>3 DEF Custody
    <3> QED BY <3>3, <3>4 DEF Delivery!vars
  <2>8. CASE ScanDone
    <3>1. /\ scan = "push" /\ scan' = "wait" /\ batch = {}
          /\ UNCHANGED <<log, unseen, handled, batch, consumer, cur>>
      BY <2>8 DEF ScanDone
    <3>2. UNCHANGED Custody
      BY <3>1 DEF Custody
    <3> QED BY <3>1, <3>2 DEF Delivery!vars
  <2>9. CASE HandlerReturns
    <3>1. /\ consumer = "handle" /\ consumer' = "delete"
          /\ handled' = handled \cup {cur}
          /\ UNCHANGED <<log, unseen, scan, batch, cur>>
      BY <2>9 DEF HandlerReturns
    <3>2. cur \in Custody /\ cur \notin batch
      BY <3>1 DEF Custody, IInv, BatchInv
    <3>3. Custody' = Custody \ {cur}
      BY <3>1, <3>2 DEF Custody
    <3>4. Delivery!Handle(cur)
      BY <3>1, <3>2, <3>3 DEF Delivery!Handle
    <3> QED BY <3>2, <3>4 DEF Delivery!Next
  <2>10. CASE HandlerFails
    <3>1. /\ consumer = "handle" /\ consumer' \in {"handle", "delete"}
          /\ UNCHANGED <<log, unseen, handled, scan, batch, cur>>
      BY <2>10 DEF HandlerFails
    <3>2. CASE consumer' = "handle"
      <4>1. UNCHANGED Custody
        BY <3>1, <3>2 DEF Custody
      <4> QED BY <3>1, <4>1 DEF Delivery!vars
    <3>3. CASE consumer' = "delete"
      <4>1. cur \in Custody /\ cur \notin batch
        BY <3>1 DEF Custody, IInv, BatchInv
      <4>2. Custody' = Custody \ {cur}
        BY <3>1, <3>3, <4>1 DEF Custody
      <4>3. Delivery!Forget({cur})
        BY <3>1, <4>1, <4>2 DEF Delivery!Forget
      <4> QED BY <4>1, <4>3 DEF Delivery!Next
    <3> QED BY <3>1, <3>2, <3>3
  <2>11. CASE DeleteRow \/ DeleteFails
    <3>1. /\ consumer = "delete" /\ consumer' = "recv"
          /\ UNCHANGED <<log, unseen, handled, scan, batch>>
      BY <2>11 DEF DeleteRow, DeleteFails
    <3>2. UNCHANGED Custody
      BY <3>1 DEF Custody
    <3> QED BY <3>1, <3>2 DEF Delivery!vars
  <2>12. CASE Quiescent \/ UNCHANGED vars
    BY <2>12 DEF Quiescent, Custody, Delivery!vars
  <2> QED
    BY <2>1, <2>2, <2>3, <2>4, <2>5, <2>6, <2>7, <2>8, <2>9, <2>10, <2>11, <2>12
    DEF Next, Scanner, Consumer
<1> QED BY <1>1, <1>2, Inductive, PTL DEF Spec, DeliversAtMostOnce, Delivery!Spec

==============================================================================
