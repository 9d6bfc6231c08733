----------------------------- MODULE JudgeProofs -----------------------------
(***************************************************************************)
(* Proofs about Judge, for any users, tasks, submissions, scores, faults   *)
(* and numbers of rows and imports.  First the inductive invariant IInv:   *)
(* what the handler has read, and what it has stored, is what the CMS      *)
(* holds unless a newer row of the object exists.  From it, that a handled *)
(* row leaves the judge up to date and that no step goes back.  Then that  *)
(* the system implements its two components, and what their theorems say   *)
(* of the system: scores follow the CMS.  Last, how a row can get lost.    *)
(***************************************************************************)
EXTENDS Judge, TLAPS

(* The row k is the newest of object o. *)
IsLast(o, k) ==
  \/ k = 0 /\ \A i \in DOMAIN log : log[i] # o
  \/ k \in DOMAIN log /\ log[k] = o /\ \A j \in DOMAIN log : log[j] = o => j <= k

Rows ==
  /\ log \in Seq(Object)
  /\ \A o \in Object : IsLast(o, LastRow(o))
  /\ unseen \subseteq DOMAIN log /\ batch \subseteq DOMAIN log
  /\ handled \subseteq DOMAIN log
  /\ consumer \in {"handle", "delete"} => cur \in DOMAIN log
  /\ ~up => consumer = "off"

(* A row of an object is there only if the object is. *)
CmsInv ==
  /\ DOMAIN cms \subseteq Submission
  /\ DOMAIN cmsTask \subseteq Task
  /\ \A i \in DOMAIN log : log[i] \in DOMAIN cms \cup DOMAIN cmsTask

Scores(s, status) == IF status = "scored" THEN cms[s].scores ELSE <<>>

(* What the handler has read of o is what the CMS holds. *)
AsRead(o) ==
  IF work.phase = "task" THEN work.multiplier = cmsTask[o]
  ELSE /\ work.status = StatusOf(cms[o].result)
       /\ work.phase = "submission" => work.scores = Scores(o, work.status)

(* What the handler has read is what the CMS holds, unless a newer row says*)
(* that it has changed since.                                              *)
WorkInv ==
  work # Idle =>
    /\ consumer = "handle"
    /\ work.phase \in {"result", "submission", "task"}
    /\ work.rev \in Nat /\ cur <= work.rev /\ work.rev <= LastRow(log[cur])
    /\ rev[log[cur]] <= work.rev
    /\ work.phase = "task" <=> log[cur] \in Task
    /\ work.rev = LastRow(log[cur]) => AsRead(log[cur])

(* The stored copy of o is the one the CMS has. *)
Current(o) ==
  IF o \in Submission
  THEN /\ o \in DOMAIN subs /\ o \in DOMAIN shown
       /\ shown[o] = StatusOf(cms[o].result)
       /\ subs[o] = Scores(o, shown[o])
  ELSE o \in DOMAIN task /\ task[o] = cmsTask[o]

StoredInv ==
  /\ rev \in [Object -> Nat]
  /\ \A o \in Object : rev[o] <= LastRow(o)
  /\ \A o \in Object : rev[o] # 0 /\ rev[o] = LastRow(o) => Current(o)
  /\ \A e \in Effective : e <= rev[log[e]]

IInv == Rows /\ CmsInv /\ WorkInv /\ StoredInv

(* The newest row of an object, in any log. *)
Newest(l, o) ==
  IF \E i \in DOMAIN l : l[i] = o
  THEN CHOOSE i \in DOMAIN l : l[i] = o /\ \A j \in DOMAIN l : l[j] = o => j <= i
  ELSE 0

(* The newest row of an object, in any sequence of rows.                   *)
LEMMA NewestIs ==
  ASSUME NEW l \in Seq(Object), NEW o,
         NEW k \in DOMAIN l, l[k] = o, \A j \in DOMAIN l : l[j] = o => j <= k
  PROVE  Newest(l, o) = k
<1>1. DOMAIN l = 1 .. Len(l) /\ Len(l) \in Nat
  OBVIOUS
<1> DEFINE P(i) == l[i] = o /\ \A j \in DOMAIN l : l[j] = o => j <= i
<1>2. P(k)
  OBVIOUS
<1>3. Newest(l, o) = CHOOSE i \in DOMAIN l : P(i)
  BY <1>2 DEF Newest
<1>4. Newest(l, o) \in DOMAIN l /\ P(Newest(l, o))
  BY <1>2, <1>3
<1> QED BY <1>1, <1>2, <1>4

(* LastRow is that row, before a step and after it.                        *)
LEMMA LastRowIsNewest == \A o : LastRow(o) = Newest(log, o) /\ LastRow(o)' = Newest(log', o)
BY DEF LastRow, Newest

(* A step that adds no row, changes nothing in the CMS and stores nothing. *)
LEMMA LastRowStays ==
  ASSUME log' = log
  PROVE  \A o : LastRow(o)' = LastRow(o) /\ \A k : IsLast(o, k)' <=> IsLast(o, k)
BY DEF LastRow, IsLast

(* The commit of the CMS that adds a row for an object. *)
LEMMA RowAdded ==
  ASSUME Rows, NEW o \in Object, Bridge!CmsCommit(<<o>>)
  PROVE  /\ Rows'
         /\ DOMAIN log' = DOMAIN log \cup {Len(log) + 1}
         /\ log'[Len(log) + 1] = o
         /\ \A i \in DOMAIN log : log'[i] = log[i]
         /\ LastRow(o)' = Len(log) + 1
         /\ \A p \in Object : LastRow(p) \in 0 .. Len(log)
         /\ \A p \in Object \ {o} : LastRow(p)' = LastRow(p)
         /\ UNCHANGED <<batch, consumer, cur, handled, up>>
<1>0. PICK n : n = Len(log) + 1
  OBVIOUS
<1>1. /\ log' \in Seq(Object) /\ DOMAIN log' = 1 .. n /\ DOMAIN log = 1 .. Len(log)
      /\ log'[n] = o /\ \A i \in DOMAIN log : log'[i] = log[i]
      /\ Len(log) \in Nat /\ n \in Nat /\ n = Len(log) + 1
  BY <1>0 DEF Rows, Bridge!CmsCommit
<1>2. unseen' = unseen \cup {n} /\ UNCHANGED <<batch, consumer, cur, handled, up>>
  BY <1>0, <1>1 DEF Bridge!CmsCommit, Bridge!scanner, Bridge!handling
<1>3. \A p \in Object : LastRow(p) \in 0 .. Len(log)
  BY <1>1 DEF Rows, IsLast
<1>4. IsLast(o, n)' /\ LastRow(o)' = n
  <2>1. IsLast(o, n)'
    <3>1. n \in DOMAIN log' /\ log'[n] = o /\ \A j \in DOMAIN log' : j <= n
      BY <1>1
    <3> QED BY <3>1 DEF IsLast
  <2>2. Newest(log', o) = n
    BY <1>1, NewestIs
  <2> QED BY <2>1, <2>2, LastRowIsNewest
<1>5. ASSUME NEW p \in Object \ {o}
      PROVE  IsLast(p, LastRow(p))' /\ LastRow(p)' = LastRow(p)
  <2>a. PICK k : k = LastRow(p)
    OBVIOUS
  <2>0. IsLast(p, k)
    BY <2>a DEF Rows
  <2>1. CASE \A i \in DOMAIN log : log[i] # p
    <3>1. \A i \in DOMAIN log' : log'[i] # p
      BY <1>1, <2>1
    <3>2. LastRow(p) = 0 /\ LastRow(p)' = 0
      BY <2>1, <3>1 DEF LastRow
    <3> QED BY <3>1, <3>2 DEF IsLast
  <2>2. CASE \E i \in DOMAIN log : log[i] = p
    <3>1. k \in DOMAIN log /\ log[k] = p /\ \A j \in DOMAIN log : log[j] = p => j <= k
      BY <2>0, <2>2 DEF IsLast
    <3>2. k \in DOMAIN log' /\ log'[k] = p /\ \A j \in DOMAIN log' : log'[j] = p => j <= k
      BY <1>1, <3>1
    <3>3. Newest(log', p) = k
      BY <1>1, <3>2, NewestIs
    <3>4. LastRow(p)' = k
      BY <3>3, LastRowIsNewest
    <3>5. IsLast(p, k)'
      BY <3>2 DEF IsLast
    <3> QED BY <2>a, <3>4, <3>5
  <2> QED BY <2>1, <2>2
<1>6. Rows'
  <2>1. \A p \in Object : IsLast(p, LastRow(p))'
    BY <1>4, <1>5
  <2> QED BY <1>1, <1>2, <2>1 DEF Rows
<1> QED BY <1>0, <1>1, <1>2, <1>3, <1>4, <1>5, <1>6

(* The handler keeps what it has read, or drops it. *)
LEMMA WorkKept ==
  ASSUME Rows, WorkInv, UNCHANGED <<log, cmsVars, rev>>,
         work' = Idle \/ (work' = work /\ (consumer = "handle" => UNCHANGED <<consumer, cur>>))
  PROVE  WorkInv'
<1>1. CASE work' = Idle
  BY <1>1 DEF WorkInv, Idle
<1>2. CASE work' = work /\ work = Idle
  BY <1>2 DEF WorkInv, Idle
<1>3. CASE work' = work /\ work # Idle /\ UNCHANGED <<consumer, cur>>
  <2> PICK o : o = log[cur]
    OBVIOUS
  <2>1. LastRow(o)' = LastRow(o)
    BY LastRowStays
  <2>2. UNCHANGED <<log, cms, cmsTask, rev, work, consumer, cur>>
    BY <1>3 DEF cmsVars
  <2>3. AsRead(o)' <=> AsRead(o)
    BY <2>2 DEF AsRead, Scores
  <2> QED BY <1>3, <2>1, <2>2, <2>3 DEF WorkInv, Idle
<1> QED BY <1>1, <1>2, <1>3 DEF WorkInv

(* A step that adds no row, stores nothing and has no new row handled. *)
LEMMA Quiet ==
  ASSUME IInv, Rows', WorkInv', UNCHANGED <<log, cmsVars, storedVars>>, Effective' \subseteq Effective
  PROVE  IInv'
<1>1. UNCHANGED <<log, cms, cmsTask, rev, shown, subs, task>>
  BY DEF cmsVars, storedVars, dbVars
<1>2. CmsInv'
  BY <1>1 DEF IInv, CmsInv
<1>3. ASSUME NEW o \in Object
      PROVE  LastRow(o)' = LastRow(o) /\ (Current(o)' <=> Current(o))
  BY <1>1, LastRowStays DEF Current, Scores
<1>4. StoredInv'
  BY <1>1, <1>3 DEF IInv, StoredInv
<1> QED BY <1>2, <1>4 DEF IInv

(* The CMS changes object o. *)
LEMMA Changed ==
  ASSUME IInv, NEW o \in Object, Bridge!CmsCommit(<<o>>), UNCHANGED <<storedVars, work, swallowed>>,
         DOMAIN cms' = DOMAIN cms \cup ({o} \cap Submission),
         DOMAIN cmsTask' = DOMAIN cmsTask \cup ({o} \cap Task),
         \A p \in DOMAIN cms \ {o} : cms'[p] = cms[p],
         \A p \in DOMAIN cmsTask \ {o} : cmsTask'[p] = cmsTask[p]
  PROVE  IInv'
<1>0. PICK n : n = Len(log) + 1
  OBVIOUS
<1>1. /\ Rows' /\ DOMAIN log' = DOMAIN log \cup {n} /\ log'[n] = o
      /\ \A i \in DOMAIN log : log'[i] = log[i]
      /\ LastRow(o)' = n /\ \A p \in Object : LastRow(p) \in Nat /\ LastRow(p) < n
      /\ \A p \in Object \ {o} : LastRow(p)' = LastRow(p)
      /\ UNCHANGED <<batch, consumer, cur, handled, up>>
      /\ n \in Nat \ {0}
  <2>1. Len(log) \in Nat
    BY DEF IInv, Rows
  <2>2. n \in Nat \ {0} /\ \A k \in 0 .. Len(log) : k \in Nat /\ k < n
    BY <1>0, <2>1
  <2>3. Rows
    BY DEF IInv
  <2>4. /\ Rows' /\ DOMAIN log' = DOMAIN log \cup {Len(log) + 1} /\ log'[Len(log) + 1] = o
        /\ \A i \in DOMAIN log : log'[i] = log[i]
        /\ LastRow(o)' = Len(log) + 1
        /\ \A p \in Object : LastRow(p) \in 0 .. Len(log)
        /\ \A p \in Object \ {o} : LastRow(p)' = LastRow(p)
        /\ UNCHANGED <<batch, consumer, cur, handled, up>>
    BY <2>3, RowAdded
  <2> QED BY <1>0, <2>2, <2>4
<1>2. UNCHANGED <<rev, shown, subs, task, work, swallowed>>
  BY DEF storedVars, dbVars
<1>3. CmsInv'
  BY <1>1 DEF IInv, CmsInv, Object
<1>4. ASSUME NEW p \in Object, NEW i \in DOMAIN log, log[i] = p, p # o
      PROVE  /\ p \in Submission => p \in DOMAIN cms /\ cms'[p] = cms[p]
             /\ p \in Task => p \in DOMAIN cmsTask /\ cmsTask'[p] = cmsTask[p]
  BY <1>4, ObjectAssumption DEF IInv, CmsInv
<1>5. WorkInv'
  <2> SUFFICES ASSUME work # Idle PROVE WorkInv'
    BY <1>2 DEF WorkInv, Idle
  <2>1. cur \in DOMAIN log /\ log'[cur] = log[cur] /\ log[cur] \in Object
    BY <1>1 DEF IInv, WorkInv, Rows
  <2> PICK c : c = log[cur]
    OBVIOUS
  <2>2. CASE c = o
    BY <1>1, <1>2, <2>1, <2>2 DEF IInv, WorkInv, Idle
  <2>3. CASE c # o
    <3>1. AsRead(c) => AsRead(c)'
      <4>1. (c \in Submission => cms'[c] = cms[c]) /\ (c \in Task => cmsTask'[c] = cmsTask[c])
        BY <1>4, <2>1, <2>3
      <4>2. work.phase = "task" <=> c \in Task
        BY DEF IInv, WorkInv
      <4> QED BY <1>2, <2>1, <4>1, <4>2 DEF AsRead, Scores, Object
    <3> QED BY <1>1, <1>2, <2>1, <2>3, <3>1 DEF IInv, WorkInv, Idle
  <2> QED BY <2>2, <2>3
<1>6. StoredInv'
  <2>1. ASSUME NEW p \in Object, rev'[p] # 0, rev'[p] = LastRow(p)'
        PROVE  Current(p)'
    <3>1. p # o
      BY <1>1, <1>2, <2>1 DEF IInv, StoredInv
    <3>2. LastRow(p)' = LastRow(p) /\ Current(p)
      BY <1>1, <1>2, <2>1, <3>1 DEF IInv, StoredInv
    <3>3. IsLast(p, LastRow(p)) /\ LastRow(p) # 0
      BY <1>1, <1>2, <2>1, <3>1 DEF IInv, Rows
    <3>4. \E i \in DOMAIN log : log[i] = p
      BY <3>3 DEF IsLast
    <3>5. /\ p \in Submission => cms'[p] = cms[p]
          /\ p \in Task => cmsTask'[p] = cmsTask[p]
      BY <1>4, <3>1, <3>4
    <3> QED BY <1>2, <3>2, <3>5, ObjectAssumption DEF Current, Scores, Object
  <2>2. \A p \in Object : rev'[p] <= LastRow(p)'
    <3> SUFFICES ASSUME NEW p \in Object PROVE rev'[p] <= LastRow(p)'
      OBVIOUS
    <3>1. rev[p] \in Nat /\ rev[p] <= LastRow(p)
      BY DEF IInv, StoredInv
    <3>2. LastRow(p) < n /\ LastRow(p) \in Nat /\ (LastRow(p)' = n \/ LastRow(p)' = LastRow(p))
      BY <1>1
    <3> QED BY <1>1, <1>2, <3>1, <3>2
  <2>3. \A e \in Effective' : e <= rev'[log'[e]]
    BY <1>1, <1>2 DEF IInv, StoredInv, Rows, Effective
  <2> QED BY <1>2, <2>1, <2>2, <2>3 DEF IInv, StoredInv
<1> QED BY <1>1, <1>3, <1>5, <1>6 DEF IInv

(* The handler stores what it has read of o. *)
LEMMA Copied ==
  ASSUME IInv, Rows', UNCHANGED <<log, cmsVars>>, work # Idle, work' = Idle,
         NEW o, o = log[cur], Stored(o), Effective' \subseteq Effective \cup {cur},
         \A p \in Object \ {o} : Current(p) => Current(p)',
         AsRead(o) => Current(o)'
  PROVE  IInv'
<1>1. /\ cur \in DOMAIN log /\ o \in Object
      /\ work.rev \in Nat /\ cur <= work.rev /\ work.rev <= LastRow(o) /\ rev[o] <= work.rev
      /\ work.rev = LastRow(o) => AsRead(o)
  BY DEF IInv, WorkInv, Rows
<1>2. UNCHANGED <<log, cms, cmsTask>> /\ \A p : LastRow(p)' = LastRow(p)
  BY LastRowStays DEF cmsVars
<1>3. rev \in [Object -> Nat] /\ rev' = [rev EXCEPT ![o] = work.rev]
  BY DEF IInv, StoredInv, Stored
<1>4. rev' \in [Object -> Nat] /\ rev'[o] = work.rev /\ \A p \in Object \ {o} : rev'[p] = rev[p]
  BY <1>1, <1>3
<1>5. CmsInv' /\ WorkInv'
  BY <1>2 DEF IInv, CmsInv, WorkInv, Idle
<1>6. StoredInv'
  <2>1. \A p \in Object : rev'[p] <= LastRow(p)'
    BY <1>1, <1>2, <1>4 DEF IInv, StoredInv
  <2>2. ASSUME NEW p \in Object, rev'[p] # 0, rev'[p] = LastRow(p)'
        PROVE  Current(p)'
    <3>1. CASE p = o
      BY <1>1, <1>2, <1>4, <2>2, <3>1
    <3>2. CASE p # o
      <4>1. rev[p] # 0 /\ rev[p] = LastRow(p)
        BY <1>2, <1>4, <2>2, <3>2
      <4>2. Current(p)
        BY <4>1 DEF IInv, StoredInv
      <4> QED BY <3>2, <4>2
    <3> QED BY <3>1, <3>2
  <2>3. ASSUME NEW e \in Effective'
        PROVE  e <= rev'[log'[e]]
    <3>1. CASE e = cur
      BY <1>1, <1>2, <1>4, <3>1
    <3>2. CASE e \in Effective
      <4>1. e \in DOMAIN log /\ log[e] \in Object /\ e <= rev[log[e]] /\ e \in Nat
        BY <3>2 DEF IInv, StoredInv, Effective, Rows
      <4>2. CASE log[e] = o
        <5>1. rev[o] \in Nat
          BY <1>1, <1>3
        <5> QED BY <1>1, <1>2, <1>4, <4>1, <4>2, <5>1
      <4>3. CASE log[e] # o
        BY <1>2, <1>4, <4>1, <4>3
      <4> QED BY <4>2, <4>3
    <3> QED BY <2>3, <3>1, <3>2
  <2> QED BY <1>4, <2>1, <2>2, <2>3 DEF StoredInv
<1> QED BY <1>5, <1>6 DEF IInv

(* A step of the bridge that leaves the handler's row alone, or ends it. *)
LEMMA BridgeStep ==
  ASSUME Rows,
         \/ Bridge!Start \/ Bridge!StartDeaf \/ Bridge!ListenerFails \/ Bridge!ProcessEnds
         \/ Bridge!Scanner
         \/ Bridge!HandlerReturns \/ Bridge!HandlerFails \/ Bridge!DeleteRow \/ Bridge!DeleteFails
  PROVE  Rows' /\ log' = log
<1>0. ASSUME log' = log, unseen' \subseteq DOMAIN log, batch' \subseteq DOMAIN log,
             handled' \subseteq DOMAIN log,
             consumer' \in {"handle", "delete"} => cur' \in DOMAIN log,
             ~up' => consumer' = "off"
      PROVE  Rows' /\ log' = log
  BY <1>0, LastRowStays DEF Rows
<1> USE DEF Bridge!table, Bridge!scanner, Bridge!handling
<1>1. CASE Bridge!Start \/ Bridge!StartDeaf \/ Bridge!ListenerFails \/ Bridge!ProcessEnds
  BY <1>0, <1>1 DEF Rows, Bridge!Start, Bridge!StartDeaf, Bridge!ListenerFails, Bridge!ProcessEnds
<1>2. CASE Bridge!Scanner
  <2>1. CASE Bridge!ScanSelect
    BY <1>0, <2>1 DEF Rows, Bridge!ScanSelect, Bridge!Selected
  <2>2. CASE Bridge!ScanMark \/ Bridge!ScanCommitUnacked
    BY <1>0, <2>2 DEF Rows, Bridge!ScanMark, Bridge!ScanCommitUnacked, Bridge!MarkAllSeen
  <2>3. CASE Bridge!ScanFails \/ Bridge!SendError \/ Bridge!ScanDone \/ Bridge!Wake
    BY <1>0, <2>3 DEF Rows, Bridge!ScanFails, Bridge!SendError, Bridge!ScanDone, Bridge!Wake
  <2>4. CASE Bridge!SendEvent
    <3>1. Bridge!Front(batch) \subseteq batch
      BY DEF Bridge!Front, Bridge!TaskRows
    <3> QED BY <1>0, <2>4, <3>1 DEF Rows, Bridge!SendEvent
  <2> QED BY <1>2, <2>1, <2>2, <2>3, <2>4 DEF Bridge!Scanner
<1>3. CASE Bridge!HandlerReturns \/ Bridge!HandlerFails \/ Bridge!DeleteRow \/ Bridge!DeleteFails
  BY <1>0, <1>3 DEF Rows, Bridge!HandlerReturns, Bridge!HandlerFails, Bridge!DeleteRow, Bridge!DeleteFails
<1> QED BY <1>1, <1>2, <1>3

(* At the start there are no rows and nothing is stored.                   *)
LEMMA IInvInit == Init => IInv
<1> SUFFICES ASSUME Init PROVE IInv
  OBVIOUS
<1> USE DEF Init, Bridge!Init, Bridge!Down, Db!Init, Db!Empty
<1>1. log = <<>> /\ DOMAIN log = {} /\ \A o : LastRow(o) = 0
  BY DEF LastRow
<1>2. Rows
  BY <1>1 DEF Rows, IsLast
<1>3. CmsInv /\ WorkInv
  BY <1>1 DEF CmsInv, WorkInv
<1>4. StoredInv
  BY <1>1 DEF StoredInv, Effective
<1> QED BY <1>2, <1>3, <1>4 DEF IInv

(* The CMS workers and the loader. *)
LEMMA CmsStep ==
  ASSUME IInv, Cms
  PROVE  IInv'
<1>1. ASSUME NEW t \in Task, NEW m \in Multiplier, TaskImported(t, m)
      PROVE  IInv'
  <2>1. t \in Object /\ {t} \cap Submission = {} /\ {t} \cap Task = {t}
    BY ObjectAssumption DEF Object
  <2>2. Bridge!CmsCommit(<<t>>) /\ UNCHANGED <<cms, storedVars, work, swallowed>>
    BY <1>1 DEF TaskImported
  <2>3. /\ DOMAIN cmsTask' = DOMAIN cmsTask \cup {t}
        /\ \A p \in DOMAIN cmsTask \ {t} : cmsTask'[p] = cmsTask[p]
    BY <1>1 DEF TaskImported, Db!Upsert
  <2> QED BY <2>1, <2>2, <2>3, Changed
<1>2. ASSUME NEW s \in Submission, Submitted(s) \/ (s \in DOMAIN cms /\ ResultWritten(s))
      PROVE  IInv'
  <2>1. s \in Object /\ {s} \cap Task = {} /\ {s} \cap Submission = {s}
    BY ObjectAssumption DEF Object
  <2>2. Bridge!CmsCommit(<<s>>) /\ UNCHANGED <<cmsTask, storedVars, work, swallowed>>
    BY <1>2 DEF Submitted, ResultWritten
  <2>3. /\ DOMAIN cms' = DOMAIN cms \cup {s}
        /\ \A p \in DOMAIN cms \ {s} : cms'[p] = cms[p]
    BY <1>2 DEF Submitted, ResultWritten, Db!Upsert
  <2> QED BY <2>1, <2>2, <2>3, Changed
<1>3. DOMAIN cms \subseteq Submission
  BY DEF IInv, CmsInv
<1> QED BY <1>1, <1>2, <1>3 DEF Cms

(* The statements that read the object of the row. *)
LEMMA ReadStep ==
  ASSUME IInv, NEW o \in Object, o = log[cur], consumer = "handle",
         UNCHANGED <<bridgeVars, storedVars, cmsVars, swallowed>>,
         work' # Idle,
         work'.phase \in {"result", "submission", "task"},
         work'.phase = "task" <=> o \in Task,
         work'.rev = IF work = Idle THEN LastRow(o) ELSE work.rev,
         (work'.rev = LastRow(o)) => AsRead(o)'
  PROVE  IInv'
<1>1. UNCHANGED <<log, unseen, batch, handled, consumer, cur, up, rev, swallowed>>
  BY DEF bridgeVars, storedVars
<1>2. Rows' /\ \A p : LastRow(p)' = LastRow(p)
  BY <1>1, LastRowStays DEF IInv, Rows
<1>3. Effective' = Effective
  BY <1>1 DEF Effective
<1>4. cur \in DOMAIN log /\ DOMAIN log \subseteq Nat /\ IsLast(o, LastRow(o)) /\ rev[o] <= LastRow(o)
  BY DEF IInv, Rows, StoredInv
<1>5. LastRow(o) \in Nat /\ cur <= LastRow(o)
  BY <1>4 DEF IsLast
<1>6. /\ work'.rev \in Nat /\ cur <= work'.rev /\ work'.rev <= LastRow(o)
      /\ rev[o] <= work'.rev
  BY <1>4, <1>5 DEF IInv, WorkInv
<1>7. log'[cur'] = o
  BY <1>1
<1>8. WorkInv'
  BY <1>1, <1>2, <1>6, <1>7 DEF WorkInv, Idle
<1> QED BY <1>1, <1>2, <1>3, <1>8, Quiet

(* The handler. *)
LEMMA HandlerStep ==
  ASSUME IInv, Handler
  PROVE  IInv'
<1>0. Rows /\ WorkInv /\ \A x \in Task : x \notin Submission /\ x \in Object
  BY ObjectAssumption DEF IInv, Object
<1>a. \A x \in Submission : x \in Object
  BY DEF Object
<1>1. ASSUME NEW s \in Submission, ReadResult(s)
      PROVE  IInv'
  <2>1. work = Idle
    BY <1>0, <1>1 DEF ReadResult, WorkInv
  <2>2. /\ work'.phase = "result" /\ work'.status = StatusOf(cms[s].result)
        /\ work'.rev = LastRow(s) /\ work' # Idle
    BY <1>1 DEF ReadResult, Idle
  <2>3. s = log[cur] /\ consumer = "handle" /\ UNCHANGED <<bridgeVars, storedVars, cmsVars, swallowed>>
    BY <1>1 DEF ReadResult, Handling
  <2>4. AsRead(s)'
    BY <2>2, <2>3 DEF AsRead, cmsVars
  <2> QED BY <1>0, <1>a, <2>1, <2>2, <2>3, <2>4, ReadStep
<1>2. ASSUME NEW s \in Submission, ReadScores(s)
      PROVE  IInv'
  <2>1. work # Idle /\ work.phase = "result"
    BY <1>2 DEF ReadScores, Idle
  <2>2. /\ work'.phase = "submission" /\ work'.status = work.status
        /\ work'.scores = Scores(s, work.status)
        /\ work'.rev = work.rev /\ work' # Idle
    BY <1>2 DEF ReadScores, Idle, Scores
  <2>3. s = log[cur] /\ consumer = "handle" /\ UNCHANGED <<bridgeVars, storedVars, cmsVars, swallowed>>
    BY <1>2 DEF ReadScores, Handling
  <2>4. work.rev = LastRow(s) => AsRead(s)'
    <3>1. work.rev = LastRow(s) => work.status = StatusOf(cms[s].result)
      BY <1>0, <2>1, <2>3 DEF WorkInv, AsRead
    <3> QED BY <2>2, <2>3, <3>1 DEF AsRead, cmsVars, Scores
  <2> QED BY <1>0, <1>a, <2>1, <2>2, <2>3, <2>4, ReadStep
<1>3. ASSUME NEW t \in Task, ReadTask(t)
      PROVE  IInv'
  <2>1. work = Idle
    BY <1>0, <1>3 DEF ReadTask, WorkInv
  <2>2. /\ work'.phase = "task" /\ work'.multiplier = cmsTask[t]
        /\ work'.rev = LastRow(t) /\ work' # Idle
    BY <1>3 DEF ReadTask, Idle
  <2>3. t = log[cur] /\ consumer = "handle" /\ UNCHANGED <<bridgeVars, storedVars, cmsVars, swallowed>>
    BY <1>3 DEF ReadTask, Handling
  <2>4. AsRead(t)'
    BY <2>2, <2>3 DEF AsRead, cmsVars
  <2> QED BY <1>0, <2>1, <2>2, <2>3, <2>4, ReadStep
<1>4. ASSUME NEW s \in Submission, StoreSubmission(s) \/ StorePanics(s)
      PROVE  IInv'
  <2>1. /\ s = log[cur] /\ work # Idle /\ work.phase = "submission"
        /\ subs' = Db!Upsert(subs, s, work.scores) /\ UNCHANGED task
        /\ shown' = Db!Upsert(shown, s, work.status)
        /\ Stored(s) /\ work' = Idle /\ UNCHANGED <<cmsVars, swallowed>>
    BY <1>4 DEF StoreSubmission, StorePanics, Handling, Idle, Db!SubmissionStored, Db!SubmissionPanics
  <2>2. Rows' /\ log' = log
    BY <1>0, <1>4, BridgeStep DEF StoreSubmission, StorePanics
  <2>3. Effective' \subseteq Effective \cup {cur}
    BY <1>4, <2>1 DEF StoreSubmission, StorePanics, Bridge!HandlerReturns, Bridge!ProcessEnds, Effective
  <2>4. UNCHANGED <<cms, cmsTask>>
    BY <2>1 DEF cmsVars
  <2>5. ASSUME NEW p \in Object \ {s}, Current(p)
        PROVE  Current(p)'
    BY <2>1, <2>4, <2>5 DEF Current, Scores, Db!Upsert
  <2>6. AsRead(s) => Current(s)'
    <3>1. s \in DOMAIN subs' /\ subs'[s] = work.scores /\ s \in DOMAIN shown' /\ shown'[s] = work.status
      BY <2>1 DEF Db!Upsert
    <3> QED BY <2>1, <2>4, <3>1 DEF AsRead, Current, Scores
  <2> QED BY <1>a, <2>1, <2>2, <2>3, <2>5, <2>6, Copied
<1>5. ASSUME NEW t \in Task, StoreTask(t)
      PROVE  IInv'
  <2>1. /\ t = log[cur] /\ work # Idle /\ work.phase = "task"
        /\ task' = Db!Upsert(task, t, work.multiplier) /\ UNCHANGED <<subs, shown>>
        /\ Stored(t) /\ work' = Idle /\ UNCHANGED <<cmsVars, swallowed>>
    BY <1>5 DEF StoreTask, Handling, Idle, Db!TaskStored
  <2>2. Rows' /\ log' = log
    BY <1>0, <1>5, BridgeStep DEF StoreTask
  <2>3. Effective' \subseteq Effective \cup {cur}
    BY <1>5, <2>1 DEF StoreTask, Bridge!HandlerReturns, Effective
  <2>4. UNCHANGED <<cms, cmsTask>>
    BY <2>1 DEF cmsVars
  <2>5. ASSUME NEW p \in Object \ {t}, Current(p)
        PROVE  Current(p)'
    BY <2>1, <2>4, <2>5 DEF Current, Scores, Db!Upsert
  <2>6. AsRead(t) => Current(t)'
    <3>1. t \in DOMAIN task' /\ task'[t] = work.multiplier
      BY <2>1 DEF Db!Upsert
    <3> QED BY <1>0, <2>1, <2>4, <3>1 DEF AsRead, Current
  <2> QED BY <1>0, <2>1, <2>2, <2>3, <2>5, <2>6, Copied
<1>6. CASE \/ StoreSwallowed \/ HandlerFails
           \/ /\ Bridge!DeleteRow \/ Bridge!DeleteFails
              /\ UNCHANGED <<storedVars, cmsVars, work, swallowed>>
  <2>1. Rows' /\ log' = log
    BY <1>0, <1>6, BridgeStep DEF StoreSwallowed, HandlerFails
  <2>2. UNCHANGED <<cmsVars, storedVars>> /\ (work' = Idle \/ (work' = work /\ consumer # "handle"))
    BY <1>6 DEF StoreSwallowed, HandlerFails, Bridge!DeleteRow, Bridge!DeleteFails
  <2>3. UNCHANGED rev
    BY <2>2 DEF storedVars
  <2>4. Effective' \subseteq Effective
    BY <1>6 DEF StoreSwallowed, HandlerFails, Effective, Bridge!HandlerReturns, Bridge!HandlerFails,
                Bridge!DeleteRow, Bridge!DeleteFails
  <2>5. WorkInv'
    BY <1>0, <2>1, <2>2, <2>3, WorkKept
  <2> QED BY <2>1, <2>2, <2>4, <2>5, Quiet
<1> QED BY <1>1, <1>2, <1>3, <1>4, <1>5, <1>6 DEF Handler

(* Every step of the system keeps the inductive invariant.                 *)
LEMMA IInvStep == IInv /\ [Next]_vars => IInv'
<1> SUFFICES ASSUME IInv, [Next]_vars PROVE IInv'
  OBVIOUS
<1>0. Rows /\ WorkInv
  BY DEF IInv
<1>1. CASE Cms
  BY <1>1, CmsStep
<1>2. CASE Handler
  BY <1>2, HandlerStep
<1>3. CASE Start \/ Listening \/ Crash \/ Scanner
  <2>1. Rows' /\ log' = log
    BY <1>0, <1>3, BridgeStep DEF Start, Listening, Crash, Scanner, Bridge!Crash
  <2>2. UNCHANGED <<storedVars, cmsVars, swallowed>>
    BY <1>3 DEF Start, Listening, Crash, Scanner
  <2>3. /\ handled' = handled
        /\ \/ work' = Idle
           \/ work' = work /\ (consumer = "handle" => UNCHANGED <<consumer, cur>>)
    <3> USE DEF Bridge!handling
    <3>1. CASE Crash
      BY <3>1 DEF Crash, Bridge!Crash, Bridge!ProcessEnds
    <3>2. CASE Start \/ Listening
      BY <1>0, <3>2 DEF Start, Listening, Rows, Bridge!Start, Bridge!StartDeaf, Bridge!ListenerFails
    <3>3. CASE Scanner
      BY <3>3 DEF Scanner, Bridge!Scanner, Bridge!ScanSelect, Bridge!ScanMark, Bridge!ScanFails,
                  Bridge!ScanCommitUnacked, Bridge!SendError, Bridge!SendEvent, Bridge!ScanDone, Bridge!Wake
    <3> QED BY <1>3, <3>1, <3>2, <3>3
  <2>4. WorkInv'
    <3>1. UNCHANGED rev
      BY <2>2 DEF storedVars
    <3> QED BY <1>0, <2>1, <2>2, <2>3, <3>1, WorkKept
  <2>5. Effective' \subseteq Effective
    BY <2>2, <2>3 DEF Effective
  <2> QED BY <2>1, <2>2, <2>4, <2>5, Quiet
<1>4. CASE UNCHANGED <<bridgeVars, cmsVars, work, shown, rev, swallowed, task, subs>>
  <2>1. UNCHANGED <<log, unseen, batch, handled, consumer, cur, up, cms, cmsTask, work, shown, rev,
                    swallowed, task, subs>>
    BY <1>4 DEF bridgeVars, cmsVars
  <2>2. \A o : /\ LastRow(o)' = LastRow(o) /\ \A k : IsLast(o, k)' <=> IsLast(o, k)
               /\ Current(o)' <=> Current(o)
               /\ AsRead(o)' <=> AsRead(o)
    BY <2>1, LastRowStays DEF Current, AsRead, Scores
  <2>3. Rows' /\ CmsInv'
    BY <2>1, <2>2 DEF IInv, Rows, CmsInv
  <2>4. WorkInv'
    BY <2>1, <2>3, <1>0, WorkKept DEF cmsVars
  <2>5. StoredInv'
    BY <2>1, <2>2 DEF IInv, StoredInv, Effective
  <2> QED BY <2>3, <2>4, <2>5 DEF IInv
<1>5. CASE (\E u \in User : UserCreated(u)) \/ Quiescent \/ UNCHANGED vars
  BY <1>4, <1>5 DEF UserCreated, Db!UserCreated, Quiescent, vars, storedVars, dbVars
<1> QED BY <1>1, <1>2, <1>3, <1>5 DEF Next

(* What the handler knows about an object only grows, through crashes,     *)
(* retries and any interleaving with the CMS.                              *)
THEOREM Inductive == Spec => []IInv
BY IInvInit, IInvStep, PTL DEF Spec

(* The newest row of the object was handled, and with an effect. *)
LEMMA CaughtUp ==
  ASSUME IInv, NEW o \in Object, LastRow(o) \in Effective
  PROVE  Current(o) /\ \E i \in DOMAIN log : log[i] = o
<1> PICK e : e = LastRow(o)
  OBVIOUS
<1>1. e \in DOMAIN log /\ e \in Nat \ {0} /\ IsLast(o, e)
  BY DEF IInv, Rows, Effective
<1>2. log[e] = o
  BY <1>1 DEF IsLast
<1>3. e <= rev[o] /\ rev[o] <= e /\ rev[o] \in Nat
  BY <1>2 DEF IInv, StoredInv
<1>4. rev[o] = LastRow(o) /\ rev[o] # 0
  BY <1>1, <1>3
<1> QED BY <1>1, <1>2, <1>4 DEF IInv, StoredInv

(* Once the newest row of an object was handled, the judge holds the       *)
(* object as the CMS has it.                                               *)
THEOREM UpToDate == Spec => []HandledIsCurrent
<1>1. IInv => HandledIsCurrent
  <2> SUFFICES ASSUME IInv PROVE HandledIsCurrent
    OBVIOUS
  <2>1. \A o \in Object : LastRow(o) \in Effective => Current(o)
    BY CaughtUp
  <2>2. DOMAIN cms \subseteq Submission /\ DOMAIN cmsTask \subseteq Task
    BY DEF IInv, CmsInv
  <2> QED BY <2>1, <2>2, ObjectAssumption DEF HandledIsCurrent, Current, Scores, ScoresInCms, Object
<1> QED BY <1>1, Inductive, PTL

(* What users see never goes back to an older state of the CMS. *)
THEOREM NoStepBack == Spec => NeverGoesBack
<1>1. IInv /\ [Next]_vars => [\A o \in Object : rev'[o] >= rev[o]]_vars
  <2> SUFFICES ASSUME IInv, Next PROVE \A o \in Object : rev'[o] >= rev[o]
    OBVIOUS
  <2>0. rev \in [Object -> Nat]
    BY DEF IInv, StoredInv
  <2>1. ASSUME NEW o \in Object, Handling(o), work # Idle, Stored(o)
        PROVE  \A p \in Object : rev'[p] >= rev[p]
    <3>1. work.rev \in Nat /\ rev[o] <= work.rev
      BY <2>1 DEF IInv, WorkInv, Handling
    <3> QED BY <2>0, <2>1, <3>1 DEF Stored
  <2>2. ASSUME NEW s \in Submission, StoreSubmission(s) \/ StorePanics(s)
        PROVE  \A p \in Object : rev'[p] >= rev[p]
    BY <2>1, <2>2 DEF StoreSubmission, StorePanics, Object, Idle
  <2>3. ASSUME NEW t \in Task, StoreTask(t)
        PROVE  \A p \in Object : rev'[p] >= rev[p]
    BY <2>1, <2>3 DEF StoreTask, Object, Idle
  <2>4. CASE UNCHANGED rev
    BY <2>0, <2>4
  <2>5. CASE Cms
    BY <2>4, <2>5 DEF Cms, TaskImported, Submitted, ResultWritten, storedVars
  <2>6. CASE Start \/ Listening \/ Crash \/ Scanner \/ Quiescent \/ \E u \in User : UserCreated(u)
    BY <2>4, <2>6 DEF Start, Listening, Crash, Scanner, Quiescent, UserCreated, storedVars, vars
  <2>7. CASE Handler
    BY <2>2, <2>3, <2>4, <2>7
       DEF Handler, ReadResult, ReadScores, ReadTask, StoreSwallowed, HandlerFails, storedVars
  <2> QED BY <2>5, <2>6, <2>7 DEF Next
<1> QED BY <1>1, Inductive, PTL DEF Spec, NeverGoesBack

------------------------------------------------------------------------------
(* What the bridge's order means for the handler: while it has a row of a  *)
(* submission, no earlier row of a task is still on its way.               *)
Order ==
  /\ scan = "mark" => batch \subseteq unseen
  /\ scan = "push" => \A e \in batch, u \in unseen : e < u
  /\ scan \notin {"mark", "push"} => batch = {}
  /\ ~up => scan = "off"
  /\ consumer = "handle" /\ log[cur] \in Submission =>
       \A t \in 1 .. cur : log[t] \in Task => t \notin unseen \cup batch

(* A new row comes after all others.                                       *)
LEMMA OrderInCms ==
  ASSUME Rows, Order, NEW o \in Object, Bridge!CmsCommit(<<o>>)
  PROVE  Order'
<1>0. PICK n : n = Len(log) + 1
  OBVIOUS
<1>1. /\ DOMAIN log = 1 .. Len(log) /\ Len(log) \in Nat /\ n \in Nat
      /\ \A i \in DOMAIN log : i < n /\ log'[i] = log[i]
  BY <1>0 DEF Rows, Bridge!CmsCommit
<1>2. unseen' = unseen \cup {n} /\ UNCHANGED <<scan, batch, consumer, cur, up>>
  BY <1>0, <1>1 DEF Bridge!CmsCommit, Bridge!scanner, Bridge!handling
<1>3. scan = "push" => \A e \in batch, u \in unseen \cup {n} : e < u
  BY <1>1 DEF Rows, Order
<1>4. ASSUME consumer = "handle", log'[cur] \in Submission
      PROVE  \A t \in 1 .. cur : log'[t] \in Task => t \notin unseen' \cup batch
  <2>1. cur \in DOMAIN log /\ \A t \in 1 .. cur : t \in DOMAIN log /\ t # n
    BY <1>1, <1>4 DEF Rows
  <2>2. \A t \in 1 .. cur : log[t] \in Task => t \notin unseen \cup batch
    BY <1>1, <1>4, <2>1 DEF Order
  <2> QED BY <1>1, <1>2, <2>1, <2>2
<1> QED BY <1>2, <1>3, <1>4 DEF Order

(* The scanner marks what it read before it sends it, tasks first.         *)
LEMMA OrderInBridge ==
  ASSUME Rows, Order,
         \/ Bridge!Start \/ Bridge!StartDeaf \/ Bridge!ListenerFails \/ Bridge!ProcessEnds
         \/ Bridge!Scanner
         \/ Bridge!HandlerReturns \/ Bridge!HandlerFails \/ Bridge!DeleteRow \/ Bridge!DeleteFails
  PROVE  Order'
<1>0. log' = log
  BY BridgeStep
<1> USE <1>0 DEF Bridge!table, Bridge!scanner, Bridge!handling
<1>1. CASE Bridge!Start \/ Bridge!StartDeaf \/ Bridge!ListenerFails \/ Bridge!ProcessEnds
  BY <1>1 DEF Order, Bridge!Start, Bridge!StartDeaf, Bridge!ListenerFails, Bridge!ProcessEnds
<1>2. CASE Bridge!Scanner
  <2>1. CASE Bridge!ScanSelect
    BY <2>1 DEF Order, Bridge!ScanSelect, Bridge!Selected
  <2>2. CASE Bridge!ScanMark \/ Bridge!ScanCommitUnacked
    BY <2>2 DEF Order, Bridge!ScanMark, Bridge!ScanCommitUnacked, Bridge!MarkAllSeen
  <2>3. CASE Bridge!ScanFails \/ Bridge!SendError \/ Bridge!ScanDone \/ Bridge!Wake
    BY <2>3 DEF Order, Bridge!ScanFails, Bridge!SendError, Bridge!ScanDone, Bridge!Wake
  <2>4. CASE Bridge!SendEvent
    <3>1. PICK e \in Bridge!Front(batch) : cur' = e /\ batch' = batch \ {e}
      BY <2>4 DEF Bridge!SendEvent
    <3>2. e \in batch /\ (log[e] \in Submission => \A t \in batch : log[t] \notin Task)
      BY ObjectAssumption DEF Bridge!Front, Bridge!TaskRows
    <3>3. scan = "push" /\ UNCHANGED <<scan, unseen, up>>
      BY <2>4 DEF Bridge!SendEvent
    <3>4. \A t \in 1 .. e : t \notin unseen
      <4>1. e \in Nat /\ \A u \in unseen : e < u
        BY <3>2, <3>3 DEF Order, Rows
      <4> QED BY <4>1
    <3> QED BY <3>1, <3>2, <3>3, <3>4 DEF Order
  <2> QED BY <1>2, <2>1, <2>2, <2>3, <2>4 DEF Bridge!Scanner
<1>3. CASE Bridge!HandlerReturns \/ Bridge!HandlerFails \/ Bridge!DeleteRow \/ Bridge!DeleteFails
  BY <1>3 DEF Order, Bridge!HandlerReturns, Bridge!HandlerFails, Bridge!DeleteRow, Bridge!DeleteFails
<1> QED BY <1>1, <1>2, <1>3

(* A task that was stored stays known. *)
Known == \A t \in Task : rev[t] # 0 => t \in DOMAIN task

(* No step of the handler forgets a task.                                  *)
LEMMA KnownStep ==
  ASSUME IInv, Known, Next
  PROVE  Known'
<1>1. CASE UNCHANGED <<rev, task>>
  BY <1>1 DEF Known
<1>2. ASSUME NEW s \in Submission, StoreSubmission(s) \/ StorePanics(s)
      PROVE  Known'
  <2>1. rev' = [rev EXCEPT ![s] = work.rev] /\ UNCHANGED task
    BY <1>2 DEF StoreSubmission, StorePanics, Stored, Db!SubmissionStored, Db!SubmissionPanics
  <2> QED BY <2>1, ObjectAssumption DEF Known, IInv, StoredInv, Object
<1>3. ASSUME NEW t \in Task, StoreTask(t)
      PROVE  Known'
  <2>1. rev' = [rev EXCEPT ![t] = work.rev] /\ task' = Db!Upsert(task, t, work.multiplier)
    BY <1>3 DEF StoreTask, Stored, Db!TaskStored
  <2> QED BY <2>1 DEF Known, IInv, StoredInv, Object, Db!Upsert
<1>4. CASE Cms \/ Start \/ Listening \/ Crash \/ Scanner \/ Quiescent
  BY <1>1, <1>4 DEF Cms, TaskImported, Submitted, ResultWritten, Start, Listening, Crash, Scanner, Quiescent,
                   vars, storedVars, dbVars
<1>5. CASE \E u \in User : UserCreated(u)
  BY <1>1, <1>5 DEF UserCreated, Db!UserCreated
<1>6. CASE Handler
  BY <1>1, <1>2, <1>3, <1>6
     DEF Handler, ReadResult, ReadScores, ReadTask, StoreSwallowed, HandlerFails, storedVars, dbVars
<1> QED BY <1>4, <1>5, <1>6 DEF Next

(* A commit of the CMS adds a row of the object it changes. *)
LEMMA CmsAddsRow == IInv /\ Cms => \E o \in Object : Bridge!CmsCommit(<<o>>)
<1>1. ASSUME IInv, NEW s \in DOMAIN cms, ResultWritten(s)
      PROVE  \E o \in Object : Bridge!CmsCommit(<<o>>)
  BY <1>1 DEF ResultWritten, IInv, CmsInv, Object
<1> QED BY <1>1 DEF Cms, TaskImported, Submitted, Object

(* The scanner hands out whole batches, one before the next. *)
LEMMA OrderStep == IInv /\ Order /\ [Next]_vars => Order'
<1> SUFFICES ASSUME IInv, Order, [Next]_vars PROVE Order'
  OBVIOUS
<1>0. Rows
  BY DEF IInv
<1>1. CASE Cms
  <2>1. \E o \in Object : Bridge!CmsCommit(<<o>>)
    BY <1>1, CmsAddsRow
  <2> QED BY <1>0, <2>1, OrderInCms
<1>2. CASE UNCHANGED bridgeVars
  BY <1>2 DEF bridgeVars, Order
<1>3. CASE Start \/ Listening \/ Crash \/ Scanner
  BY <1>0, <1>3, OrderInBridge DEF Start, Listening, Crash, Scanner, Bridge!Crash
<1>4. CASE Handler
  BY <1>0, <1>2, <1>4, OrderInBridge
     DEF Handler, ReadResult, ReadScores, StoreSubmission, StorePanics, ReadTask, StoreTask,
         StoreSwallowed, HandlerFails
<1>5. CASE (\E u \in User : UserCreated(u)) \/ Quiescent \/ UNCHANGED vars
  <2>1. UNCHANGED bridgeVars
    BY <1>5 DEF UserCreated, Quiescent, vars
  <2> QED BY <1>2, <2>1
<1> QED BY <1>1, <1>3, <1>4, <1>5 DEF Next

(* So it is in every reachable state.                                      *)
LEMMA OrderAlways == Spec => []Order
<1>1. Init => Order
  BY DEF Init, Bridge!Init, Bridge!Down, Order
<1> QED BY <1>1, OrderStep, Inductive, PTL DEF Spec

(* The handler meets a submission of a task it does not know only if every *)
(* earlier row of the task was lost, given up or handled without effect.   *)
THEOREM UnknownWasLost == Spec => []UnknownTaskWasLost
<1>1. Init => Known
  BY DEF Init, Known, Object
<1>2. IInv /\ Known /\ [Next]_vars => Known'
  BY KnownStep DEF Known, vars, storedVars, dbVars
<1>3. IInv /\ Order /\ Known => UnknownTaskWasLost
  <2> SUFFICES ASSUME IInv, Order, Known, consumer = "handle", log[cur] \in Submission,
                      ProblemOf[log[cur]] \notin DOMAIN task,
                      NEW i \in 1 .. cur, log[i] = ProblemOf[log[cur]]
               PROVE  i \notin unseen \cup Bridge!Custody \cup Effective
    BY DEF UnknownTaskWasLost
  <2>1. log[i] \in Task /\ log[i] # log[cur]
    BY ProblemAssumption, ObjectAssumption
  <2>2. i \notin unseen \cup batch /\ i # cur
    BY <2>1 DEF Order
  <2>3. i \notin Effective
    <3>1. rev[log[i]] = 0
      BY <2>1 DEF Known
    <3> QED BY <3>1 DEF IInv, StoredInv
  <2> QED BY <2>2, <2>3 DEF Bridge!Custody
<1> QED BY <1>1, <1>2, <1>3, OrderAlways, Inductive, PTL DEF Spec

------------------------------------------------------------------------------
(* What the CMS has, what the handler has read of it and what is shown keep *)
(* their types; a row without an effect is one that was handled.           *)
Typed ==
  /\ cms \in [DOMAIN cms -> [result : ResultRow, scores : Vector]]
  /\ cmsTask \in [DOMAIN cmsTask -> Multiplier]
  /\ work.phase \in {"result", "submission"} => work.status \in Status
  /\ work.phase = "submission" => work.scores \in Vector
  /\ work.phase = "task" => work.multiplier \in Multiplier
  /\ DOMAIN shown = DOMAIN subs
  /\ shown \in [DOMAIN shown -> Status]
  /\ swallowed \subseteq handled

(* A submission has one of the statuses.                                   *)
LEMMA StatusType == \A r : StatusOf(r) \in Status
BY DEF StatusOf, Status

(* No step takes a row out of the handled ones, and only a commit that was *)
(* lost makes one ineffective.                                             *)
LEMMA HandledGrows ==
  ASSUME [Next]_vars
  PROVE  /\ handled \subseteq handled'
         /\ swallowed' \subseteq swallowed \/ StoreSwallowed
<1> USE DEF Bridge!table, Bridge!scanner, Bridge!handling
<1>1. CASE Cms
  BY <1>1 DEF Cms, TaskImported, Submitted, ResultWritten, Bridge!CmsCommit
<1>2. CASE Start \/ Listening \/ Crash
  BY <1>2 DEF Start, Listening, Crash, Bridge!Start, Bridge!StartDeaf, Bridge!ListenerFails,
              Bridge!Crash, Bridge!ProcessEnds
<1>3. CASE Scanner
  BY <1>3 DEF Scanner, Bridge!Scanner, Bridge!ScanSelect, Bridge!ScanMark, Bridge!ScanFails,
              Bridge!ScanCommitUnacked, Bridge!SendError, Bridge!SendEvent, Bridge!ScanDone, Bridge!Wake
<1>4. CASE Handler
  BY <1>4 DEF Handler, ReadResult, ReadScores, StoreSubmission, StorePanics, ReadTask, StoreTask,
              HandlerFails, StoreSwallowed, bridgeVars, Bridge!HandlerReturns, Bridge!HandlerFails,
              Bridge!ProcessEnds, Bridge!DeleteRow, Bridge!DeleteFails
<1>5. CASE (\E u \in User : UserCreated(u)) \/ Quiescent \/ UNCHANGED vars
  BY <1>5 DEF UserCreated, Quiescent, vars, bridgeVars
<1> QED BY <1>1, <1>2, <1>3, <1>4, <1>5 DEF Next

(* What the CMS writes. *)
LEMMA TypedInCms ==
  ASSUME IInv, Typed, Cms
  PROVE  /\ cms' \in [DOMAIN cms' -> [result : ResultRow, scores : Vector]]
         /\ cmsTask' \in [DOMAIN cmsTask' -> Multiplier]
         /\ UNCHANGED <<work, shown, subs>>
<1>1. ASSUME NEW t \in Task, NEW m \in Multiplier, TaskImported(t, m)
      PROVE  cmsTask' \in [DOMAIN cmsTask' -> Multiplier] /\ UNCHANGED cms
  BY <1>1 DEF TaskImported, Db!Upsert, Typed
<1>2. ASSUME NEW s \in Submission, Submitted(s)
      PROVE  cms' \in [DOMAIN cms' -> [result : ResultRow, scores : Vector]] /\ UNCHANGED cmsTask
  <2>1. [result |-> NoResult, scores |-> <<>>] \in [result : ResultRow, scores : Vector]
    BY VectorAssumption DEF NoResult, ResultRow
  <2> QED BY <1>2, <2>1 DEF Submitted, Db!Upsert, Typed
<1>3. ASSUME NEW s \in DOMAIN cms, ResultWritten(s)
      PROVE  cms' \in [DOMAIN cms' -> [result : ResultRow, scores : Vector]] /\ UNCHANGED cmsTask
  <2>1. PICK new \in ResultRow, v \in Vector : cms' = [cms EXCEPT ![s] = [result |-> new, scores |-> v]]
    BY <1>3 DEF ResultWritten
  <2> QED BY <1>3, <2>1 DEF ResultWritten, Typed
<1>4. UNCHANGED <<work, shown, subs>>
  BY DEF Cms, TaskImported, Submitted, ResultWritten, storedVars, dbVars
<1> QED BY <1>1, <1>2, <1>3, <1>4 DEF Cms, Typed

(* What the handler reads and stores. *)
LEMMA TypedInHandler ==
  ASSUME IInv, Typed, Handler
  PROVE  /\ work'.phase \in {"result", "submission"} => work'.status \in Status
         /\ work'.phase = "submission" => work'.scores \in Vector
         /\ work'.phase = "task" => work'.multiplier \in Multiplier
         /\ DOMAIN shown' = DOMAIN subs'
         /\ shown' \in [DOMAIN shown' -> Status]
         /\ UNCHANGED <<cms, cmsTask>>
<1> DEFINE Goal == /\ work'.phase \in {"result", "submission"} => work'.status \in Status
                   /\ work'.phase = "submission" => work'.scores \in Vector
                   /\ work'.phase = "task" => work'.multiplier \in Multiplier
                   /\ DOMAIN shown' = DOMAIN subs'
                   /\ shown' \in [DOMAIN shown' -> Status]
                   /\ UNCHANGED <<cms, cmsTask>>
<1>0. \A o : Handling(o) => o \in DOMAIN cms \cup DOMAIN cmsTask
  BY DEF Handling, IInv, Rows, CmsInv
<1>a. DOMAIN cms \subseteq Submission /\ DOMAIN cmsTask \subseteq Task
  BY DEF IInv, CmsInv
<1>1. CASE \/ StoreSwallowed \/ HandlerFails
           \/ UNCHANGED <<storedVars, cmsVars, work, swallowed>>
  BY <1>1 DEF StoreSwallowed, HandlerFails, cmsVars, storedVars, dbVars, Typed, Idle
<1>2. ASSUME NEW s \in Submission, ReadResult(s) \/ ReadScores(s)
      PROVE  Goal
  <2>1. s \in DOMAIN cms
    BY <1>0, <1>2, <1>a, ObjectAssumption DEF ReadResult, ReadScores
  <2>2. cms[s].scores \in Vector /\ UNCHANGED <<cms, cmsTask, shown, subs>>
    BY <1>2, <2>1 DEF ReadResult, ReadScores, Typed, cmsVars, storedVars, dbVars
  <2>3. CASE ReadResult(s)
    <3>1. work' = [phase |-> "result", status |-> StatusOf(cms[s].result), rev |-> LastRow(s)]
      BY <2>3 DEF ReadResult
    <3> QED BY <2>2, <3>1, StatusType DEF Typed
  <2>4. CASE ReadScores(s)
    <3>1. /\ work.phase = "result"
          /\ work'.phase = "submission" /\ work'.status = work.status
          /\ work'.scores = IF work.status = "scored" THEN cms[s].scores ELSE <<>>
      BY <2>4 DEF ReadScores
    <3> QED BY <2>2, <3>1, VectorAssumption DEF Typed
  <2> QED BY <1>2, <2>3, <2>4
<1>3. ASSUME NEW t \in Task, ReadTask(t)
      PROVE  Goal
  <2>1. t \in DOMAIN cmsTask
    BY <1>0, <1>3, <1>a, ObjectAssumption DEF ReadTask
  <2> QED BY <1>3, <2>1 DEF ReadTask, Typed, cmsVars, storedVars, dbVars
<1>4. ASSUME NEW s \in Submission, StoreSubmission(s) \/ StorePanics(s)
      PROVE  Goal
  <2>1. /\ work.phase = "submission" /\ work' = Idle
        /\ subs' = Db!Upsert(subs, s, work.scores)
        /\ shown' = Db!Upsert(shown, s, work.status)
        /\ UNCHANGED <<cms, cmsTask>>
    BY <1>4 DEF StoreSubmission, StorePanics, Db!SubmissionStored, Db!SubmissionPanics, cmsVars
  <2> QED BY <2>1 DEF Typed, Idle, Db!Upsert
<1>5. ASSUME NEW t \in Task, StoreTask(t)
      PROVE  Goal
  BY <1>5 DEF StoreTask, Db!TaskStored, Typed, Idle, cmsVars
<1> HIDE DEF Goal
<1>6. Goal
  <2>1. CASE UNCHANGED <<storedVars, cmsVars, work, swallowed>> \/ StoreSwallowed \/ HandlerFails
    BY <1>1, <2>1 DEF Goal
  <2> QED BY <1>2, <1>3, <1>4, <1>5, <2>1 DEF Handler
<1> QED BY <1>6 DEF Goal

(* Every step keeps these types.                                           *)
LEMMA TypedStep == IInv /\ Typed /\ [Next]_vars => Typed'
<1> SUFFICES ASSUME IInv, Typed, [Next]_vars PROVE Typed'
  OBVIOUS
<1>1. swallowed' \subseteq handled'
  <2>1. CASE StoreSwallowed
    BY <2>1 DEF StoreSwallowed, Bridge!HandlerReturns, Typed
  <2>2. CASE ~StoreSwallowed
    BY <2>2, HandledGrows DEF Typed
  <2> QED BY <2>1, <2>2
<1>2. CASE UNCHANGED <<cms, cmsTask, shown, subs>> /\ (work' = Idle \/ work' = work)
  BY <1>1, <1>2 DEF Typed, Idle
<1>3. CASE Cms
  BY <1>1, <1>3, TypedInCms DEF Typed
<1>4. CASE Handler
  BY <1>1, <1>4, TypedInHandler DEF Typed
<1>5. CASE Start \/ Listening \/ Crash \/ Scanner \/ Quiescent \/ UNCHANGED vars
  BY <1>2, <1>5 DEF Start, Listening, Crash, Scanner, Quiescent, vars, cmsVars, storedVars, dbVars
<1>6. CASE \E u \in User : UserCreated(u)
  BY <1>2, <1>6 DEF UserCreated, Db!UserCreated, cmsVars
<1> QED BY <1>3, <1>4, <1>5, <1>6 DEF Next

(* So they hold in every reachable state.                                  *)
LEMMA TypedAlways == Spec => []Typed
<1>1. Init => Typed
  BY DEF Init, Bridge!Init, Bridge!Down, Db!Init, Db!Empty, Typed, Idle
<1> QED BY <1>1, Inductive, TypedStep, PTL DEF Spec

(* However rows are lost, delayed or handled twice, the tables of the      *)
(* judge change only as Updater says: the whole system implements it, and  *)
(* what holds of every behaviour of Updater holds of the system.           *)
THEOREM ImplementsUpdater == Spec => Db!Spec
<1>1. Init => Db!Init
  BY DEF Init
<1>2. Typed /\ [Next]_vars => [Db!Next]_(Db!vars)
  <2> SUFFICES ASSUME Typed, [Next]_vars PROVE Db!Next \/ UNCHANGED dbVars
    BY DEF Db!vars, dbVars
  <2>1. ASSUME NEW s \in Submission, StoreSubmission(s) \/ StorePanics(s)
        PROVE  Db!Next
    BY <2>1 DEF StoreSubmission, StorePanics, Typed, Db!Next
  <2>2. ASSUME NEW t \in Task, StoreTask(t)
        PROVE  Db!Next
    BY <2>2 DEF StoreTask, Typed, Db!Next
  <2>3. ASSUME NEW u \in User, UserCreated(u)
        PROVE  Db!Next
    BY <2>3 DEF UserCreated, Db!Next
  <2>4. CASE Cms
    BY <2>4 DEF Cms, TaskImported, Submitted, ResultWritten, storedVars
  <2>5. CASE Handler
    BY <2>1, <2>2, <2>5
       DEF Handler, ReadResult, ReadScores, ReadTask, StoreSwallowed, HandlerFails, storedVars
  <2>6. CASE Start \/ Listening \/ Crash \/ Scanner \/ Quiescent \/ UNCHANGED vars
    BY <2>6 DEF Start, Listening, Crash, Scanner, Quiescent, storedVars, vars
  <2> QED BY <2>3, <2>4, <2>5, <2>6 DEF Next
<1> QED BY <1>1, <1>2, TypedAlways, PTL DEF Spec, Db!Spec

(* What a step of the system does with the bridge. *)
LEMMA BridgeStepOf ==
  ASSUME IInv, [Next]_vars
  PROVE  Bridge!Next \/ Bridge!ProcessEnds \/ UNCHANGED Bridge!vars
<1>1. ASSUME NEW o \in Object, Bridge!CmsCommit(<<o>>)
      PROVE  Bridge!Next
  <2>1. <<o>> \in [1 .. 1 -> Object] /\ 1 \in 1 .. MaxCommit
    BY BoundAssumption
  <2>2. <<o>> \in Bridge!Writes
    BY <2>1 DEF Bridge!Writes, Bridge!Object, Object
  <2> QED BY <1>1, <2>2 DEF Bridge!Next, Bridge!Cms
<1>2. CASE Cms
  <2>1. \E o \in Object : Bridge!CmsCommit(<<o>>)
    BY <1>2, CmsAddsRow
  <2> QED BY <1>1, <2>1
<1>3. CASE Start \/ Listening \/ Crash \/ Scanner
  BY <1>3 DEF Start, Listening, Crash, Scanner, Bridge!Next
<1>4. CASE Handler
  <2>1. CASE Bridge!HandlerReturns \/ Bridge!HandlerFails \/ Bridge!DeleteRow \/ Bridge!DeleteFails
    BY <2>1 DEF Bridge!Next, Bridge!Consumer
  <2>2. CASE UNCHANGED bridgeVars
    BY <2>2 DEF bridgeVars, Bridge!vars, Bridge!table, Bridge!process, Bridge!scanner, Bridge!handling
  <2> QED BY <1>4, <2>1, <2>2
          DEF Handler, ReadResult, ReadScores, StoreSubmission, StorePanics, ReadTask, StoreTask,
              StoreSwallowed, HandlerFails
<1>5. CASE (\E u \in User : UserCreated(u)) \/ Quiescent \/ UNCHANGED vars
  BY <1>5 DEF UserCreated, Quiescent, vars, bridgeVars,
              Bridge!vars, Bridge!table, Bridge!process, Bridge!scanner, Bridge!handling
<1> QED BY <1>2, <1>3, <1>4, <1>5 DEF Next

(* The bridge is used as EventBridge says, the panic of the handler being  *)
(* one of its crashes: the whole system implements it.                     *)
THEOREM ImplementsBridge == "crash" \in Faults => (Spec => Bridge!Spec)
<1> SUFFICES ASSUME "crash" \in Faults PROVE Spec => Bridge!Spec
  OBVIOUS
<1>1. Init => Bridge!Init
  BY DEF Init
<1>2. IInv /\ [Next]_vars => [Bridge!Next]_(Bridge!vars)
  BY BridgeStepOf DEF Bridge!Next, Bridge!Crash
<1> QED BY <1>1, <1>2, Inductive, PTL DEF Spec, Bridge!Spec

------------------------------------------------------------------------------
(* The theorems about the two components, for the components as they are   *)
(* used here.  No dataset is looked at here, only what is stored of it.  A *)
(* panic of the handler is a crash of the bridge, so that the bridge here  *)
(* is one that may crash, whatever the faults.                             *)
DbProofs == INSTANCE UpdaterProofs WITH Dataset <- {}, Full <- 1
BridgeProofs == INSTANCE EventBridgeProofs WITH Faults <- Faults \cup {"crash"}

(* The operators of Updater are those its theorems are about. *)
LEMMA SameScores ==
  /\ \A f : Db!BaseScore(f) = DbProofs!BaseScore(f)
  /\ \A f : Db!BestScore(f) = DbProofs!BestScore(f)
<1> USE DEF Db!SumFunction, DbProofs!SumFunction, Db!SumFunctionOnSet, DbProofs!SumFunctionOnSet,
            Db!FoldFunction, DbProofs!FoldFunction, Db!FoldFunctionOnSet, DbProofs!FoldFunctionOnSet,
            Db!MapThenFoldSet, DbProofs!MapThenFoldSet
<1>1. \A f : Db!BaseScore(f) = DbProofs!BaseScore(f)
  BY DEF Db!BaseScore, DbProofs!BaseScore, Db!BySubtask, DbProofs!BySubtask,
         Db!Merge, DbProofs!Merge, Db!Larger, DbProofs!Larger
<1>2. \A f : Db!BestScore(f) = DbProofs!BestScore(f)
  BY DEF Db!BestScore, DbProofs!BestScore, Db!SubtasksOf, DbProofs!SubtasksOf,
         Db!BestInSubtask, DbProofs!BestInSubtask
<1> QED BY <1>1, <1>2

(* And so are its steps.                                                   *)
LEMMA SameNext == Db!Next <=> DbProofs!Next
<1> USE DEF Db!Pair, DbProofs!Pair, Db!Upsert, DbProofs!Upsert, Db!vars, DbProofs!vars
<1>1. \A t, p : Db!GetAllScores(t, p) = DbProofs!GetAllScores(t, p)
  BY DEF Db!GetAllScores, DbProofs!GetAllScores
<1>2. \A s, v : Db!SubmissionStored(s, v) <=> DbProofs!SubmissionStored(s, v)
  BY <1>1, SameScores
     DEF Db!SubmissionStored, DbProofs!SubmissionStored, Db!Recalculate, DbProofs!Recalculate,
         Db!SaveUserScore, DbProofs!SaveUserScore,
         Db!IncrementUserScore, DbProofs!IncrementUserScore,
         Db!GetUserTaskScore, DbProofs!GetUserTaskScore
<1> QED BY <1>2
     DEF Db!Next, DbProofs!Next, Db!SubmissionPanics, DbProofs!SubmissionPanics,
         Db!SubmissionRefused, DbProofs!SubmissionRefused, Db!TaskStored, DbProofs!TaskStored,
         Db!UserCreated, DbProofs!UserCreated

(* The system implements the Updater that the theorems are about.          *)
LEMMA UpdaterHolds == Spec => DbProofs!Spec
<1>1. Db!Init <=> DbProofs!Init
  BY DEF Db!Init, DbProofs!Init, Db!Empty, DbProofs!Empty
<1>2. [Db!Next]_(Db!vars) <=> [DbProofs!Next]_(DbProofs!vars)
  BY SameNext DEF Db!vars, DbProofs!vars
<1> QED BY <1>1, <1>2, ImplementsUpdater, PTL DEF Db!Spec, DbProofs!Spec

(* What holds of the judge's tables in any behaviour of Updater. *)
TablesRight ==
  /\ Db!TypeOK
  /\ Db!BaseIsBest
  /\ Db!TotalIsSum
  /\ Db!EverySubmissionCounts
  /\ Db!ScoreUsesMultiplier

(* However the rows of the CMS reach the handler, every score is the best  *)
(* of the stored submissions and every total the sum of its scores.        *)
THEOREM ScoresRight == Spec => []TablesRight
<1> USE OwnerAssumption, ProblemAssumption, VectorAssumption, MultiplierAssumption
<1>1. DbProofs!Spec => [](DbProofs!TypeOK /\ DbProofs!Finite)
  BY DbProofs!TypeCorrect
<1>2. DbProofs!Spec => []DbProofs!BaseIsBest
  BY DbProofs!AlwaysBest
<1>3. DbProofs!Spec => []DbProofs!TotalIsSum
  BY DbProofs!TotalAddsUp
<1>4. DbProofs!Spec => []DbProofs!EverySubmissionCounts
  BY DbProofs!AllCount
<1>5. DbProofs!Spec => []DbProofs!ScoreUsesMultiplier
  BY DbProofs!MultiplierUsed
<1>6. DbProofs!TypeOK <=> Db!TypeOK
  BY DEF Db!TypeOK, DbProofs!TypeOK, Db!References, DbProofs!References
<1>7. DbProofs!BaseIsBest <=> Db!BaseIsBest
  BY SameScores
     DEF Db!BaseIsBest, DbProofs!BaseIsBest, Db!RowsOf, DbProofs!RowsOf, Db!Pair, DbProofs!Pair
<1>8. DbProofs!TotalIsSum <=> Db!TotalIsSum
  BY DEF Db!TotalIsSum, DbProofs!TotalIsSum,
         Db!SumFunction, DbProofs!SumFunction, Db!SumFunctionOnSet, DbProofs!SumFunctionOnSet,
         Db!FoldFunction, DbProofs!FoldFunction, Db!FoldFunctionOnSet, DbProofs!FoldFunctionOnSet,
         Db!MapThenFoldSet, DbProofs!MapThenFoldSet
<1>9. DbProofs!EverySubmissionCounts <=> Db!EverySubmissionCounts
  BY DEF Db!EverySubmissionCounts, DbProofs!EverySubmissionCounts, Db!Pair, DbProofs!Pair
<1>10. DbProofs!ScoreUsesMultiplier <=> Db!ScoreUsesMultiplier
  BY DEF Db!ScoreUsesMultiplier, DbProofs!ScoreUsesMultiplier
<1> QED BY <1>1, <1>2, <1>3, <1>4, <1>5, <1>6, <1>7, <1>8, <1>9, <1>10, UpdaterHolds, PTL DEF TablesRight

(* A step of the system moves one task score and its user's total together,*)
(* and lowers a base score only by a re-evaluation.                        *)
THEOREM ScoresMove == Spec => Db!ScoreMovesTogether /\ Db!NewSubmissionNeverLowers
<1> USE OwnerAssumption, ProblemAssumption, VectorAssumption, MultiplierAssumption
<1>1. DbProofs!Spec => DbProofs!ScoreMovesTogether
  BY DbProofs!MovesTogether
<1>2. DbProofs!Spec => DbProofs!NewSubmissionNeverLowers
  BY DbProofs!NeverLowers
<1>3. DbProofs!ScoreMovesTogether <=> Db!ScoreMovesTogether
  BY PTL DEF Db!ScoreMovesTogether, DbProofs!ScoreMovesTogether, Db!vars, DbProofs!vars,
             Db!Rests, DbProofs!Rests, Db!Moves, DbProofs!Moves, Db!ScoreOf, DbProofs!ScoreOf
<1>4. DbProofs!NewSubmissionNeverLowers <=> Db!NewSubmissionNeverLowers
  BY PTL DEF Db!NewSubmissionNeverLowers, DbProofs!NewSubmissionNeverLowers,
             Db!Pair, DbProofs!Pair, Db!vars, DbProofs!vars
<1> QED BY <1>1, <1>2, <1>3, <1>4, UpdaterHolds, PTL

(* A submission that is stored is one of the CMS. *)
StoredExists == DOMAIN subs \subseteq DOMAIN cms

(* The handler stores only what it has read.                               *)
LEMMA StoredExistsStep == IInv /\ StoredExists /\ [Next]_vars => StoredExists'
<1> SUFFICES ASSUME IInv, StoredExists, [Next]_vars PROVE StoredExists'
  OBVIOUS
<1>1. CASE UNCHANGED <<cms, subs>>
  BY <1>1 DEF StoredExists
<1>2. CASE Cms
  <2>1. UNCHANGED subs /\ DOMAIN cms \subseteq DOMAIN cms'
    BY <1>2 DEF Cms, TaskImported, Submitted, ResultWritten, storedVars, dbVars, Db!Upsert
  <2> QED BY <2>1 DEF StoredExists
<1>3. ASSUME NEW s \in Submission, StoreSubmission(s) \/ StorePanics(s)
      PROVE  StoredExists'
  <2>1. Handling(s) /\ subs' = Db!Upsert(subs, s, work.scores) /\ UNCHANGED cms
    BY <1>3 DEF StoreSubmission, StorePanics, Db!SubmissionStored, Db!SubmissionPanics, cmsVars
  <2>2. s \in DOMAIN cms
    BY <2>1, ObjectAssumption DEF Handling, IInv, Rows, CmsInv
  <2> QED BY <2>1, <2>2 DEF StoredExists, Db!Upsert
<1>4. ASSUME NEW t \in Task, StoreTask(t)
      PROVE  StoredExists'
  BY <1>1, <1>4 DEF StoreTask, Db!TaskStored, cmsVars
<1>5. CASE Handler
  BY <1>1, <1>3, <1>4, <1>5
     DEF Handler, ReadResult, ReadScores, ReadTask, StoreSwallowed, HandlerFails, storedVars, dbVars, cmsVars
<1>6. CASE Start \/ Listening \/ Crash \/ Scanner \/ Quiescent \/ UNCHANGED vars
  BY <1>1, <1>6 DEF Start, Listening, Crash, Scanner, Quiescent, vars, cmsVars, storedVars, dbVars
<1>7. CASE \E u \in User : UserCreated(u)
  BY <1>1, <1>7 DEF UserCreated, Db!UserCreated, cmsVars
<1> QED BY <1>2, <1>5, <1>6, <1>7 DEF Next

(* From the evaluations in the CMS to the score that users see: when the   *)
(* newest rows of a user's submissions for a task were handled, the score  *)
(* is the best of what the CMS holds.                                      *)
THEOREM ScoreFollowsCms == Spec => []ScoreIsCurrent
<1>1. Spec => []StoredExists
  <2>1. Init => StoredExists
    BY DEF Init, Db!Init, Db!Empty, StoredExists
  <2> QED BY <2>1, Inductive, StoredExistsStep, PTL DEF Spec
<1>2. ASSUME IInv, TablesRight, StoredExists
      PROVE  ScoreIsCurrent
  <2> SUFFICES ASSUME NEW p \in DOMAIN score
               PROVE  LET InCms == {s \in DOMAIN cms : Db!Pair(s) = p}
                      IN  /\ (\A s \in InCms : LastRow(s) \in Effective)
                               => score[p].base = Db!BestScore([s \in InCms |-> ScoresInCms(s)])
                          /\ LastRow(p[2]) \in Effective /\ p \notin stale
                               => score[p].score = score[p].base * cmsTask[p[2]]
    BY DEF ScoreIsCurrent
  <2> DEFINE InCms == {s \in DOMAIN cms : Db!Pair(s) = p}
  <2>0. DOMAIN cms \subseteq Submission /\ DOMAIN cms \subseteq Object
    BY <1>2 DEF IInv, CmsInv, Object
  <2>1. ASSUME \A s \in InCms : LastRow(s) \in Effective
        PROVE  score[p].base = Db!BestScore([s \in InCms |-> ScoresInCms(s)])
    <3>1. \A s \in InCms : s \in DOMAIN subs /\ subs[s] = ScoresInCms(s)
      <4> SUFFICES ASSUME NEW s \in InCms PROVE s \in DOMAIN subs /\ subs[s] = ScoresInCms(s)
        OBVIOUS
      <4>1. Current(s)
        BY <1>2, <2>0, <2>1, CaughtUp
      <4> QED BY <2>0, <4>1 DEF Current, Scores, ScoresInCms
    <3>2. InCms = {r \in DOMAIN subs : Db!Pair(r) = p}
      BY <1>2, <3>1 DEF StoredExists
    <3>3. Db!RowsOf(p) = [s \in InCms |-> ScoresInCms(s)]
      BY <3>1, <3>2, Zenon DEF Db!RowsOf
    <3> QED BY <1>2, <3>3 DEF TablesRight, Db!BaseIsBest
  <2>2. ASSUME LastRow(p[2]) \in Effective, p \notin stale
        PROVE  score[p].score = score[p].base * cmsTask[p[2]]
    <3>1. p[2] \in Task
      BY <1>2 DEF TablesRight, Db!TypeOK, Db!References
    <3>2. Current(p[2])
      BY <1>2, <2>2, <3>1, CaughtUp DEF Object
    <3>3. task[p[2]] = cmsTask[p[2]]
      BY <3>1, <3>2, ObjectAssumption DEF Current
    <3> QED BY <1>2, <2>2, <3>3 DEF TablesRight, Db!ScoreUsesMultiplier
  <2> QED BY <2>1, <2>2
<1> QED BY <1>1, <1>2, Inductive, ScoresRight, PTL

------------------------------------------------------------------------------
(* A step of the bridge here is one of a bridge that may crash. *)
LEMMA SameBridgeStep ==
  ASSUME Bridge!Next \/ Bridge!ProcessEnds \/ UNCHANGED Bridge!vars
  PROVE  BridgeProofs!Next \/ UNCHANGED BridgeProofs!vars
<1> USE DEF Bridge!vars, BridgeProofs!vars, Bridge!table, BridgeProofs!table,
            Bridge!process, BridgeProofs!process, Bridge!scanner, BridgeProofs!scanner,
            Bridge!handling, BridgeProofs!handling
<1>1. CASE Bridge!Cms
  BY <1>1 DEF BridgeProofs!Next, Bridge!Cms, BridgeProofs!Cms, Bridge!Writes, BridgeProofs!Writes,
              Bridge!Object, BridgeProofs!Object, Bridge!CmsCommit, BridgeProofs!CmsCommit
<1>2. CASE Bridge!Start \/ Bridge!StartDeaf \/ Bridge!ListenerFails \/ Bridge!Crash \/ Bridge!ProcessEnds
  BY <1>2 DEF BridgeProofs!Next, Bridge!Start, BridgeProofs!Start,
              Bridge!StartDeaf, BridgeProofs!StartDeaf, Bridge!ListenerFails, BridgeProofs!ListenerFails,
              Bridge!Crash, BridgeProofs!Crash, Bridge!ProcessEnds, BridgeProofs!ProcessEnds
<1>3. CASE Bridge!Scanner
  BY <1>3 DEF BridgeProofs!Next, Bridge!Scanner, BridgeProofs!Scanner,
              Bridge!ScanSelect, BridgeProofs!ScanSelect, Bridge!Selected, BridgeProofs!Selected,
              Bridge!ScanMark, BridgeProofs!ScanMark, Bridge!MarkAllSeen, BridgeProofs!MarkAllSeen,
              Bridge!ScanFails, BridgeProofs!ScanFails,
              Bridge!ScanCommitUnacked, BridgeProofs!ScanCommitUnacked,
              Bridge!SendError, BridgeProofs!SendError, Bridge!SendEvent, BridgeProofs!SendEvent,
              Bridge!Front, BridgeProofs!Front, Bridge!TaskRows, BridgeProofs!TaskRows,
              Bridge!ScanDone, BridgeProofs!ScanDone, Bridge!Wake, BridgeProofs!Wake
<1>4. CASE Bridge!Consumer
  BY <1>4 DEF BridgeProofs!Next, Bridge!Consumer, BridgeProofs!Consumer,
              Bridge!HandlerReturns, BridgeProofs!HandlerReturns,
              Bridge!HandlerFails, BridgeProofs!HandlerFails,
              Bridge!DeleteRow, BridgeProofs!DeleteRow, Bridge!DeleteFails, BridgeProofs!DeleteFails
<1>5. CASE Bridge!Quiescent \/ UNCHANGED Bridge!vars
  BY <1>5 DEF Bridge!Quiescent
<1> QED BY <1>1, <1>2, <1>3, <1>4, <1>5 DEF Bridge!Next

(* The system implements the bridge that the theorems are about.           *)
LEMMA BridgeHolds == Spec => BridgeProofs!Spec
<1>1. Init => BridgeProofs!Init
  BY DEF Init, Bridge!Init, BridgeProofs!Init, Bridge!Down, BridgeProofs!Down
<1>2. IInv /\ [Next]_vars => [BridgeProofs!Next]_(BridgeProofs!vars)
  BY BridgeStepOf, SameBridgeStep
<1> QED BY <1>1, <1>2, Inductive, PTL DEF Spec, BridgeProofs!Spec

(* What holds of the event rows in any behaviour of EventBridge. *)
RowsRight == Bridge!TypeOK /\ Bridge!ExclusiveCustody /\ Bridge!NoLostWakeup

(* In the whole system, with any faults and the panics of the handler, no  *)
(* row is handed out twice, none is left without a wake-up, tasks go first *)
(* and the rows are delivered at most once.                                *)
THEOREM BridgeRight == Spec => []RowsRight /\ Bridge!TasksFirst /\ Bridge!DeliversAtMostOnce
<1>0. /\ Faults \cup {"crash"} \subseteq BridgeProofs!FaultKind /\ Task \cap Submission = {}
      /\ Retries \in Nat \ {0} /\ MaxRows \in Nat /\ MaxCommit \in Nat \ {0}
  BY ObjectAssumption, BoundAssumption, FaultAssumption DEF BridgeProofs!FaultKind, Bridge!FaultKind
<1>1. BridgeProofs!Spec => []BridgeProofs!TypeOK
  BY <1>0, BridgeProofs!TypeCorrect
<1>2. BridgeProofs!Spec => []BridgeProofs!ExclusiveCustody
  BY <1>0, BridgeProofs!Exclusive
<1>3. BridgeProofs!Spec => []BridgeProofs!NoLostWakeup
  BY <1>0, BridgeProofs!WakeupKept
<1>4. BridgeProofs!Spec => BridgeProofs!TasksFirst
  BY <1>0, BridgeProofs!TasksGoFirst
<1>5. BridgeProofs!Spec => BridgeProofs!DeliversAtMostOnce
  BY <1>0, BridgeProofs!Implements
<1>6. Bridge!TypeOK <=> BridgeProofs!TypeOK
  BY DEF Bridge!TypeOK, BridgeProofs!TypeOK, Bridge!Object, BridgeProofs!Object,
         Bridge!ScanState, BridgeProofs!ScanState, Bridge!ConsumerState, BridgeProofs!ConsumerState
<1>7. Bridge!ExclusiveCustody <=> BridgeProofs!ExclusiveCustody
  BY DEF Bridge!ExclusiveCustody, BridgeProofs!ExclusiveCustody, Bridge!Custody, BridgeProofs!Custody,
         Bridge!Delivery!AtMostOnce, BridgeProofs!Delivery!AtMostOnce
<1>8. Bridge!NoLostWakeup <=> BridgeProofs!NoLostWakeup
  BY DEF Bridge!NoLostWakeup, BridgeProofs!NoLostWakeup
<1>9. Bridge!TasksFirst <=> BridgeProofs!TasksFirst
  BY PTL DEF Bridge!TasksFirst, BridgeProofs!TasksFirst, Bridge!vars, BridgeProofs!vars,
             Bridge!table, BridgeProofs!table, Bridge!process, BridgeProofs!process,
             Bridge!scanner, BridgeProofs!scanner, Bridge!handling, BridgeProofs!handling
<1>10. Bridge!DeliversAtMostOnce <=> BridgeProofs!DeliversAtMostOnce
  <2> USE DEF Bridge!Custody, BridgeProofs!Custody
  <2>1. Bridge!Delivery!Init <=> BridgeProofs!Delivery!Init
    BY DEF Bridge!Delivery!Init, BridgeProofs!Delivery!Init
  <2>2. [Bridge!Delivery!Next]_(Bridge!Delivery!vars)
          <=> [BridgeProofs!Delivery!Next]_(BridgeProofs!Delivery!vars)
    BY DEF Bridge!Delivery!vars, BridgeProofs!Delivery!vars,
           Bridge!Delivery!Next, BridgeProofs!Delivery!Next,
           Bridge!Delivery!Publish, BridgeProofs!Delivery!Publish,
           Bridge!Delivery!Claim, BridgeProofs!Delivery!Claim,
           Bridge!Delivery!Handle, BridgeProofs!Delivery!Handle,
           Bridge!Delivery!Forget, BridgeProofs!Delivery!Forget
  <2> QED BY <2>1, <2>2, PTL
          DEF Bridge!DeliversAtMostOnce, BridgeProofs!DeliversAtMostOnce,
              Bridge!Delivery!Spec, BridgeProofs!Delivery!Spec
<1> QED BY <1>1, <1>2, <1>3, <1>4, <1>5, <1>6, <1>7, <1>8, <1>9, <1>10, BridgeHolds, PTL DEF RowsRight

(* Every variable of the system keeps its type. *)
THEOREM TypeCorrect == Spec => []TypeOK
<1>1. ASSUME IInv, Typed, RowsRight, TablesRight
      PROVE  TypeOK
  <2>1. /\ work.phase \in {"idle", "result", "submission", "task"}
        /\ work.phase # "idle" => consumer = "handle"
    BY <1>1 DEF IInv, WorkInv, Idle
  <2>2. rev \in [Object -> DOMAIN log \cup {0}]
    <3>1. ASSUME NEW o \in Object
          PROVE  rev[o] \in DOMAIN log \cup {0}
      <4>1. log \in Seq(Object) /\ IsLast(o, LastRow(o))
        BY <1>1 DEF IInv, Rows
      <4>2. LastRow(o) \in 0 .. Len(log) /\ DOMAIN log = 1 .. Len(log) /\ Len(log) \in Nat
        BY <4>1 DEF IsLast
      <4>3. rev[o] \in Nat /\ rev[o] <= LastRow(o)
        BY <1>1 DEF IInv, StoredInv
      <4> QED BY <4>2, <4>3
    <3> QED BY <1>1, <3>1 DEF IInv, StoredInv
  <2> QED BY <1>1, <2>1, <2>2 DEF TypeOK, IInv, CmsInv, Typed, RowsRight, TablesRight
<1> QED BY <1>1, Inductive, TypedAlways, BridgeRight, ScoresRight, PTL

------------------------------------------------------------------------------
(* What can make an event row lost: it came between the two statements of  *)
(* a scan; a scan, the handler or its commit failed; or the process ended. *)
Cause(e) ==
  \/ scan = "mark" /\ e \in unseen /\ (e \notin batch \/ "scan" \in Faults)
  \/ consumer = "handle" /\ e = cur /\ ("handler" \in Faults \/ CommitLost)
  \/ e \in Bridge!Custody /\ ~up'

CauseOfLoss ==
  \A e \in DOMAIN log' : Lost(e)' => (e \in DOMAIN log /\ Lost(e)) \/ Cause(e)

(* The row in the handler's hands has not been handled before. *)
InHand ==
  /\ consumer = "handle" => cur \notin handled
  /\ swallowed \subseteq handled

(* That is what exclusive custody means for the handler.                   *)
LEMMA InHandAlways == Spec => []InHand
<1>1. Typed /\ RowsRight => InHand
  BY DEF Typed, RowsRight, InHand, Bridge!ExclusiveCustody, Bridge!Delivery!AtMostOnce, Bridge!Custody
<1> QED BY <1>1, TypedAlways, BridgeRight, PTL

(* A commit of the CMS loses nothing.                                      *)
LEMMA LossInCms ==
  ASSUME Rows, NEW o \in Object, Bridge!CmsCommit(<<o>>), UNCHANGED swallowed
  PROVE  CauseOfLoss
<1>1. \A e \in DOMAIN log' : e \in DOMAIN log \/ e \in unseen'
  BY DEF Rows, Bridge!CmsCommit
<1>2. unseen \subseteq unseen' /\ UNCHANGED <<scan, batch, consumer, cur, handled, swallowed>>
  BY DEF Bridge!CmsCommit, Bridge!scanner, Bridge!handling
<1> QED BY <1>1, <1>2 DEF CauseOfLoss, Lost, Effective, Bridge!Custody

(* The steps of the bridge.                                                *)
LEMMA LossInBridge ==
  ASSUME Rows, Order, InHand, UNCHANGED swallowed,
         \/ Bridge!Start \/ Bridge!StartDeaf \/ Bridge!ListenerFails \/ Bridge!ProcessEnds
         \/ Bridge!Scanner
         \/ Bridge!HandlerReturns \/ Bridge!HandlerFails \/ Bridge!DeleteRow \/ Bridge!DeleteFails
  PROVE  CauseOfLoss
<1>0. log' = log
  BY BridgeStep
<1> USE <1>0 DEF Bridge!table, Bridge!scanner, Bridge!handling, CauseOfLoss, Cause, Lost, Effective, Bridge!Custody
<1>1. CASE Bridge!Start \/ Bridge!StartDeaf \/ Bridge!ListenerFails
  BY <1>1 DEF Rows, Order, Bridge!Start, Bridge!StartDeaf, Bridge!ListenerFails
<1>2. CASE Bridge!ProcessEnds
  BY <1>2 DEF Bridge!ProcessEnds
<1>3. CASE Bridge!Scanner
  <2>1. CASE Bridge!ScanSelect \/ Bridge!ScanFails \/ Bridge!SendError \/ Bridge!Wake
    BY <2>1 DEF Bridge!ScanSelect, Bridge!ScanFails, Bridge!SendError, Bridge!Wake
  <2>2. CASE Bridge!ScanMark
    BY <2>2 DEF Bridge!ScanMark, Bridge!MarkAllSeen
  <2>3. CASE Bridge!ScanCommitUnacked
    BY <2>3 DEF Bridge!ScanCommitUnacked, Bridge!MarkAllSeen
  <2>4. CASE Bridge!ScanDone
    BY <2>4 DEF Bridge!ScanDone
  <2>5. CASE Bridge!SendEvent
    BY <2>5 DEF Bridge!SendEvent
  <2> QED BY <1>3, <2>1, <2>2, <2>3, <2>4, <2>5 DEF Bridge!Scanner
<1>4. CASE Bridge!HandlerReturns
  BY <1>4 DEF Bridge!HandlerReturns, InHand
<1>5. CASE Bridge!HandlerFails
  BY <1>5 DEF Bridge!HandlerFails
<1>6. CASE Bridge!DeleteRow \/ Bridge!DeleteFails
  BY <1>6 DEF Bridge!DeleteRow, Bridge!DeleteFails
<1> QED BY <1>1, <1>2, <1>3, <1>4, <1>5, <1>6

(* The steps of the system.                                                *)
LEMMA LossStep ==
  ASSUME IInv, Order, InHand, [Next]_vars
  PROVE  CauseOfLoss
<1>0. Rows
  BY DEF IInv
<1>1. CASE Cms
  <2>1. \E o \in Object : Bridge!CmsCommit(<<o>>)
    BY <1>1, CmsAddsRow
  <2>2. UNCHANGED swallowed
    BY <1>1 DEF Cms, TaskImported, Submitted, ResultWritten
  <2> QED BY <1>0, <2>1, <2>2, LossInCms
<1>2. CASE StoreSwallowed
  <2>1. CommitLost /\ consumer = "handle" /\ UNCHANGED <<log, unseen, scan, batch>>
        /\ handled' = handled \cup {cur} /\ swallowed' = swallowed \cup {cur} /\ consumer' = "delete"
    BY <1>2 DEF StoreSwallowed, Bridge!HandlerReturns, Bridge!table, Bridge!scanner
  <2> QED BY <2>1 DEF CauseOfLoss, Cause, Lost, Effective, Bridge!Custody
<1>3. CASE \/ Start \/ Listening \/ Crash \/ Scanner
           \/ \E s \in Submission : StoreSubmission(s) \/ StorePanics(s)
           \/ \E t \in Task : StoreTask(t)
           \/ HandlerFails
           \/ (Bridge!DeleteRow \/ Bridge!DeleteFails) /\ UNCHANGED swallowed
  <2>1. UNCHANGED swallowed
    BY <1>3 DEF Start, Listening, Crash, Scanner, StoreSubmission, StorePanics, StoreTask, HandlerFails
  <2>2. \/ Bridge!Start \/ Bridge!StartDeaf \/ Bridge!ListenerFails \/ Bridge!ProcessEnds
        \/ Bridge!Scanner
        \/ Bridge!HandlerReturns \/ Bridge!HandlerFails \/ Bridge!DeleteRow \/ Bridge!DeleteFails
    BY <1>3 DEF Start, Listening, Crash, Bridge!Crash, Scanner, StoreSubmission, StorePanics, StoreTask, HandlerFails
  <2> QED BY <1>0, <2>1, <2>2, LossInBridge
<1>4. CASE \/ \E s \in Submission : ReadResult(s) \/ ReadScores(s)
           \/ \E t \in Task : ReadTask(t)
           \/ \E u \in User : UserCreated(u)
           \/ Quiescent \/ UNCHANGED vars
  <2>1. UNCHANGED <<log, unseen, scan, batch, consumer, cur, handled, swallowed>>
    BY <1>4 DEF ReadResult, ReadScores, ReadTask, UserCreated, Quiescent, vars, bridgeVars
  <2> QED BY <2>1 DEF CauseOfLoss, Lost, Effective, Bridge!Custody
<1> QED BY <1>1, <1>2, <1>3, <1>4 DEF Next, Handler

(* A lost row stays lost. *)
LostForGood == [][\A e \in DOMAIN log : Lost(e) => Lost(e)']_vars

(* No retry, no later scan and no restart brings a lost row back: once it is *)
(* marked seen, or its handler call was given up, only a newer row of the  *)
(* same object can tell the judge of the change.                           *)
THEOREM LossIsForGood == Spec => LostForGood
<1>1. IInv /\ Typed /\ [Next]_vars => swallowed \subseteq swallowed'
  <2> SUFFICES ASSUME Next PROVE swallowed \subseteq swallowed'
    BY DEF vars
  <2>1. CASE Cms
    BY <2>1 DEF Cms, TaskImported, Submitted, ResultWritten
  <2>2. CASE Handler
    BY <2>2 DEF Handler, ReadResult, ReadScores, StoreSubmission, StorePanics, ReadTask, StoreTask,
                StoreSwallowed, HandlerFails
  <2>3. CASE Start \/ Listening \/ Crash \/ Scanner \/ Quiescent \/ \E u \in User : UserCreated(u)
    BY <2>3 DEF Start, Listening, Crash, Scanner, Quiescent, UserCreated, vars
  <2> QED BY <2>1, <2>2, <2>3 DEF Next
<1>2. ASSUME Rows, swallowed \subseteq swallowed', [Bridge!Delivery!Next]_(Bridge!Delivery!vars),
             NEW e \in DOMAIN log, Lost(e)
      PROVE  Lost(e)'
  <2>1. e \in 1 .. Len(log) /\ Len(log) \in Nat
    BY <1>2 DEF Rows
  <2>2. e \notin unseen /\ e \notin Bridge!Custody /\ e \notin Effective
    BY <1>2 DEF Lost
  <2>3. /\ e \notin unseen' /\ e \notin (Bridge!Custody)'
        /\ handled' \subseteq handled \cup Bridge!Custody
    <3> PICK custody : custody = Bridge!Custody
      OBVIOUS
    <3> QED
      BY <1>2, <2>1, <2>2
       DEF Bridge!Delivery!Next, Bridge!Delivery!Publish, Bridge!Delivery!Claim,
           Bridge!Delivery!Handle, Bridge!Delivery!Forget, Bridge!Delivery!vars
  <2> QED BY <1>2, <2>2, <2>3 DEF Lost, Effective
<1>3. IInv => Rows
  BY DEF IInv
<1>4. Rows /\ swallowed \subseteq swallowed' /\ [Bridge!Delivery!Next]_(Bridge!Delivery!vars)
        => [\A e \in DOMAIN log : Lost(e) => Lost(e)']_vars
  BY <1>2
<1> QED BY <1>1, <1>3, <1>4, Inductive, TypedAlways, BridgeRight, PTL
        DEF Spec, LostForGood, Bridge!DeliversAtMostOnce, Bridge!Delivery!Spec

(* A row is lost only if it was committed between the SELECT and the UPDATE *)
(* of a scan, or by the failure of a scan, of the handler or of its commit, *)
(* or because the process ended while it had the row.                      *)
THEOREM LossHasACause == Spec => [][CauseOfLoss]_vars
<1>1. IInv /\ Order /\ InHand /\ [Next]_vars => [CauseOfLoss]_vars
  BY LossStep
<1> QED BY <1>1, Inductive, OrderAlways, InHandAlways, PTL DEF Spec

(* Every task of the CMS has a row, and every row of a submission comes after *)
(* one of its task.                                                        *)
Announced ==
  /\ \A t \in DOMAIN cmsTask : \E i \in DOMAIN log : log[i] = t
  /\ \A s \in DOMAIN cms : ProblemOf[s] \in DOMAIN cmsTask
  /\ \A i \in DOMAIN log : log[i] \in Submission => \E j \in 1 .. i : log[j] = ProblemOf[log[i]]

(* A commit of the CMS.                                                    *)
LEMMA AnnouncedInCms ==
  ASSUME IInv, Announced, NEW o \in Object, Bridge!CmsCommit(<<o>>),
         DOMAIN cmsTask' \subseteq DOMAIN cmsTask \cup {o},
         DOMAIN cmsTask \subseteq DOMAIN cmsTask',
         \A s \in DOMAIN cms' : ProblemOf[s] \in DOMAIN cmsTask,
         o \in Submission => ProblemOf[o] \in DOMAIN cmsTask
  PROVE  Announced'
<1>1. PICK n : n = Len(log) + 1
  OBVIOUS
<1>2. /\ DOMAIN log = 1 .. Len(log) /\ Len(log) \in Nat
      /\ DOMAIN log' = 1 .. n /\ log'[n] = o /\ n \in Nat /\ n = Len(log) + 1
      /\ \A i \in DOMAIN log : i < n /\ log'[i] = log[i]
  BY <1>1 DEF IInv, Rows, Bridge!CmsCommit
<1>3. DOMAIN log \subseteq DOMAIN log' /\ n \in DOMAIN log'
  BY <1>2
<1>4. \A t \in DOMAIN cmsTask' : \E i \in DOMAIN log' : log'[i] = t
  BY <1>2, <1>3 DEF Announced
<1>5. ASSUME NEW i \in DOMAIN log', log'[i] \in Submission
      PROVE  \E j \in 1 .. i : log'[j] = ProblemOf[log'[i]]
  <2>1. CASE i \in DOMAIN log
    <3>1. PICK j \in 1 .. i : log[j] = ProblemOf[log[i]]
      BY <1>2, <1>5, <2>1 DEF Announced
    <3>2. j \in DOMAIN log
      BY <1>2, <2>1
    <3> QED BY <1>2, <2>1, <3>1, <3>2
  <2>2. CASE i = n
    <3>1. PICK j \in DOMAIN log : log[j] = ProblemOf[o]
      BY <1>2, <1>5, <2>2 DEF Announced
    <3>2. j \in 1 .. i
      BY <1>2, <2>2
    <3> QED BY <1>2, <2>2, <3>1, <3>2
  <2> QED BY <1>2, <2>1, <2>2
<1> QED BY <1>4, <1>5 DEF Announced

(* Nothing else touches the rows or the objects of the CMS.                *)
LEMMA AnnouncedStep == IInv /\ Announced /\ [Next]_vars => Announced'
<1> SUFFICES ASSUME IInv, Announced, [Next]_vars PROVE Announced'
  OBVIOUS
<1>1. CASE Cms
  <2>1. ASSUME NEW t \in Task, NEW m \in Multiplier, TaskImported(t, m)
        PROVE  Announced'
    <3>1. DOMAIN cmsTask' = DOMAIN cmsTask \cup {t} /\ cms' = cms /\ Bridge!CmsCommit(<<t>>)
      BY <2>1 DEF TaskImported, Db!Upsert
    <3>2. t \in Object /\ t \notin Submission
      BY ObjectAssumption DEF Object
    <3> QED BY <3>1, <3>2, AnnouncedInCms DEF Announced
  <2>2. ASSUME NEW s \in Submission, Submitted(s)
        PROVE  Announced'
    <3>1. /\ DOMAIN cms' = DOMAIN cms \cup {s} /\ cmsTask' = cmsTask
          /\ Bridge!CmsCommit(<<s>>) /\ ProblemOf[s] \in DOMAIN cmsTask
      BY <2>2 DEF Submitted, Db!Upsert
    <3>2. s \in Object
      BY DEF Object
    <3> QED BY <3>1, <3>2, AnnouncedInCms DEF Announced
  <2>3. ASSUME NEW s \in DOMAIN cms, ResultWritten(s)
        PROVE  Announced'
    <3>1. DOMAIN cms' = DOMAIN cms /\ cmsTask' = cmsTask /\ Bridge!CmsCommit(<<s>>)
      BY <2>3 DEF ResultWritten
    <3>2. s \in Object
      BY DEF IInv, CmsInv, Object
    <3> QED BY <3>1, <3>2, AnnouncedInCms DEF Announced
  <2> QED BY <1>1, <2>1, <2>2, <2>3 DEF Cms
<1>2. ASSUME UNCHANGED <<log, cmsTask, cms>>
      PROVE  Announced'
  BY <1>2 DEF Announced
<1>0. Rows
  BY DEF IInv
<1>3. CASE Start \/ Listening \/ Crash \/ Scanner
  BY <1>0, <1>2, <1>3, BridgeStep DEF Start, Listening, Crash, Bridge!Crash, Scanner, cmsVars
<1>4. CASE Handler
  BY <1>0, <1>2, <1>4, BridgeStep
     DEF Handler, ReadResult, ReadScores, StoreSubmission, StorePanics, ReadTask, StoreTask,
         StoreSwallowed, HandlerFails, cmsVars, bridgeVars
<1>5. CASE (\E u \in User : UserCreated(u)) \/ Quiescent \/ UNCHANGED vars
  BY <1>2, <1>5 DEF UserCreated, Quiescent, vars, bridgeVars, cmsVars
<1> QED BY <1>1, <1>3, <1>4, <1>5 DEF Next

(* No call fails and no process is killed.                                 *)
NothingFails == Faults = {} /\ ~CommitLost

(* The first row lost is one committed between the two statements of a scan. *)
FirstLoss ==
  [][(\A e \in DOMAIN log : ~Lost(e)) =>
       \A e \in DOMAIN log' : Lost(e)' => scan = "mark" /\ e \in unseen \ batch]_vars

(* When nothing fails, the UPDATE without a WHERE clause (store.go:65) is the *)
(* only way in which a change of the CMS gets lost: even the panic on an   *)
(* unknown task comes after a row of that task was lost in this way.       *)
THEOREM OnlyScansLose == NothingFails => (Spec => FirstLoss)
<1> SUFFICES ASSUME NothingFails PROVE Spec => FirstLoss
  OBVIOUS
<1>1. Init => Announced
  BY DEF Init, Bridge!Init, Bridge!Down, Db!Empty, Announced
<1>2. ASSUME IInv, Order, InHand, Announced, UnknownTaskWasLost, [Next]_vars,
             \A e \in DOMAIN log : ~Lost(e), NEW e \in DOMAIN log', Lost(e)'
      PROVE  scan = "mark" /\ e \in unseen \ batch
  <2>1. Cause(e)
    BY <1>2, LossStep DEF CauseOfLoss
  <2>2. SUFFICES ASSUME e \in Bridge!Custody, ~up' PROVE FALSE
    BY <2>1 DEF Cause, NothingFails
  <2>3. up
    BY <1>2, <2>2 DEF Bridge!Custody, Order, IInv, Rows
  <2>4. PICK s \in Submission : StorePanics(s)
    BY <1>2, <2>2, <2>3
       DEF Next, Cms, TaskImported, Submitted, ResultWritten, Bridge!CmsCommit,
           UserCreated, Start, Bridge!Start, Listening, Bridge!StartDeaf, Bridge!ListenerFails,
           Crash, Bridge!Crash, Scanner, Bridge!Scanner, Bridge!ScanSelect, Bridge!ScanMark,
           Bridge!ScanFails, Bridge!ScanCommitUnacked, Bridge!SendError, Bridge!SendEvent,
           Bridge!ScanDone, Bridge!Wake, Handler, ReadResult, ReadScores, StoreSubmission,
           ReadTask, StoreTask, StoreSwallowed, HandlerFails, Bridge!HandlerReturns,
           Bridge!HandlerFails, Bridge!DeleteRow, Bridge!DeleteFails, Quiescent, vars, bridgeVars,
           NothingFails
  <2>5. consumer = "handle" /\ log[cur] = s /\ ProblemOf[s] \notin DOMAIN task
    BY <2>4 DEF StorePanics, Handling, Db!SubmissionPanics
  <2>6. cur \in DOMAIN log /\ log \in Seq(Object)
    BY <1>2, <2>5 DEF IInv, Rows
  <2>7. PICK j \in 1 .. cur : log[j] = ProblemOf[s]
    BY <1>2, <2>5, <2>6 DEF Announced
  <2>8. Lost(j)
    BY <1>2, <2>5, <2>7 DEF UnknownTaskWasLost, Lost
  <2>9. j \in DOMAIN log
    BY <2>6, <2>7
  <2> QED BY <1>2, <2>8, <2>9
<1>3. IInv /\ Order /\ InHand /\ Announced /\ UnknownTaskWasLost /\ [Next]_vars
        => [(\A e \in DOMAIN log : ~Lost(e)) =>
              \A e \in DOMAIN log' : Lost(e)' => scan = "mark" /\ e \in unseen \ batch]_vars
  BY <1>2
<1> QED BY <1>1, <1>3, AnnouncedStep, Inductive, OrderAlways, InHandAlways, UnknownWasLost, PTL DEF Spec, FirstLoss

(* A scored submission is on its way, or shown as scored, or lost. *)
OnTheWayShownOrLost ==
  \A s \in Submission :
    CmsScored(s) => \/ LastRow(s) \in unseen \cup Bridge!Custody
                    \/ ShownScored(s)
                    \/ Lost(LastRow(s))

(* The safe half of ScoredIsShownUnlessLost: when the bridge has nothing   *)
(* more to hand out, every scored submission is shown as scored, unless    *)
(* its last row was lost, for one of the causes above.                     *)
THEOREM NothingElseHidesScores == Spec => []OnTheWayShownOrLost
<1>1. Typed /\ HandledIsCurrent => OnTheWayShownOrLost
  <2> SUFFICES ASSUME Typed, HandledIsCurrent, NEW s \in Submission, CmsScored(s), LastRow(s) \in Effective
               PROVE  ShownScored(s)
    BY DEF OnTheWayShownOrLost, Lost
  <2> QED BY DEF Typed, HandledIsCurrent, CmsScored, ShownScored
<1> QED BY <1>1, TypedAlways, UpToDate, PTL

==============================================================================
