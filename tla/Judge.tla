-------------------------------- MODULE Judge --------------------------------
(***************************************************************************)
(* The whole path of a submission: the CMS stores and evaluates it, the    *)
(* event bridge (EventBridge) carries a row for every change, and the      *)
(* handler (Updater) copies what it then finds in the CMS into the judge's *)
(* database.  A row says which object changed, never how: the handler      *)
(* reads the object when it gets to the row, in several statements, and    *)
(* stores it in another transaction later.                                 *)
(***************************************************************************)
EXTENDS Integers, Sequences, FiniteSets, CmsView

CONSTANTS
  User, Task, Submission, Owner, ProblemOf, Vector, Multiplier,  \* Updater
  Retries, MaxRows, MaxCommit, Faults,                           \* EventBridge
  CommitLost,   \* may a commit of the handler fail?
  MaxImports    \* bound: imports of one task

ASSUME ObjectAssumption == Task \cap Submission = {}
ASSUME OwnerAssumption == Owner \in [Submission -> User]
ASSUME ProblemAssumption == ProblemOf \in [Submission -> Task]
ASSUME VectorAssumption == Vector \subseteq Seq(Nat) /\ <<>> \in Vector
ASSUME MultiplierAssumption == Multiplier \subseteq Int
ASSUME BoundAssumption ==
  /\ Retries \in Nat \ {0}
  /\ MaxRows \in Nat
  /\ MaxCommit \in Nat \ {0}
ASSUME CommitLostAssumption == CommitLost \in BOOLEAN
ASSUME ImportsAssumption == MaxImports \in Nat

VARIABLES
  \* EventBridge
  log, unseen, seen, up, listening, notifs, scan, batch, consumer, cur, tries,
  stranded, handled,
  \* Updater
  total, task, subs, score, orphaned, stale,
  \* the CMS
  cmsTask,    \* tasks -> multiplier embedded in the dataset's description
  cms,        \* tables submissions, submission_results and evaluations
  \* the handler call in progress, and what it stored
  work,       \* what the handler has read so far
  shown,      \* stored submission -> the status shown to its user
  \* history
  rev,        \* object -> the last event row the stored copy accounts for
  swallowed   \* rows whose handler call returned nil without an effect

bridgeVars == <<log, unseen, seen, up, listening, notifs, scan, batch, consumer,
                cur, tries, stranded, handled>>
dbVars == <<total, task, subs, score, orphaned, stale>>
cmsVars == <<cmsTask, cms>>
storedVars == <<dbVars, shown, rev>>
vars == <<bridgeVars, storedVars, cmsVars, work, swallowed>>

Bridge == INSTANCE EventBridge
Db == INSTANCE Updater

ASSUME FaultAssumption == Faults \subseteq Bridge!FaultKind

Object == Task \cup Submission

(* The newest event row of an object, 0 if it has none. *)
LastRow(o) ==
  IF \E i \in DOMAIN log : log[i] = o
  THEN CHOOSE i \in DOMAIN log :
         log[i] = o /\ \A j \in DOMAIN log : log[j] = o => j <= i
  ELSE 0

Idle == [phase |-> "idle"]

TypeOK ==
  /\ Bridge!TypeOK
  /\ Db!TypeOK
  /\ DOMAIN cmsTask \subseteq Task
  /\ cmsTask \in [DOMAIN cmsTask -> Multiplier]
  /\ DOMAIN cms \subseteq Submission
  /\ cms \in [DOMAIN cms -> [result : ResultRow, scores : Vector]]
  /\ work.phase \in {"idle", "result", "submission", "task"}
  /\ work.phase # "idle" => consumer = "handle"
  /\ DOMAIN shown = DOMAIN subs
  /\ shown \in [DOMAIN shown -> Status]
  /\ rev \in [Object -> DOMAIN log \cup {0}]
  /\ swallowed \subseteq handled

Init ==
  /\ Bridge!Init
  /\ Db!Init
  /\ cmsTask = Db!Empty
  /\ cms = Db!Empty
  /\ work = Idle
  /\ shown = Db!Empty
  /\ rev = [o \in Object |-> 0]
  /\ swallowed = {}

------------------------------------------------------------------------------
(* The CMS.  Every change commits together with its event row. *)

(* The loader imports a task, or imports it again. *)
TaskImported(t, m) ==
  /\ Cardinality({i \in DOMAIN log : log[i] = t}) < MaxImports
  /\ cmsTask' = Db!Upsert(cmsTask, t, m)
  /\ Bridge!CmsCommit(<<t>>)
  /\ UNCHANGED <<cms, storedVars, work, swallowed>>

(* MakeSubmission, called by the API for a registered user. *)
Submitted(s) ==
  /\ s \notin DOMAIN cms
  /\ Owner[s] \in DOMAIN total
  /\ ProblemOf[s] \in DOMAIN cmsTask
  /\ cms' = Db!Upsert(cms, s, [result |-> NoResult, scores |-> <<>>])
  /\ Bridge!CmsCommit(<<s>>)
  /\ UNCHANGED <<cmsTask, storedVars, work, swallowed>>

(* The CMS workers: compilation, evaluation, scoring, in this order, and   *)
(* the invalidation of an evaluation, which removes it and its score.      *)
ResultStep(r, new) ==
  \/ r = NoResult /\ new \in {[r EXCEPT !.compilation = "fail"],
                              [r EXCEPT !.compilation = "ok"]}
  \/ /\ r.compilation = "ok" /\ r.evaluation = NULL
     /\ new = [r EXCEPT !.evaluation = "success"]
  \/ /\ r.evaluation = "success" /\ r.details = NULL
     /\ new = [r EXCEPT !.details = "details"]
  \/ /\ r.evaluation = "success"
     /\ new = [r EXCEPT !.evaluation = NULL, !.details = NULL]

ResultWritten(s) ==
  \E new \in ResultRow, v \in Vector :
    /\ ResultStep(cms[s].result, new)
    /\ IF new.evaluation = NULL THEN v = <<>>
       ELSE IF cms[s].result.evaluation = NULL THEN v # <<>>
       ELSE v = cms[s].scores
    /\ cms' = [cms EXCEPT ![s] = [result |-> new, scores |-> v]]
    /\ Bridge!CmsCommit(<<s>>)
    /\ UNCHANGED <<cmsTask, storedVars, work, swallowed>>

------------------------------------------------------------------------------
(* The handler call for row cur. *)
Handling(o) == consumer = "handle" /\ log[cur] = o

(* Mutant of ReadResult: the row carries the object, as of its own commit. *)
ReadResultOfRow(s) ==
  /\ Handling(s)
  /\ work.phase = "idle"
  /\ work' = [phase |-> "result", status |-> StatusOf(cms[s].result), rev |-> cur]
  /\ UNCHANGED <<bridgeVars, storedVars, cmsVars, swallowed>>

(* GetSubmission, first statement: the submission and its result row. *)
ReadResult(s) ==
  /\ Handling(s)
  /\ work.phase = "idle"
  /\ work' = [phase |-> "result", status |-> StatusOf(cms[s].result), rev |-> LastRow(s)]
  /\ UNCHANGED <<bridgeVars, storedVars, cmsVars, swallowed>>

(* Mutant of ReadScores: no early return for what is not scored yet. *)
ReadScoresUnscored(s) ==
  /\ Handling(s)
  /\ work.phase = "result"
  /\ work' = [phase |-> "submission", status |-> work.status, rev |-> work.rev,
              scores |-> cms[s].scores]
  /\ UNCHANGED <<bridgeVars, storedVars, cmsVars, swallowed>>

(* GetSubmission, further statements: a scored submission's evaluations,   *)
(* in a snapshot of their own.                                             *)
ReadScores(s) ==
  /\ Handling(s)
  /\ work.phase = "result"
  /\ work' = [phase |-> "submission", status |-> work.status, rev |-> work.rev,
              scores |-> IF work.status = "scored" THEN cms[s].scores ELSE <<>>]
  /\ UNCHANGED <<bridgeVars, storedVars, cmsVars, swallowed>>

(* The stored copy of o is as of the moment o was read. *)
Stored(o) == rev' = [rev EXCEPT ![o] = work.rev]

StoreSubmission(s) ==
  /\ Handling(s)
  /\ work.phase = "submission"
  /\ Db!SubmissionStored(s, work.scores)
  /\ shown' = Db!Upsert(shown, s, work.status)
  /\ Stored(s)
  /\ work' = Idle
  /\ Bridge!HandlerReturns
  /\ UNCHANGED <<cmsVars, swallowed>>

(* The task is unknown: the submission is committed and the process ends. *)
StorePanics(s) ==
  /\ Handling(s)
  /\ work.phase = "submission"
  /\ Db!SubmissionPanics(s, work.scores)
  /\ shown' = Db!Upsert(shown, s, work.status)
  /\ Stored(s)
  /\ work' = Idle
  /\ Bridge!ProcessEnds
  /\ UNCHANGED <<cmsVars, swallowed>>

(* GetTask and SaveTask. *)
ReadTask(t) ==
  /\ Handling(t)
  /\ work.phase = "idle"
  /\ work' = [phase |-> "task", multiplier |-> cmsTask[t], rev |-> LastRow(t)]
  /\ UNCHANGED <<bridgeVars, storedVars, cmsVars, swallowed>>

(* Mutant of StoreTask: INSERT ... ON CONFLICT DO NOTHING. *)
StoreTaskOnce(t) ==
  /\ Handling(t)
  /\ work.phase = "task"
  /\ Db!TaskStored(t, IF t \in DOMAIN task THEN task[t] ELSE work.multiplier)
  /\ Stored(t)
  /\ work' = Idle
  /\ Bridge!HandlerReturns
  /\ UNCHANGED <<cmsVars, shown, swallowed>>

StoreTask(t) ==
  /\ Handling(t)
  /\ work.phase = "task"
  /\ Db!TaskStored(t, work.multiplier)
  /\ Stored(t)
  /\ work' = Idle
  /\ Bridge!HandlerReturns
  /\ UNCHANGED <<cmsVars, shown, swallowed>>

(* The deferred Close fails to commit.  It assigns the error to err after  *)
(* the result of the call was taken: the handler returns nil all the same. *)
StoreSwallowed ==
  /\ CommitLost
  /\ consumer = "handle"
  /\ work.phase \in {"submission", "task"}
  /\ swallowed' = swallowed \cup {cur}
  /\ work' = Idle
  /\ Bridge!HandlerReturns
  /\ UNCHANGED <<storedVars, cmsVars>>

(* Any statement of the call fails: what it read is dropped. *)
HandlerFails ==
  /\ Bridge!HandlerFails
  /\ work' = Idle
  /\ UNCHANGED <<storedVars, cmsVars, swallowed>>

Handler ==
  \/ \E s \in Submission :
       ReadResult(s) \/ ReadScores(s) \/ StoreSubmission(s) \/ StorePanics(s)
  \/ \E t \in Task : ReadTask(t) \/ StoreTask(t)
  \/ StoreSwallowed
  \/ HandlerFails
  \/ /\ Bridge!DeleteRow \/ Bridge!DeleteFails
     /\ UNCHANGED <<storedVars, cmsVars, work, swallowed>>

------------------------------------------------------------------------------
Cms ==
  \/ \E t \in Task, m \in Multiplier : TaskImported(t, m)
  \/ \E s \in Submission : Submitted(s)
  \/ \E s \in DOMAIN cms : ResultWritten(s)

UserCreated(u) ==
  /\ Db!UserCreated(u)
  /\ UNCHANGED <<bridgeVars, cmsVars, work, shown, rev, swallowed>>

(* Mutant of Crash: what was read survives, and is stored for another row. *)
CrashKeepsWork ==
  /\ Bridge!Crash
  /\ UNCHANGED <<storedVars, cmsVars, work, swallowed>>

Crash ==
  /\ Bridge!Crash
  /\ work' = Idle
  /\ UNCHANGED <<storedVars, cmsVars, swallowed>>

Start ==
  /\ Bridge!Start
  /\ UNCHANGED <<storedVars, cmsVars, work, swallowed>>

Listening ==
  /\ Bridge!StartDeaf \/ Bridge!ListenerFails
  /\ UNCHANGED <<storedVars, cmsVars, work, swallowed>>

Scanner ==
  /\ Bridge!Scanner
  /\ UNCHANGED <<storedVars, cmsVars, work, swallowed>>

(* The goroutines wait for the CMS, which may have no further change.  Any *)
(* other state without a successor is a deadlock.                          *)
Quiescent ==
  /\ Bridge!AtRest
  /\ UNCHANGED vars

Next ==
  \/ Cms
  \/ \E u \in User : UserCreated(u)
  \/ Start \/ Listening \/ Crash
  \/ Scanner
  \/ Handler
  \/ Quiescent

Spec == Init /\ [][Next]_vars

(* The process is started, and started again; its goroutines' database     *)
(* calls return.  The CMS and the users may stop at any point.             *)
Fairness == WF_vars(Start) /\ WF_vars(Scanner) /\ WF_vars(Handler)

FairSpec == Spec /\ Fairness

------------------------------------------------------------------------------
Effective == handled \ swallowed

(* The scores a submission is to count with, from what the CMS has of it. *)
ScoresInCms(s) ==
  IF StatusOf(cms[s].result) = "scored" THEN cms[s].scores ELSE <<>>

(* Once the newest row of an object has been handled, the judge holds the  *)
(* object as the CMS has it: although rows carry no content, are delivered *)
(* late, out of order and several to one object, and an object is read in  *)
(* several statements while the CMS changes it.                            *)
HandledIsCurrent ==
  /\ \A s \in DOMAIN cms : LastRow(s) \in Effective =>
       /\ s \in DOMAIN subs
       /\ shown[s] = StatusOf(cms[s].result)
       /\ subs[s] = ScoresInCms(s)
  /\ \A t \in DOMAIN cmsTask : LastRow(t) \in Effective =>
       t \in DOMAIN task /\ task[t] = cmsTask[t]

(* Once that is so for every submission of a user for a task, the base     *)
(* score is the best of every subtask over the evaluations in the CMS; and *)
(* the score is that times the task's multiplier there, unless the task    *)
(* was stored with another one since.                                      *)
ScoreIsCurrent ==
  \A p \in DOMAIN score :
    LET InCms == {s \in DOMAIN cms : Db!Pair(s) = p}
    IN  /\ (\A s \in InCms : LastRow(s) \in Effective)
             => score[p].base = Db!BestScore([s \in InCms |-> ScoresInCms(s)])
        /\ LastRow(p[2]) \in Effective /\ p \notin stale
             => score[p].score = score[p].base * cmsTask[p[2]]

(* What users see never goes back to an older state of the CMS. *)
NeverGoesBack == [][\A o \in Object : rev'[o] >= rev[o]]_vars

(* Tasks first, end to end: the handler meets a submission of a task it    *)
(* does not know only if every row of the task that precedes the           *)
(* submission's row was lost, given up or handled without effect.          *)
UnknownTaskWasLost ==
  (consumer = "handle" /\ log[cur] \in Submission /\ ProblemOf[log[cur]] \notin DOMAIN task)
    => \A i \in 1 .. cur :
         log[i] = ProblemOf[log[cur]] => i \notin unseen \cup Bridge!Custody \cup Effective

(* A submission that stays scored in the CMS is shown as scored, unless    *)
(* its last row was lost on the way.                                       *)
Lost(e) == e \notin unseen \cup Bridge!Custody \cup Effective

CmsScored(s) == s \in DOMAIN cms /\ StatusOf(cms[s].result) = "scored"
ShownScored(s) == s \in DOMAIN shown /\ shown[s] = "scored"

ScoredIsShownUnlessLost ==
  \A s \in Submission :
    <>[]CmsScored(s) => <>[](ShownScored(s) \/ Lost(LastRow(s)))

(* What the tests wait for (scripts/src/oia/tests.py:156-160): the judge   *)
(* comes to show a scored submission as scored.                            *)
ScoredIsShown ==
  \A s \in Submission : <>[]CmsScored(s) => <>ShownScored(s)

==============================================================================
