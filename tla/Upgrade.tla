------------------------------- MODULE Upgrade -------------------------------
(***************************************************************************)
(* Starting the judge on the databases an older release left behind.       *)
(* MakeClientWithInitScript runs the scripts whose version is not recorded *)
(* yet, in order, in one transaction: first those of the bridge            *)
(* (CreateCmsBridge), then those of the judge (RunServer).  An error ends  *)
(* the process, which may be started again.                                *)
(*                                                                         *)
(* The bridge's scripts put triggers on the tables of the CMS and queue    *)
(* what is already there, while the CMS goes on writing.  CREATE TRIGGER   *)
(* waits for the open transactions that wrote the table, and keeps later   *)
(* writers out until it is committed.                                      *)
(***************************************************************************)
EXTENDS UserIds, Sequences

CONSTANTS
  Task,         \* CMS task ids
  Submission,   \* CMS submission ids
  Writer,       \* transaction slots of the CMS
  MaxWrites,    \* bound: rows the CMS writes
  MaxStarts,    \* bound: starts of the process
  OldIds,       \* ids of people before the migration of ids
  CmsIds        \* the ids the CMS may know them by

Object == Task \cup Submission

ASSUME ObjectAssumption == Task \cap Submission = {}
ASSUME IdAssumption ==
  /\ OldIds \in [Person -> UserId]
  /\ Unique(OldIds)
  /\ CmsIds \subseteq {f \in [Person -> UserId] : Unique(f)}
ASSUME PersonAssumption == Person # {}
ASSUME BoundAssumption == MaxWrites \in Nat /\ MaxStarts \in Nat

CmsTable == {"tasks", "submissions", "submission_results"}

(* A row of a table makes the triggers report this object. *)
Reports(t) == IF t = "tasks" THEN Task ELSE Submission

Queue(v, S) == [version |-> v, queue |-> S, trigger |-> {}]
Trigger(v, t) == [version |-> v, queue |-> {}, trigger |-> {t}]

(* Mutant of BridgeScript: 002 does not queue the tasks again. *)
BridgeScriptQueuesOnce == <<
  Queue(1, Task),
  Trigger(1, "submission_results"), Trigger(1, "submissions"), Trigger(1, "tasks"),
  Queue(2, {}),
  Queue(3, Submission) >>

(* The statements of the bridge's scripts 001, 002 and 003 that matter.    *)
BridgeScript == <<
  Queue(1, Task),
  Trigger(1, "submission_results"), Trigger(1, "submissions"), Trigger(1, "tasks"),
  Queue(2, Task),
  Queue(3, Submission) >>

Version == 1 .. 3

VARIABLES
  \* durable
  exists,     \* objects of the CMS
  open,       \* rows each open transaction of the CMS has written
  fired,      \* objects for which triggers have inserted events in it
  triggers,   \* tables with a trigger
  versions,   \* recorded in cmsbridge_migrations
  tables,     \* the judge's tables
  remapped,   \* is 002 recorded in oiajudge_migrations?
  \* the process
  pc,         \* control state
  release,    \* the newest of the bridge's scripts in this program
  at,         \* the next statement
  made,       \* triggers created in the open transaction
  claimed,    \* objects queued in it
  ran,        \* versions run in it
  work,       \* the judge's tables as its transaction sees them
  \* history
  dirty,      \* objects changed since their last committed event
  times,      \* how often a script was run and committed
  writes, starts

cms == <<exists, open, fired, dirty, writes>>
installed == <<triggers, versions>>
transaction == <<at, made, claimed, ran, work>>
vars == <<cms, installed, tables, remapped, pc, release, transaction, times, starts>>

TypeOK ==
  /\ exists \subseteq Object
  /\ open \in [Writer -> SUBSET (CmsTable \X Object)]
  /\ fired \in [Writer -> SUBSET Object]
  /\ triggers \subseteq CmsTable
  /\ versions \subseteq Version
  /\ tables \in Tables
  /\ remapped \in BOOLEAN
  /\ pc \in {"down", "bridge", "judge", "serving"}
  /\ release \in Version
  /\ at \in 1 .. ScriptLength + 1
  /\ made \subseteq CmsTable
  /\ claimed \subseteq Object
  /\ ran \subseteq Version
  /\ work \in Tables
  /\ dirty \subseteq Object
  /\ times \in [Version -> Nat]
  /\ writes \in 0 .. MaxWrites
  /\ starts \in 0 .. MaxStarts

(* A database the judge has not been installed on yet, and one with users  *)
(* of a release without the migration of ids.                              *)
Init ==
  /\ exists \in SUBSET Object
  /\ open = [w \in Writer |-> {}]
  /\ fired = [w \in Writer |-> {}]
  /\ triggers = {}
  /\ versions = {}
  /\ \E f \in CmsIds : tables \in OldTables(OldIds, f)
  /\ remapped = FALSE
  /\ pc = "down"
  /\ release = 1
  /\ at = 1
  /\ made = {}
  /\ claimed = {}
  /\ ran = {}
  /\ work = tables
  /\ dirty = exists
  /\ times = [v \in Version |-> 0]
  /\ writes = 0
  /\ starts = 0

------------------------------------------------------------------------------
(* A transaction of the CMS inserts or updates a row.  It waits for a lock *)
(* of CREATE TRIGGER; whether a trigger fires is settled here.             *)
CmsWrite(w, t, o) ==
  /\ writes < MaxWrites
  /\ o \in Reports(t)
  /\ t \notin made
  /\ open' = [open EXCEPT ![w] = @ \cup {<<t, o>>}]
  /\ fired' = [fired EXCEPT ![w] = IF t \in triggers THEN @ \cup {o} ELSE @]
  /\ writes' = writes + 1
  /\ UNCHANGED <<exists, dirty, installed, tables, remapped, pc, release, transaction, times, starts>>

Changed(w) == {x[2] : x \in open[w]}

CmsCommit(w) ==
  /\ open[w] # {}
  /\ exists' = exists \cup Changed(w)
  /\ dirty' = (dirty \cup Changed(w)) \ fired[w]
  /\ open' = [open EXCEPT ![w] = {}]
  /\ fired' = [fired EXCEPT ![w] = {}]
  /\ UNCHANGED <<writes, installed, tables, remapped, pc, release, transaction, times, starts>>

(* Also when the deadlock detector picks it, and not the migration. *)
CmsAbort(w) ==
  /\ open[w] # {}
  /\ open' = [open EXCEPT ![w] = {}]
  /\ fired' = [fired EXCEPT ![w] = {}]
  /\ UNCHANGED <<exists, dirty, writes, installed, tables, remapped, pc, release, transaction, times, starts>>

------------------------------------------------------------------------------
(* No transaction is open any more. *)
NoTransaction ==
  /\ at' = 1
  /\ made' = {}
  /\ claimed' = {}
  /\ ran' = {}
  /\ work' = tables'

(* A program is started, never an older one than the database knows. *)
Start(k) ==
  /\ pc = "down"
  /\ starts < MaxStarts
  /\ \A v \in versions : v <= k
  /\ starts' = starts + 1
  /\ release' = k
  /\ pc' = "bridge"
  /\ UNCHANGED <<cms, installed, tables, remapped, transaction, times>>

(* Mutant of Pending: an error of the SELECT taken for a missing row. *)
PendingAlways(v) == TRUE

(* SELECT version ... WHERE version = $1 finds nothing. *)
Pending(v) == v \notin versions

(* The loop over the sorted scripts and their parts. *)
More == at <= Len(BridgeScript) /\ BridgeScript[at].version <= release

BridgeSkips ==
  /\ pc = "bridge"
  /\ More
  /\ ~Pending(BridgeScript[at].version)
  /\ at' = at + 1
  /\ UNCHANGED <<cms, installed, tables, remapped, pc, release, made, claimed, ran, work, times, starts>>

(* An open transaction of the CMS has written one of the tables. *)
Locked(T) == \E w \in Writer : \E x \in open[w] : x[1] \in T

(* A statement: INSERT ... SELECT queues the objects there are; CREATE     *)
(* TRIGGER takes its lock.                                                 *)
BridgeStatement ==
  /\ pc = "bridge"
  /\ More
  /\ LET s == BridgeScript[at] IN
     /\ Pending(s.version)
     /\ ~Locked(s.trigger)
     /\ claimed' = claimed \cup (exists \cap s.queue)
     /\ made' = made \cup s.trigger
     /\ ran' = ran \cup {s.version}
  /\ at' = at + 1
  /\ UNCHANGED <<cms, installed, tables, remapped, pc, release, work, times, starts>>

(* The commit: triggers, versions and events become visible together.      *)
BridgeWrites ==
  /\ triggers' = triggers \cup made
  /\ versions' = versions \cup ran
  /\ dirty' = dirty \ claimed
  /\ times' = [v \in Version |-> IF v \in ran THEN times[v] + 1 ELSE times[v]]

BridgeCommit ==
  /\ pc = "bridge"
  /\ ~More
  /\ BridgeWrites
  /\ pc' = "judge"
  /\ UNCHANGED <<exists, open, fired, writes, tables, remapped, release, starts>>
  /\ NoTransaction

(* The commit takes effect but its answer is lost: log.Fatal. *)
BridgeCommitUnacked ==
  /\ pc = "bridge"
  /\ ~More
  /\ BridgeWrites
  /\ pc' = "down"
  /\ UNCHANGED <<exists, open, fired, writes, tables, remapped, release, starts>>
  /\ NoTransaction

(* The judge's scripts.  Those that only create tables or add columns have *)
(* no action of their own.  A program that is older than 003 of the bridge *)
(* is taken to be older than 002 of the judge.                             *)
JudgeMore == release = 3 /\ ~remapped /\ at <= ScriptLength

JudgeStatement ==
  /\ pc = "judge"
  /\ JudgeMore
  /\ Script(work)[at].accepted
  /\ work' = Script(work)[at].result
  /\ at' = at + 1
  /\ UNCHANGED <<cms, installed, tables, remapped, pc, release, made, claimed, ran, times, starts>>

JudgeCommit ==
  /\ pc = "judge"
  /\ ~JudgeMore
  /\ tables' = work
  /\ remapped' = (remapped \/ release = 3)
  /\ pc' = "serving"
  /\ NoTransaction
  /\ UNCHANGED <<cms, installed, release, times, starts>>

(* The process ends: a statement is refused or fails, the commit fails, the*)
(* deadlock detector picks the migration, or somebody stops the server.    *)
(* The database rolls the open transaction back.                           *)
Ends ==
  /\ pc # "down"
  /\ pc' = "down"
  /\ UNCHANGED <<cms, installed, tables, remapped, release, times, starts>>
  /\ NoTransaction

(* The bounds are reached. *)
Quiescent ==
  /\ pc = "down"
  /\ starts = MaxStarts
  /\ UNCHANGED vars

Next ==
  \/ \E w \in Writer :
       CmsCommit(w) \/ CmsAbort(w) \/ \E t \in CmsTable, o \in Object : CmsWrite(w, t, o)
  \/ \E k \in Version : Start(k)
  \/ BridgeSkips \/ BridgeStatement \/ BridgeCommit \/ BridgeCommitUnacked
  \/ JudgeStatement \/ JudgeCommit
  \/ Ends
  \/ Quiescent

Spec == Init /\ [][Next]_vars

------------------------------------------------------------------------------
(* Once 003 is recorded the judge is told of everything: of each object of *)
(* the CMS an event was committed after its last change, whatever was      *)
(* written while the triggers were being installed, and whichever releases *)
(* and failures came in between.  With 002 alone this holds of tasks.      *)
NothingMissed ==
  /\ 2 \in versions => dirty \cap Task = {}
  /\ 3 \in versions => dirty = {}

(* A recorded version has been run to its end, exactly once, and one that  *)
(* is not recorded has left nothing: restarts neither repeat a script,     *)
(* which would queue every object again or remap ids twice, nor go on from *)
(* the middle.                                                             *)
VersionsAreTrue ==
  /\ \A v \in Version : times[v] = IF v \in versions THEN 1 ELSE 0
  /\ triggers = IF 1 \in versions THEN CmsTable ELSE {}
  /\ \A v \in versions, u \in Version : u < v => u \in versions
  /\ remapped <=> tables.id = tables.cms /\ tables.tokens = {}

(* The migration of ids comes to its end unless the foreign keys refuse it:*)
(* a score whose person has a new id that is nobody's old one (002.sql:3), *)
(* or a submission whose person has an old id that is nobody's new one     *)
(* (002.sql:21).  Then the judge does not start, and nothing is changed.   *)
Refused == pc = "judge" /\ JudgeMore /\ ~Script(work)[at].accepted

Upgradable ==
  /\ \A r \in tables.scores : \E p \in Person : tables.cms[r.person] = OldIds[p]
  /\ \A r \in tables.submissions : \E p \in Person : OldIds[r.person] = tables.cms[p]

RefusedForIds ==
  /\ Refused => ~Upgradable
  /\ remapped => Upgradable

(* The migration of ids keeps scores with the people who have earned them, *)
(* and a token never speaks for somebody else.  Submissions it leaves as   *)
(* they are (002.sql:21): they stay with their authors exactly if these    *)
(* had the same id before.                                                 *)
RowsKeepOwners ==
  /\ \A r \in tables.scores \cup tables.tokens : Follows(r, tables)
  /\ \A r \in tables.submissions :
       Follows(r, tables) <=> (remapped => OldIds[r.person] = tables.cms[r.person])

==============================================================================
