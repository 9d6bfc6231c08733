------------------------------ MODULE FileStore ------------------------------
(***************************************************************************)
(* How a submission reaches the CMS: MakeSubmission of pkg/cmsbridge       *)
(* inserts the submission, then for every source file, in the order of a   *)
(* Go map, looks for an object with the file's digest, stores the object   *)
(* if there is none, and inserts the file.  All of it is one transaction   *)
(* at READ COMMITTED: a SELECT sees what is committed and what its own     *)
(* transaction wrote; an INSERT of a unique key that an open transaction   *)
(* has inserted waits until that one ends.  Two requests that store the    *)
(* same files in opposite orders wait for each other, until PostgreSQL     *)
(* aborts one of them.                                                     *)
(*                                                                         *)
(* A content stands for its digest.                                        *)
(***************************************************************************)
EXTENDS Naturals

CONSTANTS
  Request,         \* request slots, each serving one request after another
  Name,            \* file names
  Content,         \* file contents
  Sendable,        \* the files a request may send, by name
  None,            \* no file
  MaxSubmissions,  \* bound: ids drawn from the sequence of submissions
  MaxFaults        \* bound: failing statements, connections and processes

ASSUME NoneAssumption == None \notin Name
ASSUME BoundAssumption == MaxSubmissions \in Nat /\ MaxFaults \in Nat

Id == 1 .. MaxSubmissions
Sources == UNION {[S -> Content] : S \in SUBSET Name}

ASSUME SendableAssumption == Sendable \subseteq Sources

VARIABLES
  \* durable: tables of the CMS
  submissions,  \* ids in submissions
  files,        \* rows (submission, name, digest) of files
  objects,      \* digests in fsobjects
  nextId,       \* the sequence of submission ids, not rolled back
  \* the transaction of each request
  pc,           \* control state
  sid,          \* id of the inserted submission
  sources,      \* the files sent
  todo,         \* names the loop has not reached
  cur,          \* the file in hand
  added,        \* digests inserted in fsobjects
  filed,        \* (name, digest) inserted in files
  \* history
  asked,        \* the files sent with each submission
  byCms,        \* objects the CMS stored itself
  faults        \* faults so far

tables == <<submissions, files, objects>>
transaction == <<pc, sid, sources, todo, cur, added, filed>>
vars == <<tables, nextId, transaction, asked, byCms, faults>>

State == {"idle", "begin", "next", "lookup", "store", "file"}

TypeOK ==
  /\ submissions \subseteq Id
  /\ files \subseteq Id \X Name \X Content
  /\ objects \subseteq Content
  /\ nextId \in 1 .. MaxSubmissions + 1
  /\ pc \in [Request -> State]
  /\ sid \in [Request -> 0 .. MaxSubmissions]
  /\ sources \in [Request -> Sources]
  /\ todo \in [Request -> SUBSET Name]
  /\ cur \in [Request -> Name \cup {None}]
  /\ added \in [Request -> SUBSET Content]
  /\ filed \in [Request -> SUBSET (Name \X Content)]
  /\ asked \in [Id -> Sources]
  /\ byCms \subseteq objects
  /\ faults \in 0 .. MaxFaults

NoFiles == [n \in {} |-> None]

Init ==
  /\ submissions = {}
  /\ files = {}
  /\ \E S \in SUBSET Content : objects = S /\ byCms = S
  /\ nextId = 1
  /\ pc = [r \in Request |-> "idle"]
  /\ sid = [r \in Request |-> 0]
  /\ sources = [r \in Request |-> NoFiles]
  /\ todo = [r \in Request |-> {}]
  /\ cur = [r \in Request |-> None]
  /\ added = [r \in Request |-> {}]
  /\ filed = [r \in Request |-> {}]
  /\ asked = [i \in Id |-> NoFiles]
  /\ faults = 0

Goto(r, s) == pc' = [pc EXCEPT ![r] = s]

(* The digest of the file in hand. *)
Digest(r) == sources[r][cur[r]]

------------------------------------------------------------------------------
(* A request arrives with its files. *)
Begin(r) ==
  /\ pc[r] = "idle"
  /\ nextId <= MaxSubmissions
  /\ \E f \in Sendable : sources' = [sources EXCEPT ![r] = f]
  /\ Goto(r, "begin")
  /\ UNCHANGED <<tables, nextId, sid, todo, cur, added, filed, asked, byCms, faults>>

(* INSERT INTO submissions ... RETURNING id. *)
InsertSubmission(r) ==
  /\ pc[r] = "begin"
  /\ nextId <= MaxSubmissions
  /\ sid' = [sid EXCEPT ![r] = nextId]
  /\ nextId' = nextId + 1
  /\ todo' = [todo EXCEPT ![r] = DOMAIN sources[r]]
  /\ Goto(r, "next")
  /\ UNCHANGED <<tables, sources, cur, added, filed, asked, byCms, faults>>

(* Mutant of NextFile: the loop does not advance. *)
NextFileAgain(r) ==
  /\ pc[r] = "next"
  /\ \E n \in todo[r] : cur' = [cur EXCEPT ![r] = n]
  /\ Goto(r, "lookup")
  /\ UNCHANGED <<tables, nextId, sid, sources, todo, added, filed, asked, byCms, faults>>

(* The loop over the map takes any of the files left. *)
NextFile(r) ==
  /\ pc[r] = "next"
  /\ \E n \in todo[r] :
       /\ cur' = [cur EXCEPT ![r] = n]
       /\ todo' = [todo EXCEPT ![r] = @ \ {n}]
  /\ Goto(r, "lookup")
  /\ UNCHANGED <<tables, nextId, sid, sources, added, filed, asked, byCms, faults>>

(* The objects a SELECT of the request's transaction sees. *)
Visible(r) == objects \cup added[r]

(* AddFsObject: SELECT digest FROM fsobjects.  An object that is there is  *)
(* used as it is.                                                          *)
Lookup(r) ==
  /\ pc[r] = "lookup"
  /\ Goto(r, IF Digest(r) \in Visible(r) THEN "file" ELSE "store")
  /\ UNCHANGED <<tables, nextId, sid, sources, todo, cur, added, filed, asked, byCms, faults>>

(* The INSERT of the request's digest waits for the transaction of q. *)
Waits(r, q) == q # r /\ pc[r] = "store" /\ Digest(r) \in added[q]

Blocked(r) == \E q \in Request : Waits(r, q)

(* Mutant of AddObject: the object is committed on its own, before the     *)
(* submission it belongs to.                                               *)
AddObjectCommitted(r) ==
  /\ objects' = objects \cup {Digest(r)}
  /\ UNCHANGED added

AddObject(r) ==
  /\ added' = [added EXCEPT ![r] = @ \cup {Digest(r)}]
  /\ UNCHANGED objects

(* The content goes into a large object, then INSERT INTO fsobjects. *)
Store(r) ==
  /\ pc[r] = "store"
  /\ ~Blocked(r)
  /\ Digest(r) \notin objects
  /\ AddObject(r)
  /\ Goto(r, "file")
  /\ UNCHANGED <<submissions, files, nextId, sid, sources, todo, cur, filed, asked, byCms, faults>>

(* INSERT INTO files. *)
InsertFile(r) ==
  /\ pc[r] = "file"
  /\ filed' = [filed EXCEPT ![r] = @ \cup {<<cur[r], Digest(r)>>}]
  /\ cur' = [cur EXCEPT ![r] = None]
  /\ Goto(r, "next")
  /\ UNCHANGED <<tables, nextId, sid, sources, todo, added, asked, byCms, faults>>

------------------------------------------------------------------------------
(* The transaction of every request of R ends. *)
End(R) ==
  /\ pc' = [r \in Request |-> IF r \in R THEN "idle" ELSE pc[r]]
  /\ sid' = [r \in Request |-> IF r \in R THEN 0 ELSE sid[r]]
  /\ sources' = [r \in Request |-> IF r \in R THEN NoFiles ELSE sources[r]]
  /\ todo' = [r \in Request |-> IF r \in R THEN {} ELSE todo[r]]
  /\ cur' = [r \in Request |-> IF r \in R THEN None ELSE cur[r]]
  /\ added' = [r \in Request |-> IF r \in R THEN {} ELSE added[r]]
  /\ filed' = [r \in Request |-> IF r \in R THEN {} ELSE filed[r]]

(* What the commit of the request's transaction does to the tables. *)
Write(r) ==
  /\ submissions' = submissions \cup {sid[r]}
  /\ files' = files \cup {<<sid[r], f[1], f[2]>> : f \in filed[r]}
  /\ objects' = objects \cup added[r]
  /\ asked' = [asked EXCEPT ![sid[r]] = sources[r]]

(* The deferred Close commits: the loop has come to its end. *)
Commit(r) ==
  /\ pc[r] = "next"
  /\ todo[r] = {}
  /\ Write(r)
  /\ End({r})
  /\ UNCHANGED <<nextId, byCms, faults>>

(* Mutants of Rollback: the error does not reach the deferred Close, which *)
(* commits; and the transaction stays open.                                *)
RollbackCommits(r) ==
  /\ IF sid[r] # 0 THEN Write(r) ELSE UNCHANGED <<tables, asked>>
  /\ End({r})

RollbackForgotten(r) ==
  /\ Goto(r, "idle")
  /\ cur' = [cur EXCEPT ![r] = None]
  /\ UNCHANGED <<tables, sid, sources, todo, added, filed, asked>>

(* The deferred Close after an error. *)
Rollback(r) ==
  /\ End({r})
  /\ UNCHANGED <<tables, asked>>

(* Another transaction has committed the object since the lookup: the      *)
(* INSERT fails on the unique key.                                         *)
Conflict(r) ==
  /\ pc[r] = "store"
  /\ ~Blocked(r)
  /\ Digest(r) \in objects
  /\ Rollback(r)
  /\ UNCHANGED <<nextId, byCms, faults>>

(* The deadlock detector aborts one of the requests that wait in a circle. *)
Circle(r) ==
  \E R \in SUBSET Request :
    /\ r \in R
    /\ \A p \in R : \E q \in R : Waits(p, q)

Victim(r) ==
  /\ Circle(r)
  /\ Rollback(r)
  /\ UNCHANGED <<nextId, byCms, faults>>

Fault ==
  /\ faults < MaxFaults
  /\ faults' = faults + 1

(* A statement fails, for want of a participation, of a connection or of   *)
(* the client.  The error of the large object's Write is dropped, but its  *)
(* transaction is aborted and the next INSERT reports it.                  *)
StatementFails(r) ==
  /\ Fault
  /\ pc[r] # "idle"
  /\ Rollback(r)
  /\ UNCHANGED <<nextId, byCms>>

(* The commit takes effect, but the client is told that it failed. *)
CommitUnacked(r) ==
  /\ Fault
  /\ pc[r] = "next"
  /\ todo[r] = {}
  /\ Write(r)
  /\ End({r})
  /\ UNCHANGED <<nextId, byCms>>

(* The process ends: the database rolls back what is open. *)
Crash ==
  /\ Fault
  /\ End(Request)
  /\ UNCHANGED <<tables, nextId, asked, byCms>>

(* The CMS stores an object of its own, such as an executable. *)
CmsStores(c) ==
  /\ c \notin objects
  /\ \A r \in Request : c \notin added[r]
  /\ objects' = objects \cup {c}
  /\ byCms' = byCms \cup {c}
  /\ UNCHANGED <<submissions, files, nextId, transaction, asked, faults>>

------------------------------------------------------------------------------
(* What a request's goroutine and its session do by themselves. *)
Run(r) ==
  \/ InsertSubmission(r) \/ NextFile(r) \/ Lookup(r) \/ Store(r)
  \/ InsertFile(r) \/ Commit(r) \/ Conflict(r) \/ Victim(r)

(* The bound on ids is reached: a request that would draw one is dropped.  *)
OutOfIds(r) ==
  /\ pc[r] = "begin"
  /\ nextId > MaxSubmissions
  /\ End({r})
  /\ UNCHANGED <<tables, nextId, asked, byCms, faults>>

Quiescent ==
  /\ nextId > MaxSubmissions
  /\ \A r \in Request : pc[r] = "idle"
  /\ UNCHANGED vars

Next ==
  \/ \E r \in Request :
       Begin(r) \/ Run(r) \/ StatementFails(r) \/ CommitUnacked(r) \/ OutOfIds(r)
  \/ Crash
  \/ \E c \in Content : CmsStores(c)
  \/ Quiescent

Spec == Init /\ [][Next]_vars

(* Statements return, PostgreSQL looks for deadlocks, and the lock of an   *)
(* ended transaction goes to whoever waits for it.                         *)
Fairness == \A r \in Request : WF_vars(Run(r) \/ OutOfIds(r))

FairSpec == Spec /\ Fairness

------------------------------------------------------------------------------
Sent(i) == {<<i, n, asked[i][n]>> : n \in DOMAIN asked[i]}

(* A submission is stored whole or not at all, whichever statement fails   *)
(* and whatever other requests store meanwhile (submission.go:268-280): it *)
(* has the files it was sent with and no others, each of them has its      *)
(* object, and every object belongs to a file, unless the CMS stored it.   *)
Complete ==
  /\ \A i \in submissions : {f \in files : f[1] = i} = Sent(i)
  /\ \A f \in files : f[1] \in submissions /\ f[3] \in objects

NoOrphans == \A c \in objects \ byCms : \E f \in files : f[3] = c

WholeOrNothing == Complete /\ NoOrphans

(* Every request ends, also one that waits for a file of another that      *)
(* waits for a file of its own.                                            *)
Ends == \A r \in Request : pc[r] # "idle" ~> pc[r] = "idle"

(* Not everybody loses: while nothing fails, of the requests that lack an  *)
(* object one gets through, or the CMS stores it.  A request loses a       *)
(* conflict, or is picked by the deadlock detector, only to another one    *)
(* that goes on.                                                           *)
Lacking(r) ==
  /\ pc[r] = "next"
  /\ todo[r] = DOMAIN sources[r]
  /\ \E n \in todo[r] : sources[r][n] \notin objects

SomeoneStores ==
  \A S \in SUBSET Content :
    (faults = MaxFaults /\ objects = S /\ \E r \in Request : Lacking(r)) ~> objects # S

==============================================================================
