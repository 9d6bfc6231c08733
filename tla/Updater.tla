------------------------------- MODULE Updater -------------------------------
(***************************************************************************)
(* The database of the judge, as the event handler of pkg/oiajudge keeps   *)
(* it: Server.HandleEvents copies a task or a submission out of the CMS    *)
(* and, in the transaction that stores a submission, recomputes the score  *)
(* of its user for its task and moves the user's total by the difference.  *)
(*                                                                         *)
(* Events are handled one at a time, so the handler's transactions do not  *)
(* interleave; those of API requests only read these tables or add users.  *)
(* Each action is one committed transaction.                               *)
(***************************************************************************)
EXTENDS Scoring

CONSTANTS
  User,         \* CMS user ids, also the ids of the judge's users
  Task,         \* CMS task ids
  Submission,   \* CMS submission ids
  Owner,        \* the user of a submission, fixed in the CMS
  ProblemOf,    \* the task of a submission, fixed in the CMS
  Vector,       \* subtask scores a submission may have; <<>> before scoring
  Multiplier    \* score multipliers a task may have

ASSUME OwnerAssumption == Owner \in [Submission -> User]
ASSUME ProblemAssumption == ProblemOf \in [Submission -> Task]
ASSUME VectorAssumption == Vector \subseteq Seq(Nat)
ASSUME MultiplierAssumption == Multiplier \subseteq Int

VARIABLES
  total,      \* oia_user: registered user -> score
  task,       \* oia_task: known task -> multiplier
  subs,       \* oia_submissions: stored submission -> subtask_details
  score,      \* oia_task_score: <<user, task>> -> its score and base_score
  \* history
  orphaned,   \* pairs whose last submission was stored without a score
  stale       \* pairs whose task's multiplier has changed since scoring

vars == <<total, task, subs, score, orphaned, stale>>

Pair(s) == <<Owner[s], ProblemOf[s]>>

(* INSERT ... ON CONFLICT DO UPDATE *)
Upsert(f, k, v) == [x \in DOMAIN f \cup {k} |-> IF x = k THEN v ELSE f[x]]

(* The references between the tables, of which only those to oia_user are  *)
(* declared in the schema.                                                 *)
References ==
  /\ DOMAIN subs \subseteq {s \in Submission : Owner[s] \in DOMAIN total}
  /\ DOMAIN score \subseteq (DOMAIN total) \X (DOMAIN task)
  /\ stale \subseteq DOMAIN score

TypeOK ==
  /\ DOMAIN total \subseteq User
  /\ total \in [DOMAIN total -> Int]
  /\ DOMAIN task \subseteq Task
  /\ task \in [DOMAIN task -> Multiplier]
  /\ subs \in [DOMAIN subs -> Vector]
  /\ score \in [DOMAIN score -> [base : Int, score : Int]]
  /\ orphaned \subseteq User \X Task
  /\ References

Empty == [x \in {} |-> 0]

Init ==
  /\ total = Empty
  /\ task = Empty
  /\ subs = Empty
  /\ score = Empty
  /\ orphaned = {}
  /\ stale = {}

------------------------------------------------------------------------------
(* Mutant of GetAllScores: no "AND task_id = $2". *)
GetAllScoresOfUser(table, p) ==
  [s \in {r \in DOMAIN table : Owner[r] = p[1]} |-> table[s]]

(* The score vectors stored for a user and a task. *)
GetAllScores(table, p) ==
  [s \in {r \in DOMAIN table : Pair(r) = p} |-> table[s]]

(* Mutant of GetUserTaskScore: reads base_score instead of score. *)
GetUserTaskBase(p) == IF p \in DOMAIN score THEN score[p].base ELSE 0

GetUserTaskScore(p) == IF p \in DOMAIN score THEN score[p].score ELSE 0

(* Mutant of IncrementUserScore: its UPDATE is left out. *)
IncrementUserScoreForgotten(u, new, previous) == UNCHANGED total

IncrementUserScore(u, new, previous) ==
  total' = [total EXCEPT ![u] = @ + (new - previous)]

(* Mutant of SaveUserScore: the multiplier is left out of the upsert. *)
SaveUserScoreUnscaled(p, base) ==
  score' = Upsert(score, p, [base |-> base, score |-> base])

(* The multiplier is read in the transaction that uses it. *)
SaveUserScore(p, base) ==
  score' = Upsert(score, p, [base |-> base, score |-> base * task[p[2]]])

Recalculate(p) ==
  LET base == BaseScore(GetAllScores(subs', p))
  IN  /\ SaveUserScore(p, base)
      /\ IncrementUserScore(p[1], base * task[p[2]], GetUserTaskScore(p))

(* Mutant of SubmissionStored: a submission without scores is not counted. *)
SubmissionStoredLazily(s, v) ==
  /\ Owner[s] \in DOMAIN total
  /\ ProblemOf[s] \in DOMAIN task
  /\ subs' = Upsert(subs, s, v)
  /\ IF v = <<>> THEN UNCHANGED <<score, total>> ELSE Recalculate(Pair(s))
  /\ orphaned' = orphaned \ {Pair(s)}
  /\ stale' = stale \ {Pair(s)}
  /\ UNCHANGED task

(* handleSubmission: the submission is stored, whether new or seen before, *)
(* and its user's score follows in the same transaction.                   *)
SubmissionStored(s, v) ==
  /\ Owner[s] \in DOMAIN total
  /\ ProblemOf[s] \in DOMAIN task
  /\ subs' = Upsert(subs, s, v)
  /\ Recalculate(Pair(s))
  /\ orphaned' = orphaned \ {Pair(s)}
  /\ stale' = stale \ {Pair(s)}
  /\ UNCHANGED task

(* Mutant of SubmissionPanics: no reference from submissions to users. *)
SubmissionPanicsUnowned(s, v) ==
  /\ ProblemOf[s] \notin DOMAIN task
  /\ subs' = Upsert(subs, s, v)
  /\ orphaned' = orphaned \cup {Pair(s)}
  /\ UNCHANGED <<total, task, score, stale>>

(* handleSubmission when the task is unknown: SaveUserScore panics.  The   *)
(* deferred Close runs while err is still nil and commits what was done so *)
(* far, the submission without a score; then the panic ends the process.   *)
SubmissionPanics(s, v) ==
  /\ Owner[s] \in DOMAIN total
  /\ ProblemOf[s] \notin DOMAIN task
  /\ subs' = Upsert(subs, s, v)
  /\ orphaned' = orphaned \cup {Pair(s)}
  /\ UNCHANGED <<total, task, score, stale>>

(* handleSubmission when the user is unknown: the reference from           *)
(* oia_submissions to oia_user refuses the row and all is rolled back.     *)
SubmissionRefused(s) ==
  /\ Owner[s] \notin DOMAIN total
  /\ UNCHANGED vars

(* handleTask: the scores already given keep the old multiplier. *)
TaskStored(t, m) ==
  /\ task' = Upsert(task, t, m)
  /\ stale' = IF t \in DOMAIN task /\ task[t] # m
              THEN stale \cup {p \in DOMAIN score : p[2] = t}
              ELSE stale
  /\ UNCHANGED <<total, subs, score, orphaned>>

(* The API registers a user, with score 0. *)
UserCreated(u) ==
  /\ u \notin DOMAIN total
  /\ total' = Upsert(total, u, 0)
  /\ UNCHANGED <<task, subs, score, orphaned, stale>>

Next ==
  \/ \E s \in Submission, v \in Vector :
       SubmissionStored(s, v) \/ SubmissionPanics(s, v)
  \/ \E s \in Submission : SubmissionRefused(s)
  \/ \E t \in Task, m \in Multiplier : TaskStored(t, m)
  \/ \E u \in User : UserCreated(u)

Spec == Init /\ [][Next]_vars

------------------------------------------------------------------------------
(* The rows that count for a user and a task. *)
RowsOf(p) == [s \in {r \in DOMAIN subs : Pair(r) = p} |-> subs[s]]

(* The stored base score is never behind the stored submissions: whatever  *)
(* is stored, re-evaluated or invalidated, the score follows with it.      *)
BaseIsFresh ==
  \A p \in DOMAIN score : score[p].base = BaseScore(RowsOf(p))

(* And it is the best of every subtask over exactly those submissions.     *)
BaseIsBest ==
  \A p \in DOMAIN score : score[p].base = BestScore(RowsOf(p))

(* A user's total, which is only ever moved by differences, is the sum of  *)
(* the user's task scores.                                                 *)
TotalIsSum ==
  \A u \in DOMAIN total :
    total[u] = SumFunction([p \in {q \in DOMAIN score : q[1] = u} |-> score[p].score])

(* Every stored submission counts: it has a score row, or the handler      *)
(* panicked on its pair and has not processed the pair since.              *)
EverySubmissionCounts ==
  \A s \in DOMAIN subs : Pair(s) \in DOMAIN score \cup orphaned

(* A task score is the base score times the multiplier the task has now,   *)
(* unless SaveTask changed the multiplier after the score was computed.    *)
ScoreUsesMultiplier ==
  \A p \in DOMAIN score \ stale : score[p].score = score[p].base * task[p[2]]

(* What a pair counts for, which is nothing before its first score. *)
ScoreOf(p) == IF p \in DOMAIN score THEN score[p].score ELSE 0

(* A user's total and all the user's task scores stay as they are.         *)
Rests(u) ==
  /\ total'[u] = total[u]
  /\ \A t \in Task : ScoreOf(<<u, t>>)' = ScoreOf(<<u, t>>)

(* The total moves by as much as one task score; the others stay.          *)
Moves(u, t) ==
  /\ total'[u] = total[u] + (ScoreOf(<<u, t>>)' - ScoreOf(<<u, t>>))
  /\ \A r \in Task \ {t} : ScoreOf(<<u, r>>)' = ScoreOf(<<u, r>>)

(* A step moves the scores of one user at most, and of that user one task  *)
(* score and the total, by the same amount: neither moves without the other*)
(* (updater.go:30-42).                                                     *)
ScoreMovesTogether ==
  [][/\ \A u \in DOMAIN total : Rests(u) \/ \E t \in Task : Moves(u, t)
     /\ \A u, v \in DOMAIN total : u = v \/ Rests(u) \/ Rests(v)]_vars

(* A further submission never lowers a base score, only the re-evaluation  *)
(* of a stored one can.                                                    *)
NewSubmissionNeverLowers ==
  [][\A p \in DOMAIN score :
       score'[p].base < score[p].base =>
         \E s \in DOMAIN subs : Pair(s) = p /\ subs'[s] # subs[s]]_vars

(* What the message at store.go:188 says of an unknown task: "Assumming    *)
(* multiplier = 1", so that a stored submission has a score all the same.  *)
StoredIsScored ==
  \A s \in DOMAIN subs : Pair(s) \in DOMAIN score

==============================================================================
