----------------------------- MODULE ResultView ------------------------------
(***************************************************************************)
(* What cmsbridge makes of the scores in the CMS: GetTask for a dataset of *)
(* a task, GetSubmission for a scored submission.  The two read different  *)
(* tables by different queries, and agree only if the dataset and the      *)
(* score type are read in the same way.                                    *)
(*                                                                         *)
(* Outcomes count in parts of Full, so that a score of the CMS, a number   *)
(* with a fraction, is an integer here.  A dataset is of type "Sum", with  *)
(* a multiplier, or grouped, with a sequence of subtasks.                  *)
(***************************************************************************)
EXTENDS Updater, FiniteSetsExt

CONSTANTS
  Dataset,   \* the datasets a task may have
  Full       \* the outcome of a testcase that is right

ASSUME FullAssumption == Full \in Nat \ {0}

(* What the loader and the administrators of the CMS are trusted with: a   *)
(* subtask is worth points and has testcases, and a testcase is in some    *)
(* subtask.  Testcases are numbered in the order of their codenames.       *)
WellFormed(d) ==
  /\ IsFiniteSet(d.testcases)
  /\ IF d.type = "Sum"
     THEN d.multiplier \in Nat \ {0} /\ d.testcases \subseteq Int
     ELSE /\ d.groups \in
               Seq([max : Nat \ {0}, testcases : (SUBSET d.testcases) \ {{}}])
          /\ d.testcases = UNION {d.groups[i].testcases : i \in DOMAIN d.groups}

ASSUME DatasetAssumption == \A d \in Dataset : WellFormed(d)

(* What the CMS workers may find for the testcases of a dataset. *)
Outcomes(d) == [d.testcases -> 0 .. Full]

(* The testcases in the order of their codenames. *)
InOrder(S) ==
  CHOOSE f \in [1 .. Cardinality(S) -> S] :
    \A i, j \in DOMAIN f : i < j => f[i] < f[j]

(* Mutant of SumSubtasks: the maximum of a testcase is not scaled. *)
SumSubtasksUnscaled(d, outcome) ==
  LET cases == InOrder(d.testcases)
  IN  [i \in DOMAIN cases |->
         [score |-> outcome[cases[i]] * d.multiplier, max |-> Full]]

(* Score type Sum: a subtask per testcase, in the order of codenames,      *)
(* whatever order the query returns.                                       *)
SumSubtasks(d, outcome) ==
  LET cases == InOrder(d.testcases)
  IN  [i \in DOMAIN cases |->
         [score |-> outcome[cases[i]] * d.multiplier, max |-> Full * d.multiplier]]

(* The CMS: the fraction of a group is that of its worst testcase. *)
Fraction(g, outcome) == Min({outcome[c] : c \in g.testcases})

(* Any other type: the subtasks of score_details. *)
GroupedSubtasks(d, outcome) ==
  [i \in DOMAIN d.groups |->
     [score |-> d.groups[i].max * Fraction(d.groups[i], outcome),
      max |-> d.groups[i].max * Full]]

Subtasks(d, outcome) ==
  IF d.type = "Sum" THEN SumSubtasks(d, outcome) ELSE GroupedSubtasks(d, outcome)

(* The subtask_details that the judge stores. *)
Scores(subtasks) == [i \in DOMAIN subtasks |-> subtasks[i].score]
MaxScores(subtasks) == [i \in DOMAIN subtasks |-> subtasks[i].max]

(* The result of a submission. *)
Result(d, outcome) ==
  LET subtasks == Subtasks(d, outcome)
  IN  [score |-> SumFunction(Scores(subtasks)), max |-> SumFunction(MaxScores(subtasks))]

(* GetTask: from the dataset alone. *)
TaskMaxScore(d) ==
  IF d.type = "Sum"
  THEN d.multiplier * Cardinality(d.testcases) * Full
  ELSE SumFunction([i \in DOMAIN d.groups |-> d.groups[i].max * Full])

(* GetTask: the score multiplier in the description of the dataset.  One   *)
(* that is not JSON means 1, JSON without a multiplier means 0.            *)
EmbeddedMultiplier(description) ==
  IF description.json THEN description.multiplier ELSE 1

------------------------------------------------------------------------------
(* The two maxima of a dataset agree, no submission exceeds them, and one  *)
(* has full marks exactly if every testcase is right.                      *)
MarksRight(d, outcome) ==
  LET r == Result(d, outcome) IN
  /\ r.max = TaskMaxScore(d)
  /\ r.score <= r.max
  /\ r.score = r.max <=> \A c \in d.testcases : outcome[c] = Full

(* A stored submission is measured against the maximum of its task,        *)
(* whatever the score type and whichever results its scores may stand for. *)
MarksAgree ==
  LET stored == {subs[s] : s \in DOMAIN subs} IN
  \A d \in Dataset : \A outcome \in Outcomes(d) :
    Scores(Subtasks(d, outcome)) \in stored => MarksRight(d, outcome)

==============================================================================
