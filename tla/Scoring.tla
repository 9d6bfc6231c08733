------------------------------- MODULE Scoring -------------------------------
(***************************************************************************)
(* How recalculateUserScoreForTask turns the stored submissions of a user  *)
(* for a task into a base score: the best score of every subtask, over all *)
(* submissions, added up.  A submission contributes one score per subtask; *)
(* one that is not scored contributes none, and submissions scored under   *)
(* different datasets may differ in length.  Scores are integers here; the *)
(* code adds 64-bit floats and stores 32-bit ones.                         *)
(***************************************************************************)
EXTENDS Integers, Sequences, FiniteSets, Functions

Larger(a, b) == IF a >= b THEN a ELSE b

(* Mutant of Merge: a subtask that the first submission lacks is dropped. *)
MergeTruncates(v, best) ==
  [i \in 1 .. (IF best = <<>> THEN Len(v) ELSE Len(best)) |->
     Larger(IF i <= Len(v) THEN v[i] ELSE 0,
            IF i <= Len(best) THEN best[i] ELSE 0)]

(* Mutant of Merge: the submission read last replaces the others. *)
MergeReplaces(v, best) == v

(* One turn of the loop: pad with zeros, then take the larger score. *)
Merge(v, best) ==
  [i \in 1 .. Larger(Len(v), Len(best)) |->
     Larger(IF i <= Len(v) THEN v[i] ELSE 0,
            IF i <= Len(best) THEN best[i] ELSE 0)]

(* by_subtask; vectors is a function from submission ids to score vectors, *)
(* and the query returns its rows in no particular order.                  *)
BySubtask(vectors) == FoldFunction(Merge, <<>>, vectors)

BaseScore(vectors) == SumFunction(BySubtask(vectors))

------------------------------------------------------------------------------
(* Reference: for every subtask that some submission has, the largest      *)
(* score any submission got in it.                                         *)
SubtasksOf(vectors) == UNION {DOMAIN vectors[s] : s \in DOMAIN vectors}

BestInSubtask(vectors, i) ==
  CHOOSE best \in {vectors[s][i] : s \in {r \in DOMAIN vectors : i \in DOMAIN vectors[r]}} :
    \A s \in DOMAIN vectors : i \in DOMAIN vectors[s] => vectors[s][i] <= best

BestScore(vectors) ==
  SumFunction([i \in SubtasksOf(vectors) |-> BestInSubtask(vectors, i)])

==============================================================================
