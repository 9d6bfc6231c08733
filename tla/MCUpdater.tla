------------------------------ MODULE MCUpdater ------------------------------
(* Small instances of the judge's database: two submissions of one user    *)
(* for one task, one of the same user for another task, and one of another *)
(* user for the first task.  Their scores are those of datasets that the   *)
(* loader makes, in which every subtask is worth points.                   *)
EXTENDS ResultView, Loader, TLC

CONSTANTS u1, u2, t1, t2, s1, s2, s3, s4

MCOwner == s1 :> u1 @@ s2 :> u1 @@ s3 :> u1 @@ s4 :> u2
MCProblemOf == s1 :> t1 @@ s2 :> t1 @@ s3 :> t2 @@ s4 :> t1

Summed(n) == [type |-> "Sum", multiplier |-> 2, testcases |-> 1 .. n]

Grouped(names, scores, dependencies) ==
  {[type |-> "GroupMin", testcases |-> DOMAIN names, groups |-> groups] :
     groups \in ScoreParameters(names, scores, dependencies)}

(* One subtask; two that share a testcase; two of which the second needs  *)
(* the first.                                                              *)
OneSubtask == Grouped(<<<<1>>, <<1>>>>, <<2>>, <<>>)
Overlapping == Grouped(<<<<1>>, <<1, 2>>, <<2>>>>, <<1, 2>>, <<>>)
Dependent == Grouped(<<<<0, 1>>, <<0, 2>>>>, <<1, 2>>, 2 :> {1})
MCDataset == {Summed(1), Summed(2)} \cup OneSubtask \cup Overlapping \cup Dependent

(* Not scored; full marks under a dataset with one subtask; with two, full *)
(* marks if they are grouped and fewer if they are summed.                 *)
MCVector ==
  {<<>>,
   Scores(Subtasks(Summed(1), [c \in {1} |-> 2])),
   Scores(Subtasks(Summed(2), [c \in {1, 2} |-> c]))}

MCMultiplier ==
  {EmbeddedMultiplier(e) :
     e \in {[json |-> FALSE], [json |-> TRUE, multiplier |-> 4]}}

==============================================================================
