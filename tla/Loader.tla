-------------------------------- MODULE Loader --------------------------------
(***************************************************************************)
(* How the task loader of the CMS groups the testcases of a task into      *)
(* subtasks.  The name of a testcase, as in S12E03, tells its subtasks: by *)
(* the digits between S and E, or, when some name has the form S0nE, by    *)
(* the number they write, with dependencies given by the task's            *)
(* configuration.  A name is the sequence of these digits here, and the    *)
(* number of a subtask is always written in the same way.                  *)
(***************************************************************************)
EXTENDS Naturals, Sequences, Functions, SequencesExt

(* not nuevo; names is a function from testcases to their names. *)
OldNames(names) ==
  \E c \in DOMAIN names : Len(names[c]) = 2 /\ names[c][1] = 0 /\ names[c][2] \in 1 .. 9

Number(name) == FoldLeft(LAMBDA n, digit : 10 * n + digit, 0, name)

(* The subtasks that a name belongs to. *)
SubtasksNamed(names, c) ==
  IF OldNames(names) THEN {Number(names[c])} ELSE Range(names[c])

(* The testcases that the pattern of subtask i matches.  A dependency      *)
(* brings the testcases named for it, not those of its own dependencies.   *)
Cases(names, dependencies, i) ==
  LET needed == IF ~OldNames(names) \/ i \notin DOMAIN dependencies THEN {i}
                ELSE {i} \cup dependencies[i]
  IN  {c \in DOMAIN names : SubtasksNamed(names, c) \cap needed # {}}

(* The score parameters the loader may produce.  The subtasks come in the  *)
(* order in which a Python set of strings is read, which is any order.  A  *)
(* subtask without a score ends the import.                                *)
ScoreParameters(names, scores, dependencies) ==
  LET subtasks == UNION {SubtasksNamed(names, c) : c \in DOMAIN names} IN
  IF ~(subtasks \subseteq DOMAIN scores) THEN {}
  ELSE {[k \in DOMAIN order |->
           [max |-> scores[order[k]], testcases |-> Cases(names, dependencies, order[k])]] :
        order \in SetToSeqs(subtasks)}

==============================================================================
