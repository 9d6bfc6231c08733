------------------------------- MODULE UserIds -------------------------------
(***************************************************************************)
(* migrations/002.sql of pkg/oiajudge: users get the id that the CMS knows *)
(* them by.  A statement is an operator on the judge's tables, beside the  *)
(* condition under which PostgreSQL accepts it.                            *)
(*                                                                         *)
(* A row carries the person it belongs to, whatever its user_id says.      *)
(***************************************************************************)
EXTENDS Naturals

CONSTANTS
  Person,   \* people with an account of the judge
  UserId    \* ids of users, the judge's and the CMS's

Row == [user_id : UserId, person : Person]

Tables == [
  id          : [Person -> UserId],   \* oia_user.id
  cms         : [Person -> UserId],   \* oia_user.cms_user_id
  scores      : SUBSET Row,           \* oia_task_score, of one task
  tokens      : SUBSET Row,           \* oia_tokens
  submissions : SUBSET Row]           \* oia_submissions

Unique(f) == \A p, q \in Person : f[p] = f[q] => p = q

(* Whether the row says whose it is. *)
Follows(r, d) == r.user_id = d.id[r.person]

RowsOf(P, ids) == {[user_id |-> ids[p], person |-> p] : p \in P}

(* The tables before the migration: every row refers to its person by the  *)
(* judge's id, and who has a score has a submission.                       *)
OldTables(ids, cmsIds) ==
  {[id |-> ids, cms |-> cmsIds,
    scores |-> RowsOf(x.scored, ids), tokens |-> RowsOf(Person, ids),
    submissions |-> RowsOf(x.submitted, ids)] :
   x \in {y \in [scored : SUBSET Person, submitted : SUBSET Person] : y.scored \subseteq y.submitted}}

(* The constraint fk_user_id of a table. *)
Refer(rows, d) == \A r \in rows : \E p \in Person : r.user_id = d.id[p]

(* Mutant of RemapScores: scores keep their user_id, as submissions do. *)
RemapNoScores(d) == d

(* UPDATE oia_task_score SET user_id = (SELECT cms_user_id ... WHERE       *)
(* oia_user.id = oia_task_score.user_id).                                  *)
RemapScores(d) ==
  [d EXCEPT !.scores =
     {[user_id |-> d.cms[x[2]], person |-> x[1].person] :
        x \in {y \in d.scores \X Person : d.id[y[2]] = y[1].user_id}}]

(* Mutant of TruncateTokens: the tokens stay. *)
TruncateNothing(d) == d

(* TRUNCATE TABLE oia_tokens. *)
TruncateTokens(d) == [d EXCEPT !.tokens = {}]

(* UPDATE oia_user SET id = cms_user_id, after DROP CONSTRAINT ... CASCADE *)
(* has dropped every foreign key.                                          *)
RemapUsers(d) == [d EXCEPT !.id = d.cms]

(* The script: when the next statement is accepted, and what it does.  The *)
(* first UPDATE runs under the foreign key to the old ids; the primary and *)
(* foreign keys are added back in the end.                                 *)
Script(d) == <<
  [accepted |-> Refer(RemapScores(d).scores, d), result |-> RemapScores(d)],
  [accepted |-> \A r, s \in d.scores : r.user_id = s.user_id => r = s, result |-> d],
  [accepted |-> TRUE, result |-> TruncateTokens(d)],
  [accepted |-> TRUE, result |-> RemapUsers(d)],
  [accepted |-> Unique(d.id), result |-> d],
  [accepted |-> Refer(d.submissions, d), result |-> d],
  [accepted |-> Refer(d.tokens, d) /\ Refer(d.scores, d), result |-> d] >>

ScriptLength == 7

==============================================================================
