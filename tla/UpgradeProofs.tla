---------------------------- MODULE UpgradeProofs ----------------------------
(***************************************************************************)
(* Proofs about Upgrade, for any CMS, any people and ids, and any number   *)
(* of writers, writes, starts and failures.                                *)
(***************************************************************************)
EXTENDS Upgrade, TLAPS

(***************************************************************************)
(* The migration of ids.  Identified(f, S, P, k): the tables before        *)
(* statement k of the script, for the ids f of the CMS, the people S with  *)
(* a score and the people P with a submission.                             *)
(***************************************************************************)
Identified(f, S, P, k) ==
  [id |-> IF k <= 4 THEN OldIds ELSE f,
   cms |-> f,
   scores |-> IF k = 1 THEN RowsOf(S, OldIds) ELSE RowsOf(S, f),
   tokens |-> IF k <= 3 THEN RowsOf(Person, OldIds) ELSE {},
   submissions |-> RowsOf(P, OldIds)]

ScoresPass(f, S) == \A p \in S : \E q \in Person : f[p] = OldIds[q]
SubmissionsPass(f, P) == \A p \in P : \E q \in Person : OldIds[p] = f[q]

(* Neither the judge nor the CMS gives one id to two people.               *)
LEMMA Identity ==
  ASSUME NEW f \in CmsIds
  PROVE  /\ f \in [Person -> UserId] /\ OldIds \in [Person -> UserId]
         /\ \A p, q \in Person : f[p] = f[q] => p = q
         /\ \A p, q \in Person : OldIds[p] = OldIds[q] => p = q
BY IdAssumption DEF Unique

(* A table with a row for each person of S.                                *)
LEMMA Rows ==
  ASSUME NEW ids \in [Person -> UserId], NEW S \in SUBSET Person
  PROVE  /\ RowsOf(S, ids) \in SUBSET Row
         /\ \A r \in RowsOf(S, ids) : r.person \in S /\ r.user_id = ids[r.person]
         /\ \A p \in S : \E r \in RowsOf(S, ids) : r.person = p /\ r.user_id = ids[p]
<1>1. \A p \in S : [user_id |-> ids[p], person |-> p] \in Row
  BY DEF Row
<1>2. \A p \in S : [user_id |-> ids[p], person |-> p] \in RowsOf(S, ids)
  BY DEF RowsOf
<1>3. ASSUME NEW r \in RowsOf(S, ids)
      PROVE  \E p \in S : r = [user_id |-> ids[p], person |-> p]
  BY DEF RowsOf
<1>4. RowsOf(S, ids) \in SUBSET Row
  BY <1>1, <1>3
<1>5. \A r \in RowsOf(S, ids) : r.person \in S /\ r.user_id = ids[r.person]
  BY <1>3
<1>6. \A p \in S : \E r \in RowsOf(S, ids) : r.person = p /\ r.user_id = ids[p]
  BY <1>2
<1> QED BY <1>4, <1>5, <1>6

(* Every stage of the migration of ids is a state of the tables.           *)
LEMMA IdentifiedType ==
  ASSUME NEW f \in CmsIds, NEW S \in SUBSET Person, NEW P \in SUBSET Person, NEW k \in Nat
  PROVE  Identified(f, S, P, k) \in Tables
<1>1. /\ RowsOf(S, OldIds) \in SUBSET Row /\ RowsOf(S, f) \in SUBSET Row
      /\ RowsOf(Person, OldIds) \in SUBSET Row /\ RowsOf(P, OldIds) \in SUBSET Row
  BY Identity, Rows
<1> QED BY <1>1, Identity DEF Identified, Tables

(* The first UPDATE finds the person of every score by the old id. *)
LEMMA Remapped ==
  ASSUME NEW f \in CmsIds, NEW S \in SUBSET Person, NEW P \in SUBSET Person
  PROVE  RemapScores(Identified(f, S, P, 1)) = Identified(f, S, P, 2)
<1> DEFINE d == Identified(f, S, P, 1)
           pairs == {y \in d.scores \X Person : d.id[y[2]] = y[1].user_id}
           rows == {[user_id |-> d.cms[x[2]], person |-> x[1].person] : x \in pairs}
<1>1. d.scores = RowsOf(S, OldIds) /\ d.id = OldIds /\ d.cms = f
  BY DEF Identified
<1>2. ASSUME NEW x \in pairs
      PROVE  [user_id |-> f[x[2]], person |-> x[1].person] \in RowsOf(S, f)
  <2>1. x[1] \in RowsOf(S, OldIds) /\ x[2] \in Person /\ OldIds[x[2]] = x[1].user_id
    BY <1>1
  <2>2. x[1].person \in S /\ x[1].user_id = OldIds[x[1].person]
    BY <2>1, Identity, Rows
  <2>3. x[2] = x[1].person
    BY <2>1, <2>2, Identity
  <2> QED BY <2>2, <2>3 DEF RowsOf
<1>3. ASSUME NEW p \in S
      PROVE  [user_id |-> f[p], person |-> p] \in rows
  <2>1. PICK r \in RowsOf(S, OldIds) : r.person = p /\ r.user_id = OldIds[p]
    BY Identity, Rows
  <2>2. <<r, p>> \in pairs
    BY <1>1, <2>1
  <2> QED BY <1>1, <2>1, <2>2
<1>4. rows = RowsOf(S, f)
  <2>1. rows \subseteq RowsOf(S, f)
    BY <1>1, <1>2
  <2>2. RowsOf(S, f) \subseteq rows
    BY <1>3 DEF RowsOf
  <2> QED BY <2>1, <2>2
<1>5. RemapScores(d) = [d EXCEPT !.scores = RowsOf(S, f)]
  BY <1>4 DEF RemapScores
<1> HIDE DEF pairs, rows
<1> QED BY <1>5 DEF Identified

(* Each statement takes the tables to the next stage; only the foreign     *)
(* keys of scores and of submissions can refuse it.                        *)
LEMMA ScriptStep ==
  ASSUME NEW f \in CmsIds, NEW S \in SUBSET Person, NEW P \in SUBSET Person,
         NEW k \in 1 .. ScriptLength
  PROVE  LET d == Identified(f, S, P, k) IN
         /\ Script(d)[k].result = Identified(f, S, P, k + 1)
         /\ Script(d)[k].accepted <=> /\ k = 1 => ScoresPass(f, S)
                                      /\ k = 6 => SubmissionsPass(f, P)
<1> DEFINE d == Identified(f, S, P, k)
<1>0. k \in {1, 2, 3, 4, 5, 6, 7}
  BY DEF ScriptLength
<1>1. CASE k = 1
  <2>1. Script(d)[1] = [accepted |-> Refer(RemapScores(d).scores, d), result |-> RemapScores(d)]
    BY DEF Script
  <2>2. RemapScores(d) = Identified(f, S, P, 2)
    BY <1>1, Remapped
  <2>3. Refer(RemapScores(d).scores, d) <=> \A r \in RowsOf(S, f) : \E p \in Person : r.user_id = OldIds[p]
    BY <1>1, <2>2 DEF Refer, Identified
  <2>4. Refer(RemapScores(d).scores, d) <=> ScoresPass(f, S)
    BY <2>3, Identity, Rows DEF ScoresPass
  <2> QED BY <1>1, <2>1, <2>2, <2>4
<1>2. CASE k = 2
  <2>1. /\ Script(d)[2].accepted = (\A r, s \in d.scores : r.user_id = s.user_id => r = s)
        /\ Script(d)[2].result = d
    BY DEF Script
  <2>2. ASSUME NEW r \in RowsOf(S, f), NEW s \in RowsOf(S, f), r.user_id = s.user_id
        PROVE  r = s
    <3>1. r.person = s.person
      BY <2>2, Identity, Rows
    <3>2. r \in Row /\ s \in Row
      BY Identity, Rows
    <3> QED BY <2>2, <3>1, <3>2 DEF Row
  <2>3. d.scores = RowsOf(S, f) /\ d = Identified(f, S, P, 3)
    BY <1>2 DEF Identified
  <2>4. Script(d)[2].accepted = TRUE
    BY <2>1, <2>2, <2>3
  <2> QED BY <1>2, <2>1, <2>3, <2>4
<1>3. CASE k = 3
  <2>1. /\ Script(d)[3].accepted = TRUE
        /\ Script(d)[3].result = [d EXCEPT !.tokens = {}]
    BY DEF Script, TruncateTokens
  <2>2. [d EXCEPT !.tokens = {}] = Identified(f, S, P, 4)
    BY <1>3 DEF Identified
  <2> QED BY <1>3, <2>1, <2>2
<1>4. CASE k = 4
  <2>1. /\ Script(d)[4].accepted = TRUE
        /\ Script(d)[4].result = [d EXCEPT !.id = d.cms]
    BY DEF Script, RemapUsers
  <2>2. [d EXCEPT !.id = d.cms] = Identified(f, S, P, 5)
    BY <1>4 DEF Identified
  <2> QED BY <1>4, <2>1, <2>2
<1>5. CASE k = 5
  <2>1. Script(d)[5].accepted = Unique(d.id) /\ Script(d)[5].result = d
    BY DEF Script
  <2>2. d.id = f /\ d = Identified(f, S, P, 6)
    BY <1>5 DEF Identified
  <2>3. Unique(f)
    BY IdAssumption
  <2> QED BY <1>5, <2>1, <2>2, <2>3
<1>6. CASE k = 6
  <2>1. Script(d)[6].accepted = Refer(d.submissions, d) /\ Script(d)[6].result = d
    BY DEF Script
  <2>2. d.id = f /\ d.submissions = RowsOf(P, OldIds) /\ d = Identified(f, S, P, 7)
    BY <1>6 DEF Identified
  <2>3. Refer(d.submissions, d) <=> SubmissionsPass(f, P)
    BY <2>2, Identity, Rows DEF Refer, SubmissionsPass
  <2> QED BY <1>6, <2>1, <2>2, <2>3
<1>7. CASE k = 7
  <2>1. /\ Script(d)[7].accepted = (Refer(d.tokens, d) /\ Refer(d.scores, d))
        /\ Script(d)[7].result = d
    BY DEF Script
  <2>2. d.id = f /\ d.tokens = {} /\ d.scores = RowsOf(S, f) /\ d = Identified(f, S, P, 8)
    BY <1>7 DEF Identified
  <2>3. Refer(d.tokens, d) /\ Refer(d.scores, d)
    BY <2>2, Identity, Rows DEF Refer
  <2>4. Script(d)[7].accepted = TRUE
    BY <2>1, <2>3
  <2> QED BY <1>7, <2>1, <2>2, <2>4
<1> QED BY <1>0, <1>1, <1>2, <1>3, <1>4, <1>5, <1>6, <1>7

------------------------------------------------------------------------------
(* The stage of the judge's tables as its transaction sees them. *)
Stage == IF remapped THEN 8 ELSE IF pc = "judge" THEN at ELSE 1

StageOf(f, S, P) ==
  /\ tables = Identified(f, S, P, IF remapped THEN 8 ELSE 1)
  /\ work = Identified(f, S, P, Stage)
  /\ Stage > 1 => ScoresPass(f, S)
  /\ Stage > 6 => SubmissionsPass(f, P)

Control ==
  /\ remapped \in BOOLEAN
  /\ pc \in {"down", "bridge", "judge", "serving"}
  /\ release \in Version
  /\ at \in 1 .. ScriptLength + 1
  /\ pc = "bridge" => at <= Len(BridgeScript) + 1
  /\ pc \in {"down", "serving"} \/ (pc = "judge" /\ release # 3) => at = 1

TablesInv ==
  /\ Control
  /\ \E f \in CmsIds : \E S, P \in SUBSET Person : StageOf(f, S, P)

(* The statements of the bridge's three scripts.                           *)
LEMMA BridgeStatements ==
  /\ Len(BridgeScript) = 6
  /\ BridgeScript[1] = Queue(1, Task)
  /\ BridgeScript[2] = Trigger(1, "submission_results")
  /\ BridgeScript[3] = Trigger(1, "submissions")
  /\ BridgeScript[4] = Trigger(1, "tasks")
  /\ BridgeScript[5] = Queue(2, Task)
  /\ BridgeScript[6] = Queue(3, Submission)
BY DEF BridgeScript

(* A step after which no statement of the migration of ids is pending.     *)
LEMMA AtRest ==
  ASSUME TablesInv, Control', UNCHANGED <<tables, remapped>>, work' = tables', Stage' \in {1, 8},
         remapped <=> Stage' = 8
  PROVE  TablesInv'
<1>1. PICK f \in CmsIds, S \in SUBSET Person, P \in SUBSET Person : StageOf(f, S, P)
  BY DEF TablesInv
<1>2. StageOf(f, S, P)'
  BY <1>1 DEF StageOf, Stage
<1> QED BY <1>2 DEF TablesInv

(* However often the migration of ids is started, refused or cut off, the  *)
(* judge's tables are at one of its stages.                                *)
THEOREM TablesInductive == Spec => []TablesInv
<1>1. Init => TablesInv
  <2> SUFFICES ASSUME Init PROVE TablesInv
    OBVIOUS
  <2>1. PICK f \in CmsIds : tables \in OldTables(OldIds, f)
    BY DEF Init
  <2>2. PICK x \in [scored : SUBSET Person, submitted : SUBSET Person] :
          tables = [id |-> OldIds, cms |-> f,
                    scores |-> RowsOf(x.scored, OldIds), tokens |-> RowsOf(Person, OldIds),
                    submissions |-> RowsOf(x.submitted, OldIds)]
    BY <2>1 DEF OldTables
  <2>3. x.scored \in SUBSET Person /\ x.submitted \in SUBSET Person
    OBVIOUS
  <2>4. tables = Identified(f, x.scored, x.submitted, 1)
    BY <2>2 DEF Identified
  <2>5. StageOf(f, x.scored, x.submitted)
    <3>1. remapped = FALSE /\ pc = "down" /\ work = tables
      BY DEF Init
    <3>2. Stage = 1
      BY <3>1 DEF Stage
    <3> QED BY <2>4, <3>1, <3>2 DEF StageOf
  <2>6. Control
    <3>1. remapped = FALSE /\ pc = "down" /\ release = 1 /\ at = 1
      BY DEF Init
    <3>2. remapped \in BOOLEAN
      BY <3>1
    <3>3. release \in Version /\ at \in 1 .. ScriptLength + 1
      BY <3>1 DEF Version, ScriptLength
    <3> QED BY <3>1, <3>2, <3>3, Zenon DEF Control
  <2> QED BY <2>3, <2>5, <2>6 DEF TablesInv
<1>2. TablesInv /\ [Next]_vars => TablesInv'
  <2> SUFFICES ASSUME TablesInv, [Next]_vars PROVE TablesInv'
    OBVIOUS
  <2>0. Control
    BY DEF TablesInv
  <2>1. PICK f \in CmsIds, S \in SUBSET Person, P \in SUBSET Person : StageOf(f, S, P)
    BY DEF TablesInv
  <2>2. CASE UNCHANGED <<tables, remapped, pc, release, at, work>>
    <3>1. StageOf(f, S, P)'
      BY <2>1, <2>2 DEF StageOf, Stage
    <3> QED BY <2>0, <2>2, <3>1 DEF TablesInv, Control
  <2>3. ASSUME NEW k \in Version, Start(k) PROVE TablesInv'
    <3>1. Control' /\ work' = tables'
      BY <2>0, <2>1, <2>3, BridgeStatements
      DEF Start, Control, transaction, StageOf, Stage, ScriptLength
    <3>2. UNCHANGED <<tables, remapped>> /\ pc' = "bridge"
      BY <2>3 DEF Start
    <3> QED BY <2>0, <3>1, <3>2, AtRest DEF Stage, Control
  <2>4. CASE BridgeSkips \/ BridgeStatement
    <3>1. Control' /\ work' = tables'
      BY <2>0, <2>1, <2>4, BridgeStatements
      DEF BridgeSkips, BridgeStatement, More, Control, StageOf, Stage, ScriptLength
    <3>2. UNCHANGED <<tables, remapped>> /\ pc' = "bridge"
      BY <2>4 DEF BridgeSkips, BridgeStatement
    <3> QED BY <2>0, <3>1, <3>2, AtRest DEF Stage, Control
  <2>5. CASE BridgeCommit \/ BridgeCommitUnacked \/ Ends
    <3>1. UNCHANGED <<tables, remapped>> /\ work' = tables' /\ at' = 1 /\ release' = release
          /\ pc' \in {"down", "judge"}
      BY <2>5 DEF BridgeCommit, BridgeCommitUnacked, Ends, NoTransaction
    <3>2. Control'
      BY <2>0, <3>1 DEF Control, ScriptLength
    <3> QED BY <2>0, <3>1, <3>2, AtRest DEF Stage, Control
  <2>6. CASE JudgeStatement
    <3>1. /\ pc = "judge" /\ release = 3 /\ ~remapped /\ at \in 1 .. ScriptLength
          /\ Script(work)[at].accepted /\ work' = Script(work)[at].result
          /\ at' = at + 1 /\ UNCHANGED <<tables, remapped, pc, release>>
      BY <2>0, <2>6 DEF JudgeStatement, JudgeMore, Control, ScriptLength
    <3>2. work = Identified(f, S, P, at)
      BY <2>1, <3>1 DEF StageOf, Stage
    <3>3. /\ work' = Identified(f, S, P, at + 1)
          /\ at = 1 => ScoresPass(f, S)
          /\ at = 6 => SubmissionsPass(f, P)
      BY <3>1, <3>2, ScriptStep
    <3>4. Stage = at /\ Stage' = at + 1
      BY <3>1 DEF Stage
    <3>5. StageOf(f, S, P)'
      BY <2>1, <3>1, <3>3, <3>4 DEF StageOf, ScriptLength
    <3>6. Control'
      BY <2>0, <3>1 DEF Control, ScriptLength
    <3> QED BY <3>5, <3>6 DEF TablesInv
  <2>7. CASE JudgeCommit
    <3>1. /\ pc = "judge" /\ ~JudgeMore /\ tables' = work /\ work' = tables' /\ at' = 1
          /\ remapped' = (remapped \/ release = 3) /\ pc' = "serving" /\ release' = release
      BY <2>7 DEF JudgeCommit, NoTransaction
    <3>2. Control'
      BY <2>0, <3>1 DEF Control, ScriptLength
    <3>3. Stage = IF remapped' THEN 8 ELSE 1
      <4>1. CASE remapped
        BY <3>1, <4>1 DEF Stage
      <4>2. CASE ~remapped /\ release = 3
        <5>1. at = 8
          BY <2>0, <3>1, <4>2 DEF JudgeMore, Control, ScriptLength
        <5> QED BY <3>1, <4>2, <5>1 DEF Stage
      <4>3. CASE ~remapped /\ release # 3
        <5>1. at = 1 /\ ~remapped'
          BY <2>0, <3>1, <4>3 DEF Control
        <5> QED BY <3>1, <4>3, <5>1 DEF Stage
      <4> QED BY <4>1, <4>2, <4>3
    <3>4. Stage' = Stage
      BY <2>0, <3>1, <3>3 DEF Stage, Control
    <3>5. StageOf(f, S, P)'
      BY <2>1, <3>1, <3>3, <3>4 DEF StageOf
    <3> QED BY <3>2, <3>5 DEF TablesInv
  <2>8. ASSUME NEW w \in Writer,
               CmsCommit(w) \/ CmsAbort(w) \/ \E t \in CmsTable, o \in Object : CmsWrite(w, t, o)
        PROVE  UNCHANGED <<tables, remapped, pc, release, at, work>>
    BY <2>8 DEF CmsCommit, CmsAbort, CmsWrite, transaction
  <2>9. ASSUME Quiescent \/ UNCHANGED vars
        PROVE  UNCHANGED <<tables, remapped, pc, release, at, work>>
    BY <2>9 DEF Quiescent, vars, transaction
  <2> QED BY <2>2, <2>3, <2>4, <2>5, <2>6, <2>7, <2>8, <2>9 DEF Next
<1> QED BY <1>1, <1>2, PTL DEF Spec

(* What the stages say of owners and of refusals.                          *)
LEMMA Owners ==
  ASSUME TablesInv
  PROVE  RowsKeepOwners /\ RefusedForIds /\ (remapped <=> tables.id = tables.cms /\ tables.tokens = {})
<1>0. PICK f \in CmsIds, S \in SUBSET Person, P \in SUBSET Person : StageOf(f, S, P)
  BY DEF TablesInv
<1>1. Control
  BY DEF TablesInv
<1>2. CASE remapped
  <2>1. /\ tables.id = f /\ tables.cms = f /\ tables.tokens = {}
        /\ tables.scores = RowsOf(S, f) /\ tables.submissions = RowsOf(P, OldIds)
        /\ ScoresPass(f, S) /\ SubmissionsPass(f, P)
    BY <1>0, <1>2 DEF StageOf, Stage, Identified
  <2>2. RowsKeepOwners
    BY <1>2, <2>1, Identity, Rows DEF RowsKeepOwners, Follows
  <2>3. Upgradable
    BY <2>1, Identity, Rows DEF Upgradable, ScoresPass, SubmissionsPass
  <2>4. ~Refused
    BY <1>2 DEF Refused, JudgeMore
  <2> QED BY <1>2, <2>1, <2>2, <2>3, <2>4 DEF RefusedForIds
<1>3. CASE ~remapped
  <2>1. /\ tables.id = OldIds /\ tables.cms = f /\ tables.tokens = RowsOf(Person, OldIds)
        /\ tables.scores = RowsOf(S, OldIds) /\ tables.submissions = RowsOf(P, OldIds)
    BY <1>0, <1>3 DEF StageOf, Identified
  <2>2. RowsKeepOwners
    <3>1. \A r \in tables.scores \cup tables.tokens \cup tables.submissions : Follows(r, tables)
      BY <2>1, Identity, Rows DEF Follows
    <3>2. \A r \in tables.submissions :
            remapped => OldIds[r.person] = tables.cms[r.person]
      BY <1>3
    <3>3. \A r \in tables.scores \cup tables.tokens : Follows(r, tables)
      BY <3>1
    <3>4. \A r \in tables.submissions :
            Follows(r, tables) <=> (remapped => OldIds[r.person] = tables.cms[r.person])
      BY <3>1, <3>2, Zenon
    <3> QED BY <3>3, <3>4 DEF RowsKeepOwners
  <2>3. tables.tokens # {}
    <3>1. PICK p \in Person : TRUE
      BY PersonAssumption
    <3>2. [user_id |-> OldIds[p], person |-> p] \in RowsOf(Person, OldIds)
      BY DEF RowsOf
    <3> QED BY <2>1, <3>2
  <2>4. Refused => ~Upgradable
    <3> SUFFICES ASSUME Refused PROVE ~Upgradable
      OBVIOUS
    <3>1. at \in 1 .. ScriptLength /\ work = Identified(f, S, P, at) /\ ~Script(work)[at].accepted
      BY <1>0, <1>1, <1>3 DEF Refused, JudgeMore, StageOf, Stage, Control, ScriptLength
    <3>2. ~ScoresPass(f, S) \/ ~SubmissionsPass(f, P)
      BY <3>1, ScriptStep
    <3> QED BY <2>1, <3>2, Identity, Rows DEF Upgradable, ScoresPass, SubmissionsPass
  <2> QED BY <1>3, <2>2, <2>3, <2>4 DEF RefusedForIds
<1> QED BY <1>1, <1>2, <1>3 DEF Control

(* The migration of ids keeps scores with their people and tells exactly   *)
(* whose submissions change hands.                                         *)
THEOREM OwnersKept == Spec => []RowsKeepOwners
BY TablesInductive, Owners, PTL

(* The migration of ids is refused only for the ids it finds. *)
THEOREM RefusedOnly == Spec => []RefusedForIds
BY TablesInductive, Owners, PTL

------------------------------------------------------------------------------
(***************************************************************************)
(* The scripts of the bridge.  What the open transaction has done is known *)
(* from the statement it has come to.                                      *)
(***************************************************************************)
First(v) == IF v = 1 THEN 1 ELSE v + 3

(* The statements that create the triggers, as numbers. *)
Creates(t) ==
  IF t = "submission_results" THEN 2 ELSE IF t = "submissions" THEN 3 ELSE 4

Types ==
  /\ exists \subseteq Object
  /\ open \in [Writer -> SUBSET (CmsTable \X Object)]
  /\ fired \in [Writer -> SUBSET Object]
  /\ versions \subseteq Version
  /\ made \subseteq CmsTable
  /\ claimed \subseteq Object
  /\ ran \subseteq Version
  /\ dirty \subseteq exists
  /\ times \in [Version -> Nat]
  /\ writes \in 0 .. MaxWrites
  /\ starts \in 0 .. MaxStarts

(* What is recorded and installed. *)
Installed ==
  /\ \A v \in Version : times[v] = IF v \in versions THEN 1 ELSE 0
  /\ triggers = IF 1 \in versions THEN CmsTable ELSE {}
  /\ \A v \in versions, u \in Version : u < v => u \in versions
  /\ pc # "down" => \A v \in versions : v <= release

(* No open transaction of the CMS holds a row whose trigger it has missed  *)
(* and will miss: neither of a locked table nor under an installed trigger.*)
Heard ==
  \A w \in Writer : \A x \in open[w] :
    x[1] \notin made /\ (1 \in versions => x[2] \in fired[w])

Progress ==
  IF pc = "bridge"
  THEN /\ \A v \in Version : v \in ran <=> v \notin versions /\ First(v) < at
       /\ \A v \in Version : First(v) < at => v <= release
       /\ \A t \in CmsTable : t \in made <=> 1 \in ran /\ Creates(t) < at
       /\ 2 \in ran => dirty \cap Task \subseteq claimed
       /\ 3 \in ran => dirty \cap Submission \subseteq claimed
  ELSE ran = {} /\ made = {} /\ claimed = {}

IInv == Types /\ Installed /\ Heard /\ Progress /\ NothingMissed

(* The bridge has three scripts.                                           *)
LEMMA VersionValues == Version = {1, 2, 3} /\ Version \subseteq Nat
BY DEF Version

(* Once every trigger is there, or about to be, changes are reported. *)
LEMMA Reported ==
  ASSUME IInv, NEW w \in Writer, 1 \in versions \/ made = CmsTable
  PROVE  Changed(w) \subseteq fired[w]
<1>1. open[w] \subseteq CmsTable \X Object
  BY DEF IInv, Types
<1>2. ASSUME NEW x \in open[w] PROVE x[2] \in fired[w]
  BY <1>1, <1>2 DEF IInv, Heard
<1> QED BY <1>2 DEF Changed

(* The loop over the scripts has come to its end. *)
LEMMA Finished ==
  ASSUME IInv, Control, pc = "bridge", ~More
  PROVE  /\ \A v \in Version : v \in ran <=> v \notin versions /\ v <= release
         /\ 1 \in ran => made = CmsTable
<1>1. at \in {1, 2, 3, 4, 5, 6, 7} /\ release \in {1, 2, 3}
  BY BridgeStatements, VersionValues DEF Control
<1>2. (at = 5 /\ release = 1) \/ (at = 6 /\ release \in {1, 2}) \/ at = 7
  BY <1>1, BridgeStatements DEF More, Queue, Trigger
<1>3. \A v \in Version : First(v) < at => v <= release
  BY DEF IInv, Progress
<1>4. \A v \in Version : v <= release => First(v) < at
  BY <1>1, <1>2, VersionValues DEF First
<1>5. \A t \in CmsTable : Creates(t) < at
  BY <1>2 DEF Creates
<1>6. \A v \in Version : v \in ran <=> v \notin versions /\ v <= release
  BY <1>3, <1>4 DEF IInv, Progress
<1>7. 1 \in ran => made = CmsTable
  BY <1>5 DEF IInv, Progress, Types
<1> QED BY <1>6, <1>7

(* The commit of the scripts: what they have queued covers what the CMS    *)
(* had changed, since nobody can change a table while it gets its trigger. *)
LEMMA BridgeCommits ==
  ASSUME IInv, Control, pc = "bridge", ~More, BridgeWrites, NoTransaction,
         pc' \in {"down", "judge"},
         UNCHANGED <<exists, open, fired, writes, release, starts>>
  PROVE  IInv'
<1>0. /\ \A v \in Version : v \in ran <=> v \notin versions /\ v <= release
      /\ 1 \in ran => made = CmsTable
      /\ Types /\ Installed /\ Heard /\ Progress /\ NothingMissed
      /\ release \in Nat
  BY Finished, VersionValues DEF IInv, Control
<1>1. versions' = {v \in Version : v <= release}
  <2>1. \A v \in versions : v \in Version /\ v <= release
    BY <1>0 DEF Types, Installed
  <2> QED BY <1>0, <2>1 DEF BridgeWrites, Types
<1>2. 1 \in versions' /\ (1 \in versions \/ made = CmsTable)
  <2>1. release \in {1, 2, 3}
    BY VersionValues DEF Control
  <2>2. 1 \in versions'
    BY <1>1, <2>1, VersionValues
  <2> QED BY <1>0, <2>2 DEF BridgeWrites
<1>3. Types'
  BY <1>0 DEF Types, BridgeWrites, NoTransaction
<1>4. Installed'
  <2>1. \A v \in Version : times'[v] = IF v \in versions' THEN 1 ELSE 0
    BY <1>0 DEF Installed, BridgeWrites, Types
  <2>2. triggers' = CmsTable
    <3>1. made \subseteq CmsTable
      BY <1>0 DEF Types
    <3> QED BY <1>2, <3>1, <1>0 DEF BridgeWrites, Installed
  <2>3. \A v \in versions', u \in Version : u < v => u \in versions'
    BY <1>0, <1>1, VersionValues
  <2> QED BY <1>1, <1>2, <2>1, <2>2, <2>3 DEF Installed
<1>5. Heard'
  <2>1. \A w \in Writer : \A x \in open[w] : x[2] \in fired[w]
    BY <1>2, Reported DEF Changed
  <2> QED BY <2>1 DEF Heard, NoTransaction
<1>6. Progress'
  BY DEF Progress, NoTransaction
<1>7. NothingMissed'
  <2>1. dirty' = dirty \ claimed
    BY DEF BridgeWrites
  <2>2. ASSUME 2 \in versions' PROVE dirty' \cap Task = {}
    <3>1. 2 \in versions \/ 2 \in ran
      BY <2>2 DEF BridgeWrites
    <3> QED BY <1>0, <2>1, <3>1 DEF NothingMissed, Progress
  <2>3. ASSUME 3 \in versions' PROVE dirty' = {}
    <3>1. 2 \in versions'
      BY <1>0, <1>1, <2>3, VersionValues
    <3>2. 3 \in versions \/ 3 \in ran
      BY <2>3 DEF BridgeWrites
    <3>3. dirty' \cap Submission = {}
      BY <1>0, <2>1, <3>2 DEF NothingMissed, Progress
    <3>4. dirty' \subseteq Object
      BY <1>0, <2>1 DEF Types
    <3> QED BY <2>2, <3>1, <3>3, <3>4 DEF Object
  <2> QED BY <2>2, <2>3 DEF NothingMissed
<1> QED BY <1>3, <1>4, <1>5, <1>6, <1>7 DEF IInv

(* A transaction of the CMS commits: while anything is recorded or queued  *)
(* behind the triggers, all it has changed is reported by its own events.  *)
LEMMA CmsCommits ==
  ASSUME IInv, Control, NEW w \in Writer, CmsCommit(w)
  PROVE  IInv'
<1>0. /\ Types /\ Installed /\ Heard /\ Progress /\ NothingMissed
      /\ exists' = exists \cup Changed(w)
      /\ dirty' = (dirty \cup Changed(w)) \ fired[w]
      /\ UNCHANGED <<triggers, versions, pc, release, at, made, claimed, ran, times, writes, starts>>
  BY DEF IInv, CmsCommit, installed, transaction
<1>1. Types'
  <2>1. Changed(w) \subseteq Object
    <3>1. \A x \in open[w] : x[2] \in Object
      BY <1>0 DEF Types
    <3> QED BY <3>1 DEF Changed
  <2>2. open' \in [Writer -> SUBSET (CmsTable \X Object)] /\ fired' \in [Writer -> SUBSET Object]
    BY <1>0 DEF Types, CmsCommit
  <2> QED BY <1>0, <2>1, <2>2 DEF Types
<1>2. Installed'
  BY <1>0 DEF Installed
<1>3. Heard'
  <2>1. \A v \in Writer : open'[v] = {} \/ (open'[v] = open[v] /\ fired'[v] = fired[v])
    BY <1>0 DEF CmsCommit, Types
  <2> QED BY <1>0, <2>1 DEF Heard
<1>4. ASSUME 1 \in versions \/ made = CmsTable PROVE dirty' \subseteq dirty
  BY <1>0, <1>4, Reported
<1>5. Progress'
  <2>1. CASE pc # "bridge"
    BY <1>0, <2>1 DEF Progress
  <2>2. CASE pc = "bridge"
    <3>1. ASSUME 2 \in ran \/ 3 \in ran PROVE dirty' \subseteq dirty
      <4>1. at \in Nat /\ at > 5
        <5>1. 2 \in Version /\ 3 \in Version /\ First(2) = 5 /\ First(3) = 6 /\ at \in Nat
          BY VersionValues DEF First, Control
        <5>2. First(2) < at \/ First(3) < at
          BY <1>0, <2>2, <3>1, <5>1 DEF Progress
        <5> QED BY <5>1, <5>2
      <4>2. 1 \in versions \/ 1 \in ran
        BY <1>0, <2>2, <4>1, VersionValues DEF Progress, First
      <4>3. 1 \in ran => made = CmsTable
        <5>1. \A t \in CmsTable : Creates(t) < at
          BY <4>1 DEF Creates
        <5> QED BY <1>0, <2>2, <5>1 DEF Progress, Types
      <4> QED BY <4>2, <4>3, <1>4
    <3> QED BY <1>0, <2>2, <3>1 DEF Progress
  <2> QED BY <2>1, <2>2
<1>6. NothingMissed'
  <2>1. ASSUME 2 \in versions \/ 3 \in versions PROVE dirty' \subseteq dirty
    <3>1. 1 \in versions
      BY <1>0, <2>1, VersionValues DEF Installed
    <3> QED BY <3>1, <1>4
  <2> QED BY <1>0, <2>1 DEF NothingMissed
<1> QED BY <1>1, <1>2, <1>3, <1>5, <1>6 DEF IInv

(* A statement of a script: the queue is filled with what there is, a      *)
(* trigger is created on a table nobody is writing.                        *)
LEMMA BridgeStatementKeeps ==
  ASSUME IInv, Control, BridgeStatement
  PROVE  IInv'
<1> DEFINE s == BridgeScript[at]
<1>0. /\ Types /\ Installed /\ Heard /\ Progress /\ NothingMissed
      /\ pc = "bridge" /\ Pending(s.version) /\ ~Locked(s.trigger) /\ s.version <= release
      /\ claimed' = claimed \cup (exists \cap s.queue)
      /\ made' = made \cup s.trigger
      /\ ran' = ran \cup {s.version}
      /\ at' = at + 1
      /\ UNCHANGED <<cms, installed, pc, release, times, starts>>
  BY DEF IInv, BridgeStatement, More
<1>1. at \in {1, 2, 3, 4, 5, 6}
  BY BridgeStatements DEF BridgeStatement, More, Control
<1>2. /\ s.version = IF at <= 4 THEN 1 ELSE at - 3
      /\ s.trigger = IF at = 2 THEN {"submission_results"} ELSE
                     IF at = 3 THEN {"submissions"} ELSE
                     IF at = 4 THEN {"tasks"} ELSE {}
      /\ at = 5 => s.queue = Task
      /\ at = 6 => s.queue = Submission
      /\ s.queue \subseteq Object
  <2>1. CASE at = 1
    BY <2>1, BridgeStatements DEF Queue, Object
  <2>2. CASE at = 2
    BY <2>2, BridgeStatements DEF Trigger
  <2>3. CASE at = 3
    BY <2>3, BridgeStatements DEF Trigger
  <2>4. CASE at = 4
    BY <2>4, BridgeStatements DEF Trigger
  <2>5. CASE at = 5
    BY <2>5, BridgeStatements DEF Queue, Object
  <2>6. CASE at = 6
    BY <2>6, BridgeStatements DEF Queue, Object
  <2> QED BY <1>1, <2>1, <2>2, <2>3, <2>4, <2>5, <2>6
<1> HIDE DEF s
<1>3. Types'
  <2>1. s.trigger \subseteq CmsTable /\ s.version \in Version
    BY <1>1, <1>2, VersionValues DEF CmsTable
  <2> QED BY <1>0, <1>2, <2>1 DEF Types, cms, installed
<1>4. Installed' /\ NothingMissed'
  BY <1>0 DEF Installed, NothingMissed, cms, installed
<1>5. Heard'
  <2>1. \A w \in Writer : \A x \in open[w] : x[1] \notin s.trigger
    BY <1>0 DEF Locked
  <2> QED BY <1>0, <2>1 DEF Heard, cms, installed
<1>6. Progress'
  <2>1. \A v \in Version : v \in ran' <=> v \notin versions' /\ First(v) < at'
    BY <1>0, <1>1, <1>2, VersionValues DEF Progress, First, Pending, installed
  <2>2. \A v \in Version : First(v) < at' => v <= release'
    BY <1>0, <1>1, <1>2, VersionValues DEF Progress, First
  <2>3. \A t \in CmsTable : t \in made' <=> 1 \in ran' /\ Creates(t) < at'
    <3>1. at <= 4 => 1 \in ran'
      BY <1>0, <1>2
    <3>2. at > 4 => (1 \in ran' <=> 1 \in ran)
      BY <1>0, <1>1, <1>2
    <3>3. \A t \in CmsTable : t \in s.trigger <=> at = Creates(t)
      BY <1>1, <1>2 DEF CmsTable, Creates
    <3>4. \A t \in CmsTable : Creates(t) \in 2 .. 4
      BY DEF Creates
    <3>5. ASSUME NEW t \in CmsTable PROVE t \in made' <=> 1 \in ran' /\ Creates(t) < at'
      <4>1. t \in made' <=> t \in made \/ at = Creates(t)
        BY <1>0, <3>3
      <4>2. t \in made <=> 1 \in ran /\ Creates(t) < at
        BY <1>0 DEF Progress
      <4>3. CASE at > 4
        BY <1>0, <1>1, <3>2, <3>4, <4>1, <4>2, <4>3
      <4>4. CASE at <= 4
        <5>1. 1 < at => 1 \in ran
          BY <1>0, <1>2, <4>4, VersionValues DEF Progress, First, Pending
        <5>2. Creates(t) \in Nat /\ Creates(t) > 1
          BY <3>4
        <5> QED BY <1>0, <1>1, <3>1, <4>1, <4>2, <4>4, <5>1, <5>2
      <4> QED BY <1>1, <4>3, <4>4
    <3> QED BY <3>5
  <2>4. 2 \in ran' => dirty' \cap Task \subseteq claimed'
    <3>1. CASE at = 5
      BY <1>0, <1>2, <3>1 DEF Types, cms
    <3>2. CASE at # 5
      <4>1. 2 \in ran' => 2 \in ran
        BY <1>0, <1>1, <1>2, <3>2
      <4> QED BY <1>0, <4>1 DEF Progress, cms
    <3> QED BY <3>1, <3>2
  <2>5. 3 \in ran' => dirty' \cap Submission \subseteq claimed'
    <3>1. CASE at = 6
      BY <1>0, <1>2, <3>1 DEF Types, cms
    <3>2. CASE at # 6
      <4>1. 3 \in ran' => 3 \in ran
        BY <1>0, <1>1, <1>2, <3>2
      <4> QED BY <1>0, <4>1 DEF Progress, cms
    <3> QED BY <3>1, <3>2
  <2> QED BY <1>0, <2>1, <2>2, <2>3, <2>4, <2>5 DEF Progress
<1> QED BY <1>3, <1>4, <1>5, <1>6 DEF IInv

(* A script is skipped only when it is recorded. *)
LEMMA BridgeSkipsKeeps ==
  ASSUME IInv, Control, BridgeSkips
  PROVE  IInv'
<1>0. /\ Types /\ Installed /\ Heard /\ Progress /\ NothingMissed
      /\ pc = "bridge" /\ at' = at + 1
      /\ BridgeScript[at].version \in versions /\ BridgeScript[at].version <= release
      /\ UNCHANGED <<cms, installed, pc, release, made, claimed, ran, times, starts>>
  BY DEF IInv, BridgeSkips, More, Pending
<1>1. at \in {1, 2, 3, 4, 5, 6}
  BY BridgeStatements DEF BridgeSkips, More, Control
<1>2. BridgeScript[at].version = IF at <= 4 THEN 1 ELSE at - 3
  BY <1>1, BridgeStatements DEF Queue, Trigger
<1>3. Types'
  BY <1>0 DEF Types, cms, installed
<1>4. Installed' /\ NothingMissed'
  BY <1>0 DEF Installed, NothingMissed, cms, installed
<1>5. Heard'
  BY <1>0 DEF Heard, cms, installed
<1>6. Progress'
  <2>1. \A v \in Version : v \in ran' <=> v \notin versions' /\ First(v) < at'
    BY <1>0, <1>1, <1>2, VersionValues DEF Progress, First, installed
  <2>2. \A v \in Version : First(v) < at' => v <= release'
    BY <1>0, <1>1, <1>2, VersionValues DEF Progress, First
  <2>3. \A t \in CmsTable : t \in made' <=> 1 \in ran' /\ Creates(t) < at'
    <3>1. at <= 4 => 1 \notin ran
      BY <1>0, <1>2, VersionValues DEF Progress
    <3>2. \A t \in CmsTable : Creates(t) \in 2 .. 4
      BY DEF Creates
    <3> QED BY <1>0, <1>1, <3>1, <3>2 DEF Progress
  <2> QED BY <1>0, <2>1, <2>2, <2>3 DEF Progress, cms
<1> QED BY <1>3, <1>4, <1>5, <1>6 DEF IInv

(* While the bridge's scripts run beside the CMS, and across restarts, no  *)
(* change of the CMS slips between the queueing and the triggers.          *)
THEOREM Inductive == Spec => []IInv
<1>1. Init => IInv
  <2> SUFFICES ASSUME Init PROVE IInv
    OBVIOUS
  <2>1. Types
    BY BoundAssumption DEF Init, Types
  <2>2. Installed /\ Heard /\ NothingMissed
    BY DEF Init, Installed, Heard, NothingMissed
  <2>3. Progress
    BY DEF Init, Progress
  <2> QED BY <2>1, <2>2, <2>3 DEF IInv
<1>2. TablesInv /\ IInv /\ [Next]_vars => IInv'
  <2> SUFFICES ASSUME TablesInv, IInv, [Next]_vars PROVE IInv'
    OBVIOUS
  <2>0. /\ Control /\ Types /\ Installed /\ Heard /\ Progress /\ NothingMissed
        /\ MaxWrites \in Nat /\ MaxStarts \in Nat
    BY BoundAssumption DEF TablesInv, IInv
  <2>1. ASSUME NEW w \in Writer, NEW t \in CmsTable, NEW o \in Object, CmsWrite(w, t, o)
        PROVE  IInv'
    <3>0. /\ writes < MaxWrites /\ t \notin made
          /\ open' = [open EXCEPT ![w] = @ \cup {<<t, o>>}]
          /\ fired' = [fired EXCEPT ![w] = IF t \in triggers THEN @ \cup {o} ELSE @]
          /\ writes' = writes + 1
          /\ UNCHANGED <<exists, dirty, triggers, versions, pc, release, at, made, claimed, ran, times, starts>>
      BY <2>1 DEF CmsWrite, installed, transaction
    <3>1. Types'
      <4>1. open' \in [Writer -> SUBSET (CmsTable \X Object)] /\ fired' \in [Writer -> SUBSET Object]
        BY <2>0, <3>0 DEF Types
      <4> QED BY <2>0, <3>0, <4>1 DEF Types
    <3>2. Heard'
      <4>1. ASSUME NEW u \in Writer, NEW x \in open'[u]
            PROVE  x[1] \notin made /\ (1 \in versions => x[2] \in fired'[u])
        <5>1. fired[u] \subseteq fired'[u]
          BY <2>0, <3>0 DEF Types
        <5>2. CASE x \in open[u]
          BY <2>0, <5>1, <5>2 DEF Heard
        <5>3. CASE x \notin open[u]
          <6>1. u = w /\ x = <<t, o>>
            BY <2>0, <3>0, <5>3 DEF Types
          <6>2. 1 \in versions => o \in fired'[w]
            BY <2>0, <3>0 DEF Types, Installed
          <6> QED BY <3>0, <6>1, <6>2
        <5> QED BY <5>2, <5>3
      <4> QED BY <3>0, <4>1 DEF Heard
    <3> QED BY <2>0, <3>0, <3>1, <3>2 DEF IInv, Installed, Progress, NothingMissed
  <2>2. ASSUME NEW w \in Writer, CmsCommit(w) PROVE IInv'
    BY <2>0, <2>2, CmsCommits
  <2>3. ASSUME NEW w \in Writer, CmsAbort(w) PROVE IInv'
    <3>0. /\ open' = [open EXCEPT ![w] = {}] /\ fired' = [fired EXCEPT ![w] = {}]
          /\ UNCHANGED <<exists, dirty, writes, triggers, versions, pc, release, at, made, claimed, ran, times, starts>>
      BY <2>3 DEF CmsAbort, installed, transaction
    <3>1. Types'
      <4>1. open' \in [Writer -> SUBSET (CmsTable \X Object)] /\ fired' \in [Writer -> SUBSET Object]
        BY <2>0, <3>0 DEF Types
      <4> QED BY <2>0, <3>0, <4>1 DEF Types
    <3>2. Heard'
      <4>1. \A u \in Writer : open'[u] = {} \/ (open'[u] = open[u] /\ fired'[u] = fired[u])
        BY <2>0, <3>0 DEF Types
      <4> QED BY <2>0, <3>0, <4>1 DEF Heard
    <3> QED BY <2>0, <3>0, <3>1, <3>2 DEF IInv, Installed, Progress, NothingMissed
  <2>4. ASSUME NEW k \in Version, Start(k) PROVE IInv'
    <3>0. /\ pc = "down" /\ pc' = "bridge" /\ at = 1 /\ at' = 1 /\ starts < MaxStarts
          /\ starts' = starts + 1 /\ release' = k /\ \A v \in versions : v <= k
          /\ UNCHANGED <<cms, triggers, versions, made, claimed, ran, times>>
      BY <2>0, <2>4 DEF Start, installed, transaction, Control
    <3>1. Types'
      BY <2>0, <3>0 DEF Types, cms
    <3>2. Progress'
      <4>1. \A v \in Version : ~(First(v) < 1)
        BY VersionValues DEF First
      <4>2. ran = {} /\ made = {}
        BY <2>0, <3>0 DEF Progress
      <4>3. \A t \in CmsTable : ~(Creates(t) < 1)
        BY DEF Creates
      <4> QED BY <3>0, <4>1, <4>2, <4>3 DEF Progress
    <3> QED BY <2>0, <3>0, <3>1, <3>2 DEF IInv, Installed, Heard, NothingMissed, cms
  <2>5. CASE BridgeSkips
    BY <2>0, <2>5, BridgeSkipsKeeps
  <2>6. CASE BridgeStatement
    BY <2>0, <2>6, BridgeStatementKeeps
  <2>7. CASE BridgeCommit \/ BridgeCommitUnacked
    BY <2>0, <2>7, BridgeCommits DEF BridgeCommit, BridgeCommitUnacked
  <2>8. CASE JudgeStatement \/ JudgeCommit
    <3>1. /\ pc = "judge" /\ pc' \in {"judge", "serving"}
          /\ ran' = {} /\ made' = {} /\ claimed' = {}
          /\ UNCHANGED <<cms, triggers, versions, release, times, starts>>
      BY <2>0, <2>8 DEF JudgeStatement, JudgeCommit, NoTransaction, installed, Progress
    <3>2. Types'
      BY <2>0, <3>1 DEF Types, cms
    <3>3. Heard' /\ Installed' /\ NothingMissed'
      BY <2>0, <3>1 DEF Heard, Installed, NothingMissed, cms
    <3> QED BY <3>1, <3>2, <3>3 DEF IInv, Progress
  <2>9. CASE Ends
    <3>1. /\ pc' = "down" /\ ran' = {} /\ made' = {} /\ claimed' = {}
          /\ UNCHANGED <<cms, triggers, versions, release, times, starts>>
      BY <2>9 DEF Ends, NoTransaction, installed
    <3>2. Types'
      BY <2>0, <3>1 DEF Types, cms
    <3>3. Heard' /\ Installed' /\ NothingMissed'
      BY <2>0, <3>1 DEF Heard, Installed, NothingMissed, cms
    <3> QED BY <3>1, <3>2, <3>3 DEF IInv, Progress
  <2>10. CASE UNCHANGED vars
    BY <2>0, <2>10 DEF vars, cms, installed, transaction, IInv, Types, Installed, Heard, Progress, NothingMissed
  <2> QED BY <2>1, <2>2, <2>3, <2>4, <2>5, <2>6, <2>7, <2>8, <2>9, <2>10 DEF Next, Quiescent
<1> QED BY <1>1, <1>2, TablesInductive, PTL DEF Spec

(* The state is well typed, for any CMS, people and number of starts. *)
THEOREM TypeCorrect == Spec => []TypeOK
<1>1. TablesInv => tables \in Tables /\ work \in Tables
  <2> SUFFICES ASSUME TablesInv PROVE tables \in Tables /\ work \in Tables
    OBVIOUS
  <2>1. PICK f \in CmsIds, S \in SUBSET Person, P \in SUBSET Person : StageOf(f, S, P)
    BY DEF TablesInv
  <2>2. Stage \in Nat
    BY DEF TablesInv, Control, Stage
  <2> QED BY <2>1, <2>2, IdentifiedType DEF StageOf
<1>2. TablesInv /\ IInv => TypeOK
  <2> SUFFICES ASSUME TablesInv, IInv PROVE TypeOK
    OBVIOUS
  <2>1. Types /\ Control
    BY DEF IInv, TablesInv
  <2>2. triggers \subseteq CmsTable
    BY DEF IInv, Installed
  <2> QED BY <1>1, <2>1, <2>2 DEF TypeOK, Types, Control
<1> QED BY <1>2, TablesInductive, Inductive, PTL

(* Once 003 is recorded the judge hears of every object of the CMS. *)
THEOREM AllHeardOf == Spec => []NothingMissed
<1>1. IInv => NothingMissed
  BY DEF IInv
<1> QED BY <1>1, Inductive, PTL

(* Recorded versions are those that were run, once and to the end. *)
THEOREM VersionsTrue == Spec => []VersionsAreTrue
<1>1. TablesInv /\ IInv => VersionsAreTrue
  <2> SUFFICES ASSUME TablesInv, IInv PROVE VersionsAreTrue
    OBVIOUS
  <2>1. remapped <=> tables.id = tables.cms /\ tables.tokens = {}
    BY Owners
  <2> QED BY <2>1 DEF IInv, Installed, VersionsAreTrue
<1> QED BY <1>1, TablesInductive, Inductive, PTL

==============================================================================
