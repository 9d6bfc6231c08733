----------------------------- MODULE AccountsProofs ----------------------------
(***************************************************************************)
(* Proofs about Accounts, for any number of requests, names and emails.    *)
(***************************************************************************)
EXTENDS Accounts, TLAPS

USE MaxIdAssumption DEF Id

(* The two transactions of CreateUser (api.go:110-149) and the one of       *)
(* UserLogin keep the invariant that the properties below rest on.          *)
THEOREM Inductive == Spec => []IInv
<1>1. Init => IInv
  BY DEF Init, IInv, TypeOK, State, CmsInv, OpenInv, PendingInv, Pending, CommitInv,
         AbandonedInv, LoginInv, AccountsMatch, AccountsDiffer
<1>2. IInv /\ [Next]_vars => IInv'
  <2> SUFFICES ASSUME IInv, [Next]_vars PROVE IInv'
    OBVIOUS
  <2> USE DEF IInv, rows, Goto
  <2>0. /\ pc \in [Request -> State]
        /\ req \in [Request -> [name : Name, email : Email]]
        /\ uid \in [Request -> 0 .. MaxId]
        /\ token \in [Request -> 0 .. MaxId]
        /\ cmsSeq \in 0 .. MaxId /\ tokenSeq \in 0 .. MaxId
        /\ \A c \in cms : c.id \in Id /\ c.name \in Name
        /\ \A u \in users : u.id \in Id
    BY DEF TypeOK, CmsUser, Account
  <2>1. ASSUME NEW r \in Request, Ask(r) \/ CmsRefuses(r) \/ CmsFails(r)
        PROVE  IInv'
    <3>1. TypeOK'
      BY <2>0, <2>1 DEF TypeOK, State, CmsUser, Account, Token, Ask, CmsRefuses, CmsFails
    <3>2. CmsInv'
      BY <2>0, <2>1 DEF CmsInv, Ask, CmsRefuses, CmsFails
    <3>3. OpenInv'
      BY <2>0, <2>1 DEF OpenInv, Ask, CmsRefuses, CmsFails
    <3>4. PendingInv'
      BY <2>0, <2>1 DEF PendingInv, Pending, CmsUserOf, Ask, CmsRefuses, CmsFails
    <3>5. CommitInv'
      BY <2>0, <2>1 DEF CommitInv, Conflict, AccountOf, Ask, CmsRefuses, CmsFails
    <3>6. AbandonedInv'
      BY <2>0, <2>1 DEF AbandonedInv, IsPending, IsAbandoned, Pending, Ask, CmsRefuses,
         CmsFails
    <3>7. LoginInv'
      BY <2>0, <2>1 DEF LoginInv, Ask, CmsRefuses, CmsFails
    <3>8. AccountsMatch'
      BY <2>0, <2>1 DEF AccountsMatch, Ask, CmsRefuses, CmsFails
    <3>9. AccountsDiffer'
      BY <2>0, <2>1 DEF AccountsDiffer, Conflict, Ask, CmsRefuses, CmsFails
    <3> QED BY <3>1, <3>2, <3>3, <3>4, <3>5, <3>6, <3>7, <3>8, <3>9
  <2>2. ASSUME NEW r \in Request, CmsInsert(r)
        PROVE  IInv'
    <3>1. TypeOK'
      BY <2>0, <2>2 DEF TypeOK, State, CmsUser, Account, Token, CmsInsert, NameTaken
    <3>2. CmsInv'
      BY <2>0, <2>2 DEF CmsInv, CmsInsert, NameTaken
    <3>3. OpenInv'
      BY <2>0, <2>2 DEF OpenInv, CmsInv, CmsInsert, NameTaken
    <3>4. PendingInv'
      BY <2>0, <2>2 DEF PendingInv, Pending, CmsUserOf, CmsInsert, NameTaken
    <3>5. CommitInv'
      BY <2>0, <2>2 DEF CommitInv, Conflict, AccountOf, CmsInsert, NameTaken
    <3>6. AbandonedInv'
      BY <2>0, <2>2 DEF AbandonedInv, IsPending, IsAbandoned, Pending, CmsInsert,
         NameTaken
    <3>7. LoginInv'
      BY <2>0, <2>2 DEF LoginInv, CmsInsert, NameTaken
    <3>8. AccountsMatch'
      BY <2>0, <2>2 DEF AccountsMatch, CmsInsert, NameTaken
    <3>9. AccountsDiffer'
      BY <2>0, <2>2 DEF AccountsDiffer, Conflict, CmsInsert, NameTaken
    <3> QED BY <3>1, <3>2, <3>3, <3>4, <3>5, <3>6, <3>7, <3>8, <3>9
  <2>3. ASSUME NEW r \in Request, CmsCommit(r) \/ CmsCommitUnacked(r)
        PROVE  IInv'
    <3> DEFINE new == CmsUserOf(r)
    <3>a. /\ pc[r] = "cms" /\ cms' = cms \cup {new}
          /\ UNCHANGED <<users, tokens, cmsSeq, tokenSeq, req, uid, token, given>>
          /\ \/ pc' = [pc EXCEPT ![r] = "account"] /\ abandoned' = abandoned
             \/ pc' = [pc EXCEPT ![r] = "idle"] /\ abandoned' = abandoned \cup {uid[r]}
      BY <2>3 DEF CmsCommit, CmsCommitUnacked
    <3>b. /\ uid[r] \in Id /\ uid[r] <= cmsSeq
          /\ new.id = uid[r] /\ new.name = req[r].name
          /\ new \in CmsUser
      BY <2>0, <3>a DEF OpenInv, CmsUserOf, CmsUser
    <3>c. \A c \in cms : c.id # uid[r] /\ c.name # req[r].name
      BY <3>a DEF OpenInv
    <3>d. \A u \in users : u.id # uid[r] /\ u.name # req[r].name
      BY <3>c DEF AccountsMatch
    <3>e. \A q \in Request : Pending(q) => uid[q] # uid[r]
      BY <3>c DEF PendingInv, CmsUserOf
    <3>f. uid[r] \notin abandoned
      BY <3>c DEF AbandonedInv
    <3>g. /\ pc' \in [Request -> State]
          /\ \A q \in Request : q # r => pc'[q] = pc[q]
      BY <2>0, <3>a DEF State
    <3> HIDE DEF new
    <3>1. TypeOK'
      BY <3>a, <3>b, <3>g DEF TypeOK
    <3>2. CmsInv'
      BY <3>a, <3>b, <3>c DEF CmsInv
    <3>3. OpenInv'
      BY <2>0, <3>a, <3>b, <3>g DEF OpenInv
    <3>4. PendingInv'
      BY <2>0, <3>a, <3>d, <3>e, <3>f, <3>g DEF PendingInv, Pending, CmsUserOf, new
    <3>5. CommitInv'
      BY <2>0, <3>a, <3>g DEF CommitInv, Conflict, AccountOf
    <3>6. AbandonedInv'
      <4>1. \A i \in abandoned' : \E c \in cms' : c.id = i
        BY <3>a, <3>b DEF AbandonedInv
      <4>2. \A u \in users' : u.id \notin abandoned'
        BY <3>a, <3>d DEF AbandonedInv
      <4>3. \A q \in Request : Pending(q) => Pending(q)'
        BY <2>0, <3>a DEF Pending
      <4>4. pc'[r] = "account" \/ uid[r] \in abandoned'
        BY <2>0, <3>a
      <4>5. ASSUME NEW c \in cms'
            PROVE  (\E u \in users' : u.id = c.id) \/ IsPending(c)' \/ IsAbandoned(c)'
        <5>1. CASE c = new
          BY <3>a, <3>b, <4>4, <5>1 DEF IsPending, IsAbandoned, Pending
        <5>2. CASE c \in cms
          BY <3>a, <4>3, <5>2 DEF AbandonedInv, IsPending, IsAbandoned
        <5> QED BY <3>a, <5>1, <5>2
      <4> QED BY <4>1, <4>2, <4>5 DEF AbandonedInv
    <3>7. LoginInv'
      BY <2>0, <3>a, <3>g DEF LoginInv
    <3>8. AccountsMatch' /\ AccountsDiffer'
      BY <3>a DEF AccountsMatch, AccountsDiffer, Conflict
    <3> QED BY <3>1, <3>2, <3>3, <3>4, <3>5, <3>6, <3>7, <3>8
  <2>4. ASSUME NEW r \in Request, JudgeInsert(r)
        PROVE  IInv'
    <3>1. TypeOK'
      BY <2>0, <2>4 DEF TypeOK, State, CmsUser, Account, Token, JudgeInsert, NewToken
    <3>2. CmsInv'
      BY <2>0, <2>4 DEF CmsInv, JudgeInsert, NewToken
    <3>3. OpenInv'
      BY <2>0, <2>4 DEF OpenInv, JudgeInsert, NewToken
    <3>4. PendingInv'
      BY <2>0, <2>4 DEF PendingInv, Pending, CmsUserOf, JudgeInsert, NewToken
    <3>5. CommitInv'
      BY <2>0, <2>4 DEF CommitInv, Conflict, AccountOf, JudgeInsert, NewToken
    <3>6. AbandonedInv'
      BY <2>0, <2>4 DEF AbandonedInv, IsPending, IsAbandoned, Pending, JudgeInsert,
         NewToken
    <3>7. LoginInv'
      BY <2>0, <2>4 DEF LoginInv, JudgeInsert, NewToken
    <3>8. AccountsMatch'
      BY <2>0, <2>4 DEF AccountsMatch, JudgeInsert, NewToken
    <3>9. AccountsDiffer'
      BY <2>0, <2>4 DEF AccountsDiffer, Conflict, JudgeInsert, NewToken
    <3> QED BY <3>1, <3>2, <3>3, <3>4, <3>5, <3>6, <3>7, <3>8, <3>9
  <2>5. ASSUME NEW r \in Request, JudgeCommit(r) \/ JudgeCommitUnacked(r)
        PROVE  IInv'
    <3> DEFINE new == AccountOf(r)
    <3>a. /\ pc[r] = "commit" /\ pc' = [pc EXCEPT ![r] = "idle"]
          /\ users' = users \cup {new} /\ tokens' = tokens \cup {TokenOf(r)}
          /\ given' \in {given, given \cup {TokenOf(r)}}
          /\ UNCHANGED <<cms, cmsSeq, tokenSeq, req, uid, token, abandoned>>
      BY <2>5 DEF JudgeCommit, JudgeCommitUnacked
    <3>b. /\ CmsUserOf(r) \in cms /\ uid[r] \notin abandoned
          /\ \A q \in Request : (Pending(q) /\ q # r) => uid[q] # uid[r]
      BY <3>a DEF PendingInv, Pending
    <3>c. uid[r] \in Id /\ token[r] \in Id
      BY <2>0, <3>a, <3>b DEF CmsUserOf, LoginInv
    <3>d. /\ new \in Account
          /\ new.id = uid[r] /\ new.name = req[r].name /\ new.email = req[r].email
          /\ TokenOf(r) \in Token /\ TokenOf(r).user = uid[r]
      BY <2>0, <3>c DEF AccountOf, Account, TokenOf, Token
    <3>e. \A q \in Request : (Pending(q) /\ q # r) => req[q].name # req[r].name
      <4> SUFFICES ASSUME NEW q \in Request, Pending(q), q # r, req[q].name = req[r].name
                   PROVE  FALSE
        OBVIOUS
      <4>1. CmsUserOf(q) \in cms /\ CmsUserOf(q).name = CmsUserOf(r).name
        BY DEF PendingInv, CmsUserOf
      <4>2. CmsUserOf(q) = CmsUserOf(r)
        BY <3>b, <4>1 DEF CmsInv
      <4> QED BY <3>b, <4>2 DEF CmsUserOf
    <3>f. \A q \in Request : (pc[q] = "commit" /\ q # r) => ~Conflict(new, AccountOf(q))
      BY <3>a DEF CommitInv, Conflict
    <3>g. \A u \in users : ~Conflict(u, new)
      BY <3>a DEF CommitInv
    <3>h. /\ pc' \in [Request -> State] /\ pc'[r] = "idle"
          /\ \A q \in Request : q # r => pc'[q] = pc[q]
      BY <2>0, <3>a DEF State
    <3>i. \A q \in Request : AccountOf(q)' = AccountOf(q) /\ CmsUserOf(q)' = CmsUserOf(q)
      BY <3>a DEF AccountOf, CmsUserOf
    <3> HIDE DEF new
    <3>1. TypeOK'
      BY <3>a, <3>d, <3>h DEF TypeOK
    <3>2. CmsInv'
      BY <3>a DEF CmsInv
    <3>3. OpenInv'
      BY <3>a, <3>h DEF OpenInv
    <3>4. PendingInv'
      BY <3>a, <3>b, <3>d, <3>e, <3>h, <3>i DEF PendingInv, Pending
    <3>5. CommitInv'
      BY <3>a, <3>f, <3>h, <3>i DEF CommitInv, Conflict
    <3>6. AbandonedInv'
      <4>1. \A c \in cms : IsPending(c) => IsPending(c)' \/ c.id = uid[r]
        BY <3>a, <3>h DEF IsPending, Pending
      <4>2. \A c \in cms' : (\E u \in users' : u.id = c.id) \/ IsPending(c)' \/ IsAbandoned(c)'
        BY <3>a, <3>d, <4>1 DEF AbandonedInv, IsAbandoned
      <4> QED BY <3>a, <3>b, <3>d, <4>2 DEF AbandonedInv
    <3>7. LoginInv'
      BY <3>a, <3>h DEF LoginInv
    <3>8. AccountsMatch'
      BY <3>a, <3>b, <3>d DEF AccountsMatch, CmsUserOf
    <3>9. AccountsDiffer'
      BY <3>a, <3>g DEF AccountsDiffer, Conflict
    <3> QED BY <3>1, <3>2, <3>3, <3>4, <3>5, <3>6, <3>7, <3>8, <3>9
  <2>6. ASSUME NEW r \in Request, JudgeFails(r)
        PROVE  IInv'
    <3>1. TypeOK'
      BY <2>0, <2>6 DEF TypeOK, State, CmsUser, Account, Token, PendingInv, CmsUserOf,
         JudgeFails, Pending
    <3>2. CmsInv'
      BY <2>0, <2>6 DEF CmsInv, JudgeFails, Pending
    <3>3. OpenInv'
      BY <2>0, <2>6 DEF OpenInv, JudgeFails, Pending
    <3>4. PendingInv'
      BY <2>0, <2>6 DEF PendingInv, Pending, CmsUserOf, JudgeFails
    <3>5. CommitInv'
      BY <2>0, <2>6 DEF CommitInv, Conflict, AccountOf, JudgeFails, Pending
    <3>6. AbandonedInv'
      BY <2>0, <2>6 DEF AbandonedInv, IsPending, IsAbandoned, Pending, PendingInv,
         CmsUserOf, JudgeFails
    <3>7. LoginInv'
      BY <2>0, <2>6 DEF LoginInv, JudgeFails, Pending
    <3>8. AccountsMatch'
      BY <2>0, <2>6 DEF AccountsMatch, JudgeFails, Pending
    <3>9. AccountsDiffer'
      BY <2>0, <2>6 DEF AccountsDiffer, Conflict, JudgeFails, Pending
    <3> QED BY <3>1, <3>2, <3>3, <3>4, <3>5, <3>6, <3>7, <3>8, <3>9
  <2>7. ASSUME NEW r \in Request, Login(r)
        PROVE  IInv'
    <3>1. TypeOK'
      BY <2>0, <2>7 DEF TypeOK, State, CmsUser, Account, Token, Login, NewToken
    <3>2. CmsInv'
      BY <2>0, <2>7 DEF CmsInv, Login, NewToken
    <3>3. OpenInv'
      BY <2>0, <2>7 DEF OpenInv, Login, NewToken
    <3>4. PendingInv'
      BY <2>0, <2>7 DEF PendingInv, Pending, CmsUserOf, Login, NewToken
    <3>5. CommitInv'
      BY <2>0, <2>7 DEF CommitInv, Conflict, AccountOf, Login, NewToken
    <3>6. AbandonedInv'
      BY <2>0, <2>7 DEF AbandonedInv, IsPending, IsAbandoned, Pending, Login, NewToken
    <3>7. LoginInv'
      BY <2>0, <2>7 DEF LoginInv, Login, NewToken
    <3>8. AccountsMatch'
      BY <2>0, <2>7 DEF AccountsMatch, Login, NewToken
    <3>9. AccountsDiffer'
      BY <2>0, <2>7 DEF AccountsDiffer, Conflict, Login, NewToken
    <3> QED BY <3>1, <3>2, <3>3, <3>4, <3>5, <3>6, <3>7, <3>8, <3>9
  <2>8. ASSUME NEW r \in Request, LoginCommit(r) \/ LoginFails(r)
        PROVE  IInv'
    <3>1. TypeOK'
      <4>1. /\ pc[r] = "login" /\ pc' = [pc EXCEPT ![r] = "idle"]
            /\ tokens' \in {tokens, tokens \cup {TokenOf(r)}}
            /\ given' \in {given, given \cup {TokenOf(r)}}
            /\ UNCHANGED <<cms, users, cmsSeq, tokenSeq, req, uid, token, abandoned>>
        BY <2>8 DEF LoginCommit, LoginFails
      <4>2. /\ token[r] \in Id
            /\ \E u \in users : u.id = uid[r]
        BY <4>1 DEF LoginInv
      <4>3. TokenOf(r) \in Token /\ TokenOf(r).user = uid[r]
        BY <2>0, <4>2 DEF TokenOf, Token
      <4>4. pc' \in [Request -> State]
        BY <2>0, <4>1 DEF State
      <4> QED BY <4>1, <4>2, <4>3, <4>4 DEF TypeOK
    <3>2. CmsInv'
      BY <2>0, <2>8 DEF CmsInv, LoginCommit, LoginFails, TokenOf
    <3>3. OpenInv'
      BY <2>0, <2>8 DEF OpenInv, LoginCommit, LoginFails, TokenOf
    <3>4. PendingInv'
      BY <2>0, <2>8 DEF PendingInv, Pending, CmsUserOf, LoginCommit, LoginFails, TokenOf
    <3>5. CommitInv'
      BY <2>0, <2>8 DEF CommitInv, Conflict, AccountOf, LoginCommit, LoginFails, TokenOf
    <3>6. AbandonedInv'
      BY <2>0, <2>8 DEF AbandonedInv, IsPending, IsAbandoned, Pending, LoginCommit,
         LoginFails, TokenOf
    <3>7. LoginInv'
      BY <2>0, <2>8 DEF LoginInv, TypeOK, LoginCommit, LoginFails, TokenOf
    <3>8. AccountsMatch'
      BY <2>0, <2>8 DEF AccountsMatch, LoginCommit, LoginFails, TokenOf
    <3>9. AccountsDiffer'
      BY <2>0, <2>8 DEF AccountsDiffer, Conflict, LoginCommit, LoginFails, TokenOf
    <3> QED BY <3>1, <3>2, <3>3, <3>4, <3>5, <3>6, <3>7, <3>8, <3>9
  <2>9. CASE Crash
    <3> DEFINE lost == {uid[r] : r \in {q \in Request : Pending(q)}}
    <3>a. /\ pc' = [r \in Request |-> "idle"] /\ abandoned' = abandoned \cup lost
          /\ UNCHANGED <<rows, cmsSeq, tokenSeq, req, uid, token, given>>
      BY <2>9 DEF Crash
    <3>b. \A i \in lost : /\ \E c \in cms : c.id = i
                          /\ \A u \in users : u.id # i
      BY DEF PendingInv, CmsUserOf
    <3>c. \A r \in Request : Pending(r) => uid[r] \in lost
      OBVIOUS
    <3> HIDE DEF lost
    <3>1. TypeOK'
      <4>1. pc' \in [Request -> State]
        BY <3>a DEF State
      <4>2. abandoned' \subseteq Id
        BY <2>0, <3>a, <3>b DEF TypeOK
      <4> QED BY <3>a, <4>1, <4>2 DEF TypeOK
    <3>2. CmsInv' /\ OpenInv' /\ PendingInv' /\ CommitInv' /\ LoginInv'
      BY <3>a DEF CmsInv, OpenInv, PendingInv, Pending, CommitInv, LoginInv
    <3>3. AbandonedInv'
      BY <3>a, <3>b, <3>c DEF AbandonedInv, IsPending, IsAbandoned
    <3>4. AccountsMatch' /\ AccountsDiffer'
      BY <3>a DEF AccountsMatch, AccountsDiffer, Conflict
    <3> QED BY <3>1, <3>2, <3>3, <3>4
  <2>10. CASE UNCHANGED vars
    BY <2>10 DEF vars, TypeOK, CmsInv, OpenInv, PendingInv, Pending, CmsUserOf, CommitInv,
         Conflict, AccountOf, AbandonedInv, IsPending, IsAbandoned, LoginInv, AccountsMatch,
         AccountsDiffer
  <2> QED BY <2>1, <2>2, <2>3, <2>4, <2>5, <2>6, <2>7, <2>8, <2>9, <2>10 DEF Next, Step
<1> QED BY <1>1, <1>2, PTL DEF Spec

------------------------------------------------------------------------------
(* Rows, ids and the control state of every request keep their types, and a *)
(* token always names an account.                                           *)
THEOREM Types == Spec => []TypeOK
BY Inductive, PTL DEF IInv

(* CreateUser never gives an account an id or a name that differs from the  *)
(* CMS's, whichever of the two transactions fails.                          *)
THEOREM Match == Spec => []AccountsMatch
BY Inductive, PTL DEF IInv

(* Requests running at once never store two accounts that share an id, a    *)
(* name or an email.                                                        *)
THEOREM Differ == Spec => []AccountsDiffer
BY Inductive, PTL DEF IInv

(* A registered name has an account, or a request on its way to give it     *)
(* one, or was left behind half way: exactly one of the three.              *)
LEMMA OneFate == IInv => NameHasOneFate
<1> SUFFICES ASSUME IInv, NEW c \in cms
             PROVE  /\ HasAccount(c) \/ IsPending(c) \/ IsAbandoned(c)
                    /\ ~(HasAccount(c) /\ IsPending(c))
                    /\ ~(HasAccount(c) /\ IsAbandoned(c))
                    /\ ~(IsPending(c) /\ IsAbandoned(c))
  BY DEF NameHasOneFate
<1> USE DEF IInv
<1>1. HasAccount(c) \/ IsPending(c) \/ IsAbandoned(c)
  BY DEF AbandonedInv, HasAccount
<1>2. HasAccount(c) => \E u \in users : u.id = c.id
  <2> SUFFICES ASSUME NEW u \in users, u.id = c.id \/ u.name = c.name
               PROVE  u.id = c.id
    BY DEF HasAccount
  <2> DEFINE d == [id |-> u.id, name |-> u.name]
  <2>1. d \in cms
    BY DEF AccountsMatch
  <2>2. d = c
    BY <2>1 DEF CmsInv
  <2> QED BY <2>2
<1>3. ~(HasAccount(c) /\ IsPending(c))
  BY <1>2 DEF IsPending, PendingInv
<1>4. ~(HasAccount(c) /\ IsAbandoned(c))
  BY <1>2 DEF IsAbandoned, AbandonedInv
<1>5. ~(IsPending(c) /\ IsAbandoned(c))
  BY DEF IsPending, IsAbandoned, PendingInv
<1> QED BY <1>1, <1>3, <1>4, <1>5

(* CreateUser that fails half way leaves its name behind for good           *)
(* (api.go:125-134), and no other failure or race leaves a name in between. *)
THEOREM Fate == Spec => []NameHasOneFate
BY Inductive, OneFate, PTL

(* CreateUser and UserLogin answer with a token only after its commit.      *)
THEOREM Given == Spec => []GivenTokensWork
<1>1. Init => GivenTokensWork
  BY DEF Init, GivenTokensWork
<1>2. GivenTokensWork /\ [Next]_vars => GivenTokensWork'
  BY DEF GivenTokensWork, Next, Step, vars, rows, Ask, CmsInsert, CmsRefuses, CmsCommit,
         CmsFails, CmsCommitUnacked, JudgeInsert, JudgeCommit, JudgeCommitUnacked, JudgeFails,
         Login, LoginCommit, LoginFails, Crash
<1> QED BY <1>1, <1>2, PTL DEF Spec

==============================================================================
