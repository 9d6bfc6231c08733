------------------------------- MODULE Accounts --------------------------------
(***************************************************************************)
(* The accounts of the API.  CreateUser writes to two sets of tables in two*)
(* transactions: first the CMS gets a user and its participation, then the *)
(* judge gets an account under the id that the CMS has chosen, and a token.*)
(* UserLogin adds a token.  Requests run concurrently; an INSERT of a key  *)
(* that another open transaction has inserted waits for that transaction.  *)
(*                                                                         *)
(* A password is right or the login changes nothing, so passwords are left *)
(* out.  A token's secret is left out as well: the id stands for it.       *)
(***************************************************************************)
EXTENDS Naturals

CONSTANTS
  Request,    \* request slots, each serving one request after another
  Name,       \* usernames
  Email,
  MaxId       \* bound: ids the sequences give out

ASSUME MaxIdAssumption == MaxId \in Nat

Id == 1 .. MaxId

VARIABLES
  cms,        \* tables users and participations of the CMS
  users,      \* oia_user
  tokens,     \* oia_tokens
  cmsSeq,     \* the last user id the CMS has given out
  tokenSeq,   \* the last token id the judge has given out
  pc,         \* control state of a request
  req,        \* the name and the email of a request
  uid,        \* the user id it has got
  token,      \* the token id it has got
  \* history
  given,      \* tokens that clients have got
  abandoned   \* CMS users whose CreateUser ended between the two commits

rows == <<cms, users, tokens>>
vars == <<rows, cmsSeq, tokenSeq, pc, req, uid, token, given, abandoned>>

State == {"idle", "name", "cms", "account", "commit", "login"}

CmsUser == [id : Id, name : Name]
Account == [id : Id, name : Name, email : Email]
Token == [id : Id, user : Id]

TypeOK ==
  /\ cms \subseteq CmsUser
  /\ users \subseteq Account
  /\ tokens \subseteq Token
  /\ \A t \in tokens : \E u \in users : u.id = t.user
  /\ cmsSeq \in 0 .. MaxId
  /\ tokenSeq \in 0 .. MaxId
  /\ pc \in [Request -> State]
  /\ req \in [Request -> [name : Name, email : Email]]
  /\ uid \in [Request -> 0 .. MaxId]
  /\ token \in [Request -> 0 .. MaxId]
  /\ given \subseteq Token
  /\ abandoned \subseteq Id

Init ==
  /\ cms = {}
  /\ users = {}
  /\ tokens = {}
  /\ cmsSeq = 0
  /\ tokenSeq = 0
  /\ pc = [r \in Request |-> "idle"]
  /\ req \in [Request -> [name : Name, email : Email]]
  /\ uid = [r \in Request |-> 0]
  /\ token = [r \in Request |-> 0]
  /\ given = {}
  /\ abandoned = {}

Goto(r, s) == pc' = [pc EXCEPT ![r] = s]

Ask(r) ==
  /\ pc[r] = "idle"
  /\ \E q \in [name : Name, email : Email] : req' = [req EXCEPT ![r] = q]
  /\ Goto(r, "name")
  /\ UNCHANGED <<rows, cmsSeq, tokenSeq, uid, token, given, abandoned>>

------------------------------------------------------------------------------
(* The transaction of Bridge.CreateUser. *)

NameTaken(n) == \E c \in cms : c.name = n

(* Mutant of CmsInsert: ON CONFLICT DO NOTHING, and the SELECT of the id   *)
(* finds the user that has the name already.                               *)
CmsInsertOrFind(r) ==
  /\ pc[r] = "name"
  /\ ~\E q \in Request : pc[q] = "cms" /\ req[q].name = req[r].name
  /\ IF NameTaken(req[r].name)
     THEN /\ \E c \in cms : c.name = req[r].name /\ uid' = [uid EXCEPT ![r] = c.id]
          /\ Goto(r, "account")
          /\ UNCHANGED cmsSeq
     ELSE /\ cmsSeq < MaxId
          /\ cmsSeq' = cmsSeq + 1
          /\ uid' = [uid EXCEPT ![r] = cmsSeq + 1]
          /\ Goto(r, "cms")
  /\ UNCHANGED <<rows, tokenSeq, req, token, given, abandoned>>

(* The INSERT of a new name waits for an open transaction that inserts it. *)
CmsInsert(r) ==
  /\ pc[r] = "name"
  /\ ~\E q \in Request : pc[q] = "cms" /\ req[q].name = req[r].name
  /\ ~NameTaken(req[r].name)
  /\ cmsSeq < MaxId
  /\ cmsSeq' = cmsSeq + 1
  /\ uid' = [uid EXCEPT ![r] = cmsSeq + 1]
  /\ Goto(r, "cms")
  /\ UNCHANGED <<rows, tokenSeq, req, token, given, abandoned>>

CmsRefuses(r) ==
  /\ pc[r] = "name"
  /\ NameTaken(req[r].name)
  /\ Goto(r, "idle")
  /\ UNCHANGED <<rows, cmsSeq, tokenSeq, req, uid, token, given, abandoned>>

CmsUserOf(r) == [id |-> uid[r], name |-> req[r].name]

CmsCommit(r) ==
  /\ pc[r] = "cms"
  /\ cms' = cms \cup {CmsUserOf(r)}
  /\ Goto(r, "account")
  /\ UNCHANGED <<users, tokens, cmsSeq, tokenSeq, req, uid, token, given, abandoned>>

(* A statement fails, or the commit does; or the commit succeeds and the   *)
(* request gets an error all the same.                                     *)
CmsFails(r) ==
  /\ pc[r] \in {"name", "cms"}
  /\ Goto(r, "idle")
  /\ UNCHANGED <<rows, cmsSeq, tokenSeq, req, uid, token, given, abandoned>>

CmsCommitUnacked(r) ==
  /\ pc[r] = "cms"
  /\ cms' = cms \cup {CmsUserOf(r)}
  /\ abandoned' = abandoned \cup {uid[r]}
  /\ Goto(r, "idle")
  /\ UNCHANGED <<users, tokens, cmsSeq, tokenSeq, req, uid, token, given>>

------------------------------------------------------------------------------
(* The transaction of CreateUser in the judge's tables. *)

AccountOf(r) == [id |-> uid[r], name |-> req[r].name, email |-> req[r].email]
TokenOf(r) == [id |-> token[r], user |-> uid[r]]

(* The primary key and the two unique columns of oia_user. *)
Conflict(a, b) == a.id = b.id \/ a.name = b.name \/ a.email = b.email

NewToken(r) ==
  /\ tokenSeq < MaxId
  /\ tokenSeq' = tokenSeq + 1
  /\ token' = [token EXCEPT ![r] = tokenSeq + 1]

(* Mutant of JudgeInsert: the email is not unique. *)
JudgeInsertAnyEmail(r) ==
  /\ pc[r] = "account"
  /\ ~\E u \in users : u.id = uid[r] \/ u.name = req[r].name
  /\ NewToken(r)
  /\ Goto(r, "commit")
  /\ UNCHANGED <<rows, cmsSeq, req, uid, given, abandoned>>

(* INSERT INTO oia_user waits for open transactions that insert the same   *)
(* key; then INSERT INTO oia_tokens.                                       *)
JudgeInsert(r) ==
  /\ pc[r] = "account"
  /\ ~\E u \in users : Conflict(u, AccountOf(r))
  /\ ~\E q \in Request : pc[q] = "commit" /\ Conflict(AccountOf(q), AccountOf(r))
  /\ NewToken(r)
  /\ Goto(r, "commit")
  /\ UNCHANGED <<rows, cmsSeq, req, uid, given, abandoned>>

(* Mutants of JudgeCommit: an id of the judge's own sequence, as oia_user  *)
(* had before its migration 002; a token committed without its account.    *)
JudgeCommitOwnId(r) ==
  /\ pc[r] = "commit"
  /\ users' = users \cup {[AccountOf(r) EXCEPT !.id = token[r]]}
  /\ tokens' = tokens \cup {[id |-> token[r], user |-> token[r]]}
  /\ given' = given \cup {[id |-> token[r], user |-> token[r]]}
  /\ Goto(r, "idle")
  /\ UNCHANGED <<cms, cmsSeq, tokenSeq, req, uid, token, abandoned>>

JudgeCommitTokenOnly(r) ==
  /\ pc[r] = "commit"
  /\ tokens' = tokens \cup {TokenOf(r)}
  /\ given' = given \cup {TokenOf(r)}
  /\ Goto(r, "idle")
  /\ UNCHANGED <<cms, users, cmsSeq, tokenSeq, req, uid, token, abandoned>>

JudgeCommit(r) ==
  /\ pc[r] = "commit"
  /\ users' = users \cup {AccountOf(r)}
  /\ tokens' = tokens \cup {TokenOf(r)}
  /\ given' = given \cup {TokenOf(r)}
  /\ Goto(r, "idle")
  /\ UNCHANGED <<cms, cmsSeq, tokenSeq, req, uid, token, abandoned>>

JudgeCommitUnacked(r) ==
  /\ pc[r] = "commit"
  /\ users' = users \cup {AccountOf(r)}
  /\ tokens' = tokens \cup {TokenOf(r)}
  /\ Goto(r, "idle")
  /\ UNCHANGED <<cms, cmsSeq, tokenSeq, req, uid, token, given, abandoned>>

(* Mutant of JudgeFails: the error of Close is lost, as in updater.go:54.  *)
JudgeFailsSilently(r) ==
  /\ pc[r] \in {"account", "commit"}
  /\ abandoned' = abandoned \cup {uid[r]}
  /\ given' = IF pc[r] = "commit" THEN given \cup {TokenOf(r)} ELSE given
  /\ Goto(r, "idle")
  /\ UNCHANGED <<rows, cmsSeq, tokenSeq, req, uid, token>>

(* The transaction does not begin, the password is too long to hash, a key *)
(* is taken, a statement or the commit fails: the CMS user stays behind.   *)
JudgeFails(r) ==
  /\ pc[r] \in {"account", "commit"}
  /\ abandoned' = abandoned \cup {uid[r]}
  /\ Goto(r, "idle")
  /\ UNCHANGED <<rows, cmsSeq, tokenSeq, req, uid, token, given>>

------------------------------------------------------------------------------
(* UserLogin with the right password. *)
Login(r) ==
  /\ pc[r] = "idle"
  /\ \E u \in users :
       /\ req' = [req EXCEPT ![r] = [name |-> u.name, email |-> u.email]]
       /\ uid' = [uid EXCEPT ![r] = u.id]
  /\ NewToken(r)
  /\ Goto(r, "login")
  /\ UNCHANGED <<rows, cmsSeq, given, abandoned>>

LoginCommit(r) ==
  /\ pc[r] = "login"
  /\ tokens' = tokens \cup {TokenOf(r)}
  /\ given' = given \cup {TokenOf(r)}
  /\ Goto(r, "idle")
  /\ UNCHANGED <<cms, users, cmsSeq, tokenSeq, req, uid, token, abandoned>>

LoginFails(r) ==
  /\ pc[r] = "login"
  /\ \/ tokens' = tokens \cup {TokenOf(r)}
     \/ UNCHANGED tokens
  /\ Goto(r, "idle")
  /\ UNCHANGED <<cms, users, cmsSeq, tokenSeq, req, uid, token, given, abandoned>>

------------------------------------------------------------------------------
Pending(r) == pc[r] \in {"account", "commit"}

(* The process ends with requests in flight: open transactions roll back. *)
Crash ==
  /\ pc' = [r \in Request |-> "idle"]
  /\ abandoned' = abandoned \cup {uid[r] : r \in {q \in Request : Pending(q)}}
  /\ UNCHANGED <<rows, cmsSeq, tokenSeq, req, uid, token, given>>

Step(r) ==
  \/ Ask(r)
  \/ CmsInsert(r) \/ CmsRefuses(r) \/ CmsCommit(r) \/ CmsFails(r) \/ CmsCommitUnacked(r)
  \/ JudgeInsert(r) \/ JudgeCommit(r) \/ JudgeCommitUnacked(r) \/ JudgeFails(r)
  \/ Login(r) \/ LoginCommit(r) \/ LoginFails(r)

Next == (\E r \in Request : Step(r)) \/ Crash

Spec == Init /\ [][Next]_vars

------------------------------------------------------------------------------
(* The two databases agree: an account has the id and the name of a CMS    *)
(* user, which submissions and scores are exchanged by.                    *)
AccountsMatch == \A u \in users : [id |-> u.id, name |-> u.name] \in cms

(* No two accounts share an id, a name or an email, whatever runs at once. *)
AccountsDiffer ==
  \A u, v \in users : u # v => ~Conflict(u, v)

(* A CMS user has an account, or a request about to give it one, or none   *)
(* for good because CreateUser failed half way (api.go:125-134); never two *)
(* of these, so a name that is left behind is never registered again.      *)
HasAccount(c) == \E u \in users : u.id = c.id \/ u.name = c.name
IsPending(c) == \E r \in Request : Pending(r) /\ uid[r] = c.id
IsAbandoned(c) == c.id \in abandoned

NameHasOneFate ==
  \A c \in cms :
    /\ HasAccount(c) \/ IsPending(c) \/ IsAbandoned(c)
    /\ ~(HasAccount(c) /\ IsPending(c))
    /\ ~(HasAccount(c) /\ IsAbandoned(c))
    /\ ~(IsPending(c) /\ IsAbandoned(c))

(* Every token a client has got is stored, for an account that exists.     *)
GivenTokensWork == given \subseteq tokens

------------------------------------------------------------------------------
(* Why they hold, as an inductive invariant: the CMS gives every name one  *)
(* id and every id to one name; a request with an open CMS transaction has *)
(* a new id and a new name; a request between the transactions is the only *)
(* one with its CMS user, which has no account yet; one that has inserted  *)
(* its account meets no other; and abandoned users have no account.        *)
CmsInv ==
  /\ \A c \in cms : c.id <= cmsSeq
  /\ \A c, d \in cms : (c.id = d.id \/ c.name = d.name) => c = d

OpenInv ==
  \A r \in Request : pc[r] = "cms" =>
    /\ uid[r] \in 1 .. cmsSeq
    /\ \A c \in cms : c.id # uid[r] /\ c.name # req[r].name
    /\ \A q \in Request : (pc[q] = "cms" /\ q # r) =>
         uid[q] # uid[r] /\ req[q].name # req[r].name

PendingInv ==
  \A r \in Request : Pending(r) =>
    /\ CmsUserOf(r) \in cms
    /\ uid[r] \notin abandoned
    /\ \A u \in users : u.id # uid[r] /\ u.name # req[r].name
    /\ \A q \in Request : (Pending(q) /\ q # r) => uid[q] # uid[r]

CommitInv ==
  \A r \in Request : pc[r] = "commit" =>
    /\ \A u \in users : ~Conflict(u, AccountOf(r))
    /\ \A q \in Request : (pc[q] = "commit" /\ q # r) => ~Conflict(AccountOf(q), AccountOf(r))

AbandonedInv ==
  /\ \A i \in abandoned : \E c \in cms : c.id = i
  /\ \A u \in users : u.id \notin abandoned
  /\ \A c \in cms :
       (\E u \in users : u.id = c.id) \/ IsPending(c) \/ IsAbandoned(c)

LoginInv ==
  \A r \in Request : /\ pc[r] = "login" => \E u \in users : u.id = uid[r]
                     /\ pc[r] \in {"commit", "login"} => token[r] \in Id

IInv ==
  /\ TypeOK /\ CmsInv /\ OpenInv /\ PendingInv /\ CommitInv /\ AbandonedInv /\ LoginInv
  /\ AccountsMatch /\ AccountsDiffer

==============================================================================
