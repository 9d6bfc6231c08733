------------------------- MODULE SubmitCooldownProofs -------------------------
(***************************************************************************)
(* Proofs about SubmitCooldown, for any number of users and of requests in *)
(* flight, any cooldown and any resolution of the clock.                   *)
(***************************************************************************)
EXTENDS SubmitCooldown, TLAPS

USE UserOfAssumption, TimeAssumption, NoneAssumption

(* The arithmetic of a charge: a request at time n, past the cooldown of   *)
(* the stored millisecond l, moves l forward, covers its own time and lies *)
(* the cooldown behind everything l covered.                               *)
LEMMA Distributes ==
  ASSUME NEW a \in Int, NEW b \in Int, NEW t \in Int
  PROVE  (a + b) * t = a * t + b * t
  BY SMT

(* What truncation to milliseconds keeps of a time.                        *)
LEMMA Division ==
  ASSUME NEW n \in Nat, NEW t \in Nat \ {0}
  PROVE  /\ n \div t \in Nat
         /\ (n \div t) * t <= n
         /\ n < (n \div t) * t + t
  BY SMT

(* A common factor cancels.                                                *)
LEMMA Cancels ==
  ASSUME NEW a \in Int, NEW b \in Int, NEW t \in Nat \ {0}, a * t < b * t
  PROVE  a < b
  BY SMT

(* A check that passed: the stored millisecond moves on by the cooldown.   *)
LEMMA Advance ==
  ASSUME NEW l \in Nat, NEW c \in Nat, NEW t \in Nat \ {0}, NEW n \in Nat,
         ~((l + c) * t > n)
  PROVE  /\ n \div t \in Nat
         /\ n \div t >= l
         /\ n < (n \div t + 1) * t
         /\ \A x \in Nat : x < (l + 1) * t =>
              /\ n > x + (c - 1) * t
              /\ x < (n \div t + 1) * t
<1> DEFINE k == n \div t
<1>1. k \in Nat /\ n < k * t + t
  BY Division
<1> HIDE DEF k
<1>2. (k + 1) * t = k * t + t /\ (l + 1) * t = l * t + t
  BY <1>1, Distributes
<1>3. (l + c) * t = l * t + c * t /\ c * t = (c - 1) * t + t
  <2>1. (l + c) * t = l * t + c * t
    BY Distributes
  <2>2. ((c - 1) + 1) * t = (c - 1) * t + 1 * t
    BY Distributes
  <2> QED BY <2>1, <2>2
<1>4. l * t \in Int /\ c * t \in Int /\ k * t \in Int /\ c * t >= 0 /\ (c - 1) * t \in Int
  BY <1>1
<1>5. l * t < (k + 1) * t
  BY <1>1, <1>2, <1>3, <1>4
<1>6. k >= l
  BY <1>1, <1>5, Cancels
<1>7. k * t >= l * t
  <2>1. k * t = l * t + (k - l) * t
    BY <1>1, Distributes, l + (k - l) = k
  <2>2. (k - l) * t >= 0
    BY <1>1, <1>6
  <2> QED BY <2>1, <2>2, <1>1, <1>4
<1>8. ASSUME NEW x \in Nat, x < (l + 1) * t
      PROVE  n > x + (c - 1) * t /\ x < (k + 1) * t
  BY <1>1, <1>2, <1>3, <1>4, <1>7, <1>8
<1> QED BY <1>1, <1>2, <1>6, <1>8 DEF k

------------------------------------------------------------------------------
(* Type correctness, and that a row lock is held by a request of the row's *)
(* user that is about to commit (api.go:41-64).                            *)
THEOREM TypeCorrect == Spec => []TypeOK
<1>1. Init => TypeOK
  BY DEF Init, TypeOK, State
<1>2. TypeOK /\ [Next]_vars => TypeOK'
  <2> SUFFICES ASSUME TypeOK, [Next]_vars PROVE TypeOK'
    OBVIOUS
  <2> USE DEF TypeOK, State, Goto
  <2>1. ASSUME NEW r \in Request, Begin(r) PROVE TypeOK'
    BY <2>1 DEF Begin
  <2>2. ASSUME NEW r \in Request, Refuse(r) \/ Pass(r) PROVE TypeOK'
    BY <2>2 DEF Refuse, Pass
  <2>3. ASSUME NEW r \in Request, Charge(r) PROVE TypeOK'
    BY <2>3 DEF Charge
  <2>4. ASSUME NEW r \in Request, StatementFails(r) PROVE TypeOK'
    BY <2>4 DEF StatementFails
  <2>5. ASSUME NEW r \in Request, Commit(r) \/ CommitFails(r) PROVE TypeOK'
    <3>1. now[r] \div TicksPerMs \in Nat
      BY Division
    <3>2. last' \in [User -> Nat]
      BY <2>5, <3>1 DEF Commit, CommitFails, Record
    <3> QED BY <2>5, <3>2 DEF Commit, CommitFails, Unlock
  <2>6. ASSUME NEW r \in Request, Submit(r) \/ SubmitFails(r) PROVE TypeOK'
    BY <2>6 DEF Submit, SubmitFails
  <2>7. CASE Crash \/ Tick \/ MockTime
    BY <2>7 DEF Crash, Tick, MockTime
  <2>8. CASE UNCHANGED vars
    BY <2>8 DEF vars
  <2> QED BY <2>1, <2>2, <2>3, <2>4, <2>5, <2>6, <2>7, <2>8 DEF Next, Step
<1> QED BY <1>1, <1>2, PTL DEF Spec

------------------------------------------------------------------------------
(* A step that charges nothing and lets no request past the check keeps    *)
(* the invariant of a user.                                                *)
LEMMA NothingPasses ==
  ASSUME NEW u \in User, ChargeOf(u), last'[u] = last[u],
         Recorded(u)' \subseteq Recorded(u),
         \A r \in Request : (UserOf[r] = u /\ Passed(r)') => (Passed(r) /\ now'[r] = now[r])
  PROVE  ChargeOf(u)'
<1>1. (\A q, r \in Request :
         (UserOf[q] = u /\ UserOf[r] = u /\ Passed(q) /\ Passed(r)) => q = r)'
  BY DEF ChargeOf
<1>2. (\A r \in Request : (UserOf[r] = u /\ Passed(r)) => ~TooEarly(r))'
  BY DEF ChargeOf, TooEarly
<1>3. (\A m \in Recorded(u) : m[2] < (last[u] + 1) * TicksPerMs)'
  BY DEF ChargeOf
<1>4. (\A m, n \in Recorded(u) : m # n => ~Within(m[2], n[2]))'
  BY DEF ChargeOf, Within
<1> QED BY <1>1, <1>2, <1>3, <1>4 DEF ChargeOf

(* A commit moves the charge to its request's time: what was charged before*)
(* stays charged, and the request lies apart from it.                      *)
LEMMA CommitCharges ==
  ASSUME TypeOK, NEW r \in Request, NEW u \in User, u = UserOf[r], ChargeOf(u),
         pc[r] = "commit", Record(r), pc' \in [Request -> State],
         UNCHANGED <<now, made>>,
         \A q \in Request : q # r => pc'[q] = pc[q],
         pc'[r] \in {"submit", "idle"}
  PROVE  ChargeOf(u)' /\ last'[u] >= last[u]
<1> DEFINE k == now[r] \div TicksPerMs
<1>1. last'[u] = k
  BY DEF Record, TypeOK
<1>2. now[r] \in Nat /\ last[u] \in Nat /\ ~((last[u] + Cooldown) * TicksPerMs > now[r])
  BY DEF ChargeOf, TooEarly, Passed, TypeOK
<1>3. /\ k \in Nat
      /\ k >= last[u]
      /\ now[r] < (k + 1) * TicksPerMs
      /\ \A x \in Nat : x < (last[u] + 1) * TicksPerMs =>
           /\ now[r] > x + (Cooldown - 1) * TicksPerMs
           /\ x < (k + 1) * TicksPerMs
  BY <1>2, Advance
<1> HIDE DEF k
<1>4. \A q \in Request : ~(UserOf[q] = u /\ Passed(q)')
  BY DEF ChargeOf, Passed, State
<1>5. Recorded(u)' \subseteq Recorded(u) \cup {<<r, now[r]>>}
  BY DEF Recorded
<1>6. \A m \in Recorded(u) : m[2] \in Nat
  BY DEF Recorded, TypeOK
<1>7. (\A m \in Recorded(u) : m[2] < (last[u] + 1) * TicksPerMs)'
  BY <1>1, <1>3, <1>5, <1>6 DEF ChargeOf
<1>8. (\A m, n \in Recorded(u) : m # n => ~Within(m[2], n[2]))'
  <2> SUFFICES ASSUME NEW m \in Recorded(u)', NEW n \in Recorded(u)', m # n
               PROVE  ~Within(m[2], n[2])
    BY DEF Within
  <2> DEFINE d == (Cooldown - 1) * TicksPerMs
  <2>1. d \in Int
    OBVIOUS
  <2>2. ASSUME NEW x \in Recorded(u)
        PROVE  ~Within(x[2], now[r]) /\ ~Within(now[r], x[2])
    <3>1. now[r] > x[2] + d
      BY <1>3, <1>6 DEF ChargeOf
    <3> HIDE DEF d
    <3> QED BY <3>1, <2>1, <1>2, <1>6 DEF Within, d
  <2>3. CASE m \in Recorded(u) /\ n \in Recorded(u)
    BY <2>3 DEF ChargeOf
  <2>4. CASE m = <<r, now[r]>> /\ n \in Recorded(u)
    BY <2>4, <2>2
  <2>5. CASE n = <<r, now[r]>> /\ m \in Recorded(u)
    BY <2>5, <2>2
  <2> QED BY <2>3, <2>4, <2>5, <1>5
<1>9. (\A r1 \in Request : (UserOf[r1] = u /\ Passed(r1)) => ~TooEarly(r1))'
  BY <1>4
<1>10. (\A q, r1 \in Request :
         (UserOf[q] = u /\ UserOf[r1] = u /\ Passed(q) /\ Passed(r1)) => q = r1)'
  BY <1>4
<1> QED BY <1>1, <1>3, <1>7, <1>8, <1>9, <1>10 DEF ChargeOf

(* What a step does to the charge of one user. *)
LEMMA ChargeStep ==
  ASSUME TypeOK, TypeOK', ChargeInv, [Next]_vars, NEW u \in User \ raced'
  PROVE  ChargeOf(u)' /\ last'[u] >= last[u]
<1>1. raced \subseteq raced'
  BY DEF Next, Step, Begin, Refuse, Pass, Charge, StatementFails, Commit, CommitFails,
         Submit, SubmitFails, Crash, Tick, MockTime, vars
<1>2. ChargeOf(u) /\ u \notin raced
  BY <1>1 DEF ChargeInv
<1>3. last[u] \in Nat
  BY DEF TypeOK
<1>4. ASSUME NEW r \in Request, Begin(r) \/ Refuse(r) \/ Charge(r) \/ StatementFails(r)
      PROVE  ChargeOf(u)' /\ last'[u] >= last[u]
  <2>1. UNCHANGED <<last, made>> /\ pc'[r] # "submit" /\ (Passed(r)' => Passed(r) /\ now'[r] = now[r])
    BY <1>4 DEF Begin, Refuse, Charge, StatementFails, Goto, Passed, TypeOK
  <2>2. \A q \in Request : q # r => pc'[q] = pc[q] /\ now'[q] = now[q]
    BY <1>4 DEF Begin, Refuse, Charge, StatementFails, Goto, TypeOK
  <2>3. Recorded(u)' \subseteq Recorded(u)
    BY <2>1, <2>2 DEF Recorded
  <2>4. \A q \in Request : Passed(q)' => Passed(q) /\ now'[q] = now[q]
    BY <2>1, <2>2 DEF Passed
  <2> QED BY <2>1, <2>3, <2>4, <1>2, <1>3, NothingPasses
<1>5. ASSUME NEW r \in Request, Pass(r)
      PROVE  ChargeOf(u)' /\ last'[u] >= last[u]
  <2>1. /\ pc[r] = "read" /\ ~TooEarly(r)
        /\ pc' = [pc EXCEPT ![r] = "charge"]
        /\ UNCHANGED <<last, now, made>>
    BY <1>5 DEF Pass, Goto
  <2>2. Recorded(u)' \subseteq Recorded(u)
    BY <2>1 DEF Recorded, TypeOK
  <2>3. CASE UserOf[r] # u
    <3>1. \A q \in Request : (UserOf[q] = u /\ Passed(q)') => Passed(q) /\ now'[q] = now[q]
      BY <2>1, <2>3 DEF Passed, TypeOK
    <3> QED BY <3>1, <2>1, <2>2, <1>2, <1>3, NothingPasses
  <2>4. CASE UserOf[r] = u
    <3>1. \A q \in Request : UserOf[q] = u => ~Passed(q)
      BY <1>5, <2>4 DEF Pass, TypeOK
    <3>2. \A q \in Request : (UserOf[q] = u /\ Passed(q)') => q = r
      BY <3>1, <2>1 DEF Passed, TypeOK
    <3>3. ~TooEarly(r)'
      BY <2>1 DEF TooEarly
    <3>4. (\A q, x \in Request :
             (UserOf[q] = u /\ UserOf[x] = u /\ Passed(q) /\ Passed(x)) => q = x)'
      BY <3>2
    <3>5. (\A q \in Request : (UserOf[q] = u /\ Passed(q)) => ~TooEarly(q))'
      BY <3>2, <3>3
    <3>6. (\A m \in Recorded(u) : m[2] < (last[u] + 1) * TicksPerMs)'
      BY <2>1, <2>2, <1>2 DEF ChargeOf
    <3>7. (\A m, n \in Recorded(u) : m # n => ~Within(m[2], n[2]))'
      BY <2>2, <1>2 DEF ChargeOf, Within
    <3> QED BY <3>4, <3>5, <3>6, <3>7, <2>1, <1>3 DEF ChargeOf
  <2> QED BY <2>3, <2>4
<1>6. ASSUME NEW r \in Request, Commit(r) \/ CommitFails(r)
      PROVE  ChargeOf(u)' /\ last'[u] >= last[u]
  <2>1. /\ pc[r] = "commit" /\ UNCHANGED <<now, made>>
        /\ \A q \in Request : q # r => pc'[q] = pc[q]
        /\ pc'[r] \in {"submit", "idle"}
        /\ pc' \in [Request -> State]
    BY <1>6 DEF Commit, CommitFails, Goto, TypeOK, State
  <2>2. CASE UserOf[r] = u /\ Record(r)
    BY <2>1, <2>2, <1>2, CommitCharges
  <2>3. CASE ~(UserOf[r] = u /\ Record(r))
    <3>1. last'[u] = last[u]
      BY <1>6, <2>3 DEF Commit, CommitFails, Record, TypeOK
    <3>2. UserOf[r] # u \/ pc'[r] = "idle"
      BY <1>6, <2>3 DEF Commit, CommitFails, Goto, TypeOK
    <3>3. Recorded(u)' \subseteq Recorded(u)
      BY <2>1, <3>2 DEF Recorded
    <3>4. \A q \in Request : Passed(q)' => Passed(q) /\ now'[q] = now[q]
      BY <2>1 DEF Passed
    <3> QED BY <3>1, <3>3, <3>4, <1>2, <1>3, NothingPasses
  <2> QED BY <2>2, <2>3
<1>7. ASSUME NEW r \in Request, Submit(r) \/ SubmitFails(r)
      PROVE  ChargeOf(u)' /\ last'[u] >= last[u]
  <2>1. pc[r] = "submit" /\ UNCHANGED <<last, now>> /\ pc' = [pc EXCEPT ![r] = "idle"]
    BY <1>7 DEF Submit, SubmitFails, Goto
  <2>2. made'[u] \subseteq made[u] \cup (IF UserOf[r] = u THEN {<<r, now[r]>>} ELSE {})
    BY <1>7 DEF Submit, SubmitFails, TypeOK
  <2>3. <<r, now[r]>> \in Request \X (0 .. MaxTime)
    BY DEF TypeOK
  <2>4. Recorded(u)' \subseteq Recorded(u)
    BY <2>1, <2>2, <2>3 DEF Recorded, TypeOK
  <2>5. \A q \in Request : Passed(q)' => Passed(q) /\ now'[q] = now[q]
    BY <2>1 DEF Passed, TypeOK
  <2> QED BY <2>1, <2>4, <2>5, <1>2, <1>3, NothingPasses
<1>8. CASE Crash \/ Tick \/ MockTime \/ UNCHANGED vars
  <2>1. UNCHANGED <<last, now, made>> /\ \A q \in Request : pc'[q] = pc[q] \/ pc'[q] = "idle"
    BY <1>8 DEF Crash, Tick, MockTime, vars
  <2>2. Recorded(u)' \subseteq Recorded(u)
    BY <2>1 DEF Recorded
  <2>3. \A q \in Request : Passed(q)' => Passed(q) /\ now'[q] = now[q]
    BY <2>1 DEF Passed
  <2> QED BY <2>1, <2>2, <2>3, <1>2, <1>3, NothingPasses
<1> QED BY <1>4, <1>5, <1>6, <1>7, <1>8 DEF Next, Step

(* The charge of every user that has not raced is an invariant. *)
THEOREM Charged == Spec => []ChargeInv
<1>1. Init => ChargeInv
  BY DEF Init, ChargeInv, ChargeOf, Recorded, Passed
<1>2. TypeOK /\ TypeOK' /\ ChargeInv /\ [Next]_vars => ChargeInv'
  <2> SUFFICES ASSUME TypeOK, TypeOK', ChargeInv, [Next]_vars, NEW u \in User \ raced'
               PROVE  ChargeOf(u)'
    BY DEF ChargeInv
  <2> QED BY ChargeStep
<1> QED BY <1>1, <1>2, TypeCorrect, PTL DEF Spec

(* The cooldown holds for every user whose requests never passed the check *)
(* of api.go:53 side by side.                                              *)
THEOREM CooldownHolds == Spec => []CooldownKeptUnlessRaced
<1>1. ChargeInv => CooldownKeptUnlessRaced
  BY DEF ChargeInv, ChargeOf, Recorded, CooldownKeptUnlessRaced, CooldownOf
<1> QED BY <1>1, Charged, PTL

(* Every submission that reaches the CMS was charged before (api.go:29-39),*)
(* for users whose requests never passed the check side by side.           *)
THEOREM SubmissionsCharged == Spec => []SubmissionIsCharged
<1>1. ChargeInv => SubmissionIsCharged
  BY DEF ChargeInv, ChargeOf, Recorded, SubmissionIsCharged
<1> QED BY <1>1, Charged, PTL

(* A whole number of milliseconds that is no later than a time is no later *)
(* than that time in milliseconds.                                         *)
LEMMA Truncates ==
  ASSUME NEW l \in Nat, NEW t \in Nat \ {0}, NEW n \in Nat, l * t <= n
  PROVE  n \div t >= l
<1>1. (l + 0) * t = l * t
  OBVIOUS
<1>2. ~((l + 0) * t > n)
  BY <1>1
<1> QED BY <1>2, Advance

(* What a check has read stays a cooldown before its request, and stays    *)
(* what is stored until the user's requests race.                          *)
LEMMA SeenStep ==
  ASSUME TypeOK, ChargeInv, SeenInv, [Next]_vars
  PROVE  SeenInv'
<1>1. ASSUME UNCHANGED <<last, seen, raced>>,
             \A q \in Request : Passed(q)' => Passed(q) /\ now'[q] = now[q]
      PROVE  SeenInv'
  BY <1>1 DEF SeenInv
<1>2. ASSUME NEW r \in Request, Begin(r) \/ Refuse(r) \/ Charge(r) \/ StatementFails(r)
      PROVE  SeenInv'
  <2>1. UNCHANGED <<last, seen, raced>>
    BY <1>2 DEF Begin, Refuse, Charge, StatementFails
  <2>2. \A q \in Request : Passed(q)' => Passed(q) /\ now'[q] = now[q]
    BY <1>2 DEF Begin, Refuse, Charge, StatementFails, Goto, Passed, TypeOK
  <2> QED BY <2>1, <2>2, <1>1
<1>3. ASSUME NEW r \in Request, Pass(r)
      PROVE  SeenInv'
  <2>1. /\ UNCHANGED <<last, now>> /\ raced \subseteq raced'
        /\ seen' = [seen EXCEPT ![r] = last[UserOf[r]]]
        /\ pc' = [pc EXCEPT ![r] = "charge"]
        /\ ~((last[UserOf[r]] + Cooldown) * TicksPerMs > now[r])
    BY <1>3 DEF Pass, Goto, TooEarly
  <2>2. (last[UserOf[r]] + Cooldown) * TicksPerMs <= now[r]
    <3>1. last[UserOf[r]] \in Nat /\ now[r] \in Nat
      BY DEF TypeOK
    <3> QED BY <2>1, <3>1
  <2>3. seen'[r] = last[UserOf[r]] /\ \A q \in Request \ {r} : seen'[q] = seen[q]
    BY <2>1 DEF TypeOK
  <2>4. \A q \in Request \ {r} : Passed(q)' => Passed(q)
    BY <2>1 DEF Passed, TypeOK
  <2> QED BY <2>1, <2>2, <2>3, <2>4 DEF SeenInv
<1>4. ASSUME NEW r \in Request, Commit(r) \/ CommitFails(r)
      PROVE  SeenInv'
  <2>1. /\ UNCHANGED <<now, seen, raced>> /\ Passed(r)
        /\ \A q \in Request : Passed(q)' => Passed(q) /\ q # r
    BY <1>4 DEF Commit, CommitFails, Goto, Passed, TypeOK
  <2>2. \A u \in User \ {UserOf[r]} : last'[u] = last[u]
    BY <1>4 DEF Commit, CommitFails, Record, TypeOK
  <2>3. \A q \in Request : Passed(q)' => UserOf[q] # UserOf[r] \/ UserOf[q] \in raced
    BY <2>1 DEF ChargeInv, ChargeOf
  <2> QED BY <2>1, <2>2, <2>3 DEF SeenInv
<1>5. ASSUME NEW r \in Request, Submit(r) \/ SubmitFails(r)
      PROVE  SeenInv'
  <2>1. UNCHANGED <<last, now, seen, raced>>
    BY <1>5 DEF Submit, SubmitFails
  <2>2. \A q \in Request : Passed(q)' => Passed(q)
    BY <1>5 DEF Submit, SubmitFails, Goto, Passed, TypeOK
  <2> QED BY <2>1, <2>2, <1>1
<1>6. CASE Crash \/ Tick \/ MockTime \/ UNCHANGED vars
  <2>1. UNCHANGED <<last, now, seen, raced>>
    BY <1>6 DEF Crash, Tick, MockTime, vars
  <2>2. \A q \in Request : Passed(q)' => Passed(q)
    BY <1>6 DEF Crash, Tick, MockTime, vars, Passed
  <2> QED BY <2>1, <2>2, <1>1
<1> QED BY <1>2, <1>3, <1>4, <1>5, <1>6 DEF Next, Step

(* What the checks have read, in every reachable state. *)
THEOREM ChecksHold == Spec => []SeenInv
<1>1. Init => SeenInv
  BY DEF Init, SeenInv, Passed
<1>2. TypeOK /\ ChargeInv /\ SeenInv /\ [Next]_vars => SeenInv'
  BY SeenStep
<1> QED BY <1>1, <1>2, TypeCorrect, Charged, PTL DEF Spec

(* The end of any user's cooldown, raced or not, moves back only by the    *)
(* commit of a request whose check is out of date, and then to a cooldown  *)
(* after what that check read, at least (store.go:105-122).                *)
THEOREM MovesBackOnlyByStaleCheck == Spec => ChargeMovesBackOnlyByStaleCheck
<1> DEFINE Back(u, r) ==
      /\ UserOf[r] = u /\ u \in raced
      /\ pc[r] = "commit" /\ pc'[r] # "commit"
      /\ seen[r] < last[u]
      /\ last'[u] >= seen[r] + Cooldown
<1>1. TypeOK /\ SeenInv /\ [Next]_vars
        => \A u \in User : last'[u] < last[u] => \E r \in Request : Back(u, r)
  <2> SUFFICES ASSUME TypeOK, SeenInv, [Next]_vars, NEW u \in User, last'[u] < last[u]
               PROVE  \E r \in Request : Back(u, r)
    OBVIOUS
  <2>1. last[u] \in Nat
    BY DEF TypeOK
  <2>2. PICK r \in Request : (Commit(r) \/ CommitFails(r)) /\ last' # last
    BY <2>1 DEF Next, Step, Begin, Refuse, Pass, Charge, StatementFails, Submit,
                SubmitFails, Crash, Tick, MockTime, vars
  <2>3. pc[r] = "commit" /\ pc'[r] # "commit" /\ Record(r)
    BY <2>2 DEF Commit, CommitFails, Goto, TypeOK
  <2>4. UserOf[r] = u /\ last'[u] = now[r] \div TicksPerMs
    BY <2>1, <2>3 DEF Record, TypeOK
  <2>5. (seen[r] + Cooldown) * TicksPerMs <= now[r] /\ (u \in raced \/ seen[r] = last[u])
    BY <2>3, <2>4 DEF SeenInv, Passed
  <2>6. seen[r] \in Nat /\ seen[r] + Cooldown \in Nat /\ now[r] \in Nat
    BY DEF TypeOK
  <2>7. last'[u] >= seen[r] + Cooldown
    BY <2>4, <2>5, <2>6, Truncates
  <2>8. last'[u] \in Nat
    BY <2>4, <2>6, Division
  <2>9. seen[r] < last[u]
    BY <2>1, <2>6, <2>7, <2>8
  <2> QED BY <2>1, <2>3, <2>4, <2>5, <2>6, <2>7, <2>9
<1> QED BY <1>1, TypeCorrect, ChecksHold, PTL DEF Spec, ChargeMovesBackOnlyByStaleCheck

==============================================================================
