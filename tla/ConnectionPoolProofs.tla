-------------------------- MODULE ConnectionPoolProofs -------------------------
(***************************************************************************)
(* Proofs about ConnectionPool, for any pool and any finite number of      *)
(* requests and goroutines.                                                *)
(***************************************************************************)
EXTENDS ConnectionPool, FiniteSetTheorems, TLAPS

(* Counting a set of users that one user joins or leaves. *)
LEMMA Counting ==
  ASSUME NEW S \in SUBSET User, NEW u \in User
  PROVE  /\ Cardinality(S) \in Nat
         /\ Cardinality(S \cup {u}) \in Nat
         /\ Cardinality(S \ {u}) \in Nat
         /\ Cardinality(S \cup {u}) = IF u \in S THEN Cardinality(S) ELSE Cardinality(S) + 1
         /\ Cardinality(S \ {u}) = IF u \in S THEN Cardinality(S) - 1 ELSE Cardinality(S)
<1>1. IsFiniteSet(S)
  BY PoolAssumption, FS_Subset
<1>2. IsFiniteSet(S \cup {u}) /\ IsFiniteSet(S \ {u})
  BY <1>1, FS_AddElement, FS_RemoveElement
<1> QED BY <1>1, <1>2, FS_CardinalityType, FS_AddElement, FS_RemoveElement

(* Both are numbers, since the users of the pool are finitely many.        *)
LEMMA Counts == Cardinality(Holders) \in Nat /\ Cardinality(Doomed) \in Nat
<1>1. IsFiniteSet(Holders) /\ IsFiniteSet(Doomed)
  <2>1. Holders \in SUBSET User /\ Doomed \in SUBSET User
    BY DEF Holders, Doomed
  <2> QED BY <2>1, PoolAssumption, FS_Subset
<1> QED BY <1>1, FS_CardinalityType

(* What the counters need for the invariant, whatever the step. *)
LEMMA Balance ==
  ASSUME IInv,
         pc' \in [User -> State], gone' \subseteq Client,
         listener' \in {"starting", "listening", "ended"},
         free' \in Nat, lost' \in Nat, faults' \in 0 .. MaxFaults,
         Cardinality(Holders)' \in Nat,
         Accounted', DoomedInv', StartInv'
  PROVE  IInv'
<1>1. free' <= Size /\ lost' <= Size
  BY PoolAssumption DEF Accounted, Listening
<1> QED BY <1>1, PoolAssumption DEF IInv, TypeOK

(* Acquire, BeginFails and the two ends of a transaction are the only steps *)
(* that move a connection; a fault makes at most one transaction hopeless.  *)
THEOREM Inductive == Spec => []IInv
<1>1. Init => IInv
  <2> SUFFICES ASSUME Init PROVE IInv
    OBVIOUS
  <2>1. Holders = {} /\ Doomed = {}
    BY DEF Init, Holders, Doomed
  <2>2. Cardinality(Holders) = 0 /\ Cardinality(Doomed) = 0
    BY <2>1, FS_EmptySet
  <2> QED BY <2>2, PoolAssumption
          DEF Init, IInv, TypeOK, State, Accounted, Listening, DoomedInv, StartInv
<1>2. IInv /\ [Next]_vars => IInv'
  <2> SUFFICES ASSUME IInv, [Next]_vars PROVE IInv'
    OBVIOUS
  <2>0. /\ pc \in [User -> State] /\ gone \subseteq Client
        /\ free \in Nat /\ lost \in Nat /\ faults \in Nat /\ faults <= MaxFaults
        /\ listener \in {"starting", "listening", "ended"}
        /\ MaxFaults \in Nat /\ Size \in Nat /\ Size > 0
        /\ Client \subseteq User
        /\ free + Cardinality(Holders) + Listening + lost = Size
        /\ lost + Cardinality(Doomed) <= faults
        /\ listener = "starting" => free = Size /\ \A u \in User : pc[u] = "idle"
    BY PoolAssumption DEF IInv, TypeOK, Accounted, DoomedInv, StartInv, User
  <2>a. Cardinality(Holders) \in Nat /\ Cardinality(Doomed) \in Nat
    BY Counts
  <2>b. Holders \in SUBSET User /\ Doomed \in SUBSET User
    BY DEF Holders, Doomed
  <2> USE DEF Goto, Fault, Release
  <2>1. ASSUME NEW u \in User,
               Ask(u) \/ GiveUp(u) \/ Begin(u) \/ Fails(u) \/ (u \in Client /\ ConnectFails(u))
        PROVE  IInv'
    <3>1. /\ Holders' = Holders /\ Doomed' = Doomed
          /\ pc' \in [User -> State] /\ gone' \subseteq Client
          /\ UNCHANGED <<free, listener, lost>>
          /\ faults' \in Nat /\ faults <= faults' /\ faults' <= MaxFaults
      BY <2>0, <2>1 DEF State, Holders, Doomed, Ask, GiveUp, Begin, Fails, ConnectFails
    <3>2. listener # "starting"
      BY <2>0, <2>1 DEF Ask, GiveUp, Begin, Fails, ConnectFails
    <3> QED BY <2>0, <2>a, <3>1, <3>2, Balance DEF Accounted, Listening, DoomedInv, StartInv
  <2>2. ASSUME NEW u \in User, Acquire(u)
        PROVE  IInv'
    <3>1. /\ Holders' = Holders \cup {u} /\ u \notin Holders /\ Doomed' = Doomed
          /\ pc' \in [User -> State] /\ gone' = gone
          /\ UNCHANGED <<listener, lost, faults>>
          /\ free > 0 /\ free' = free - 1
      BY <2>0, <2>2 DEF State, Holders, Doomed, Acquire
    <3>2. listener # "starting"
      BY <2>0, <2>2 DEF Acquire
    <3>3. Cardinality(Holders)' = Cardinality(Holders) + 1
      BY <2>b, <3>1, Counting
    <3> QED BY <2>0, <2>a, <3>1, <3>2, <3>3, Balance
            DEF Accounted, Listening, DoomedInv, StartInv
  <2>3. ASSUME NEW u \in User, BeginFails(u) \/ Close(u)
        PROVE  IInv'
    <3>1. /\ Holders' = Holders \ {u} /\ u \in Holders /\ Doomed' = Doomed
          /\ pc' \in [User -> State] /\ gone' = gone
          /\ UNCHANGED <<listener, lost>>
          /\ free' = free + 1
          /\ faults' \in Nat /\ faults <= faults' /\ faults' <= MaxFaults
      BY <2>0, <2>3 DEF State, Holders, Doomed, BeginFails, Close, Ends
    <3>2. listener # "starting"
      BY <2>0, <2>3 DEF BeginFails, Close
    <3>3. Cardinality(Holders)' = Cardinality(Holders) - 1 /\ Cardinality(Holders)' \in Nat
      BY <2>b, <3>1, Counting
    <3>4. Accounted'
      BY <2>0, <2>a, <3>1, <3>3 DEF Accounted, Listening
    <3>5. DoomedInv'
      BY <2>0, <2>a, <3>1 DEF DoomedInv
    <3> QED BY <2>0, <2>a, <3>1, <3>2, <3>3, <3>4, <3>5, Balance DEF StartInv
  <2>4. ASSUME NEW u \in User, FailsUnseen(u) \/ (u \in Client /\ HangUp(u))
        PROVE  IInv'
    <3>1. /\ Holders' = Holders
          /\ Doomed' = Doomed \/ Doomed' = Doomed \cup {u}
      <4>1. CASE FailsUnseen(u)
        BY <2>0, <4>1 DEF State, Holders, Doomed, FailsUnseen
      <4>2. CASE u \in Client /\ HangUp(u)
        <5>1. CASE pc[u] \in {"open", "failed"}
          BY <2>0, <4>2, <5>1 DEF Holders, Doomed, HangUp
        <5>2. CASE pc[u] \notin {"open", "failed"}
          BY <2>0, <4>2, <5>2 DEF Holders, Doomed, HangUp
        <5> QED BY <5>1, <5>2
      <4> QED BY <2>4, <4>1, <4>2
    <3>4. /\ pc' \in [User -> State] /\ gone' \subseteq Client
          /\ UNCHANGED <<free, listener, lost>>
          /\ faults' = faults + 1 /\ faults' <= MaxFaults
      BY <2>0, <2>4 DEF State, FailsUnseen, HangUp
    <3>2. listener # "starting"
      BY <2>0, <2>4 DEF FailsUnseen, HangUp
    <3>3. /\ Cardinality(Doomed)' \in Nat
          /\ Cardinality(Doomed)' <= Cardinality(Doomed) + 1
      <4>1. Cardinality(Doomed \cup {u}) =
              IF u \in Doomed THEN Cardinality(Doomed) ELSE Cardinality(Doomed) + 1
        BY <2>b, Counting
      <4>2. CASE Doomed' = Doomed
        BY <2>a, <4>2
      <4>3. CASE Doomed' = Doomed \cup {u}
        BY <2>a, <4>1, <4>3
      <4> QED BY <3>1, <4>2, <4>3
    <3>5. Accounted' /\ DoomedInv'
      BY <2>0, <2>a, <3>1, <3>3, <3>4 DEF Accounted, Listening, DoomedInv
    <3> QED BY <2>0, <2>a, <3>1, <3>2, <3>4, <3>5, Balance DEF StartInv
  <2>5. ASSUME NEW u \in User, CloseFails(u)
        PROVE  IInv'
    <3>1. /\ Holders' = Holders \ {u} /\ u \in Holders
          /\ Doomed' = Doomed \ {u}
          /\ (u \in Doomed /\ faults' = faults) \/ faults' = faults + 1
          /\ faults' <= MaxFaults
          /\ pc' \in [User -> State] /\ gone' = gone
          /\ UNCHANGED <<free, listener>>
          /\ lost' = lost + 1
      BY <2>0, <2>5 DEF State, Holders, Doomed, CloseFails, Ends
    <3>2. listener # "starting"
      BY <2>0, <2>5 DEF CloseFails
    <3>3. /\ Cardinality(Holders)' = Cardinality(Holders) - 1
          /\ Cardinality(Doomed)' =
               IF u \in Doomed THEN Cardinality(Doomed) - 1 ELSE Cardinality(Doomed)
          /\ Cardinality(Holders)' \in Nat /\ Cardinality(Doomed)' \in Nat
      BY <2>a, <2>b, <3>1, Counting, Counts
    <3> QED BY <2>0, <2>a, <3>1, <3>2, <3>3, Balance
            DEF Accounted, Listening, DoomedInv, StartInv
  <2>6. CASE Listen \/ ListenFails \/ ListenerEnds
    <3>1. Holders' = Holders /\ Doomed' = Doomed /\ pc' = pc /\ gone' = gone
      BY <2>6 DEF Listen, ListenFails, ListenerEnds, Holders, Doomed
    <3>2. listener' # "starting" /\ free' \in Nat
      BY <2>0, <2>6 DEF Listen, ListenFails, ListenerEnds
    <3> QED BY <2>0, <2>a, <2>6, <3>1, <3>2, Balance
            DEF Listen, ListenFails, ListenerEnds, Accounted, Listening, DoomedInv, StartInv
  <2>7. CASE Crash
    <3>1. Holders' = {} /\ Doomed' = {} /\ pc' \in [User -> State]
      BY <2>7 DEF Crash, Holders, Doomed, State
    <3>2. Cardinality(Holders)' = 0 /\ Cardinality(Doomed)' = 0
      BY <3>1, FS_EmptySet
    <3> QED BY <2>0, <2>7, <3>1, <3>2, Balance
            DEF Crash, Accounted, Listening, DoomedInv, StartInv
  <2>8. CASE UNCHANGED vars
    BY <2>8 DEF vars, IInv, TypeOK, Accounted, Holders, Listening, DoomedInv, Doomed, StartInv
  <2> QED BY <2>0, <2>1, <2>2, <2>3, <2>4, <2>5, <2>6, <2>7, <2>8 DEF Next, Step, Starved
<1> QED BY <1>1, <1>2, PTL DEF Spec

(* The pool and its users are well typed; in particular no connection is    *)
(* released twice.                                                          *)
THEOREM TypeCorrect == Spec => []TypeOK
BY Inductive, PTL DEF IInv

(* Tx, Close and ListenOn forget a connection only where they are counted   *)
(* as losing one.                                                           *)
THEOREM AllAccounted == Spec => []Accounted
BY Inductive, PTL DEF IInv

(* As many cancelled requests, broken sessions and dropped errors as the    *)
(* pool has connections must come together before it has lost them all.     *)
THEOREM CostsOne == Spec => []FaultCostsOne
<1>1. IInv => FaultCostsOne
  BY Counts DEF IInv, TypeOK, DoomedInv, FaultCostsOne
<1> QED BY <1>1, Inductive, PTL

==============================================================================
