--------------------------- MODULE FileStoreProofs ---------------------------
(***************************************************************************)
(* Proofs about FileStore, for any requests, files and faults.             *)
(***************************************************************************)
EXTENDS FileStore, TLAPS

Inserting(r) == pc[r] \in {"next", "lookup", "store", "file"}
InHand(r) == pc[r] \in {"lookup", "store", "file"}

(* The files whose rows the transaction has inserted. *)
Done(r) == DOMAIN sources[r] \ (todo[r] \cup {cur[r]})

(* What the transaction of a request has done so far. *)
Fresh(r) == sid[r] = 0 /\ cur[r] = None /\ added[r] = {} /\ filed[r] = {}

Numbered(r) == sid[r] \in 1 .. nextId - 1 /\ sid[r] \notin submissions

Progress(r) ==
  /\ todo[r] \subseteq DOMAIN sources[r]
  /\ IF InHand(r) THEN cur[r] \in DOMAIN sources[r] \ todo[r] ELSE cur[r] = None
  /\ filed[r] = {<<n, sources[r][n]>> : n \in Done(r)}

Stored(r) ==
  /\ \A n \in Done(r) : sources[r][n] \in objects \cup added[r]
  /\ pc[r] = "file" => Digest(r) \in objects \cup added[r]

Needed(r) ==
  \A c \in added[r] :
    (\E n \in Done(r) : sources[r][n] = c) \/ (pc[r] = "file" /\ c = Digest(r))

RequestInv(r) ==
  IF Inserting(r)
  THEN Numbered(r) /\ Progress(r) /\ Stored(r) /\ Needed(r)
  ELSE Fresh(r)

Distinct == \A q, r \in Request : sid[q] = sid[r] /\ sid[q] # 0 => q = r

IInv ==
  /\ TypeOK
  /\ submissions \subseteq 1 .. nextId - 1
  /\ \A r \in Request : RequestInv(r)
  /\ Distinct
  /\ WholeOrNothing

(* The files of a submission are named contents.                           *)
LEMMA SourceNames ==
  ASSUME NEW f \in Sources
  PROVE  DOMAIN f \subseteq Name /\ \A n \in DOMAIN f : f[n] \in Content
BY DEF Sources

(* A submission may have no file.                                          *)
LEMMA NothingSent == NoFiles \in Sources /\ DOMAIN NoFiles = {}
<1>1. NoFiles \in [{} -> Content] /\ DOMAIN NoFiles = {}
  BY DEF NoFiles
<1>2. {} \in SUBSET Name
  OBVIOUS
<1> QED BY <1>1, <1>2 DEF Sources

(* A request that a step does not touch keeps its part of the invariant. *)
LEMMA Untouched ==
  ASSUME IInv, NEW q \in Request,
         pc'[q] = pc[q], sid'[q] = sid[q], sources'[q] = sources[q],
         todo'[q] = todo[q], cur'[q] = cur[q], added'[q] = added[q],
         filed'[q] = filed[q],
         objects \subseteq objects', nextId' \in Nat, nextId <= nextId',
         Inserting(q) => sid[q] \notin submissions'
  PROVE  RequestInv(q)'
<1> USE DEF Inserting, InHand
<1>1. RequestInv(q) /\ nextId \in Nat
  BY BoundAssumption DEF IInv, TypeOK
<1>2. CASE ~Inserting(q)
  BY <1>1, <1>2 DEF RequestInv, Fresh
<1>3. CASE Inserting(q)
  <2>0. Numbered(q) /\ Progress(q) /\ Stored(q) /\ Needed(q)
    BY <1>1, <1>3 DEF RequestInv
  <2>1. Numbered(q)'
    BY <1>1, <1>3, <2>0 DEF Numbered
  <2>2. Done(q)' = Done(q) /\ Digest(q)' = Digest(q)
    BY DEF Done, Digest
  <2>3. Progress(q)'
    BY <2>0, <2>2 DEF Progress
  <2>4. Stored(q)'
    BY <2>0, <2>2 DEF Stored
  <2>5. Needed(q)'
    BY <2>0, <2>2 DEF Needed
  <2> QED BY <1>3, <2>1, <2>3, <2>4, <2>5 DEF RequestInv
<1> QED BY <1>2, <1>3

(* Steps that leave the tables alone. *)
LEMMA TablesStay ==
  ASSUME IInv, UNCHANGED <<tables, asked, byCms>>
  PROVE  WholeOrNothing'
BY DEF IInv, WholeOrNothing, Complete, NoOrphans, Sent, tables

(* A step of r that leaves the tables alone and keeps r's own part.        *)
LEMMA Private ==
  ASSUME IInv, TypeOK', NEW r \in Request, RequestInv(r)',
         UNCHANGED <<tables, asked, byCms>>,
         nextId <= nextId',
         \A q \in Request \ {r} :
           /\ pc'[q] = pc[q] /\ sid'[q] = sid[q] /\ sources'[q] = sources[q]
           /\ todo'[q] = todo[q] /\ cur'[q] = cur[q] /\ added'[q] = added[q]
           /\ filed'[q] = filed[q],
         sid'[r] \in {0, sid[r]} \/ sid'[r] = nextId
  PROVE  IInv'
<1>0. nextId \in Nat /\ nextId' \in Nat
  BY BoundAssumption DEF IInv, TypeOK
<1>1. submissions' \subseteq 1 .. nextId' - 1
  BY <1>0 DEF IInv, tables
<1>2. ASSUME NEW q \in Request PROVE RequestInv(q)'
  <2>1. CASE q = r
    BY <2>1
  <2>2. CASE q # r
    <3>1. Inserting(q) => sid[q] \notin submissions'
      BY DEF IInv, RequestInv, Numbered, tables
    <3> QED BY <1>0, <2>2, <3>1, Untouched DEF tables
  <2> QED BY <2>1, <2>2
<1>3. Distinct'
  <2>1. \A q \in Request : sid[q] # nextId \/ sid[q] = 0
    BY <1>0 DEF IInv, RequestInv, Numbered, Fresh
  <2> QED BY <2>1 DEF IInv, Distinct
<1>4. WholeOrNothing'
  BY TablesStay
<1> QED BY <1>1, <1>2, <1>3, <1>4 DEF IInv

(* What the end of transactions leaves of those of R, and of the others. *)
LEMMA Ended ==
  ASSUME IInv, NEW R \in SUBSET Request, End(R)
  PROVE  /\ pc' \in [Request -> State]
         /\ sid' \in [Request -> 0 .. MaxSubmissions]
         /\ sources' \in [Request -> Sources]
         /\ todo' \in [Request -> SUBSET Name]
         /\ cur' \in [Request -> Name \cup {None}]
         /\ added' \in [Request -> SUBSET Content]
         /\ filed' \in [Request -> SUBSET (Name \X Content)]
         /\ \A q \in R : RequestInv(q)' /\ sid'[q] = 0
         /\ \A q \in Request \ R :
              /\ pc'[q] = pc[q] /\ sid'[q] = sid[q] /\ sources'[q] = sources[q]
              /\ todo'[q] = todo[q] /\ cur'[q] = cur[q] /\ added'[q] = added[q]
              /\ filed'[q] = filed[q]
<1>1. TypeOK /\ MaxSubmissions \in Nat
  BY BoundAssumption DEF IInv
<1>2. pc' \in [Request -> State] /\ sid' \in [Request -> 0 .. MaxSubmissions]
  BY <1>1 DEF End, TypeOK, State
<1>3. sources' \in [Request -> Sources]
  BY <1>1, NothingSent DEF End, TypeOK
<1>4. todo' \in [Request -> SUBSET Name] /\ cur' \in [Request -> Name \cup {None}]
  BY <1>1 DEF End, TypeOK
<1>5. added' \in [Request -> SUBSET Content] /\ filed' \in [Request -> SUBSET (Name \X Content)]
  BY <1>1 DEF End, TypeOK
<1>6. \A q \in R : RequestInv(q)' /\ sid'[q] = 0
  BY DEF End, RequestInv, Inserting, Fresh
<1>7. \A q \in Request \ R :
        /\ pc'[q] = pc[q] /\ sid'[q] = sid[q] /\ sources'[q] = sources[q]
        /\ todo'[q] = todo[q] /\ cur'[q] = cur[q] /\ added'[q] = added[q]
        /\ filed'[q] = filed[q]
  BY DEF End
<1> QED BY <1>2, <1>3, <1>4, <1>5, <1>6, <1>7

(* Rolling back leaves no trace, whatever had been done. *)
LEMMA RolledBack ==
  ASSUME IInv, NEW R \in SUBSET Request, End(R),
         UNCHANGED <<tables, nextId, asked, byCms>>, faults' \in 0 .. MaxFaults
  PROVE  IInv'
<1>1. TypeOK'
  BY Ended DEF IInv, TypeOK, tables
<1>2. ASSUME NEW q \in Request PROVE RequestInv(q)'
  <2>1. CASE q \in R
    BY <2>1, Ended
  <2>2. CASE q \notin R
    <3>1. Inserting(q) => sid[q] \notin submissions'
      BY DEF IInv, RequestInv, Numbered, tables
    <3>2. nextId' \in Nat /\ nextId <= nextId' /\ objects \subseteq objects'
      BY BoundAssumption DEF IInv, TypeOK, tables
    <3>3. /\ pc'[q] = pc[q] /\ sid'[q] = sid[q] /\ sources'[q] = sources[q]
          /\ todo'[q] = todo[q] /\ cur'[q] = cur[q] /\ added'[q] = added[q]
          /\ filed'[q] = filed[q]
      BY <2>2, Ended
    <3> QED BY <3>1, <3>2, <3>3, Untouched
  <2> QED BY <2>1, <2>2
<1>3. \A q \in Request : sid'[q] \in {0, sid[q]}
  BY Ended
<1>4. Distinct'
  BY <1>3 DEF IInv, Distinct
<1>5. WholeOrNothing' /\ submissions' \subseteq 1 .. nextId' - 1
  BY TablesStay DEF IInv, tables
<1> QED BY <1>1, <1>2, <1>4, <1>5 DEF IInv

(* The commit of a request that has reached the end of its loop. *)
LEMMA Committed ==
  ASSUME IInv, NEW r \in Request, pc[r] = "next", todo[r] = {},
         Write(r), End({r}), UNCHANGED <<nextId, byCms>>, faults' \in 0 .. MaxFaults
  PROVE  IInv'
<1> PICK i : i = sid[r]
  OBVIOUS
<1>0. /\ TypeOK /\ MaxSubmissions \in Nat /\ nextId \in Nat
      /\ submissions \subseteq 1 .. nextId - 1
      /\ Numbered(r) /\ Progress(r) /\ Stored(r) /\ Needed(r)
  BY BoundAssumption DEF IInv, TypeOK, RequestInv, Inserting
<1>1. i \in Id /\ i \in 1 .. nextId - 1 /\ i \notin submissions /\ i # 0
  BY <1>0 DEF Numbered, Id, TypeOK
<1>2. /\ DOMAIN sources[r] \subseteq Name
      /\ \A n \in DOMAIN sources[r] : sources[r][n] \in Content
      /\ sources[r] \in Sources
  BY <1>0, SourceNames DEF TypeOK
<1>3. /\ Done(r) = DOMAIN sources[r]
      /\ filed[r] = {<<n, sources[r][n]>> : n \in DOMAIN sources[r]}
  BY <1>0, <1>2, NoneAssumption DEF Progress, Done, InHand
<1>4. files' = files \cup {<<i, n, sources[r][n]>> : n \in DOMAIN sources[r]}
  <2>1. {<<i, f[1], f[2]>> : f \in filed[r]} = {<<i, n, sources[r][n]>> : n \in DOMAIN sources[r]}
    <3> DEFINE F == {<<n, sources[r][n]>> : n \in DOMAIN sources[r]}
    <3>1. \A n \in DOMAIN sources[r] :
            /\ <<n, sources[r][n]>> \in F
            /\ <<n, sources[r][n]>>[1] = n /\ <<n, sources[r][n]>>[2] = sources[r][n]
      OBVIOUS
    <3>2. \A f \in F : \E n \in DOMAIN sources[r] : f[1] = n /\ f[2] = sources[r][n]
      OBVIOUS
    <3> HIDE DEF F
    <3>3. {<<i, f[1], f[2]>> : f \in F} = {<<i, n, sources[r][n]>> : n \in DOMAIN sources[r]}
      <4>1. ASSUME NEW f \in F
            PROVE  <<i, f[1], f[2]>> \in {<<i, n, sources[r][n]>> : n \in DOMAIN sources[r]}
        <5>1. PICK n \in DOMAIN sources[r] : f[1] = n /\ f[2] = sources[r][n]
          BY <3>2
        <5> QED BY <5>1
      <4>2. ASSUME NEW n \in DOMAIN sources[r]
            PROVE  <<i, n, sources[r][n]>> \in {<<i, f[1], f[2]>> : f \in F}
        <5>1. PICK f \in F : f[1] = n /\ f[2] = sources[r][n]
          BY <3>1
        <5> QED BY <5>1
      <4> QED BY <4>1, <4>2
    <3> QED BY <1>3, <3>3 DEF F
  <2> QED BY <2>1 DEF Write
<1>5. TypeOK'
  <2>1. submissions' \subseteq Id /\ files' \subseteq Id \X Name \X Content
    <3>1. submissions' \subseteq Id
      BY <1>0, <1>1 DEF Write, TypeOK
    <3>2. \A n \in DOMAIN sources[r] : <<i, n, sources[r][n]>> \in Id \X Name \X Content
      BY <1>1, <1>2
    <3>3. files \subseteq Id \X Name \X Content
      BY <1>0 DEF TypeOK
    <3>4. {<<i, n, sources[r][n]>> : n \in DOMAIN sources[r]} \subseteq Id \X Name \X Content
      BY <3>2
    <3> QED BY <1>4, <3>1, <3>3, <3>4
  <2>2. objects' \subseteq Content /\ byCms' \subseteq objects'
    BY <1>0 DEF Write, TypeOK
  <2>3. asked' \in [Id -> Sources]
    BY <1>0, <1>1, <1>2 DEF Write, TypeOK
  <2> QED BY <1>0, <2>1, <2>2, <2>3, Ended DEF TypeOK
<1>6. ASSUME NEW q \in Request PROVE RequestInv(q)'
  <2>1. CASE q = r
    BY <2>1, Ended
  <2>2. CASE q # r
    <3>1. Inserting(q) => sid[q] \notin submissions'
      BY <1>1, <2>2 DEF IInv, Distinct, RequestInv, Numbered, Write
    <3>2. nextId' \in Nat /\ nextId <= nextId' /\ objects \subseteq objects'
      BY <1>0 DEF Write
    <3>3. /\ pc'[q] = pc[q] /\ sid'[q] = sid[q] /\ sources'[q] = sources[q]
          /\ todo'[q] = todo[q] /\ cur'[q] = cur[q] /\ added'[q] = added[q]
          /\ filed'[q] = filed[q]
      BY <2>2, Ended
    <3> QED BY <3>1, <3>2, <3>3, Untouched
  <2> QED BY <2>1, <2>2
<1>7. Distinct' /\ submissions' \subseteq 1 .. nextId' - 1
  <2>1. \A q \in Request : sid'[q] \in {0, sid[q]}
    BY Ended
  <2> QED BY <1>0, <1>1, <2>1 DEF IInv, Distinct, Write
<1>8. Complete'
  <2>1. \A f \in files : f[1] \in submissions /\ f[3] \in objects
    BY DEF IInv, WholeOrNothing, Complete
  <2>2. \A f \in files' : f[1] \in submissions' /\ f[3] \in objects'
    BY <1>0, <1>3, <1>4, <2>1 DEF Write, Stored
  <2>3. Sent(i)' = {<<i, n, sources[r][n]>> : n \in DOMAIN sources[r]}
    BY <1>0, <1>1 DEF Sent, Write, TypeOK
  <2>4. {f \in files' : f[1] = i} = Sent(i)'
    BY <1>1, <1>4, <2>1, <2>3
  <2>5. ASSUME NEW j \in submissions PROVE {f \in files' : f[1] = j} = Sent(j)'
    <3>1. j # i /\ j \in Id
      BY <1>0, <1>1 DEF TypeOK
    <3>2. Sent(j)' = Sent(j)
      BY <1>0, <1>1, <3>1 DEF Sent, Write, TypeOK
    <3>3. {f \in files' : f[1] = j} = {f \in files : f[1] = j}
      BY <1>4, <3>1
    <3> QED BY <3>2, <3>3 DEF IInv, WholeOrNothing, Complete
  <2> QED BY <2>2, <2>4, <2>5 DEF Complete, Write
<1>9. NoOrphans'
  <2> SUFFICES ASSUME NEW c \in objects' \ byCms' PROVE \E f \in files' : f[3] = c
    BY DEF NoOrphans
  <2>1. CASE c \in objects
    BY <1>4, <2>1 DEF IInv, WholeOrNothing, NoOrphans
  <2>2. CASE c \in added[r]
    <3>1. PICK n \in DOMAIN sources[r] : sources[r][n] = c
      BY <1>0, <1>3, <2>2 DEF Needed
    <3>2. <<i, n, c>> \in files'
      BY <1>4, <3>1
    <3> QED BY <3>2
  <2> QED BY <2>1, <2>2 DEF Write
<1> QED BY <1>5, <1>6, <1>7, <1>8, <1>9 DEF IInv, WholeOrNothing

(***************************************************************************)
(* Only the commit writes the tables, and only at the end of the loop, when*)
(* the rows and objects of the transaction are those of the whole request. *)
(***************************************************************************)
THEOREM Inductive == Spec => []IInv
<1>1. Init => IInv
  <2> SUFFICES ASSUME Init PROVE IInv
    OBVIOUS
  <2>1. TypeOK
    BY BoundAssumption, NothingSent DEF Init, TypeOK, State
  <2>2. WholeOrNothing
    BY DEF Init, WholeOrNothing, Complete, NoOrphans
  <2> QED BY <2>1, <2>2 DEF Init, IInv, RequestInv, Inserting, Fresh, Distinct
<1>2. IInv /\ [Next]_vars => IInv'
  <2> SUFFICES ASSUME IInv, [Next]_vars PROVE IInv'
    OBVIOUS
  <2>0. TypeOK /\ MaxSubmissions \in Nat /\ MaxFaults \in Nat /\ nextId \in Nat
    BY BoundAssumption DEF IInv, TypeOK
  <2>a. ASSUME NEW r \in Request PROVE RequestInv(r)
    BY DEF IInv
  <2> USE DEF Goto
  <2>1. ASSUME NEW r \in Request, Begin(r) PROVE IInv'
    <3>1. sources' \in [Request -> Sources]
      BY <2>0, <2>1, SendableAssumption DEF Begin, TypeOK
    <3>2. TypeOK'
      BY <2>0, <2>1, <3>1 DEF Begin, TypeOK, State, tables
    <3>3. RequestInv(r)'
      BY <2>0, <2>1, <2>a DEF Begin, TypeOK, RequestInv, Inserting, Fresh
    <3> QED BY <2>0, <2>1, <3>2, <3>3, Private DEF Begin, TypeOK
  <2>2. ASSUME NEW r \in Request, InsertSubmission(r) PROVE IInv'
    <3>0. /\ sources[r] \in Sources /\ DOMAIN sources[r] \subseteq Name
          /\ nextId \in Id /\ nextId \notin submissions
      BY <2>0, <2>2, SourceNames DEF InsertSubmission, TypeOK, Id, IInv
    <3>1. TypeOK'
      BY <2>0, <2>2, <3>0 DEF InsertSubmission, TypeOK, State, Id, tables
    <3>2. Fresh(r)
      BY <2>2, <2>a DEF InsertSubmission, RequestInv, Inserting
    <3>3. Done(r)' = {}
      BY <2>0, <2>2, <3>0 DEF InsertSubmission, Done, TypeOK
    <3>4. RequestInv(r)'
      <4>1. Progress(r)'
        BY <2>0, <2>2, <3>2, <3>3 DEF InsertSubmission, Progress, InHand, Fresh, TypeOK
      <4>2. Stored(r)' /\ Needed(r)'
        BY <2>0, <2>2, <3>2, <3>3 DEF InsertSubmission, Stored, Needed, Fresh, TypeOK
      <4>3. Numbered(r)'
        BY <2>0, <2>2, <3>0 DEF InsertSubmission, Numbered, TypeOK, tables, Id
      <4> QED BY <2>0, <2>2, <4>1, <4>2, <4>3
              DEF InsertSubmission, RequestInv, Inserting, TypeOK
    <3>5. sid'[r] = nextId
      BY <2>0, <2>2 DEF InsertSubmission, TypeOK
    <3>6. UNCHANGED <<tables, asked, byCms>> /\ nextId <= nextId'
      BY <2>0, <2>2 DEF InsertSubmission
    <3>7. \A q \in Request \ {r} :
            /\ pc'[q] = pc[q] /\ sid'[q] = sid[q] /\ sources'[q] = sources[q]
            /\ todo'[q] = todo[q] /\ cur'[q] = cur[q] /\ added'[q] = added[q]
            /\ filed'[q] = filed[q]
      BY <2>0, <2>2 DEF InsertSubmission, TypeOK
    <3> QED BY <3>1, <3>4, <3>5, <3>6, <3>7, Private
  <2>3. ASSUME NEW r \in Request, NextFile(r) PROVE IInv'
    <3> USE DEF Inserting, InHand
    <3>0. /\ Numbered(r) /\ Progress(r) /\ Stored(r) /\ Needed(r)
          /\ sources[r] \in Sources /\ DOMAIN sources[r] \subseteq Name
      BY <2>0, <2>3, <2>a, SourceNames DEF NextFile, RequestInv, TypeOK
    <3>1. PICK n \in todo[r] : /\ cur' = [cur EXCEPT ![r] = n]
                               /\ todo' = [todo EXCEPT ![r] = @ \ {n}]
      BY <2>3 DEF NextFile
    <3>2. /\ pc[r] = "next" /\ pc' = [pc EXCEPT ![r] = "lookup"]
          /\ UNCHANGED <<tables, nextId, sid, sources, added, filed, asked, byCms, faults>>
      BY <2>3 DEF NextFile
    <3>3. n \in Name /\ n \in DOMAIN sources[r] /\ n # None
      BY <2>0, <3>0, NoneAssumption DEF Progress, TypeOK
    <3>4. TypeOK'
      BY <2>0, <3>1, <3>2, <3>3 DEF TypeOK, State, tables
    <3>5. /\ cur'[r] = n /\ todo'[r] = todo[r] \ {n} /\ pc'[r] = "lookup"
          /\ sources'[r] = sources[r] /\ added'[r] = added[r] /\ filed'[r] = filed[r]
          /\ sid'[r] = sid[r]
      BY <2>0, <3>1, <3>2 DEF TypeOK
    <3>6. Done(r)' = Done(r)
      BY <3>0, <3>2, <3>3, <3>5, NoneAssumption DEF Done, Progress
    <3>7. RequestInv(r)'
      <4>1. Progress(r)'
        BY <3>0, <3>3, <3>5, <3>6 DEF Progress
      <4>2. Stored(r)' /\ Needed(r)' /\ Numbered(r)'
        BY <3>0, <3>2, <3>5, <3>6 DEF Stored, Needed, Numbered, tables
      <4> QED BY <3>5, <4>1, <4>2 DEF RequestInv
    <3>8. \A q \in Request \ {r} :
            /\ pc'[q] = pc[q] /\ sid'[q] = sid[q] /\ sources'[q] = sources[q]
            /\ todo'[q] = todo[q] /\ cur'[q] = cur[q] /\ added'[q] = added[q]
            /\ filed'[q] = filed[q]
      BY <2>0, <3>1, <3>2 DEF TypeOK
    <3> QED BY <2>0, <3>2, <3>4, <3>5, <3>7, <3>8, Private
  <2>4. ASSUME NEW r \in Request, Lookup(r) PROVE IInv'
    <3> USE DEF Inserting, InHand
    <3>0. Numbered(r) /\ Progress(r) /\ Stored(r) /\ Needed(r)
      BY <2>4, <2>a DEF Lookup, RequestInv
    <3>1. /\ pc[r] = "lookup" /\ pc'[r] \in {"file", "store"}
          /\ pc'[r] = "file" => Digest(r) \in objects \cup added[r]
          /\ UNCHANGED <<tables, nextId, sid, sources, todo, cur, added, filed, asked, byCms, faults>>
      BY <2>0, <2>4 DEF Lookup, Visible, TypeOK
    <3>2. Done(r)' = Done(r) /\ Digest(r)' = Digest(r)
      BY <3>1 DEF Done, Digest
    <3>3. TypeOK'
      BY <2>0, <2>4 DEF Lookup, TypeOK, State, tables
    <3>4. RequestInv(r)'
      <4>1. Progress(r)' /\ Numbered(r)'
        BY <3>0, <3>1, <3>2 DEF Progress, Numbered, tables
      <4>2. Stored(r)' /\ Needed(r)'
        BY <3>0, <3>1, <3>2 DEF Stored, Needed, tables
      <4> QED BY <3>1, <4>1, <4>2 DEF RequestInv
    <3>5. \A q \in Request \ {r} : pc'[q] = pc[q]
      BY <2>0, <2>4 DEF Lookup, TypeOK
    <3> QED BY <2>0, <3>1, <3>3, <3>4, <3>5, Private
  <2>5. ASSUME NEW r \in Request, Store(r) PROVE IInv'
    <3> USE DEF Inserting, InHand
    <3>0. /\ Numbered(r) /\ Progress(r) /\ Stored(r) /\ Needed(r)
          /\ sources[r] \in Sources
          /\ \A n \in DOMAIN sources[r] : sources[r][n] \in Content
      BY <2>0, <2>5, <2>a, SourceNames DEF Store, RequestInv, TypeOK
    <3>1. /\ pc[r] = "store" /\ pc'[r] = "file"
          /\ added'[r] = added[r] \cup {Digest(r)}
          /\ UNCHANGED <<tables, nextId, sid, sources, todo, cur, filed, asked, byCms, faults>>
      BY <2>0, <2>5 DEF Store, AddObject, TypeOK, tables
    <3>2. Done(r)' = Done(r) /\ Digest(r)' = Digest(r)
      BY <3>1 DEF Done, Digest
    <3>3. TypeOK'
      <4>1. Digest(r) \in Content
        BY <3>0, <3>1 DEF Digest, Progress
      <4> QED BY <2>0, <2>5, <4>1 DEF Store, AddObject, TypeOK, State
    <3>4. RequestInv(r)'
      <4>1. Progress(r)' /\ Numbered(r)'
        BY <3>0, <3>1, <3>2 DEF Progress, Numbered, tables
      <4>2. Stored(r)' /\ Needed(r)'
        BY <3>0, <3>1, <3>2 DEF Stored, Needed, tables
      <4> QED BY <3>1, <4>1, <4>2 DEF RequestInv
    <3>5. \A q \in Request \ {r} : pc'[q] = pc[q] /\ added'[q] = added[q]
      BY <2>0, <2>5 DEF Store, AddObject, TypeOK
    <3> QED BY <2>0, <3>1, <3>3, <3>4, <3>5, Private
  <2>6. ASSUME NEW r \in Request, InsertFile(r) PROVE IInv'
    <3> USE DEF Inserting, InHand
    <3>0. /\ Numbered(r) /\ Progress(r) /\ Stored(r) /\ Needed(r)
          /\ sources[r] \in Sources /\ DOMAIN sources[r] \subseteq Name
          /\ \A n \in DOMAIN sources[r] : sources[r][n] \in Content
      BY <2>0, <2>6, <2>a, SourceNames DEF InsertFile, RequestInv, TypeOK
    <3>1. /\ pc[r] = "file" /\ pc'[r] = "next" /\ cur'[r] = None
          /\ filed'[r] = filed[r] \cup {<<cur[r], sources[r][cur[r]]>>}
          /\ UNCHANGED <<tables, nextId, sid, sources, todo, added, asked, byCms, faults>>
      BY <2>0, <2>6 DEF InsertFile, Digest, TypeOK
    <3>2. cur[r] \in DOMAIN sources[r] \ todo[r]
      BY <3>0, <3>1 DEF Progress
    <3>3. Done(r)' = Done(r) \cup {cur[r]}
      BY <3>0, <3>1, <3>2, NoneAssumption DEF Done
    <3>4. TypeOK'
      BY <2>0, <2>6, <3>0, <3>2 DEF InsertFile, Digest, TypeOK, State, tables
    <3>5. RequestInv(r)'
      <4>1. Progress(r)' /\ Numbered(r)'
        BY <3>0, <3>1, <3>3 DEF Progress, Numbered, tables
      <4>2. Stored(r)' /\ Needed(r)'
        BY <3>0, <3>1, <3>3 DEF Stored, Needed, Digest, tables
      <4> QED BY <3>1, <4>1, <4>2 DEF RequestInv
    <3>6. \A q \in Request \ {r} : pc'[q] = pc[q] /\ cur'[q] = cur[q] /\ filed'[q] = filed[q]
      BY <2>0, <2>6 DEF InsertFile, TypeOK
    <3> QED BY <2>0, <3>1, <3>4, <3>5, <3>6, Private
  <2>7. ASSUME NEW r \in Request, Commit(r) \/ CommitUnacked(r) PROVE IInv'
    <3>1. faults' \in 0 .. MaxFaults
      BY <2>0, <2>7 DEF Commit, CommitUnacked, Fault, TypeOK
    <3> QED BY <2>7, <3>1, Committed DEF Commit, CommitUnacked
  <2>8. ASSUME NEW r \in Request,
               Conflict(r) \/ Victim(r) \/ StatementFails(r) \/ OutOfIds(r)
        PROVE  IInv'
    <3>1. faults' \in 0 .. MaxFaults
      BY <2>0, <2>8 DEF Conflict, Victim, StatementFails, OutOfIds, Fault, TypeOK
    <3>2. End({r}) /\ UNCHANGED <<tables, nextId, asked, byCms>>
      BY <2>8 DEF Conflict, Victim, StatementFails, OutOfIds, Rollback
    <3> QED BY <3>1, <3>2, RolledBack
  <2>9. CASE Crash
    <3>1. faults' \in 0 .. MaxFaults
      BY <2>0, <2>9 DEF Crash, Fault, TypeOK
    <3> QED BY <2>9, <3>1, RolledBack DEF Crash
  <2>10. ASSUME NEW c \in Content, CmsStores(c) PROVE IInv'
    <3>1. TypeOK'
      BY <2>0, <2>10 DEF CmsStores, TypeOK, transaction
    <3>2. ASSUME NEW q \in Request PROVE RequestInv(q)'
      <4>1. Inserting(q) => sid[q] \notin submissions'
        BY <2>10, <2>a DEF CmsStores, RequestInv, Numbered
      <4> QED BY <2>0, <2>10, <4>1, Untouched DEF CmsStores, transaction
    <3>3. WholeOrNothing'
      BY <2>10 DEF CmsStores, IInv, WholeOrNothing, Complete, NoOrphans, Sent
    <3> QED BY <2>10, <3>1, <3>2, <3>3 DEF CmsStores, IInv, Distinct, transaction
  <2>11. CASE UNCHANGED vars
    <3>1. TypeOK'
      BY <2>0, <2>11 DEF vars, tables, transaction, TypeOK
    <3>2. ASSUME NEW q \in Request PROVE RequestInv(q)'
      <4>1. Inserting(q) => sid[q] \notin submissions'
        BY <2>11, <2>a DEF vars, tables, RequestInv, Numbered
      <4> QED BY <2>0, <2>11, <4>1, Untouched DEF vars, tables, transaction
    <3> QED BY <2>11, <3>1, <3>2, TablesStay DEF vars, tables, transaction, IInv, Distinct
  <2> QED BY <2>1, <2>2, <2>3, <2>4, <2>5, <2>6, <2>7, <2>8, <2>9, <2>10, <2>11
          DEF Next, Run, Quiescent
<1> QED BY <1>1, <1>2, PTL DEF Spec

(* The state of every transaction and table is well typed. *)
THEOREM TypeCorrect == Spec => []TypeOK
<1>1. IInv => TypeOK
  BY DEF IInv
<1> QED BY <1>1, Inductive, PTL

(* A submission is stored whole or not at all, for any requests, files,    *)
(* contents and faults.                                                    *)
THEOREM StoredWhole == Spec => []WholeOrNothing
<1>1. IInv => WholeOrNothing
  BY DEF IInv
<1> QED BY <1>1, Inductive, PTL

==============================================================================
