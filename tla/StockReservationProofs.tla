------------------------ MODULE StockReservationProofs ------------------------
(***************************************************************************)
(* Proofs about StockReservation and StockRequests, for every finite set   *)
(* of products, every set of requests, demands and stock levels, and lists *)
(* of lines of any length.                                                 *)
(*                                                                         *)
(* NoOversell is not inductive: a Commit subtracts what earlier steps      *)
(* tested.  The link is HeldCovered (the committed stock still covers each *)
(* locked row), which needs LocksExclusive (no other transaction commits   *)
(* the row meanwhile) and LocksOpen (an idle request, whose demand may     *)
(* still be set, holds nothing).  LocksAscend is what NoCircularWait needs.*)
(***************************************************************************)
EXTENDS StockRequests, SumTheorems, TLAPS

(* Type correctness *)

LEMMA InitialStock == Init => stock \in [Products -> Nat]
<1> SUFFICES ASSUME Init PROVE stock \in [Products -> Nat]
  OBVIOUS
<1>1. PICK level \in [Products -> Levels] :
         stock = [p \in Products |-> IF p \in catalogue THEN level[p] ELSE 0]
  BY DEF Init
<1>2. \A p \in Products : level[p] \in Nat
  BY LevelsAssumption
<1>3. QED
  BY <1>1, <1>2

LEMMA InitialTypes == Init => TypeOK
BY InitialStock DEF Init, TypeOK, Nothing

\* Every step keeps every variable in its type.
LEMMA TypesKept == TypeOK /\ [Next]_vars => TypeOK'
<1> SUFFICES ASSUME TypeOK, [Next]_vars PROVE TypeOK'
  OBVIOUS
<1> USE DEF TypeOK
<1>1. ASSUME NEW r \in Requests, NEW d \in Demands, Receive(r, d) PROVE TypeOK'
  BY <1>1, DemandsAssumption DEF Receive
<1>2. ASSUME NEW r \in Requests, Refuse(r) PROVE TypeOK'
  BY <1>2 DEF Refuse
<1>3. ASSUME NEW r \in Requests, RollBack(r) PROVE TypeOK'
  BY <1>3 DEF RollBack
<1>4. ASSUME NEW r \in Requests, Commit(r) PROVE TypeOK'
  <2>1. \A p \in Products : demand[r][p] \in Nat
    OBVIOUS
  <2>2. stock' \in [Products -> Int] /\ reserved' \in [Products -> Nat]
    BY <1>4, <2>1 DEF Commit
  <2>3. QED
    BY <1>4, <2>2 DEF Commit
<1>5. ASSUME NEW r \in Requests, NEW p \in Products, ReserveRow(r, p) PROVE TypeOK'
  BY <1>5 DEF ReserveRow
<1>6. ASSUME NEW p \in Products, NEW level \in Levels, CreateProduct(p, level)
      PROVE TypeOK'
  BY <1>6, LevelsAssumption DEF CreateProduct
<1>7. ASSUME NEW p \in Products, NEW level \in Levels, UpdateStock(p, level)
      PROVE TypeOK'
  BY <1>7, LevelsAssumption DEF UpdateStock
<1>8. CASE UNCHANGED vars
  BY <1>8 DEF vars
<1>9. QED
  BY <1>1, <1>2, <1>3, <1>4, <1>5, <1>6, <1>7, <1>8 DEF Next, Abandon, Insufficient

\* Every variable always has its type.
THEOREM TypeCorrect == Spec => []TypeOK
BY InitialTypes, TypesKept, PTL DEF Spec

-----------------------------------------------------------------------------
(* The inductive invariant *)

LEMMA InitialInvariant == Init => IInv
<1> SUFFICES ASSUME Init PROVE IInv
  OBVIOUS
<1>1. TypeOK
  BY InitialTypes
<1>2. NoOversell
  BY InitialStock DEF NoOversell
<1>3. LocksExclusive /\ HeldCovered /\ LocksAscend /\ LocksOpen
  BY DEF Init, LocksExclusive, HeldCovered, LocksAscend, LocksOpen
<1>4. QED
  BY <1>1, <1>2, <1>3 DEF IInv

\* A request that is only beginning holds no row, so its new demand disturbs none.
LEMMA ReceiveKeeps ==
    ASSUME IInv, TypeOK', NEW r \in Requests, NEW d \in Demands, Receive(r, d)
    PROVE  IInv'
<1> USE DEF IInv, TypeOK, Receive
<1>1. held[r] = {}
  BY DEF LocksOpen
<1>2. \A s \in Requests : held'[s] = held[s] /\ (s # r => demand'[s] = demand[s])
  OBVIOUS
<1>3. NoOversell' /\ LocksExclusive'
  BY DEF NoOversell, LocksExclusive
<1>4. HeldCovered'
  BY <1>1, <1>2 DEF HeldCovered, Sufficient
<1>5. LocksAscend'
  BY <1>1, <1>2 DEF LocksAscend, Remaining, Wanted
<1>6. LocksOpen'
  BY <1>1, <1>2 DEF LocksOpen, Wanted
<1>7. QED
  BY <1>3, <1>4, <1>5, <1>6

\* Giving the locks back weakens nothing.
LEMMA RollBackKeeps ==
    ASSUME IInv, TypeOK', NEW r \in Requests, RollBack(r)
    PROVE  IInv'
<1> USE DEF IInv, TypeOK, RollBack
<1>1. \A s \in Requests : held'[s] = (IF s = r THEN {} ELSE held[s])
  OBVIOUS
<1>2. NoOversell' /\ LocksExclusive'
  BY <1>1 DEF NoOversell, LocksExclusive
<1>3. HeldCovered'
  BY <1>1 DEF HeldCovered, Sufficient
<1>4. LocksAscend'
  BY <1>1 DEF LocksAscend, Remaining, Wanted
<1>5. LocksOpen'
  BY <1>1 DEF LocksOpen, Wanted
<1>6. QED
  BY <1>2, <1>3, <1>4, <1>5

LEMMA RefuseKeeps ==
    ASSUME IInv, TypeOK', NEW r \in Requests, Refuse(r)
    PROVE  IInv'
<1> USE DEF IInv, TypeOK, Refuse
<1>1. NoOversell' /\ LocksExclusive'
  BY DEF NoOversell, LocksExclusive
<1>2. HeldCovered' /\ LocksAscend'
  BY DEF HeldCovered, Sufficient, LocksAscend, Remaining, Wanted
<1>3. LocksOpen'
  BY DEF LocksOpen, Wanted
<1>4. QED
  BY <1>1, <1>2, <1>3

\* A row is locked only when nobody holds it and its stock covers the demand; it
\* is the least of the rows still wanted.
LEMMA ReserveRowKeeps ==
    ASSUME IInv, TypeOK', NEW r \in Requests, NEW p \in Products, ReserveRow(r, p)
    PROVE  IInv'
<1> USE DEF IInv, TypeOK, ReserveRow
<1>1. \A s \in Requests : held'[s] = (IF s = r THEN held[s] \cup {p} ELSE held[s])
  OBVIOUS
<1>2. p \in Wanted(r)
  BY DEF IsNext, Remaining
<1>3. NoOversell'
  BY DEF NoOversell
<1>4. LocksExclusive'
  BY <1>1 DEF LocksExclusive, Locked
<1>5. HeldCovered'
  BY <1>1 DEF HeldCovered, Sufficient
<1>6. LocksAscend'
  <2> SUFFICES ASSUME NEW s \in Requests, NEW q \in held'[s], NEW t \in Remaining(s)'
               PROVE  q < t
    BY DEF LocksAscend
  <2>1. t \in Remaining(s)
    BY <1>1 DEF Remaining, Wanted
  <2>2. CASE q \in held[s]
    BY <2>1, <2>2 DEF LocksAscend
  <2>3. CASE q \notin held[s]
    <3>1. s = r /\ q = p /\ t # p
      BY <1>1, <2>3 DEF Remaining
    <3>2. p <= t
      BY <2>1, <3>1 DEF IsNext
    <3>3. t \in Nat /\ p \in Nat
      BY <2>1, ProductsAssumption DEF Remaining, Wanted
    <3>4. QED
      BY <3>1, <3>2, <3>3
  <2>4. QED
    BY <2>2, <2>3
<1>7. LocksOpen'
  BY <1>1, <1>2 DEF LocksOpen, Wanted
<1>8. QED
  BY <1>3, <1>4, <1>5, <1>6, <1>7

\* The rows a transaction commits are its own, so the stock covers them and no
\* other transaction's rows change.
LEMMA CommitKeeps ==
    ASSUME IInv, TypeOK', NEW r \in Requests, Commit(r)
    PROVE  IInv'
<1> USE DEF IInv, TypeOK, Commit
<1>1. \A s \in Requests : held'[s] = (IF s = r THEN {} ELSE held[s])
  OBVIOUS
<1>2. \A q \in Products : q \notin held[r] => stock'[q] = stock[q]
  OBVIOUS
<1>3. NoOversell'
  <2> SUFFICES ASSUME NEW q \in Products PROVE stock'[q] >= 0
    BY DEF NoOversell
  <2>1. CASE q \in held[r]
    <3>1. stock[q] >= demand[r][q]
      BY <2>1 DEF HeldCovered, Sufficient
    <3>2. stock'[q] = stock[q] - demand[r][q] /\ stock[q] \in Int /\ demand[r][q] \in Nat
      BY <2>1
    <3>3. QED
      BY <3>1, <3>2
  <2>2. CASE q \notin held[r]
    BY <1>2, <2>2 DEF NoOversell
  <2>3. QED
    BY <2>1, <2>2
<1>4. LocksExclusive'
  BY <1>1 DEF LocksExclusive
<1>5. HeldCovered'
  <2> SUFFICES ASSUME NEW s \in Requests, NEW q \in held'[s]
               PROVE  Sufficient(s, q)'
    BY DEF HeldCovered
  <2>1. s # r /\ q \in held[s] /\ q \in Products
    BY <1>1
  <2>2. q \notin held[r]
    BY <2>1 DEF LocksExclusive
  <2>3. QED
    BY <1>2, <2>1, <2>2 DEF HeldCovered, Sufficient
<1>6. LocksAscend'
  BY <1>1 DEF LocksAscend, Remaining, Wanted
<1>7. LocksOpen'
  BY <1>1 DEF LocksOpen, Wanted
<1>8. QED
  BY <1>3, <1>4, <1>5, <1>6, <1>7

\* Administrators add products that nobody holds and overwrite the stock of rows
\* that nobody has locked, with values that are not negative.
LEMMA AdministrationKeeps ==
    ASSUME IInv, TypeOK', NEW p \in Products, NEW level \in Levels,
           CreateProduct(p, level) \/ UpdateStock(p, level)
    PROVE  IInv'
<1> USE DEF IInv, TypeOK, CreateProduct, UpdateStock
<1>1. level \in Nat
  BY LevelsAssumption
<1>2. \A q \in Products : stock'[q] = (IF q = p THEN level ELSE stock[q])
  OBVIOUS
<1>3. NoOversell'
  BY <1>1, <1>2 DEF NoOversell
<1>4. \A s \in Requests : p \notin held[s]
  BY DEF HeldCovered, Sufficient, Locked
<1>5. HeldCovered'
  BY <1>2, <1>4 DEF HeldCovered, Sufficient
<1>6. LocksExclusive' /\ LocksAscend' /\ LocksOpen'
  BY DEF LocksExclusive, LocksAscend, LocksOpen, Remaining, Wanted
<1>7. QED
  BY <1>3, <1>5, <1>6

LEMMA InvariantKept == IInv /\ [Next]_vars => IInv'
<1> SUFFICES ASSUME IInv, [Next]_vars PROVE IInv'
  OBVIOUS
<1>1. TypeOK'
  BY TypesKept DEF IInv
<1>2. ASSUME NEW r \in Requests, NEW d \in Demands, Receive(r, d) PROVE IInv'
  BY <1>1, <1>2, ReceiveKeeps
<1>3. ASSUME NEW r \in Requests, Refuse(r) PROVE IInv'
  BY <1>1, <1>3, RefuseKeeps
<1>4. ASSUME NEW r \in Requests, RollBack(r) PROVE IInv'
  BY <1>1, <1>4, RollBackKeeps
<1>5. ASSUME NEW r \in Requests, Commit(r) PROVE IInv'
  BY <1>1, <1>5, CommitKeeps
<1>6. ASSUME NEW r \in Requests, NEW p \in Products, ReserveRow(r, p) PROVE IInv'
  BY <1>1, <1>6, ReserveRowKeeps
<1>7. ASSUME NEW p \in Products, NEW level \in Levels,
             CreateProduct(p, level) \/ UpdateStock(p, level)
      PROVE  IInv'
  BY <1>1, <1>7, AdministrationKeeps
<1>8. CASE UNCHANGED vars
  BY <1>8 DEF vars, IInv, TypeOK, NoOversell, LocksExclusive, HeldCovered, Sufficient,
              LocksAscend, LocksOpen, Remaining, Wanted
<1>9. QED
  BY <1>2, <1>3, <1>4, <1>5, <1>6, <1>7, <1>8 DEF Next, Abandon, Insufficient

\* Locks are exclusive and ascending, and what they cover is covered by the
\* committed stock (the transaction of reservedStock).
THEOREM Invariant == Spec => []IInv
BY InitialInvariant, InvariantKept, PTL DEF Spec

\* Whatever reservations, time-outs and stock edits do, no stock becomes negative.
THEOREM NeverOversold == Spec => []NoOversell
<1>1. IInv => NoOversell
  BY DEF IInv
<1>2. QED
  BY <1>1, Invariant, PTL

-----------------------------------------------------------------------------
(* Deadlock freedom *)

\* Whoever waits for a row waits for a transaction whose next row is a later one.
LEMMA WaitsAscend ==
    ASSUME IInv, NEW r \in Requests, NEW s \in Requests, WaitsFor(r, s),
           NEW q \in Products, IsNext(s, q)
    PROVE  \E p \in Products : IsNext(r, p) /\ p < q
<1>1. PICK p \in held[s] : IsNext(r, p)
  BY DEF WaitsFor
<1>2. p < q
  BY <1>1 DEF IInv, LocksAscend, IsNext
<1>3. p \in Products
  BY <1>1 DEF IsNext, Remaining, Wanted
<1>4. QED
  BY <1>1, <1>2, <1>3

\* Hence the request of a set whose next row is the last one waits for no other.
LEMMA AscentBreaksCycles == IInv => NoCircularWait
<1> SUFFICES ASSUME IInv,
                    NEW S \in SUBSET Requests, S # {},
                    \A r \in S : \E s \in S : WaitsFor(r, s)
             PROVE  FALSE
  BY DEF NoCircularWait
<1> DEFINE Later(p) == {q \in Products : p < q}
           Laters == {Later(p) : p \in {p \in Products : \E r \in S : IsNext(r, p)}}
<1>1. \E p \in Products : \E r \in S : IsNext(r, p)
  BY DEF WaitsFor, IsNext, Remaining, Wanted
<1>2. PICK L \in Laters : \A K \in Laters : <<K, L>> \notin StrictSubsetOrdering(Products)
  <2>1. Laters \subseteq SUBSET Products /\ Laters # {}
    BY <1>1
  <2>2. IsWellFoundedOn(StrictSubsetOrdering(Products), SUBSET Products)
    BY ProductsAssumption, FS_StrictSubsetOrderingWellFounded, FS_FiniteSubsetsOfFinite
  <2>3. QED
    BY <2>1, <2>2, WFMin
<1>3. PICK q \in Products, s \in S : IsNext(s, q) /\ L = Later(q)
  BY <1>2
<1>4. PICK t \in S : WaitsFor(s, t)
  OBVIOUS
<1>5. PICK w \in Products : IsNext(t, w)
  BY DEF WaitsFor, IsNext, Remaining, Wanted
<1>6. q < w
  <2>1. PICK p \in Products : IsNext(s, p) /\ p < w
    BY <1>4, <1>5, WaitsAscend
  <2>2. p = q
    BY <1>3, <2>1, ProductsAssumption DEF IsNext, Remaining, Wanted
  <2>3. QED
    BY <2>1, <2>2
<1>7. \A p \in Products : p \in Nat
  BY ProductsAssumption
<1>8. Later(w) \subseteq Later(q)
  BY <1>6, <1>7
<1>9. w \in Later(q) /\ w \notin Later(w)
  BY <1>6, <1>7
<1>10. Later(w) \in Laters
  BY <1>5
<1>11. <<Later(w), Later(q)>> \in StrictSubsetOrdering(Products)
  BY <1>8, <1>9 DEF StrictSubsetOrdering
<1>12. QED
  BY <1>2, <1>3, <1>10, <1>11

\* The ascending order of the locks excludes circular waiting among any set of
\* reservations: the database never has to kill one to break a deadlock.
THEOREM NeverDeadlocked == Spec => []NoCircularWait
BY AscentBreaksCycles, Invariant, PTL

-----------------------------------------------------------------------------
(* Refinement *)

\* At its commit a transaction holds exactly the rows it wants, and the committed
\* stock covers them: the commit is the atomic reservation.
LEMMA CommitIsReserve ==
    ASSUME IInv, NEW r \in Requests, Commit(r)
    PROVE  Abstract!Reserve(r)
<1> USE DEF IInv, TypeOK, Commit
<1>1. held[r] = Wanted(r)
  BY DEF LocksOpen, Remaining
<1>2. \A p \in Products : demand[r][p] \in Nat /\ (demand[r][p] > 0 <=> p \in held[r])
  BY <1>1 DEF Wanted
<1>3. ASSUME NEW p \in Products, demand[r][p] > 0
      PROVE  p \in catalogue /\ demand[r][p] <= stock[p]
  <2>1. Sufficient(r, p)
    BY <1>2, <1>3 DEF HeldCovered
  <2>2. stock[p] \in Int /\ demand[r][p] \in Nat
    BY <1>2
  <2>3. QED
    BY <2>1, <2>2 DEF Sufficient
<1>4. stock' = [p \in Products |-> stock[p] - demand[r][p]]
  <2>1. \A p \in Products :
           (IF p \in held[r] THEN stock[p] - demand[r][p] ELSE stock[p])
             = stock[p] - demand[r][p]
    BY <1>2
  <2>2. QED
    BY <2>1
<1>5. reserved' = [p \in Products |-> reserved[p] + demand[r][p]]
  <2>1. \A p \in Products :
           (IF p \in held[r] THEN reserved[p] + demand[r][p] ELSE reserved[p])
             = reserved[p] + demand[r][p]
    BY <1>2
  <2>2. QED
    BY <2>1
<1>6. QED
  BY <1>3, <1>4, <1>5 DEF Abstract!Reserve

\* Every step of the service is a step of the promise or is not visible in it.
LEMMA StepRefines == IInv /\ [Next]_vars => [Abstract!Next]_(Abstract!vars)
<1> SUFFICES ASSUME IInv, [Next]_vars PROVE [Abstract!Next]_(Abstract!vars)
  OBVIOUS
<1> USE DEF Abstract!Next, Abstract!vars
<1>1. ASSUME NEW r \in Requests, NEW d \in Demands, Receive(r, d)
      PROVE  Abstract!Ask(r, d)
  BY <1>1 DEF Receive, Abstract!Ask
<1>2. ASSUME NEW r \in Requests, Refuse(r) PROVE Abstract!Fail(r)
  BY <1>2 DEF Refuse, Abstract!Fail
<1>3. ASSUME NEW r \in Requests, phase[r] = "running", RollBack(r)
      PROVE  Abstract!Fail(r)
  BY <1>3 DEF RollBack, Abstract!Fail
<1>4. ASSUME NEW r \in Requests, Commit(r) PROVE Abstract!Reserve(r)
  BY <1>4, CommitIsReserve
<1>5. ASSUME NEW r \in Requests, NEW p \in Products, ReserveRow(r, p)
      PROVE  UNCHANGED Abstract!vars
  BY <1>5 DEF ReserveRow
<1>6. ASSUME NEW p \in Products, NEW level \in Levels, CreateProduct(p, level)
      PROVE  Abstract!CreateProduct(p, level)
  BY <1>6 DEF CreateProduct, Abstract!CreateProduct
<1>7. ASSUME NEW p \in Products, NEW level \in Levels, UpdateStock(p, level)
      PROVE  Abstract!UpdateStock(p, level)
  BY <1>7 DEF UpdateStock, Abstract!UpdateStock
<1>8. CASE UNCHANGED vars
  BY <1>8 DEF vars
<1>9. QED
  BY <1>1, <1>2, <1>3, <1>4, <1>5, <1>6, <1>7, <1>8 DEF Next, Abandon, Insufficient

\* The transaction with its locks, its order and its failures implements the
\* all-or-nothing reservation.
THEOREM Refinement == Spec => RefinesAtomicStock
<1>1. Init => Abstract!Init
  BY DEF Init, Nothing, Abstract!Init, Abstract!Nothing
<1>2. QED
  BY <1>1, StepRefines, Invariant, PTL DEF Spec, RefinesAtomicStock, Abstract!Spec

-----------------------------------------------------------------------------
(* Requests.  The loop of normalizeReservationItems keeps a map; MapOf says   *)
(* what it is after the lines of a set, and the set grows to all the lines.   *)

\* The ids can be sorted: the rank of an id says where it goes.
LEMMA CanBeSorted ==
    ASSUME NEW ids \in SUBSET Int, IsFiniteSet(ids)
    PROVE  \E s \in Bijection(1..Cardinality(ids), ids) :
              \A i, j \in 1..Cardinality(ids) : i < j => s[i] < s[j]
<1> DEFINE N == Cardinality(ids)
           upTo(p) == {q \in ids : q <= p}
           rank == [p \in ids |-> Cardinality(upTo(p))]
           sorted == [i \in 1..N |-> CHOOSE p \in ids : rank[p] = i]
<1>1. N \in Nat /\ \A p \in ids : p \in Int
  BY FS_CardinalityType
<1>2. ASSUME NEW p \in ids
      PROVE  IsFiniteSet(upTo(p)) /\ rank[p] \in 1..N
  <2>1. IsFiniteSet(upTo(p)) /\ Cardinality(upTo(p)) <= N
    BY FS_Subset
  <2>2. upTo(p) # {}
    OBVIOUS
  <2> HIDE DEF upTo
  <2>3. Cardinality(upTo(p)) \in Nat /\ Cardinality(upTo(p)) # 0
    BY <2>1, <2>2, FS_CardinalityType, FS_EmptySet
  <2>4. rank[p] = Cardinality(upTo(p))
    OBVIOUS
  <2>5. QED
    BY <1>1, <2>1, <2>3, <2>4
<1>3. ASSUME NEW p \in ids, NEW q \in ids, p < q
      PROVE  rank[p] < rank[q]
  <2>1. upTo(p) \in SUBSET upTo(q) /\ q \in upTo(q) /\ q \notin upTo(p)
    <3>1. p \in Int /\ q \in Int /\ \A x \in ids : x \in Int
      OBVIOUS
    <3>2. \A x \in ids : x <= p => x <= q
      BY <1>3, <3>1
    <3>3. ~(q <= p)
      BY <1>3, <3>1
    <3>4. q <= q
      BY <3>1
    <3>5. QED
      BY <3>2, <3>3, <3>4
  <2> DEFINE P == upTo(p)
             Q == upTo(q)
  <2>2. rank[p] = Cardinality(P) /\ rank[q] = Cardinality(Q)
    OBVIOUS
  <2>3. IsFiniteSet(Q) /\ P \in SUBSET Q /\ P # Q
    BY <1>2, <2>1
  <2> HIDE DEF P, Q, rank, upTo
  <2>4. Cardinality(P) <= Cardinality(Q) /\ Cardinality(P) # Cardinality(Q)
    BY <2>3, FS_Subset
  <2>5. rank[p] \in Int /\ rank[q] \in Int
    BY <1>1, <1>2
  <2>6. QED
    BY <2>2, <2>4, <2>5
<1>4. rank \in Bijection(ids, 1..N)
  <2>1. rank \in [ids -> 1..N]
    BY <1>2
  <2>2. ASSUME NEW p \in ids, NEW q \in ids, rank[p] = rank[q]
        PROVE  p = q
    <3>1. rank[p] \in 1..N /\ p \in Int /\ q \in Int
      BY <1>2
    <3> HIDE DEF rank, N, upTo
    <3>2. ~(p < q) /\ ~(q < p)
      BY <1>1, <1>3, <2>2, <3>1
    <3>3. QED
      BY <3>1, <3>2
  <2> HIDE DEF rank
  <2>3. rank \in Injection(ids, 1..N)
    BY <2>1, <2>2 DEF Injection, IsInjective
  <2>4. IsFiniteSet(1..N) /\ Cardinality(1..N) = N
    BY <1>1, FS_Interval
  <2>5. rank \in Surjection(ids, 1..N)
    BY <2>3, <2>4, FS_Injection
  <2>6. QED
    BY <2>3, <2>5 DEF Bijection
<1> HIDE DEF rank
<1>5. \A i \in 1..N : \E p \in ids : rank[p] = i
  BY <1>4 DEF Bijection, Surjection
<1>6. \A i \in 1..N : sorted[i] \in ids /\ rank[sorted[i]] = i
  BY <1>5
<1>7. \A p \in ids : rank[p] \in 1..N /\ sorted[rank[p]] = p
  <2>1. \A p, q \in ids : rank[p] = rank[q] => p = q
    BY <1>4 DEF Bijection, Injection, IsInjective
  <2>2. QED
    BY <1>2, <1>6, <2>1
<1>8. sorted \in [1..N -> ids]
  BY <1>5
<1> HIDE DEF sorted
<1>9. sorted \in Bijection(1..N, ids)
  <2>1. \A i, j \in 1..N : sorted[i] = sorted[j] => i = j
    BY <1>6
  <2>2. \A p \in ids : \E i \in 1..N : sorted[i] = p
    BY <1>7
  <2>3. QED
    BY <1>8, <2>1, <2>2 DEF Bijection, Injection, Surjection, IsInjective
<1>10. ASSUME NEW i \in 1..N, NEW j \in 1..N, i < j
       PROVE  sorted[i] < sorted[j]
  <2> HIDE DEF upTo, N
  <2>1. i \in Int /\ j \in Int
    BY <1>1
  <2>2. /\ sorted[i] \in ids /\ sorted[j] \in ids
        /\ rank[sorted[i]] = i /\ rank[sorted[j]] = j
    BY <1>6
  <2>3. sorted[i] \in Int /\ sorted[j] \in Int
    BY <1>1, <2>2
  <2>4. sorted[i] # sorted[j]
    BY <1>10, <2>1, <2>2
  <2>5. sorted[j] < sorted[i] => j < i
    BY <1>3, <2>2
  <2>6. QED
    BY <1>10, <2>1, <2>3, <2>4, <2>5
<1>11. QED
  BY <1>9, <1>10

\* sort yields all the ids, in ascending order.
LEMMA AscendingSorts ==
    ASSUME NEW ids \in SUBSET Int, IsFiniteSet(ids)
    PROVE  /\ Ascending(ids) \in [1..Cardinality(ids) -> ids]
           /\ \A i, j \in 1..Cardinality(ids) : i < j => Ascending(ids)[i] < Ascending(ids)[j]
           /\ {Ascending(ids)[i] : i \in 1..Cardinality(ids)} = ids
<1> DEFINE N == Cardinality(ids)
           a == Ascending(ids)
<1>1. N \in Nat /\ \A p \in ids : p \in Int
  BY FS_CardinalityType
<1>2. /\ a \in [1..N -> ids]
      /\ \A i, j \in 1..N : i < j => a[i] < a[j]
  <2>1. PICK s \in [1..N -> ids] : \A i, j \in 1..N : i < j => s[i] < s[j]
    BY CanBeSorted DEF Bijection, Injection
  <2>2. \A t \in [1..N -> ids] : DOMAIN t = 1..N
    OBVIOUS
  <2>3. a = CHOOSE t \in [1..N -> ids] : \A i, j \in DOMAIN t : i < j => t[i] < t[j]
    BY DEF Ascending
  <2> HIDE DEF N, a
  <2>4. QED
    BY <2>1, <2>2, <2>3
<1> HIDE DEF a
<1>3. a \in Injection(1..N, ids)
  <2>1. ASSUME NEW i \in 1..N, NEW j \in 1..N, a[i] = a[j]
        PROVE  i = j
    <3> HIDE DEF N
    <3>1. a[i] \in Int /\ i \in Int /\ j \in Int
      <4>1. a[i] \in ids
        BY <1>2
      <4>2. a[i] \in Int
        BY <1>1, <4>1
      <4>3. i \in Int /\ j \in Int
        BY <1>1
      <4>4. QED
        BY <4>2, <4>3
    <3>2. ~(i < j) /\ ~(j < i)
      BY <1>2, <2>1, <3>1
    <3>3. QED
      BY <3>1, <3>2
  <2>2. QED
    BY <1>2, <2>1 DEF Injection, IsInjective
<1>4. a \in Surjection(1..N, ids)
  <2>1. IsFiniteSet(1..N) /\ Cardinality(1..N) = N
    BY <1>1, FS_Interval
  <2>2. QED
    BY <1>3, <2>1, FS_Injection
<1>5. {a[i] : i \in 1..N} = ids
  BY <1>2, <1>4 DEF Surjection
<1>6. QED
  BY <1>2, <1>5 DEF a

\* The loop meets the line with the greatest index last.
LEMMA MaxExists ==
    ASSUME NEW S \in SUBSET Int, IsFiniteSet(S), S # {}
    PROVE  Max(S) \in S
<1> DEFINE N == Cardinality(S)
<1>1. PICK s \in Bijection(1..N, S) : \A i, j \in 1..N : i < j => s[i] < s[j]
  BY CanBeSorted
<1>2. N \in Nat /\ N # 0
  BY FS_CardinalityType, FS_EmptySet
<1>3. \A i \in 1..N : s[i] \in S /\ s[i] \in Int
  BY <1>1 DEF Bijection, Injection
<1>4. N \in 1..N
  BY <1>2
<1> HIDE DEF N
<1>5. ASSUME NEW i \in 1..N
      PROVE  s[N] >= s[i]
  <2>1. i = N \/ i < N
    BY <1>2
  <2>2. QED
    BY <1>1, <1>3, <1>4, <2>1
<1>6. \A y \in S : s[N] >= y
  BY <1>1, <1>5 DEF Bijection, Surjection
<1>7. QED
  BY <1>3, <1>4, <1>6 DEF Max

\* The lines among S that name product p, and the units they ask for.
Naming(lines, S, p) == {i \in S : lines[i].productId = p}

UnitsAmong(lines, S, p) == Count([i \in DOMAIN lines |-> lines[i].quantity], Naming(lines, S, p))

\* The map after the lines of S.
MapOf(lines, S) == [p \in {lines[i].productId : i \in S} |-> UnitsAmong(lines, S, p)]

WellFormed(lines) == lines \in Seq([productId : Nat, quantity : Nat])

LEMMA QuantityType ==
    ASSUME NEW lines, WellFormed(lines), NEW i \in DOMAIN lines
    PROVE  lines[i].productId \in Nat /\ lines[i].quantity \in Nat
<1> DEFINE R == [productId : Nat, quantity : Nat]
<1>1. lines[i] \in R
  <2>1. i \in 1..Len(lines) /\ lines \in Seq(R)
    BY DEF WellFormed
  <2> HIDE DEF R
  <2>2. QED
    BY <2>1
<1>2. QED
  BY <1>1

\* One more line adds its units to those of its product.
LEMMA AddLineAdds ==
    ASSUME NEW lines, WellFormed(lines), NEW S \in SUBSET (DOMAIN lines), NEW x \in S
    PROVE  MapOf(lines, S) = AddLine(MapOf(lines, S \ {x}), lines[x])
<1> DEFINE q == [i \in DOMAIN lines |-> lines[i].quantity]
           T == S \ {x}
           px == lines[x].productId
           old == IF px \in DOMAIN MapOf(lines, T) THEN MapOf(lines, T)[px] ELSE 0
<1>1. \A i \in DOMAIN lines : q[i] = lines[i].quantity /\ q[i] \in Nat
  BY QuantityType
<1>2. IsFiniteSet(S)
  <2>1. DOMAIN lines = 1..Len(lines) /\ Len(lines) \in Nat
    BY DEF WellFormed
  <2>2. IsFiniteSet(DOMAIN lines)
    BY <2>1, FS_Interval
  <2>3. QED
    BY <2>2, FS_Subset
<1> HIDE DEF q
<1>3. old = Count(q, Naming(lines, T, px))
  <2>1. CASE \E i \in T : lines[i].productId = px
    BY <2>1 DEF MapOf, UnitsAmong, q
  <2>2. CASE ~ \E i \in T : lines[i].productId = px
    <3>1. Naming(lines, T, px) = {} /\ old = 0
      BY <2>2 DEF MapOf, Naming
    <3>2. QED
      BY <3>1, CountEmpty
  <2>3. QED
    BY <2>1, <2>2
<1>4. Count(q, Naming(lines, S, px)) = lines[x].quantity + old
  <2> DEFINE L == Naming(lines, S, px)
  <2>1. L \in SUBSET S /\ x \in L /\ L \ {x} = Naming(lines, T, px)
    BY DEF Naming
  <2> HIDE DEF L
  <2>2. IsFiniteSet(L) /\ \A y \in L : q[y] \in Nat
    BY <1>1, <1>2, <2>1, FS_Subset
  <2>3. Count(q, L) = q[x] + Count(q, L \ {x})
    BY <2>1, <2>2, CountAdds
  <2>4. QED
    BY <1>1, <1>3, <2>1, <2>3 DEF L
<1>5. old \in Nat /\ lines[x].quantity \in Nat
  <2>1. Naming(lines, T, px) \in SUBSET S
    BY DEF Naming
  <2>2. IsFiniteSet(Naming(lines, T, px)) /\ \A y \in Naming(lines, T, px) : q[y] \in Nat
    BY <1>1, <1>2, <2>1, FS_Subset
  <2>3. QED
    BY <1>1, <1>3, <2>2, UnitsFinite
<1>6. \A p : p # px => Naming(lines, S, p) = Naming(lines, T, p)
  BY DEF Naming
<1>7. {lines[i].productId : i \in S} = {lines[i].productId : i \in T} \cup {px}
  OBVIOUS
<1>8. AddLine(MapOf(lines, T), lines[x]) =
        [p \in {lines[i].productId : i \in T} \cup {px} |->
            IF p = px THEN old + lines[x].quantity ELSE MapOf(lines, T)[p]]
  <2>1. DOMAIN MapOf(lines, T) = {lines[i].productId : i \in T}
    BY DEF MapOf
  <2>2. QED
    BY <2>1 DEF AddLine
<1>9. ASSUME NEW p \in {lines[i].productId : i \in S}
      PROVE  UnitsAmong(lines, S, p) = IF p = px THEN old + lines[x].quantity ELSE MapOf(lines, T)[p]
  <2>1. CASE p = px
    BY <1>4, <1>5, <2>1 DEF UnitsAmong, q
  <2>2. CASE p # px
    <3>1. p \in {lines[i].productId : i \in T}
      BY <1>7, <2>2
    <3>2. MapOf(lines, T)[p] = UnitsAmong(lines, T, p)
      BY <3>1 DEF MapOf
    <3>3. QED
      BY <1>6, <2>2, <3>2 DEF UnitsAmong
  <2>3. QED
    BY <2>1, <2>2
<1>10. MapOf(lines, S) =
        [p \in {lines[i].productId : i \in S} |->
            IF p = px THEN old + lines[x].quantity ELSE MapOf(lines, T)[p]]
  BY <1>9 DEF MapOf
<1>11. QED
  BY <1>7, <1>8, <1>10

\* The loop leaves, for each product, the units of all its lines.
LEMMA AggregatedIsMap ==
    ASSUME NEW lines, WellFormed(lines)
    PROVE  Aggregated(lines) = MapOf(lines, DOMAIN lines)
<1> DEFINE D == DOMAIN lines
           next == [s \in SUBSET D |-> Max(s)]
           Solves(g) == g = [s \in SUBSET D |->
                                IF s = {} THEN << >>
                                ELSE LET x == Max(s) IN AddLine(g[s \ {x}], lines[x])]
           maps == [s \in SUBSET D |-> MapOf(lines, s)]
<1>1. D \in SUBSET Int /\ IsFiniteSet(D)
  <2>1. D = 1..Len(lines) /\ Len(lines) \in Nat
    BY DEF WellFormed
  <2>2. QED
    BY <2>1, FS_Interval
<1>2. Takes(next, D)
  <2> SUFFICES ASSUME NEW s \in SUBSET D, s # {} PROVE Max(s) \in s
    BY DEF Takes
  <2>1. s \in SUBSET Int /\ IsFiniteSet(s)
    BY <1>1, FS_Subset
  <2>2. QED
    BY <2>1, MaxExists
<1>3. MapOf(lines, {}) = << >>
  BY DEF MapOf
<1>4. ASSUME NEW s \in SUBSET D, s # {}
      PROVE  MapOf(lines, s) = AddLine(MapOf(lines, s \ {Max(s)}), lines[Max(s)])
  <2>1. Max(s) \in s
    BY <1>2, <1>4 DEF Takes
  <2>2. QED
    BY <2>1, AddLineAdds
<1>5. Solves(maps)
  BY <1>3, <1>4
<1>6. PICK iter : Solves(iter) /\ Aggregated(lines) = iter[D]
  BY <1>5 DEF Aggregated, FoldLeft, MapThenFoldSet
<1> DEFINE Good == {s \in SUBSET D : iter[s] = MapOf(lines, s)}
<1>7. {} \in Good
  BY <1>3, <1>6
<1>8. ASSUME NEW s \in SUBSET D, s # {}, s \ {next[s]} \in Good
      PROVE  s \in Good
  <2>1. iter[s] = AddLine(iter[s \ {Max(s)}], lines[Max(s)])
    BY <1>6, <1>8
  <2>2. iter[s \ {Max(s)}] = MapOf(lines, s \ {Max(s)})
    BY <1>8
  <2>3. QED
    BY <1>4, <1>8, <2>1, <2>2
<1> HIDE DEF Good, next, D
<1>9. SUBSET D \subseteq Good
  <2>1. \A T \in SUBSET D : T # {} /\ T \ {next[T]} \in Good => T \in Good
    BY <1>8
  <2>2. IsFiniteSet(D)
    BY <1>1
  <2>3. QED
    BY <1>2, <1>7, <2>1, <2>2, SubsetInduction
<1>10. QED
  BY <1>6, <1>9 DEF Good, D

LEMMA AskedIsAmong ==
    ASSUME NEW lines, WellFormed(lines), NEW p
    PROVE  /\ UnitsAsked(lines, p) = UnitsAmong(lines, DOMAIN lines, p)
           /\ UnitsAsked(lines, p) \in Nat
<1> DEFINE L == Naming(lines, DOMAIN lines, p)
           f == [i \in L |-> lines[i].quantity]
           q == [i \in DOMAIN lines |-> lines[i].quantity]
<1>1. L \in SUBSET (DOMAIN lines) /\ IsFiniteSet(L)
  <2>1. L \in SUBSET (DOMAIN lines)
    BY DEF Naming
  <2>2. DOMAIN lines = 1..Len(lines) /\ Len(lines) \in Nat
    BY DEF WellFormed
  <2>3. IsFiniteSet(DOMAIN lines)
    BY <2>2, FS_Interval
  <2>4. QED
    BY <2>1, <2>3, FS_Subset
<1>2. DOMAIN f = L /\ \A i \in L : f[i] = q[i] /\ f[i] \in Nat
  BY <1>1, QuantityType
<1>3. UnitsAsked(lines, p) = SumFunction(f)
  BY DEF UnitsAsked, Naming
<1> HIDE DEF L, f, q
<1>4. SumFunction(f) = Count(f, L) /\ SumFunction(f) \in Nat
  BY <1>1, <1>2, SumIsCount, SumType
<1>5. Count(f, L) = Count(q, L)
  BY <1>2, CountSame
<1>6. QED
  BY <1>3, <1>4, <1>5 DEF UnitsAmong, L, q

LEMMA Normalizes ==
    ASSUME NEW lines, WellFormed(lines)
    PROVE  Normalized(lines, NormalizeReservationItems(lines))
<1> DEFINE total == Aggregated(lines)
           products == {lines[i].productId : i \in DOMAIN lines}
           ids == Ascending(products)
           items == NormalizeReservationItems(lines)
           N == Cardinality(products)
<1>1. DOMAIN total = products /\ \A p \in products : total[p] = UnitsAsked(lines, p)
  <2>1. total = [p \in products |-> UnitsAmong(lines, DOMAIN lines, p)]
    BY AggregatedIsMap DEF MapOf
  <2> HIDE DEF total, products
  <2>2. QED
    BY <2>1, AskedIsAmong
<1>2. products \in SUBSET Int /\ IsFiniteSet(products)
  <2> DEFINE name == [i \in DOMAIN lines |-> lines[i].productId]
  <2>1. name \in Surjection(DOMAIN lines, products)
    BY DEF Surjection
  <2>2. DOMAIN lines = 1..Len(lines) /\ Len(lines) \in Nat
    BY DEF WellFormed
  <2>3. IsFiniteSet(DOMAIN lines)
    BY <2>2, FS_Interval
  <2>4. IsFiniteSet(products)
    BY <2>1, <2>3, FS_Surjection
  <2>5. products \in SUBSET Int
    BY QuantityType
  <2>6. QED
    BY <2>4, <2>5
<1>3. items = [i \in DOMAIN ids |-> [productId |-> ids[i], quantity |-> total[ids[i]]]]
  BY <1>1 DEF NormalizeReservationItems
<1> HIDE DEF total, ids, items, products
<1>4. /\ ids \in [1..N -> products]
      /\ \A i, j \in 1..N : i < j => ids[i] < ids[j]
      /\ {ids[i] : i \in 1..N} = products
  BY <1>2, AscendingSorts DEF ids
<1>5. /\ DOMAIN items = 1..N
      /\ \A i \in 1..N : /\ ids[i] \in products
                         /\ items[i].productId = ids[i]
                         /\ items[i].quantity = total[ids[i]]
  BY <1>3, <1>4
<1>6. {items[i].productId : i \in DOMAIN items} = products
  BY <1>4, <1>5
<1>7. \A i, j \in DOMAIN items : i < j => items[i].productId < items[j].productId
  BY <1>4, <1>5
<1>8. \A i \in DOMAIN items : items[i].quantity = UnitsAsked(lines, items[i].productId)
  BY <1>1, <1>5
<1>9. QED
  BY <1>6, <1>7, <1>8 DEF Normalized, products, items

\* The quantity the transaction takes of a product is the sum over the lines.
LEMMA DemandIsAsked ==
    ASSUME NEW lines, WellFormed(lines)
    PROVE  DemandOf(lines) = [p \in Products |-> UnitsAsked(lines, p)]
<1> DEFINE items == NormalizeReservationItems(lines)
<1>1. Normalized(lines, items)
  BY Normalizes
<1> HIDE DEF items
<1>2. ASSUME NEW p \in Products
      PROVE  DemandOf(lines)[p] = UnitsAsked(lines, p)
  <2>1. CASE \E i \in DOMAIN items : items[i].productId = p
    <3> DEFINE c == CHOOSE i \in DOMAIN items : items[i].productId = p
    <3>1. c \in DOMAIN items /\ items[c].productId = p
      BY <2>1
    <3>2. DemandOf(lines)[p] = items[c].quantity
      BY <2>1 DEF DemandOf, items
    <3> HIDE DEF c
    <3>3. QED
      BY <1>1, <3>1, <3>2 DEF Normalized
  <2>2. CASE ~ \E i \in DOMAIN items : items[i].productId = p
    <3>1. DemandOf(lines)[p] = 0
      BY <2>2 DEF DemandOf, items
    <3>2. p \notin {lines[i].productId : i \in DOMAIN lines}
      BY <1>1, <2>2 DEF Normalized
    <3>3. Naming(lines, DOMAIN lines, p) = {}
      BY <3>2 DEF Naming
    <3>4. UnitsAsked(lines, p) = 0
      BY <3>3, AskedIsAmong, CountEmpty DEF UnitsAmong
    <3>5. QED
      BY <3>1, <3>4
  <2>3. QED
    BY <2>1, <2>2
<1>3. QED
  BY <1>2 DEF DemandOf

LEMMA AcceptedWellFormed ==
    ASSUME NEW lines \in Lines, ~Malformed(lines)
    PROVE  WellFormed(lines)
<1> DEFINE R == [productId : Nat, quantity : Int]
           P == [productId : Nat, quantity : Nat]
<1>1. lines \in Seq(R) /\ DOMAIN lines = 1..Len(lines)
  BY LinesAssumption
<1>2. ASSUME NEW i \in 1..Len(lines)
      PROVE  lines[i] \in P
  <2>1. lines[i] \in R
    <3> HIDE DEF R
    <3>1. QED
      BY <1>1
  <2>2. lines[i].quantity > 0
    BY <1>1, <2>1 DEF Malformed
  <2>3. QED
    BY <2>1, <2>2
<1> HIDE DEF R, P
<1>3. lines \in Seq(P)
  BY <1>1, <1>2
<1>4. QED
  BY <1>3 DEF WellFormed, P

\* The transaction takes of each product what the lines that were accepted ask of it,
\* summed over all of them: nothing is counted twice or lost on the way.
THEOREM DemandIsSum ==
    ASSUME NEW lines \in Lines, ~Malformed(lines)
    PROVE  DemandOf(lines) = [p \in Products |-> UnitsAsked(lines, p)]
BY AcceptedWellFormed, DemandIsAsked

\* normalizeReservationItems gives every list of lines that it accepts the form the
\* transaction relies on, however long the list and whatever it repeats.
THEOREM NormalizedAlways == Spec => []NormalizedOncePerProduct
<1>1. NormalizedOncePerProduct
  BY AcceptedWellFormed, Normalizes DEF NormalizedOncePerProduct
<1>2. QED
  BY <1>1, PTL

-----------------------------------------------------------------------------
(* The books *)

\* What has been reserved of product p, request by request.
Column(p) == [r \in Reservers |-> rows[r][p]]

LEMMA InitialBooks == Init => BooksBalance
<1> SUFFICES ASSUME Init PROVE BooksBalance
  OBVIOUS
<1>1. Reservers = {} /\ IsFiniteSet(Reservers)
  BY FS_EmptySet DEF Init, Reservers
<1>2. ASSUME NEW p \in Products
      PROVE  reserved[p] = SumFunction(Column(p))
  <2>1. DOMAIN Column(p) = {} /\ reserved[p] = 0
    BY <1>1 DEF Column, Init, Nothing
  <2>2. SumFunction(Column(p)) = Count(Column(p), {})
    BY <1>1, <2>1, SumIsCount
  <2>3. QED
    BY <2>1, <2>2, CountEmpty
<1>3. QED
  BY <1>1, <1>2 DEF BooksBalance, ReservedIsSumOfRows, Column

\* What commits nothing leaves the books alone.
LEMMA UnchangedBooks ==
    ASSUME BooksBalance, Reservers' = Reservers, UNCHANGED <<reserved, rows>>
    PROVE  BooksBalance'
<1>1. \A p \in Products : Column(p)' = Column(p)
  BY DEF Column
<1>2. \A p \in Products : reserved[p] = SumFunction(Column(p))
  BY DEF BooksBalance, ReservedIsSumOfRows, Column
<1>3. \A p \in Products : reserved'[p] = SumFunction(Column(p)')
  BY <1>1, <1>2
<1>4. QED
  BY <1>3 DEF BooksBalance, ReservedIsSumOfRows, Column

\* A commit adds one row, and that row to the counter, product by product.
LEMMA CommitBooks ==
    ASSUME IInv, BooksBalance, TypeOK', NEW r \in Requests, Commit(r)
    PROVE  BooksBalance'
<1>1. /\ r \notin Reservers /\ Reservers' = Reservers \cup {r}
      /\ rows'[r] = demand[r] /\ \A s \in Reservers : rows'[s] = rows[s]
  BY DEF Commit, Reservers, IInv, TypeOK
<1>2. IsFiniteSet(Reservers) /\ IsFiniteSet(Reservers')
  BY <1>1, FS_AddElement DEF BooksBalance
<1>3. ASSUME NEW p \in Products
      PROVE  reserved'[p] = SumFunction(Column(p)')
  <2> DEFINE f == Column(p)
             g == Column(p)'
  <2>1. /\ DOMAIN f = Reservers /\ \A s \in Reservers : f[s] = rows[s][p] /\ f[s] \in Nat
        /\ DOMAIN g = Reservers' /\ \A s \in Reservers' : g[s] = rows'[s][p] /\ g[s] \in Nat
    BY DEF Column, Reservers, IInv, TypeOK
  <2>2. reserved[p] = SumFunction(f)
    BY DEF BooksBalance, ReservedIsSumOfRows, Column
  <2>3. reserved'[p] = reserved[p] + demand[r][p]
    <3>1. p \notin held[r] => demand[r][p] = 0
      BY DEF Commit, Remaining, Wanted, IInv, TypeOK
    <3>2. reserved'[p] = IF p \in held[r] THEN reserved[p] + demand[r][p] ELSE reserved[p]
      BY DEF Commit
    <3>3. reserved[p] \in Nat /\ demand[r][p] \in Nat
      BY DEF IInv, TypeOK
    <3>4. QED
      BY <3>1, <3>2, <3>3
  <2> HIDE DEF f, g
  <2>4. SumFunction(f) = Count(f, Reservers)
    BY <1>2, <2>1, SumIsCount
  <2>5. SumFunction(g) = Count(g, Reservers')
    BY <1>2, <2>1, SumIsCount
  <2>6. Count(g, Reservers') = g[r] + Count(g, Reservers' \ {r})
    BY <1>1, <1>2, <2>1, CountAdds
  <2>7. Reservers' \ {r} = Reservers /\ g[r] = demand[r][p]
    BY <1>1, <2>1
  <2>8. Count(g, Reservers) = Count(f, Reservers)
    BY <1>1, <2>1, CountSame
  <2>9. reserved[p] \in Nat /\ demand[r][p] \in Nat
    BY DEF IInv, TypeOK
  <2>10. reserved'[p] = SumFunction(g)
    <3>1. SumFunction(g) = demand[r][p] + Count(g, Reservers)
      BY <2>5, <2>6, <2>7
    <3>2. Count(g, Reservers) = reserved[p]
      BY <2>2, <2>4, <2>8
    <3>3. QED
      BY <2>3, <2>9, <3>1, <3>2
  <2>11. QED
    BY <2>10 DEF g
<1>4. QED
  BY <1>2, <1>3 DEF BooksBalance, ReservedIsSumOfRows, Column

LEMMA BooksKept == IInv /\ BooksBalance /\ [Next]_vars => BooksBalance'
<1> SUFFICES ASSUME IInv, BooksBalance, [Next]_vars PROVE BooksBalance'
  OBVIOUS
<1>1. ASSUME NEW r \in Requests, Commit(r)
      PROVE  BooksBalance'
  BY <1>1, TypesKept, CommitBooks DEF IInv
<1>2. ASSUME NEW r \in Requests,
             \/ \E d \in Demands : Receive(r, d)
             \/ Refuse(r) \/ Abandon(r)
             \/ \E p \in Products : ReserveRow(r, p) \/ Insufficient(r, p)
      PROVE  BooksBalance'
  <2>1. Reservers' = Reservers /\ UNCHANGED <<reserved, rows>>
    BY <1>2 DEF Receive, Refuse, Abandon, ReserveRow, Insufficient, RollBack, Reservers, IInv,
       TypeOK
  <2>2. QED
    BY <2>1, UnchangedBooks
<1>3. ASSUME \/ \E p \in Products, level \in Levels : CreateProduct(p, level)
             \/ \E p \in Products, level \in Levels : UpdateStock(p, level)
             \/ UNCHANGED vars
      PROVE  BooksBalance'
  <2>1. Reservers' = Reservers /\ UNCHANGED <<reserved, rows>>
    BY <1>3 DEF CreateProduct, UpdateStock, vars, Reservers
  <2>2. QED
    BY <2>1, UnchangedBooks
<1>4. QED
  BY <1>1, <1>2, <1>3 DEF Next

\* Product.reserved is the sum of the StockReservation rows, whatever transactions
\* are abandoned between their updates (reservedStock).
THEOREM BooksAlwaysBalance == Spec => []ReservedIsSumOfRows
<1>1. BooksBalance => ReservedIsSumOfRows
  BY DEF BooksBalance
<1>2. QED
  BY <1>1, InitialBooks, BooksKept, Invariant, PTL DEF Spec

-----------------------------------------------------------------------------
(* Progress *)

LEMMA LeastExists ==
    ASSUME NEW S \in SUBSET Int, IsFiniteSet(S), S # {}
    PROVE  \E p \in S : \A q \in S : p <= q
<1> DEFINE N == Cardinality(S)
<1>1. PICK s \in Bijection(1..N, S) : \A i, j \in 1..N : i < j => s[i] < s[j]
  BY CanBeSorted
<1>2. N \in Nat /\ N # 0
  BY FS_CardinalityType, FS_EmptySet
<1>3. \A i \in 1..N : s[i] \in S /\ s[i] \in Int
  BY <1>1 DEF Bijection, Injection
<1>4. 1 \in 1..N
  BY <1>2
<1> HIDE DEF N
<1>5. ASSUME NEW i \in 1..N
      PROVE  s[1] <= s[i]
  <2>1. i = 1 \/ 1 < i
    BY <1>2
  <2>2. QED
    BY <1>1, <1>3, <1>4, <2>1
<1>6. \A q \in S : s[1] <= q
  BY <1>1, <1>5 DEF Bijection, Surjection
<1>7. QED
  BY <1>3, <1>4, <1>6

\* Of the open reservations one waits for no other; its next row is free, or lacks
\* the units, or there is none left.
LEMMA ServedNext == IInv => SomebodyIsServed
<1> SUFFICES ASSUME IInv, NEW q \in Requests, phase[q] = "running"
             PROVE  \E r \in Requests : CanBeServed(r)
  BY DEF SomebodyIsServed
<1> DEFINE Open == {r \in Requests : phase[r] = "running"}
<1>1. PICK r \in Open : \A s \in Open : ~WaitsFor(r, s)
  <2>1. Open \in SUBSET Requests /\ Open # {}
    OBVIOUS
  <2> HIDE DEF Open
  <2>2. QED
    BY <2>1, AscentBreaksCycles DEF NoCircularWait
<1>2. CASE Remaining(r) = {}
  BY <1>2 DEF CanBeServed
<1>3. CASE Remaining(r) # {}
  <2>1. Remaining(r) \in SUBSET Int /\ IsFiniteSet(Remaining(r))
    <3>1. Remaining(r) \in SUBSET Products
      BY DEF Remaining, Wanted
    <3>2. Products \in SUBSET Int
      BY ProductsAssumption
    <3>3. IsFiniteSet(Remaining(r))
      BY <3>1, ProductsAssumption, FS_Subset
    <3>4. QED
      BY <3>1, <3>2, <3>3
  <2>2. PICK p \in Remaining(r) : \A t \in Remaining(r) : p <= t
    BY <1>3, <2>1, LeastExists
  <2>3. p \in Products /\ IsNext(r, p)
    BY <2>2 DEF IsNext, Remaining, Wanted
  <2>4. ASSUME Sufficient(r, p), Locked(p)
        PROVE  FALSE
    <3>1. PICK s \in Requests : p \in held[s]
      BY <2>4 DEF Locked
    <3>2. s \in Open
      BY <3>1 DEF IInv, LocksOpen
    <3>3. QED
      BY <1>1, <2>3, <2>4, <3>1, <3>2 DEF WaitsFor
  <2>5. QED
    BY <2>3, <2>4 DEF CanBeServed
<1>4. QED
  BY <1>2, <1>3

\* As long as a reservation is open the service can go on with one, for any number
\* of requests: row locks alone never stop product-service (reservedStock).
THEOREM NeverStuck == Spec => []SomebodyIsServed
BY ServedNext, Invariant, PTL

=============================================================================
