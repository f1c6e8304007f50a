--------------------------- MODULE StockReservation ---------------------------
(***************************************************************************)
(* Stock and reservations of product-service                               *)
(* (product-service/src/product/product.service.ts).                       *)
(*                                                                         *)
(* A 'stock.reserved' request is normalised to one quantity per product    *)
(* and then served by one interactive database transaction.  The           *)
(* transaction visits the products in ascending order; for each it runs    *)
(*   UPDATE ... SET stock -= q, reserved += q WHERE id = p AND stock >= q  *)
(* and gives up (rolling back) unless exactly one row was changed.         *)
(*                                                                         *)
(* The database runs at its default isolation level, read committed:       *)
(*   - the row an UPDATE changed stays locked until the transaction ends;  *)
(*   - an UPDATE of a row that another transaction has locked waits, and   *)
(*     evaluates its WHERE on the version that transaction leaves behind;  *)
(*   - an UPDATE whose WHERE is false of the committed row changes nothing.*)
(* Uncommitted changes are kept as the set held[r] of rows r has locked,   *)
(* and are applied to the committed rows when r commits.                   *)
(*                                                                         *)
(* A product is a natural number, its rank in the sorting order of ids.    *)
(***************************************************************************)
EXTENDS Integers, FiniteSets, Functions

CONSTANTS
    Products,   \* ranks of the product ids a request may name
    Requests,   \* 'stock.reserved' messages; each carries an order of its own
    Demands,    \* normalised demands: quantity wanted of every product, 0 for none
    Levels      \* the stock values administrators write

ASSUME ProductsAssumption == Products \subseteq Nat /\ IsFiniteSet(Products)
ASSUME DemandsAssumption == Demands \subseteq [Products -> Nat]
ASSUME LevelsAssumption == Levels \subseteq Nat   \* @Min(0) in create-product.dto.ts

VARIABLES
    catalogue,  \* products that have a row
    stock,      \* Product.stock, committed
    reserved,   \* Product.reserved, committed
    rows,       \* committed StockReservation rows: quantity per request and product
    phase,      \* where each request stands
    demand,     \* what the request asks for, once normalised
    held        \* product rows the request's open transaction has updated

vars == <<catalogue, stock, reserved, rows, phase, demand, held>>

Nothing == [p \in Products |-> 0]

Wanted(r) == {p \in Products : demand[r][p] > 0}
Remaining(r) == Wanted(r) \ held[r]

\* A bug: the items are visited in the order of the request.
BugUnsortedIsNext(r, p) == p \in Remaining(r)

IsNext(r, p) == p \in Remaining(r) /\ \A q \in Remaining(r) : p <= q

Locked(p) == \E s \in Requests : p \in held[s]

\* A bug: the update does not test stock >= quantity.
BugUncheckedSufficient(r, p) == p \in catalogue

Sufficient(r, p) == p \in catalogue /\ stock[p] >= demand[r][p]

Init ==
    /\ catalogue \in SUBSET Products
    /\ \E level \in [Products -> Levels] :
          stock = [p \in Products |-> IF p \in catalogue THEN level[p] ELSE 0]
    /\ reserved = Nothing
    /\ rows = [r \in Requests |-> Nothing]
    /\ phase = [r \in Requests |-> "idle"]
    /\ demand = [r \in Requests |-> Nothing]
    /\ held = [r \in Requests |-> {}]

-----------------------------------------------------------------------------
(* The reservation transaction *)

\* The message arrives, its lines are well formed, the transaction begins.
Receive(r, d) ==
    /\ phase[r] = "idle"
    /\ phase' = [phase EXCEPT ![r] = "running"]
    /\ demand' = [demand EXCEPT ![r] = d]
    /\ UNCHANGED <<catalogue, stock, reserved, rows, held>>

\* A line without product or with a quantity that is not a positive integer:
\* normalizeReservationItems throws before any transaction is opened.
Refuse(r) ==
    /\ phase[r] = "idle"
    /\ phase' = [phase EXCEPT ![r] = "failed"]
    /\ UNCHANGED <<catalogue, stock, reserved, rows, demand, held>>

\* The conditional update of the next product, in sorted order, changes one row.
ReserveRow(r, p) ==
    /\ phase[r] = "running"
    /\ IsNext(r, p)
    /\ ~Locked(p)
    /\ Sufficient(r, p)
    /\ held' = [held EXCEPT ![r] = @ \cup {p}]
    /\ UNCHANGED <<catalogue, stock, reserved, rows, phase, demand>>

\* A bug: the updates run outside the transaction and stay when it fails.
BugPartialRollBack(r) ==
    /\ phase' = [phase EXCEPT ![r] = "failed"]
    /\ stock' = [p \in Products |-> IF p \in held[r] THEN stock[p] - demand[r][p]
                                                     ELSE stock[p]]
    /\ reserved' = [p \in Products |-> IF p \in held[r] THEN reserved[p] + demand[r][p]
                                                        ELSE reserved[p]]
    /\ held' = [held EXCEPT ![r] = {}]
    /\ UNCHANGED <<catalogue, rows, demand>>

\* A bug: a failed transaction is left open and keeps its locks.
BugOpenRollBack(r) ==
    /\ phase' = [phase EXCEPT ![r] = "failed"]
    /\ UNCHANGED <<catalogue, stock, reserved, rows, demand, held>>

RollBack(r) ==
    /\ phase' = [phase EXCEPT ![r] = "failed"]
    /\ held' = [held EXCEPT ![r] = {}]
    /\ UNCHANGED <<catalogue, stock, reserved, rows, demand>>

\* The conditional update changes no row: "Stock insuficiente para el producto".
Insufficient(r, p) ==
    /\ phase[r] = "running"
    /\ IsNext(r, p)
    /\ ~Sufficient(r, p)
    /\ RollBack(r)

\* The transaction times out, its connection is lost or the service stops.
Abandon(r) ==
    /\ phase[r] = "running"
    /\ RollBack(r)

\* A bug: increment and decrement are swapped.
BugSwappedCommit(r) ==
    /\ phase[r] = "running"
    /\ Remaining(r) = {}
    /\ stock' = [p \in Products |-> IF p \in held[r] THEN stock[p] + demand[r][p]
                                                     ELSE stock[p]]
    /\ reserved' = [p \in Products |-> IF p \in held[r] THEN reserved[p] - demand[r][p]
                                                        ELSE reserved[p]]
    /\ rows' = [rows EXCEPT ![r] = demand[r]]
    /\ phase' = [phase EXCEPT ![r] = "reserved"]
    /\ held' = [held EXCEPT ![r] = {}]
    /\ UNCHANGED <<catalogue, demand>>

\* Every line is reserved: the transaction commits its updates and its rows.
Commit(r) ==
    /\ phase[r] = "running"
    /\ Remaining(r) = {}
    /\ stock' = [p \in Products |-> IF p \in held[r] THEN stock[p] - demand[r][p]
                                                     ELSE stock[p]]
    /\ reserved' = [p \in Products |-> IF p \in held[r] THEN reserved[p] + demand[r][p]
                                                        ELSE reserved[p]]
    /\ rows' = [rows EXCEPT ![r] = demand[r]]
    /\ phase' = [phase EXCEPT ![r] = "reserved"]
    /\ held' = [held EXCEPT ![r] = {}]
    /\ UNCHANGED <<catalogue, demand>>

-----------------------------------------------------------------------------
(* Administration of products *)

\* POST /product
CreateProduct(p, level) ==
    /\ p \notin catalogue
    /\ catalogue' = catalogue \cup {p}
    /\ stock' = [stock EXCEPT ![p] = level]
    /\ UNCHANGED <<reserved, rows, phase, demand, held>>

\* PATCH /product/:id with a stock: an absolute value, whatever is reserved.
UpdateStock(p, level) ==
    /\ p \in catalogue
    /\ ~Locked(p)
    /\ stock' = [stock EXCEPT ![p] = level]
    /\ UNCHANGED <<catalogue, reserved, rows, phase, demand, held>>

-----------------------------------------------------------------------------

Serve(r) ==
    \/ Commit(r)
    \/ \E p \in Products : ReserveRow(r, p) \/ Insufficient(r, p)

Next ==
    \/ \E r \in Requests, d \in Demands : Receive(r, d)
    \/ \E r \in Requests : Refuse(r)
    \/ \E r \in Requests : Abandon(r)
    \/ \E r \in Requests : Commit(r)
    \/ \E r \in Requests, p \in Products : ReserveRow(r, p)
    \/ \E r \in Requests, p \in Products : Insufficient(r, p)
    \/ \E p \in Products, level \in Levels : CreateProduct(p, level)
    \/ \E p \in Products, level \in Levels : UpdateStock(p, level)

Spec == Init /\ [][Next]_vars

\* The event loop and the database keep serving an open transaction.
Fairness == \A r \in Requests : WF_vars(Serve(r))

FairSpec == Spec /\ Fairness

-----------------------------------------------------------------------------
(* Properties *)

TypeOK ==
    /\ catalogue \in SUBSET Products
    /\ stock \in [Products -> Int]
    /\ reserved \in [Products -> Nat]
    /\ rows \in [Requests -> [Products -> Nat]]
    /\ phase \in [Requests -> {"idle", "running", "reserved", "failed"}]
    /\ demand \in [Requests -> [Products -> Nat]]
    /\ held \in [Requests -> SUBSET Products]

\* No product is oversold, however reservations, time-outs and stock edits
\* interleave (README: "to prevent overselling under high load").
NoOversell == \A p \in Products : stock[p] >= 0

Reservers == {r \in Requests : phase[r] = "reserved"}

\* The counter of each product is the sum of its reservation rows: what transactions
\* that failed half way have done is in neither (reservedStock writes both).
ReservedIsSumOfRows ==
    \A p \in Products : reserved[p] = SumFunction([r \in Reservers |-> rows[r][p]])

\* The reservation that waits for the row of p which s has locked.
WaitsFor(r, s) ==
    /\ phase[r] = "running"
    /\ \E p \in held[s] : IsNext(r, p) /\ Sufficient(r, p)

\* Reservations never deadlock on row locks: in every set of requests one waits
\* for no other of the set.  The sort in normalizeReservationItems is for this.
NoCircularWait ==
    \A S \in SUBSET Requests :
        S # {} => \E r \in S : \A s \in S : ~WaitsFor(r, s)

\* A reservation happens at one instant for all its products or not at all: the
\* locks and the partial work of open transactions are not visible in the rows.
Abstract == INSTANCE AtomicStock WITH outcome <- phase

RefinesAtomicStock == Abstract!Spec

\* Every reservation the service begins is answered.
EveryReservationEnds ==
    \A r \in Requests : phase[r] = "running" ~> phase[r] \in {"reserved", "failed"}

-----------------------------------------------------------------------------
(* The invariant that makes the above hold *)

\* The row locks of open transactions exclude each other.
LocksExclusive ==
    \A r, s \in Requests : r # s => held[r] \cap held[s] = {}

\* What a transaction has updated stays covered by the committed stock until it
\* ends, because nobody else can write the row meanwhile.
HeldCovered ==
    \A r \in Requests : \A p \in held[r] : Sufficient(r, p)

\* Locks are taken in ascending order: a held row precedes the ones still wanted.
LocksAscend ==
    \A r \in Requests : \A p \in held[r], q \in Remaining(r) : p < q

\* Locks belong to open transactions and to products that are asked for.
LocksOpen ==
    \A r \in Requests :
        /\ held[r] \subseteq Wanted(r)
        /\ held[r] # {} => phase[r] = "running"

IInv ==
    /\ TypeOK
    /\ NoOversell
    /\ LocksExclusive
    /\ HeldCovered
    /\ LocksAscend
    /\ LocksOpen

\* There have been finitely many reservations, however many requests there may be.
BooksBalance == IsFiniteSet(Reservers) /\ ReservedIsSumOfRows

\* What the service can do next for r: Commit, Insufficient or ReserveRow.
CanBeServed(r) ==
    /\ phase[r] = "running"
    /\ \/ Remaining(r) = {}
       \/ \E p \in Products : IsNext(r, p) /\ (Sufficient(r, p) => ~Locked(p))

\* While any reservation is open, one of them is not waiting for another: the part
\* of EveryReservationEnds that does not depend on fairness (reservedStock).
SomebodyIsServed ==
    (\E r \in Requests : phase[r] = "running") => \E r \in Requests : CanBeServed(r)

=============================================================================
