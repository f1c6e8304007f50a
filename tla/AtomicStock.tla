----------------------------- MODULE AtomicStock ------------------------------
(***************************************************************************)
(* What product-service promises of a reservation: it happens for all the  *)
(* products of the request at one instant, and only when every one of them *)
(* has the units, or it does not happen at all.  There are no locks, no    *)
(* order among products and no partial work here.                          *)
(***************************************************************************)
EXTENDS Integers

CONSTANTS Products, Requests, Demands, Levels

VARIABLES catalogue, stock, reserved, rows, outcome, demand

vars == <<catalogue, stock, reserved, rows, outcome, demand>>

Nothing == [p \in Products |-> 0]

Init ==
    /\ catalogue \in SUBSET Products
    /\ \E level \in [Products -> Levels] :
          stock = [p \in Products |-> IF p \in catalogue THEN level[p] ELSE 0]
    /\ reserved = Nothing
    /\ rows = [r \in Requests |-> Nothing]
    /\ outcome = [r \in Requests |-> "idle"]
    /\ demand = [r \in Requests |-> Nothing]

Ask(r, d) ==
    /\ outcome[r] = "idle"
    /\ outcome' = [outcome EXCEPT ![r] = "running"]
    /\ demand' = [demand EXCEPT ![r] = d]
    /\ UNCHANGED <<catalogue, stock, reserved, rows>>

\* A bug: the units that are left are not compared with those wanted.
BugUncheckedReserve(r) ==
    /\ outcome[r] = "running"
    /\ \A p \in Products : demand[r][p] > 0 => p \in catalogue
    /\ stock' = [p \in Products |-> stock[p] - demand[r][p]]
    /\ reserved' = [p \in Products |-> reserved[p] + demand[r][p]]
    /\ rows' = [rows EXCEPT ![r] = demand[r]]
    /\ outcome' = [outcome EXCEPT ![r] = "reserved"]
    /\ UNCHANGED <<catalogue, demand>>

\* All the units wanted leave the stock together, or the request is not reserved.
Reserve(r) ==
    /\ outcome[r] = "running"
    /\ \A p \in Products :
          demand[r][p] > 0 => p \in catalogue /\ demand[r][p] <= stock[p]
    /\ stock' = [p \in Products |-> stock[p] - demand[r][p]]
    /\ reserved' = [p \in Products |-> reserved[p] + demand[r][p]]
    /\ rows' = [rows EXCEPT ![r] = demand[r]]
    /\ outcome' = [outcome EXCEPT ![r] = "reserved"]
    /\ UNCHANGED <<catalogue, demand>>

\* A request may fail at any time before it is reserved, and leaves no trace.
Fail(r) ==
    /\ outcome[r] \in {"idle", "running"}
    /\ outcome' = [outcome EXCEPT ![r] = "failed"]
    /\ UNCHANGED <<catalogue, stock, reserved, rows, demand>>

CreateProduct(p, level) ==
    /\ p \notin catalogue
    /\ catalogue' = catalogue \cup {p}
    /\ stock' = [stock EXCEPT ![p] = level]
    /\ UNCHANGED <<reserved, rows, outcome, demand>>

UpdateStock(p, level) ==
    /\ p \in catalogue
    /\ stock' = [stock EXCEPT ![p] = level]
    /\ UNCHANGED <<catalogue, reserved, rows, outcome, demand>>

Next ==
    \/ \E r \in Requests : (\E d \in Demands : Ask(r, d)) \/ Reserve(r) \/ Fail(r)
    \/ \E p \in Products, level \in Levels :
          CreateProduct(p, level) \/ UpdateStock(p, level)

Spec == Init /\ [][Next]_vars

=============================================================================
