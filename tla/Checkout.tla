------------------------------- MODULE Checkout -------------------------------
(***************************************************************************)
(* From POST /order to a paid order: OrderService.create, which talks to   *)
(* product-service ('inventory.check' twice, 'stock.reserved' once) and to *)
(* payment-service ('order.created'), and the payments that are recorded.  *)
(*                                                                         *)
(* The requests are attempts: a client that saw no answer tries again with *)
(* the same idempotency key and the same cart.  Attempts run concurrently, *)
(* and the service may stop between any two of their awaits.               *)
(*                                                                         *)
(* Reservations follow AtomicStock, which StockReservation implements.  An *)
(* order is named by the attempt that created it.                          *)
(***************************************************************************)
EXTENDS Integers

CONSTANTS
    Products,
    Supply,     \* units of every product at the start
    Attempts,   \* requests to create an order
    Keys,       \* idempotency keys
    KeyOf,      \* the key of each attempt
    CartOf      \* the cart sent with each key: quantity per product, 0 for none

ASSUME SupplyAssumption == Supply \in [Products -> Nat]
ASSUME KeyOfAssumption == KeyOf \in [Attempts -> Keys]
ASSUME CartOfAssumption == CartOf \in [Keys -> [Products -> Nat]]

VARIABLES
    orders,     \* the orders table: [id, key, lines], lines being the products kept
    links,      \* orders payment-service made a payment link for
    paid,       \* orders a payment is recorded for
    pc,         \* where each attempt stands
    verdict,    \* per attempt, what inventory.check has found of each product
    catalogue, stock, reserved, rows, outcome, demand   \* of AtomicStock

Stock == INSTANCE AtomicStock
            WITH Requests <- Attempts, Demands <- {CartOf[k] : k \in Keys},
                 Levels <- {Supply[p] : p \in Products}

attempt == <<orders, links, paid, pc, verdict>>
reservation == <<catalogue, stock, reserved, rows, outcome, demand>>
vars == <<attempt, reservation>>

Cart(a) == CartOf[KeyOf[a]]
InCart(a) == {p \in Products : Cart(a)[p] > 0}
OrdersOf(k) == {o \in orders : o.key = k}
LinesOf(a) == UNION {o.lines : o \in {o \in orders : o.id = a}}

\* The products an inventory check in progress asks about: the whole cart before
\* the order is stored, the lines of the order after.
Asked(a) == IF pc[a] = "check" THEN InCart(a) ELSE LinesOf(a)
Unread == [p \in Products |-> "unread"]
Checked(a) == \A p \in Asked(a) : verdict[a][p] # "unread"
HasStock(a) == {p \in Asked(a) : verdict[a][p] = "inStock"}

Waiting == {"check", "recheck", "emit", "reserve"}

Init ==
    /\ orders = {}
    /\ links = {}
    /\ paid = {}
    /\ pc = [a \in Attempts |-> "idle"]
    /\ verdict = [a \in Attempts |-> Unread]
    /\ catalogue = Products
    /\ stock = Supply
    /\ reserved = Stock!Nothing
    /\ rows = [a \in Attempts |-> Stock!Nothing]
    /\ outcome = [a \in Attempts |-> "idle"]
    /\ demand = [a \in Attempts |-> Stock!Nothing]

Goto(a, step) == pc' = [pc EXCEPT ![a] = step]

-----------------------------------------------------------------------------
(* OrderService.create *)

\* findUnique by idempotency key: an order found is returned as it is.
Lookup(a) ==
    /\ pc[a] = "idle"
    /\ Goto(a, IF OrdersOf(KeyOf[a]) # {} THEN "hit" ELSE "check")
    /\ UNCHANGED <<orders, links, paid, verdict, reservation>>

\* verifyStock reads the products one by one, outside any transaction.
VerifyStock(a, p) ==
    /\ pc[a] \in {"check", "recheck"}
    /\ p \in Asked(a)
    /\ verdict[a][p] = "unread"
    /\ verdict' = [verdict EXCEPT ![a][p] =
                       IF stock[p] < Cart(a)[p] THEN "short" ELSE "inStock"]
    /\ UNCHANGED <<orders, links, paid, pc, reservation>>

\* checkInventory swallows the failure of the request and returns undefined, or
\* the reply is an error object: the .map on it throws.  After the order is
\* stored (emitOrderCreated), it stays stored.
CheckFails(a) ==
    /\ pc[a] \in {"check", "recheck"}
    /\ Goto(a, "failed")
    /\ UNCHANGED <<orders, links, paid, verdict, reservation>>

\* A bug: idempotencyKey is not unique in the database.
BugUnguardedCreateOrder(a) ==
    /\ pc[a] = "check"
    /\ Checked(a)
    /\ orders' = orders \cup {[id |-> a, key |-> KeyOf[a], lines |-> HasStock(a)]}
    /\ Goto(a, "recheck")
    /\ verdict' = [verdict EXCEPT ![a] = Unread]
    /\ UNCHANGED <<links, paid, reservation>>

\* order.create with the lines that have stock; idempotencyKey is @unique.
CreateOrder(a) ==
    /\ pc[a] = "check"
    /\ Checked(a)
    /\ IF OrdersOf(KeyOf[a]) = {}
       THEN /\ orders' = orders \cup {[id |-> a, key |-> KeyOf[a], lines |-> HasStock(a)]}
            /\ Goto(a, "recheck")
       ELSE /\ Goto(a, "failed")
            /\ UNCHANGED orders
    /\ verdict' = [verdict EXCEPT ![a] = Unread]
    /\ UNCHANGED <<links, paid, reservation>>

\* emitOrderCreated has its second answer and sends 'order.created'.
EmitOrderCreated(a) ==
    /\ pc[a] = "recheck"
    /\ Checked(a)
    /\ Goto(a, "emit")
    /\ UNCHANGED <<orders, links, paid, verdict, reservation>>

\* payment-service makes the link unless a line lost its stock meanwhile (its
\* entry is null and the handler throws on it) or the provider fails.
MayMakeLink(a) ==
    links' \in {links} \cup (IF HasStock(a) = Asked(a) THEN {links \cup {a}} ELSE {})

\* Link or not, it answers, and create does not look at the answer.
HandleOrderCreated(a) ==
    /\ pc[a] = "emit"
    /\ MayMakeLink(a)
    /\ Goto(a, "reserve")
    /\ UNCHANGED <<orders, paid, verdict, reservation>>

\* No answer reaches create, which throws: the order stays, and nothing is asked
\* of product-service.
EmitFails(a) ==
    /\ pc[a] = "emit"
    /\ MayMakeLink(a)
    /\ Goto(a, "failed")
    /\ UNCHANGED <<orders, paid, verdict, reservation>>

\* A bug: the units are asked for as soon as the check is answered.
BugEagerStockReserved(a) ==
    /\ pc[a] \in {"check", "reserve"}
    /\ Checked(a)
    /\ Goto(a, IF pc[a] = "reserve" THEN "done" ELSE "check")
    /\ Stock!Ask(a, Cart(a))
    /\ UNCHANGED <<orders, links, paid, verdict>>

\* A bug: only the lines that passed the second check are asked for.
BugRecheckedStockReserved(a) ==
    /\ pc[a] = "reserve"
    /\ Goto(a, "done")
    /\ Stock!Ask(a, [p \in Products |-> IF verdict[a][p] = "inStock" THEN Cart(a)[p] ELSE 0])
    /\ UNCHANGED <<orders, links, paid, verdict>>

\* Fire and forget: 'stock.reserved' for all the lines of the cart.
SendStockReserved(a) ==
    /\ pc[a] = "reserve"
    /\ Goto(a, "done")
    /\ Stock!Ask(a, Cart(a))
    /\ UNCHANGED <<orders, links, paid, verdict>>

-----------------------------------------------------------------------------
(* The other parties *)

\* product-service reserves everything the message asks for, at once.
Reserved(a) ==
    /\ Stock!Reserve(a)
    /\ UNCHANGED attempt

\* The reservation fails or the message is lost; create only logs it.
NotReserved(a) ==
    /\ outcome[a] = "running"
    /\ Stock!Fail(a)
    /\ UNCHANGED attempt

\* The success page of payment-service is loaded for the order, by the customer the
\* provider sends there or by anybody else: no link is asked for (OrderBilling).
Pay(a) ==
    /\ \E o \in orders : o.id = a
    /\ a \notin paid
    /\ paid' = paid \cup {a}
    /\ UNCHANGED <<orders, links, pc, verdict, reservation>>

\* order-service stops: the attempts in progress are lost, the tables stay.
Restart ==
    /\ \E a \in Attempts : pc[a] \in Waiting
    /\ pc' = [a \in Attempts |-> IF pc[a] \in Waiting THEN "failed" ELSE pc[a]]
    /\ UNCHANGED <<orders, links, paid, verdict, reservation>>

Next ==
    \/ \E a \in Attempts :
          \/ Lookup(a)
          \/ \E p \in Products : VerifyStock(a, p)
          \/ CheckFails(a)
          \/ CreateOrder(a)
          \/ EmitOrderCreated(a)
          \/ HandleOrderCreated(a)
          \/ EmitFails(a)
          \/ SendStockReserved(a)
          \/ Reserved(a)
          \/ NotReserved(a)
          \/ Pay(a)
    \/ Restart

Spec == Init /\ [][Next]_vars

-----------------------------------------------------------------------------
(* Properties *)

TypeOK ==
    /\ orders \in SUBSET [id : Attempts, key : Keys, lines : SUBSET Products]
    /\ links \in SUBSET {o.id : o \in orders}
    /\ paid \in SUBSET {o.id : o \in orders}
    /\ pc \in [Attempts -> {"idle", "hit", "done", "failed"} \cup Waiting]
    /\ verdict \in [Attempts -> [Products -> {"unread", "inStock", "short"}]]
    /\ stock \in [Products -> Nat]
    /\ reserved \in [Products -> Nat]
    /\ rows \in [Attempts -> [Products -> Nat]]
    /\ outcome \in [Attempts -> {"idle", "running", "reserved", "failed"}]
    /\ demand \in [Attempts -> [Products -> Nat]]

\* Retries and concurrent attempts of one checkout leave one order
\* (README: "Prevents duplicate orders during retries or network issues").
OneOrderPerKey ==
    \A o1, o2 \in orders : o1.key = o2.key => o1 = o2

\* Units are set aside only for an order that is stored, and at most once for a
\* key, whatever restarts and retries do between the order and its reservation.
ReservationHasOrder ==
    \A k \in Keys :
        LET asking == {a \in Attempts : KeyOf[a] = k /\ outcome[a] # "idle"}
        IN  /\ \A a, b \in asking : a = b
            /\ \A a \in asking : \E o \in OrdersOf(k) : o.id = a

\* A line of a reserved order is reserved in full: reservations are never partial,
\* although the order may have dropped lines the reservation asks for.
ReservationCoversOrder ==
    \A o \in orders : outcome[o.id] = "reserved" =>
        \A p \in o.lines : rows[o.id][p] = CartOf[o.key][p]

-----------------------------------------------------------------------------
(* The invariant that makes the above hold *)

\* An attempt that is past the insert has its order in the table.
OrderStored ==
    /\ \A o \in orders : o.key = KeyOf[o.id]
    /\ \A a \in Attempts : pc[a] \in {"recheck", "emit", "reserve", "done"} =>
           \E o \in orders : o.id = a

\* Units are asked for by the last step of an attempt, and for its whole cart.
AskedAtTheEnd ==
    \A a \in Attempts : outcome[a] # "idle" => pc[a] = "done" /\ demand[a] = Cart(a)

RowsAreDemands == \A a \in Attempts : outcome[a] = "reserved" => rows[a] = demand[a]

IInv ==
    /\ TypeOK
    /\ OneOrderPerKey
    /\ OrderStored
    /\ AskedAtTheEnd
    /\ RowsAreDemands

=============================================================================
