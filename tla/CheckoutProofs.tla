---------------------------- MODULE CheckoutProofs ----------------------------
(***************************************************************************)
(* Proofs about Checkout, for any number of attempts, keys and products.   *)
(*                                                                         *)
(* That units are set aside once per key, and for a stored order, rests on *)
(* the unique key of the orders table (OneOrderPerKey) and on the order of *)
(* the steps of create: the insert comes first (OrderStored), the request  *)
(* for the units last (AskedAtTheEnd), and a restart never resumes between.*)
(***************************************************************************)
EXTENDS Checkout, TLAPS

LEMMA CartType == \A a \in Attempts : KeyOf[a] \in Keys /\ Cart(a) \in [Products -> Nat]
BY KeyOfAssumption, CartOfAssumption DEF Cart

LEMMA InitialInvariant == Init => IInv
<1> SUFFICES ASSUME Init PROVE IInv
  OBVIOUS
<1>1. TypeOK
  BY SupplyAssumption DEF Init, TypeOK, Unread, Waiting, Stock!Nothing
<1>2. OneOrderPerKey /\ OrderStored /\ AskedAtTheEnd /\ RowsAreDemands
  BY DEF Init, OneOrderPerKey, OrderStored, AskedAtTheEnd, RowsAreDemands
<1>3. QED
  BY <1>1, <1>2 DEF IInv

\* The steps of create that store nothing and ask for nothing.
Proceeds(a) ==
    \/ Lookup(a) \/ CheckFails(a) \/ EmitOrderCreated(a) \/ HandleOrderCreated(a) \/ EmitFails(a)
    \/ \E p \in Products : VerifyStock(a, p)

\* They keep the orders and the reservations, and lead past the insert only an
\* attempt that is past it already.
LEMMA ProceedsEffect ==
    ASSUME IInv, NEW a \in Attempts, Proceeds(a)
    PROVE  /\ UNCHANGED <<orders, paid, reservation>>
           /\ links \subseteq links' /\ links' \subseteq {o.id : o \in orders}
           /\ verdict' \in [Attempts -> [Products -> {"unread", "inStock", "short"}]]
           /\ outcome[a] = "idle"
           /\ \E step \in {"hit", "check", "recheck", "emit", "reserve", "failed"} :
                 /\ Goto(a, step)
                 /\ step \in {"recheck", "emit", "reserve"} =>
                       pc[a] \in {"recheck", "emit", "reserve"}
<1> USE DEF IInv, TypeOK, AskedAtTheEnd
<1>1. CASE Lookup(a)
  BY <1>1 DEF Lookup
<1>2. CASE CheckFails(a)
  BY <1>2 DEF CheckFails
<1>3. CASE EmitOrderCreated(a)
  BY <1>3 DEF EmitOrderCreated
<1>4. CASE HandleOrderCreated(a) \/ EmitFails(a)
  <2>1. a \in {o.id : o \in orders}
    BY <1>4 DEF HandleOrderCreated, EmitFails, OrderStored
  <2>2. links \subseteq links' /\ links' \subseteq {o.id : o \in orders}
    BY <1>4, <2>1 DEF HandleOrderCreated, EmitFails, MayMakeLink
  <2> QED
    BY <1>4, <2>2 DEF HandleOrderCreated, EmitFails
<1>5. ASSUME NEW p \in Products, VerifyStock(a, p)
      PROVE  /\ UNCHANGED <<orders, links, paid, pc, reservation>>
             /\ verdict' \in [Attempts -> [Products -> {"unread", "inStock", "short"}]]
             /\ pc[a] \in {"check", "recheck"}
  BY <1>5 DEF VerifyStock
<1>6. CASE \E p \in Products : VerifyStock(a, p)
  <2>1. /\ UNCHANGED <<orders, links, paid, pc, reservation>>
        /\ verdict' \in [Attempts -> [Products -> {"unread", "inStock", "short"}]]
        /\ pc[a] \in {"check", "recheck"}
    BY <1>5, <1>6
  <2>2. Goto(a, pc[a])
    BY <2>1 DEF Goto
  <2>3. QED
    BY <2>1, <2>2
<1>7. QED
  BY <1>1, <1>2, <1>3, <1>4, <1>6 DEF Proceeds

LEMMA ProceedsKeeps ==
    ASSUME IInv, NEW a \in Attempts, Proceeds(a)
    PROVE  IInv'
<1> USE DEF IInv
<1>1. /\ UNCHANGED <<orders, paid, reservation>>
      /\ links \subseteq links' /\ links' \subseteq {o.id : o \in orders}
      /\ verdict' \in [Attempts -> [Products -> {"unread", "inStock", "short"}]]
      /\ outcome[a] = "idle"
  BY ProceedsEffect
<1>2. PICK step \in {"hit", "check", "recheck", "emit", "reserve", "failed"} :
         /\ pc' = [pc EXCEPT ![a] = step]
         /\ step \in {"recheck", "emit", "reserve"} => pc[a] \in {"recheck", "emit", "reserve"}
  BY ProceedsEffect DEF Goto
<1>3. TypeOK'
  BY <1>1, <1>2 DEF TypeOK, reservation, Waiting
<1>4. OneOrderPerKey' /\ RowsAreDemands'
  BY <1>1 DEF OneOrderPerKey, RowsAreDemands, reservation
<1>5. OrderStored'
  BY <1>1, <1>2 DEF OrderStored, TypeOK
<1>6. AskedAtTheEnd'
  BY <1>1, <1>2 DEF AskedAtTheEnd, TypeOK, reservation, Cart
<1>7. QED
  BY <1>3, <1>4, <1>5, <1>6

\* The unique key admits the first order of a key only.
LEMMA CreateOrderKeeps ==
    ASSUME IInv, NEW a \in Attempts, CreateOrder(a)
    PROVE  IInv'
<1> USE DEF IInv
<1> DEFINE new == [id |-> a, key |-> KeyOf[a], lines |-> HasStock(a)]
<1>1. /\ UNCHANGED <<links, paid, reservation>>
      /\ verdict' = [verdict EXCEPT ![a] = Unread]
      /\ pc[a] = "check"
  BY DEF CreateOrder
<1>2. \/ /\ OrdersOf(KeyOf[a]) = {} /\ orders' = orders \cup {new}
         /\ pc' = [pc EXCEPT ![a] = "recheck"]
      \/ orders' = orders /\ pc' = [pc EXCEPT ![a] = "failed"]
  BY DEF CreateOrder, Goto
<1>3. new \in [id : Attempts, key : Keys, lines : SUBSET Products]
  <2>1. HasStock(a) \subseteq Products
    BY <1>1 DEF HasStock, Asked, InCart
  <2>2. QED
    BY <2>1, CartType
<1>4. TypeOK'
  <2> HIDE DEF new
  <2>1. orders \subseteq orders'
    BY <1>2
  <2>2. links' \in SUBSET {o.id : o \in orders'} /\ paid' \in SUBSET {o.id : o \in orders'}
    BY <1>1, <2>1 DEF TypeOK
  <2>3. orders' \in SUBSET [id : Attempts, key : Keys, lines : SUBSET Products]
    BY <1>2, <1>3 DEF TypeOK
  <2>4. pc' \in [Attempts -> {"idle", "hit", "done", "failed"} \cup Waiting]
    BY <1>2 DEF TypeOK, Waiting
  <2> QED
    BY <1>1, <2>2, <2>3, <2>4 DEF TypeOK, reservation, Unread
<1>5. OneOrderPerKey'
  BY <1>2 DEF OneOrderPerKey, OrdersOf
<1>6. OrderStored'
  <2>1. CASE orders' = orders /\ pc' = [pc EXCEPT ![a] = "failed"]
    BY <2>1 DEF OrderStored, TypeOK
  <2>2. CASE orders' = orders \cup {new} /\ pc' = [pc EXCEPT ![a] = "recheck"]
    <3>1. \A o \in orders' : o.key = KeyOf[o.id]
      BY <2>2 DEF OrderStored
    <3>2. \A b \in Attempts : b # a => pc'[b] = pc[b]
      BY <2>2 DEF TypeOK
    <3>3. new \in orders' /\ new.id = a
      BY <2>2
    <3>4. QED
      BY <2>2, <3>1, <3>2, <3>3 DEF OrderStored
  <2>3. QED
    BY <1>2, <2>1, <2>2
<1>7. AskedAtTheEnd'
  BY <1>1, <1>2 DEF AskedAtTheEnd, TypeOK, reservation, Cart
<1>8. RowsAreDemands'
  BY <1>1 DEF RowsAreDemands, reservation
<1>9. QED
  BY <1>4, <1>5, <1>6, <1>7, <1>8

LEMMA SendStockReservedKeeps ==
    ASSUME IInv, NEW a \in Attempts, SendStockReserved(a)
    PROVE  IInv'
<1> USE DEF IInv
<1>1. /\ UNCHANGED <<orders, links, paid, verdict, stock, reserved, rows>>
      /\ pc' = [pc EXCEPT ![a] = "done"] /\ pc[a] = "reserve"
      /\ outcome' = [outcome EXCEPT ![a] = "running"]
      /\ demand' = [demand EXCEPT ![a] = Cart(a)]
      /\ outcome[a] = "idle"
  BY DEF SendStockReserved, Goto, Stock!Ask
<1>2. TypeOK'
  BY <1>1, CartType DEF TypeOK
<1>3. OneOrderPerKey'
  BY <1>1 DEF OneOrderPerKey
<1>4. OrderStored'
  BY <1>1 DEF OrderStored, TypeOK
<1>5. AskedAtTheEnd'
  BY <1>1 DEF AskedAtTheEnd, TypeOK, Cart
<1>6. RowsAreDemands'
  BY <1>1 DEF RowsAreDemands, TypeOK
<1>7. QED
  BY <1>2, <1>3, <1>4, <1>5, <1>6

LEMMA ReservedKeeps ==
    ASSUME IInv, NEW a \in Attempts, Reserved(a)
    PROVE  IInv'
<1> USE DEF IInv
<1>1. /\ UNCHANGED <<orders, links, paid, pc, verdict, demand>>
      /\ \A p \in Products : demand[a][p] > 0 => demand[a][p] <= stock[p]
      /\ stock' = [p \in Products |-> stock[p] - demand[a][p]]
      /\ reserved' = [p \in Products |-> reserved[p] + demand[a][p]]
      /\ rows' = [rows EXCEPT ![a] = demand[a]]
      /\ outcome' = [outcome EXCEPT ![a] = "reserved"]
      /\ outcome[a] = "running"
  BY DEF Reserved, attempt, Stock!Reserve
<1>2. \A p \in Products : demand[a][p] \in Nat /\ stock[p] \in Nat /\ reserved[p] \in Nat
  BY DEF TypeOK
<1>3. stock' \in [Products -> Nat] /\ reserved' \in [Products -> Nat]
  BY <1>1, <1>2
<1>4. TypeOK'
  BY <1>1, <1>3 DEF TypeOK
<1>6. OneOrderPerKey' /\ OrderStored'
  BY <1>1 DEF OneOrderPerKey, OrderStored
<1>7. AskedAtTheEnd' /\ RowsAreDemands'
  BY <1>1 DEF AskedAtTheEnd, RowsAreDemands, TypeOK, Cart
<1>8. QED
  BY <1>4, <1>6, <1>7

LEMMA OthersKeep ==
    ASSUME IInv, (\E a \in Attempts : NotReserved(a) \/ Pay(a)) \/ Restart \/ UNCHANGED vars
    PROVE  IInv'
<1> USE DEF IInv
<1>1. ASSUME NEW a \in Attempts, NotReserved(a) PROVE IInv'
  <2>1. /\ UNCHANGED <<orders, links, paid, pc, verdict, stock, reserved, rows, demand>>
        /\ outcome' = [outcome EXCEPT ![a] = "failed"] /\ outcome[a] = "running"
    BY <1>1 DEF NotReserved, attempt, Stock!Fail
  <2>2. TypeOK' /\ OneOrderPerKey' /\ OrderStored'
    BY <2>1 DEF TypeOK, OneOrderPerKey, OrderStored
  <2>3. AskedAtTheEnd' /\ RowsAreDemands'
    BY <2>1 DEF AskedAtTheEnd, RowsAreDemands, TypeOK, Cart
  <2>4. QED
    BY <2>2, <2>3
<1>2. ASSUME NEW a \in Attempts, Pay(a) PROVE IInv'
  BY <1>2 DEF Pay, reservation, TypeOK, OneOrderPerKey, OrderStored, AskedAtTheEnd,
              RowsAreDemands, Cart
<1>3. CASE Restart
  BY <1>3 DEF Restart, Waiting, reservation, TypeOK, OneOrderPerKey, OrderStored,
              AskedAtTheEnd, RowsAreDemands, Cart
<1>4. CASE UNCHANGED vars
  BY <1>4 DEF vars, attempt, reservation, TypeOK, OneOrderPerKey, OrderStored,
              AskedAtTheEnd, RowsAreDemands, Cart
<1>5. QED
  BY <1>1, <1>2, <1>3, <1>4

-----------------------------------------------------------------------------
(* The theorems *)

\* The inductive invariant holds in every reachable state.
THEOREM Invariant == Spec => []IInv
<1>1. IInv /\ [Next]_vars => IInv'
  <2> SUFFICES ASSUME IInv, [Next]_vars PROVE IInv'
    OBVIOUS
  <2>1. QED
    BY ProceedsKeeps, CreateOrderKeeps, SendStockReservedKeeps, ReservedKeeps, OthersKeep
       DEF Next, Proceeds
<1>2. QED
  BY InitialInvariant, <1>1, PTL DEF Spec

\* Links and payments are of stored orders, and stock and reserved units stay natural
\* numbers, although reservations and restarts interleave.
THEOREM TypeCorrect == Spec => []TypeOK
<1>1. IInv => TypeOK
  BY DEF IInv
<1>2. QED
  BY <1>1, Invariant, PTL

\* Retries and concurrent attempts of one checkout leave one order.
THEOREM OneOrder == Spec => []OneOrderPerKey
<1>1. IInv => OneOrderPerKey
  BY DEF IInv
<1>2. QED
  BY <1>1, Invariant, PTL

\* Units are set aside at most once for a key, and only for an order of the key
\* that is stored.
THEOREM ReservedOnce == Spec => []ReservationHasOrder
<1>1. IInv => ReservationHasOrder
  <2> SUFFICES ASSUME IInv, NEW k \in Keys,
                      NEW a \in Attempts, KeyOf[a] = k, outcome[a] # "idle",
                      NEW b \in Attempts, KeyOf[b] = k, outcome[b] # "idle"
               PROVE  a = b /\ \E o \in OrdersOf(k) : o.id = a
    BY DEF ReservationHasOrder
  <2>1. PICK o \in orders : o.id = a
    BY DEF IInv, AskedAtTheEnd, OrderStored
  <2>2. PICK u \in orders : u.id = b
    BY DEF IInv, AskedAtTheEnd, OrderStored
  <2>3. o.key = k /\ u.key = k
    BY <2>1, <2>2 DEF IInv, OrderStored
  <2>4. o = u
    BY <2>3 DEF IInv, OneOrderPerKey
  <2>5. QED
    BY <2>1, <2>2, <2>3, <2>4 DEF OrdersOf
<1>2. QED
  BY <1>1, Invariant, PTL

\* The lines of a reserved order are reserved in full.
THEOREM ReservedInFull == Spec => []ReservationCoversOrder
<1>1. IInv => ReservationCoversOrder
  <2> SUFFICES ASSUME IInv, NEW o \in orders, outcome[o.id] = "reserved",
                      NEW p \in o.lines
               PROVE  rows[o.id][p] = CartOf[o.key][p]
    BY DEF ReservationCoversOrder
  <2>1. o.id \in Attempts /\ o.key = KeyOf[o.id]
    BY DEF IInv, TypeOK, OrderStored
  <2>2. rows[o.id] = CartOf[KeyOf[o.id]]
    BY <2>1 DEF IInv, RowsAreDemands, AskedAtTheEnd, Cart
  <2>3. QED
    BY <2>1, <2>2
<1>2. QED
  BY <1>1, Invariant, PTL

=============================================================================
