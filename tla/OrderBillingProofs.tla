-------------------------- MODULE OrderBillingProofs --------------------------
(***************************************************************************)
(* For any edits, any payment links, any page loads, paid or not, any      *)
(* lines and any amounts: a customer is told of a payment only when one is *)
(* recorded, with the total the order was created with unless it was       *)
(* edited before, and with what was charged where there is only its own    *)
(* link; an order has one line per product; edits that do not overlap      *)
(* leave totals that fit the lines; and all sums are numbers.              *)
(***************************************************************************)
EXTENDS OrderBilling, SumTheorems, TLAPS

\* What an edit may do to what the payments depend on: the total changes only
\* when an edit commits, and a committed edit stays committed.
EditsOnly ==
    /\ UNCHANGED <<payment, callback>>
    /\ DOMAIN epc' = DOMAIN epc
    /\ Edited => Edited'
    /\ total' = total \/ Edited'

LEMMA EditStepEffect ==
    ASSUME Shapes, NEW e \in Edits, EditStep(e)
    PROVE  EditsOnly
<1>1. /\ UNCHANGED <<payment, callback>>
      /\ (EditGoto(e, epc'[e]) /\ epc[e] # "done") \/ UNCHANGED epc
  BY DEF EditStep, BeginAdd, BeginRemove, EditRead, FindItem, Insert, Delete, Recalculate,
         Retotal, AbandonEdit, EditEnds, EditGoto, InProgress, EditEnded, Shapes
<1>2. total' = total \/ epc'[e] = "done"
  BY DEF EditStep, BeginAdd, BeginRemove, EditRead, FindItem, Insert, Delete, Recalculate,
         Retotal, AbandonEdit, EditEnds, EditGoto, Shapes, order
<1>3. \A d \in Edits : epc[d] = "done" => epc'[d] = "done"
  BY <1>1 DEF EditGoto, Shapes
<1> QED
  BY <1>1, <1>2, <1>3 DEF EditsOnly, EditGoto, Edited

LEMMA EditsKeep ==
    ASSUME IInv, EditsOnly
    PROVE  IInv'
<1> USE DEF EditsOnly, payment, callback, IInv
<1>1. Shapes'
  BY DEF Shapes
<1>2. PagesSound' /\ PaidPageIsBacked'
  BY DEF PagesSound, PaidPageIsBacked, AlreadyPaid
<1>3. AmountsSound'
  BY DEF AmountsSound
<1>4. RecordedIsCharged'
  BY DEF RecordedIsCharged
<1> QED
  BY <1>1, <1>2, <1>3, <1>4

LEMMA InitialInvariant == Init => IInv
BY DEF Init, IInv, Shapes, PagesSound, AmountsSound, PaidPageIsBacked, RecordedIsCharged

LEMMA PageStepKeeps ==
    ASSUME IInv, NEW g \in Pages, PageStep(g)
    PROVE  IInv'
<1> USE DEF IInv, Shapes
<1>1. UNCHANGED <<epc, total, quoted, links, charged>>
  BY DEF PageStep, Load, Answer, TimeOut, NotifyRead, NotifyWrite, NotifyFails, order, edit,
         payment
<1>2. Edited' <=> Edited
  BY <1>1 DEF Edited
<1>3. Shapes'
  BY DEF PageStep, Load, Answer, TimeOut, NotifyRead, NotifyWrite, NotifyFails, order, edit,
         payment, callback
<1>4. ASSUME NEW k \in {"success", "failure"}, Load(g, k)
      PROVE  IInv'
  <2>1. /\ page[g] = "idle" /\ UNCHANGED <<recorded, charged, links, read, late>>
        /\ \A h \in Pages \ {g} : invited'[h] = invited[h]
        /\ invited'[g] => charged # {}
    BY <1>4 DEF Load, payment
  <2>2. recorded[g] = {}
    BY <2>1 DEF PagesSound
  <2>3. RecordedIsCharged'
    BY <1>1, <2>1, <2>2 DEF RecordedIsCharged
  <2>4. AmountsSound'
    BY <1>1, <1>2, <1>4, <2>1 DEF Load, AmountsSound
  <2>5. PagesSound' /\ PaidPageIsBacked'
    BY <1>4, <2>1 DEF Load, PagesSound, PaidPageIsBacked, AlreadyPaid
  <2> QED
    BY <1>3, <2>3, <2>4, <2>5
<1>5. CASE Answer(g) \/ TimeOut(g)
  <2>1. page' = [page EXCEPT ![g] = page'[g]] /\ page[g] = "waiting"
        /\ UNCHANGED <<recorded, kind, rpc, read, invited, late>>
    BY <1>5 DEF Answer, TimeOut, payment
  <2>2. page'[g] = "paid" => AlreadyPaid
    <3>1. CASE Answer(g)
      <4>1. page'[g] = Verdict(g, rpc[g] = "ok") /\ kind[g] \in {"success", "failure"}
        BY <3>1 DEF Answer, PagesSound
      <4>2. page'[g] = "paid" => kind[g] = "success" /\ rpc[g] = "ok"
        BY <4>1, Zenon DEF Verdict
      <4> QED
        BY <4>2 DEF PagesSound
    <3>2. CASE TimeOut(g)
      <4>1. page'[g] = Verdict(g, FALSE)
        BY <3>2 DEF TimeOut
      <4> QED
        BY <4>1 DEF Verdict
    <3> QED
      BY <1>5, <3>1, <3>2
  <2>3. PaidPageIsBacked'
    BY <1>1, <2>1, <2>2 DEF PaidPageIsBacked, AlreadyPaid
  <2>4. page'[g] # "idle"
    BY <1>5 DEF Answer, TimeOut, Verdict
  <2>5. PagesSound'
    BY <2>1, <2>4 DEF PagesSound, AlreadyPaid
  <2>6. AmountsSound' /\ RecordedIsCharged'
    BY <1>1, <1>2, <2>1 DEF AmountsSound, RecordedIsCharged
  <2> QED
    BY <1>3, <2>3, <2>5, <2>6
<1>6. CASE NotifyRead(g)
  <2>1. /\ UNCHANGED <<recorded, charged, links, kind, page, invited>>
        /\ rpc[g] = "queued" /\ rpc'[g] = IF AlreadyPaid THEN "ok" ELSE "write"
        /\ read'[g] = total /\ (late'[g] <=> Edited)
        /\ \A h \in Pages \ {g} : rpc'[h] = rpc[h] /\ read'[h] = read[h] /\ late'[h] = late[h]
    BY <1>6 DEF NotifyRead, payment
  <2>2. recorded[g] = {}
    BY <2>1 DEF PagesSound
  <2>3. RecordedIsCharged'
    BY <1>1, <2>1, <2>2 DEF RecordedIsCharged
  <2>4. AmountsSound'
    BY <1>1, <1>2, <2>1 DEF AmountsSound
  <2>5. PagesSound' /\ PaidPageIsBacked'
    BY <2>1 DEF PagesSound, PaidPageIsBacked, AlreadyPaid
  <2> QED
    BY <1>3, <2>3, <2>4, <2>5
<1>7. CASE NotifyWrite(g)
  <2>1. UNCHANGED <<kind, page, invited, late>> /\ rpc' = [rpc EXCEPT ![g] = "ok"]
        /\ read' = [read EXCEPT ![g] = 0]
    BY <1>7 DEF NotifyWrite
  <2>2. AlreadyPaid => AlreadyPaid'
    BY <1>7 DEF NotifyWrite, AlreadyPaid
  <2>3. kind[g] = "success" => AlreadyPaid'
    BY <1>7 DEF NotifyWrite, AlreadyPaid
  <2>4. RecordedIsCharged'
    <3>1. /\ ~late[g] => read[g] = quoted
          /\ invited[g] /\ links \subseteq {quoted} => charged = {quoted}
      BY <1>7 DEF NotifyWrite, AmountsSound
    <3>2. \A h \in Pages : recorded'[h] = recorded[h] \/ (h = g /\ recorded'[h] = {read[g]})
      BY <1>7 DEF NotifyWrite
    <3> QED
      BY <1>1, <2>1, <3>1, <3>2 DEF RecordedIsCharged
  <2>5. PagesSound'
    <3>1. page[g] # "idle" /\ \A h \in Pages \ {g} : recorded'[h] = recorded[h]
      BY <1>7 DEF NotifyWrite, PagesSound
    <3> QED
      BY <2>1, <2>2, <2>3, <3>1 DEF PagesSound
  <2>7. PaidPageIsBacked'
    BY <2>1, <2>2 DEF PaidPageIsBacked
  <2>6. AmountsSound'
    BY <1>1, <1>2, <2>1 DEF AmountsSound
  <2> QED
    BY <1>3, <2>4, <2>5, <2>6, <2>7
<1>8. CASE NotifyFails(g)
  BY <1>1, <1>2, <1>3, <1>8 DEF NotifyFails, PagesSound, AmountsSound, PaidPageIsBacked,
     RecordedIsCharged, AlreadyPaid, payment
<1> QED
  BY <1>4, <1>5, <1>6, <1>7, <1>8 DEF PageStep

LEMMA InvariantKept == IInv /\ [Next]_vars => IInv'
<1> SUFFICES ASSUME IInv, [Next]_vars PROVE IInv'
  OBVIOUS
<1>1. ASSUME NEW e \in Edits, EditStep(e) PROVE IInv'
  BY <1>1, EditStepEffect, EditsKeep DEF IInv
<1>2. ASSUME NEW g \in Pages, PageStep(g) PROVE IInv'
  BY <1>2, PageStepKeeps
<1>3. CASE MoveOn \/ UNCHANGED vars
  <2>1. EditsOnly
    BY <1>3 DEF MoveOn, EditsOnly, vars, order, edit, payment, callback, Edited
  <2> QED
    BY <2>1, EditsKeep
<1>4. ASSUME NEW a, MakeLink(a) \/ Charge(a) PROVE IInv'
  <2> USE DEF IInv, order, edit, callback
  <2>1. /\ UNCHANGED <<order, edit, quoted, recorded, callback>>
        /\ links \subseteq links' /\ charged \subseteq charged' /\ charged' \subseteq links'
    BY <1>4 DEF MakeLink, Charge, AmountsSound
  <2>2. Shapes' /\ PagesSound' /\ PaidPageIsBacked' /\ AmountsSound'
    BY <2>1 DEF Shapes, PagesSound, PaidPageIsBacked, AmountsSound, AlreadyPaid, Edited
  <2>3. RecordedIsCharged'
    BY <2>1 DEF RecordedIsCharged
  <2> QED
    BY <2>2, <2>3
<1> QED
  BY <1>1, <1>2, <1>3, <1>4 DEF Next

\* The inductive invariant of edits, links, payments and pages, which relates the
\* answer of order-service to the payment rows and what updatePaymentStatus reads to
\* the total of createOrder.
THEOREM Invariant == Spec => []IInv
<1> QED
  BY InitialInvariant, InvariantKept, PTL DEF Spec

\* paymentSuccess never tells a customer of a payment when none is recorded, with
\* any number of pages, time-outs and lost requests.
THEOREM ToldOnlyOfPayments == Spec => []PaidPageIsBacked
<1>1. IInv => PaidPageIsBacked
  BY DEF IInv
<1> QED
  BY <1>1, Invariant, PTL

\* updatePaymentStatus records the total of createOrder unless an edit was committed
\* before it read; and where createPayment made the order's own link alone and the
\* page was loaded after the payment, that is what was charged.
THEOREM RecordsTheCharge == Spec => []RecordedIsCharged
<1>1. IInv => RecordedIsCharged
  BY DEF IInv
<1> QED
  BY <1>1, Invariant, PTL

-----------------------------------------------------------------------------
(* Edits *)

\* Where an edit that ends leaves things: only its own step has moved.
LEMMA OthersStay ==
    ASSUME EditShapes, NEW e \in Edits, NEW step, EditGoto(e, step)
    PROVE  /\ DOMAIN epc' = Edits /\ epc'[e] = step
           /\ \A d \in Edits \ {e} : epc'[d] = epc[d]
           /\ InProgress' \subseteq InProgress \cup {e}
           /\ step \in EditEnded => e \notin InProgress'
           /\ epc[e] # "done" /\ step # "done" => (Edited' <=> Edited)
  BY DEF EditShapes, EditGoto, InProgress, EditEnded, Edited

\* An edit that ends without a commit.
LEMMA EndKeeps ==
    ASSUME EditInv, NEW e \in InProgress, NEW how \in {"refused", "failed"}, EditEnds(e, how),
           UNCHANGED <<order, overlapped>>
    PROVE  EditInv'
<1> USE DEF EditInv, order
<1>1. e \in Edits /\ epc[e] \notin EditEnded
  BY DEF InProgress
<1>2. /\ epc'[e] = how /\ \A d \in Edits \ {e} : epc'[d] = epc[d]
      /\ InProgress' \subseteq InProgress /\ (Edited' <=> Edited) /\ DOMAIN epc' = Edits
  BY <1>1, OthersStay DEF EditEnds, EditEnded
<1>3. /\ DOMAIN own' = Edits /\ own'[e] = {} /\ \A d \in Edits \ {e} : own'[d] = own[d]
      /\ DOMAIN sum' = Edits /\ \A d \in Edits \ {e} : sum'[d] = sum[d]
      /\ DOMAIN target' = Edits /\ \A d \in Edits \ {e} : target'[d] = target[d]
      /\ DOMAIN added' = Edits
  BY <1>1 DEF EditEnds, EditShapes
<1>4. EditShapes' /\ OneLinePerProduct'
  BY <1>2, <1>3 DEF EditShapes, OneLinePerProduct
<1>5. InsertedOnce'
  BY <1>3 DEF InsertedOnce, HasProduct
<1>6. \A d \in Edits : epc'[d] = "total" => d # e /\ LinesSeen(d)' = LinesSeen(d)
  BY <1>2, <1>3 DEF LinesSeen, Deleted
<1>7. SerialSound'
  BY <1>1, <1>2, <1>3, <1>6 DEF SerialSound
<1> QED
  BY <1>4, <1>5, <1>7

\* A step of an edit within its transaction that computes no sum yet.
LEMMA MoveKeeps ==
    ASSUME EditInv, NEW e \in InProgress, EditGoto(e, epc'[e]),
           epc'[e] \in {"insert", "find", "delete", "deleted"},
           epc'[e] = "insert" => target[e] = {},
           UNCHANGED <<order, overlapped, added, target, own, sum>>
    PROVE  EditInv'
<1> USE DEF EditInv, order
<1>1. e \in Edits /\ epc[e] \notin EditEnded
  BY DEF InProgress
<1>2. /\ \A d \in Edits \ {e} : epc'[d] = epc[d]
      /\ InProgress' \subseteq InProgress \cup {e} /\ (Edited' <=> Edited) /\ DOMAIN epc' = Edits
  BY <1>1, OthersStay DEF EditEnded
<1>3. EditShapes' /\ OneLinePerProduct' /\ InsertedOnce'
  BY <1>2 DEF EditShapes, OneLinePerProduct, InsertedOnce, HasProduct
<1>4. \A d \in Edits : epc'[d] = "total" => epc[d] = "total" /\ LinesSeen(d)' = LinesSeen(d)
  BY <1>2 DEF LinesSeen, Deleted
<1> QED
  BY <1>2, <1>3, <1>4 DEF SerialSound

LEMMA BeginKeeps ==
    ASSUME EditInv, NEW e \in Edits, BeginAdd(e) \/ BeginRemove(e)
    PROVE  EditInv'
<1> USE DEF EditInv, order
<1>1. /\ epc[e] = "idle" /\ EditGoto(e, "status")
      /\ overlapped' = (overlapped \/ InProgress # {})
      /\ UNCHANGED <<order, own, sum>>
      /\ \A d \in Edits \ {e} : target'[d] = target[d]
      /\ DOMAIN target' = Edits /\ DOMAIN added' = Edits
  BY DEF BeginAdd, BeginRemove, EditShapes
<1>2. /\ epc'[e] = "status" /\ \A d \in Edits \ {e} : epc'[d] = epc[d]
      /\ InProgress' \subseteq InProgress \cup {e} /\ (Edited' <=> Edited) /\ DOMAIN epc' = Edits
  BY <1>1, OthersStay
<1>3. EditShapes' /\ OneLinePerProduct' /\ InsertedOnce'
  BY <1>1, <1>2 DEF EditShapes, OneLinePerProduct, InsertedOnce, HasProduct
<1>4. \A d \in Edits : epc'[d] = "total" => epc[d] = "total" /\ LinesSeen(d)' = LinesSeen(d)
  BY <1>1, <1>2 DEF LinesSeen, Deleted
<1> QED
  BY <1>1, <1>2, <1>3, <1>4 DEF SerialSound

LEMMA InsertKeeps ==
    ASSUME EditInv, NEW e \in Edits, Insert(e)
    PROVE  EditInv'
<1> USE DEF order
<1> DEFINE item == added[e][Inserted(e) + 1]
           line == [product |-> item.product, amount |-> item.amount, by |-> e]
<1>1. e \in InProgress /\ epc[e] = "insert"
  BY DEF Insert, InProgress, EditEnded
<1>2. CASE EditEnds(e, "failed") /\ UNCHANGED <<order, overlapped>>
  BY <1>1, <1>2, EndKeeps
<1>3. CASE /\ ~HasProduct(item.product, lines \cup own[e])
           /\ \A d \in Edits \ {e} : ~HasProduct(item.product, own[d] \cup Deleted(d))
           /\ own' = [own EXCEPT ![e] = @ \cup {line}]
           /\ UNCHANGED <<order, overlapped, added, target, epc, sum>>
  <2> USE DEF EditInv
  <2>1. line.product = item.product
    OBVIOUS
  <2> HIDE DEF line, item
  <2>2. /\ own'[e] = own[e] \cup {line} /\ DOMAIN own' = Edits
        /\ \A d \in Edits \ {e} : own'[d] = own[d]
    BY <1>3 DEF EditShapes
  <2>3. \A l \in lines \cup own[e] : l.product # line.product
    BY <1>3, <2>1 DEF HasProduct
  <2>4. \A d \in Edits \ {e} : \A l \in own[d] : l.product # line.product
    BY <1>3, <2>1 DEF HasProduct
  <2>5. InsertedOnce'
    <3> SUFFICES ASSUME NEW f \in Edits, NEW l \in own'[f]
                 PROVE  /\ ~HasProduct(l.product, lines)'
                        /\ \A d \in Edits : \A k \in own'[d] :
                              k.product = l.product => d = f /\ k = l
      BY DEF InsertedOnce
    <3>1. lines' = lines
      BY <1>3
    <3>2. \A l1 \in own'[f] : (f = e /\ l1 = line) \/ l1 \in own[f]
      BY <2>2
    <3>3. ~HasProduct(l.product, lines)'
      BY <2>3, <3>1, <3>2 DEF InsertedOnce, HasProduct
    <3>4. ASSUME NEW d \in Edits, NEW k \in own'[d], k.product = l.product
          PROVE  d = f /\ k = l
      <4>1. (d = e /\ k = line) \/ k \in own[d]
        BY <2>2
      <4> QED
        BY <2>3, <2>4, <3>2, <3>4, <4>1 DEF InsertedOnce
    <3> QED
      BY <3>3, <3>4
  <2>6. EditShapes' /\ OneLinePerProduct'
    BY <1>3, <2>2 DEF EditShapes, OneLinePerProduct
  <2>7. InProgress' = InProgress /\ (Edited' <=> Edited)
    BY <1>3 DEF InProgress, Edited
  <2>8. \A d \in Edits : epc'[d] = "total" => epc[d] = "total" /\ LinesSeen(d)' = LinesSeen(d)
    BY <1>1, <1>3, <2>2 DEF LinesSeen, Deleted
  <2>9. SerialSound'
    BY <1>3, <2>7, <2>8 DEF SerialSound
  <2> QED
    BY <2>5, <2>6, <2>9
<1> QED
  BY <1>2, <1>3 DEF Insert

LEMMA RecalculateKeeps ==
    ASSUME EditInv, NEW e \in Edits, Recalculate(e)
    PROVE  EditInv'
<1> USE DEF EditInv, order
<1>1. /\ epc[e] \in {"insert", "deleted"} /\ EditGoto(e, "total")
      /\ sum' = [sum EXCEPT ![e] = Subtotal(LinesSeen(e))]
      /\ UNCHANGED <<order, added, target, own, overlapped>>
      /\ e \in InProgress
  BY DEF Recalculate, InProgress, EditEnded
<1>2. /\ epc'[e] = "total" /\ \A d \in Edits \ {e} : epc'[d] = epc[d]
      /\ InProgress' \subseteq InProgress \cup {e} /\ (Edited' <=> Edited) /\ DOMAIN epc' = Edits
  BY <1>1, OthersStay
<1>3. EditShapes' /\ OneLinePerProduct' /\ InsertedOnce'
  BY <1>1, <1>2 DEF EditShapes, OneLinePerProduct, InsertedOnce, HasProduct
<1>4. \A d \in Edits \ {e} : epc'[d] = "total" => d \in InProgress
  BY <1>2 DEF InProgress, EditEnded
<1>5. ~overlapped => \A d \in Edits \ {e} : epc'[d] # "total"
  BY <1>1, <1>4 DEF SerialSound
<1>6. sum'[e] = Subtotal(LinesSeen(e))
  BY <1>1 DEF EditShapes
<1>7. epc[e] = "insert" => target[e] = {}
  BY DEF EditShapes
<1>8. LinesSeen(e)' = LinesSeen(e)
  BY <1>1, <1>2, <1>7 DEF LinesSeen, Deleted
<1> QED
  BY <1>1, <1>2, <1>3, <1>5, <1>6, <1>8 DEF SerialSound

LEMMA RetotalKeeps ==
    ASSUME EditInv, NEW e \in Edits, Retotal(e)
    PROVE  EditInv'
<1> USE DEF EditInv, order
<1>1. /\ epc[e] = "total" /\ EditGoto(e, "done") /\ e \in InProgress
      /\ lines' = (lines \ Deleted(e)) \cup own[e]
      /\ lines' = LinesSeen(e) /\ subtotal' = sum[e] /\ total' = sum[e]
      /\ overlapped' = overlapped
  BY DEF Retotal, EditEnds, InProgress, EditEnded, LinesSeen
<1>2. /\ epc'[e] = "done" /\ \A d \in Edits \ {e} : epc'[d] = epc[d]
      /\ InProgress' \subseteq InProgress /\ DOMAIN epc' = Edits
  BY <1>1, OthersStay DEF EditEnded
<1>3. /\ DOMAIN own' = Edits /\ own'[e] = {} /\ \A d \in Edits \ {e} : own'[d] = own[d]
      /\ DOMAIN sum' = Edits /\ DOMAIN added' = Edits /\ DOMAIN target' = Edits
      /\ \A d \in Edits \ {e} : target'[d] = target[d]
  BY DEF Retotal, EditEnds, EditShapes
<1>4. EditShapes'
  BY <1>2, <1>3 DEF EditShapes
<1>5. OneLinePerProduct'
  BY <1>1 DEF OneLinePerProduct, InsertedOnce, HasProduct
<1>6. InsertedOnce'
  <2> SUFFICES ASSUME NEW f \in Edits, NEW l \in own'[f]
               PROVE  /\ ~HasProduct(l.product, lines)'
                      /\ \A d \in Edits : \A k \in own'[d] :
                            k.product = l.product => d = f /\ k = l
    BY DEF InsertedOnce
  <2>1. f # e /\ l \in own[f] /\ \A d \in Edits : \A k \in own'[d] : k \in own[d]
    BY <1>3
  <2>2. \A k \in lines' : k \in lines \/ k \in own[e]
    BY <1>1
  <2>3. \A k \in lines' : k.product # l.product
    BY <2>1, <2>2 DEF InsertedOnce, HasProduct
  <2>4. ~HasProduct(l.product, lines)'
    BY <2>3 DEF HasProduct
  <2> QED
    BY <2>1, <2>4 DEF InsertedOnce
<1>7. SerialSound'
  <2> SUFFICES ASSUME ~overlapped
               PROVE  /\ \A d, f \in InProgress' : d = f
                      /\ \A d \in Edits : epc'[d] # "total"
                      /\ subtotal' = Subtotal(lines') /\ total' = subtotal'
    BY <1>1 DEF SerialSound
  <2>1. sum[e] = Subtotal(LinesSeen(e))
    BY <1>1 DEF SerialSound
  <2>2. ASSUME NEW d \in Edits, epc'[d] = "total"
        PROVE  FALSE
    <3>1. d # e /\ d \in InProgress
      BY <1>2, <2>2 DEF InProgress, EditEnded
    <3> QED
      BY <1>1, <3>1 DEF SerialSound
  <2> QED
    BY <1>1, <1>2, <2>1, <2>2 DEF SerialSound
<1> QED
  BY <1>4, <1>5, <1>6, <1>7

\* Nothing but an edit writes lines, totals and what edits hold.
LEMMA RestKeeps ==
    ASSUME EditInv, UNCHANGED <<lines, subtotal, total, edit>>
    PROVE  EditInv'
<1> USE DEF EditInv, edit
<1>1. EditShapes' /\ OneLinePerProduct' /\ InsertedOnce'
  BY DEF EditShapes, OneLinePerProduct, InsertedOnce, HasProduct
<1>2. InProgress' = InProgress /\ (Edited' <=> Edited)
        /\ \A d \in Edits : LinesSeen(d)' = LinesSeen(d)
  BY DEF InProgress, Edited, LinesSeen, Deleted
<1> QED
  BY <1>1, <1>2 DEF SerialSound

LEMMA EditInvariantKept == EditInv /\ [Next]_vars => EditInv'
<1> SUFFICES ASSUME EditInv, [Next]_vars PROVE EditInv'
  OBVIOUS
<1>1. ASSUME NEW e \in Edits, EditStep(e) PROVE EditInv'
  <2>1. CASE BeginAdd(e) \/ BeginRemove(e)
    BY <2>1, BeginKeeps
  <2>2. CASE EditRead(e) \/ FindItem(e) \/ Delete(e) \/ AbandonEdit(e)
    <3>1. /\ e \in InProgress /\ UNCHANGED <<order, overlapped>>
          /\ \/ \E how \in {"refused", "failed"} : EditEnds(e, how)
             \/ /\ EditGoto(e, epc'[e])
                /\ epc'[e] \in {"insert", "find", "delete", "deleted"}
                /\ epc'[e] = "insert" => target[e] = {}
                /\ UNCHANGED <<added, target, own, sum>>
      BY <2>2 DEF EditRead, FindItem, Delete, AbandonEdit, InProgress, EditEnded, EditGoto,
         EditInv, EditShapes
    <3> QED
      BY <3>1, EndKeeps, MoveKeeps
  <2>3. CASE Insert(e)
    BY <2>3, InsertKeeps
  <2>4. CASE Recalculate(e)
    BY <2>4, RecalculateKeeps
  <2>5. CASE Retotal(e)
    BY <2>5, RetotalKeeps
  <2> QED
    BY <1>1, <2>1, <2>2, <2>3, <2>4, <2>5 DEF EditStep
<1>2. ASSUME NEW g \in Pages, PageStep(g) PROVE EditInv'
  <2>1. UNCHANGED <<lines, subtotal, total, edit>>
    BY <1>2 DEF PageStep, Load, Answer, TimeOut, NotifyRead, NotifyWrite, NotifyFails, order
  <2> QED
    BY <2>1, RestKeeps
<1>3. CASE MoveOn \/ UNCHANGED vars \/ \E a : MakeLink(a) \/ Charge(a)
  <2>1. UNCHANGED <<lines, subtotal, total, edit>>
    BY <1>3 DEF MoveOn, MakeLink, Charge, vars, order
  <2> QED
    BY <2>1, RestKeeps
<1> QED
  BY <1>1, <1>2, <1>3 DEF Next

LEMMA InitialEdits == Init => EditInv
<1> SUFFICES ASSUME Init PROVE EditInv
  OBVIOUS
<1>1. OneLinePerProduct
  BY DEF Init, OneLinePerProduct
<1>2. EditShapes /\ InsertedOnce
  BY DEF Init, EditShapes, InsertedOnce
<1>3. SerialSound
  BY DEF Init, SerialSound, InProgress, Edited
<1> QED
  BY <1>1, <1>2, <1>3 DEF EditInv

\* The inductive invariant of addItems and removeItem, for any edits of any lines.
THEOREM EditInvariant == Spec => []EditInv
<1> QED
  BY InitialEdits, EditInvariantKept, PTL DEF Spec

\* The unique index and the waiting of transactions for each other leave one line
\* per product, however many edits overlap.
THEOREM OneLine == Spec => []OneLinePerProduct
<1>1. EditInv => OneLinePerProduct
  BY DEF EditInv
<1> QED
  BY <1>1, EditInvariant, PTL

\* As long as edits do not overlap, each leaves totals that are the sum of the lines
\* (addItems and removeItem compute them in the transaction that writes the lines).
THEOREM SerialTotals == Spec => []TotalsFitLines
<1>1. EditInv => TotalsFitLines
  BY DEF EditInv, SerialSound, TotalsFitLines
<1> QED
  BY <1>1, EditInvariant, PTL

-----------------------------------------------------------------------------
(* Types: the sum of the lines, above all *)

\* calculateSubtotal of finitely many lines is a number.
LEMMA SubtotalType ==
    ASSUME NEW ls \in SUBSET Line, IsFiniteSet(ls)
    PROVE  Subtotal(ls) \in Int
<1> DEFINE amount == [l \in ls |-> l.amount]
<1>1. DOMAIN amount = ls /\ \A l \in ls : amount[l] \in Int
  BY DEF Line
<1> HIDE DEF amount
<1>2. SumFunction(amount) \in Int
  BY <1>1, SumIntegers
<1> QED
  BY <1>2 DEF Subtotal, amount

LEMMA InitialTypes == Init => TypeInv
<1> SUFFICES ASSUME Init PROVE TypeInv
  OBVIOUS
<1>1. PICK kept \in SUBSET Products, price \in [Products -> Quotes] :
          lines = {[product |-> p, amount |-> price[p], by |-> Creation] : p \in kept}
  BY DEF Init
<1>2. lines \in SUBSET Line
  <2> SUFFICES ASSUME NEW p \in kept
               PROVE  [product |-> p, amount |-> price[p], by |-> Creation] \in Line
    BY <1>1
  <2>1. p \in Products /\ price[p] \in Int
    BY AmountsAssumption
  <2> QED
    BY <2>1 DEF Line
<1>3. IsFiniteSet(lines)
  <2> DEFINE row == [p \in kept |-> [product |-> p, amount |-> price[p], by |-> Creation]]
  <2>1. IsFiniteSet(kept)
    BY ProductsAssumption, FS_Subset
  <2>2. row \in Surjection(kept, lines)
    BY <1>1 DEF Surjection
  <2> QED
    BY <2>1, <2>2, FS_Surjection
<1>4. RowsFinite
  BY <1>3, FS_EmptySet DEF Init, RowsFinite
<1>5. subtotal \in Int /\ total \in Int /\ quoted \in Int /\ links \in SUBSET Int /\ charged = {}
  <2>1. subtotal \in Int /\ Charges \in Int
    BY AmountsAssumption DEF Init
  <2> QED
    BY <2>1 DEF Init
<1>6. EditTypeOK
  <2>1. /\ added \in [Edits -> Additions \cup {<< >>}] /\ target \in [Edits -> SUBSET Line]
        /\ own \in [Edits -> SUBSET Line] /\ sum \in [Edits -> Int]
    BY DEF Init
  <2> QED
    BY <1>2, <1>5, <2>1 DEF Init, EditTypeOK, EditEnded
<1>7. PaymentTypeOK
  BY <1>5 DEF Init, PaymentTypeOK
<1> QED
  BY <1>4, <1>6, <1>7 DEF TypeInv, TypeOK

EditTypeInv == EditTypeOK /\ RowsFinite

\* What an edit sees, deletes and inserts are finitely many lines.
LEMMA SeenType ==
    ASSUME EditTypeInv, NEW e \in Edits
    PROVE  /\ LinesSeen(e) \in SUBSET Line /\ IsFiniteSet(LinesSeen(e))
           /\ Inserted(e) \in Nat
<1> USE DEF EditTypeInv, RowsFinite
<1>1. LinesSeen(e) \in SUBSET Line
  BY DEF LinesSeen, EditTypeOK
<1>2. IsFiniteSet(lines \ Deleted(e))
  BY FS_Difference
<1>3. IsFiniteSet(LinesSeen(e))
  BY <1>2, FS_Union DEF LinesSeen
<1> QED
  BY <1>1, <1>3, FS_CardinalityType DEF Inserted

LEMMA EndTypes ==
    ASSUME EditTypeInv, NEW e \in Edits, NEW how \in EditEnded, EditEnds(e, how)
    PROVE  /\ added' \in [Edits -> Additions \cup {<< >>}]
           /\ target' \in [Edits -> SUBSET Line]
           /\ epc' \in [Edits -> EditEnded \cup {"idle", "status", "insert", "find", "delete",
                                                 "deleted", "total"}]
           /\ own' \in [Edits -> SUBSET Line]
           /\ sum' \in [Edits -> Int]
           /\ \A d \in Edits : IsFiniteSet(own'[d])
<1> USE DEF EditTypeInv, EditTypeOK, EditEnds, EditGoto
<1>1. \A d \in Edits : own'[d] = own[d] \/ own'[d] = {}
  OBVIOUS
<1>2. \A d \in Edits : IsFiniteSet(own'[d])
  BY <1>1, FS_EmptySet DEF RowsFinite
<1> QED
  BY <1>2

\* An edit that ends without a commit.
LEMMA EndKeepsTypes ==
    ASSUME EditTypeInv, NEW e \in Edits, NEW how \in EditEnded, EditEnds(e, how),
           UNCHANGED <<order, overlapped>>
    PROVE  EditTypeInv'
<1> USE DEF order
<1>1. RowsFinite'
  BY EndTypes DEF EditTypeInv, RowsFinite
<1>2. EditTypeOK'
  BY EndTypes DEF EditTypeInv, EditTypeOK, EditEnded
<1> QED
  BY <1>1, <1>2 DEF EditTypeInv

LEMMA InsertTypes ==
    ASSUME EditTypeInv, NEW e \in Edits, Insert(e)
    PROVE  EditTypeInv'
<1> DEFINE item == added[e][Inserted(e) + 1]
           line == [product |-> item.product, amount |-> item.amount, by |-> e]
<1>1. CASE EditEnds(e, "failed") /\ UNCHANGED <<order, overlapped>>
  BY <1>1, EndKeepsTypes DEF EditEnded
<1>2. CASE /\ own' = [own EXCEPT ![e] = @ \cup {line}]
           /\ UNCHANGED <<order, overlapped, added, target, epc, sum>>
  <2>1. added[e] \in Seq(Item) /\ Inserted(e) \in Nat /\ Inserted(e) < Len(added[e])
    <3>1. added[e] \in Additions \cup {<< >>} /\ << >> \in Seq(Item)
      BY DEF EditTypeInv, EditTypeOK
    <3>2. added[e] \in Seq(Item)
      BY <3>1, AdditionsAssumption
    <3> QED
      BY <3>2, SeenType DEF Insert
  <2>2. item \in Item
    <3>1. Inserted(e) + 1 \in 1..Len(added[e])
      BY <2>1
    <3> QED
      BY <2>1, <3>1
  <2>3. line \in Line
    BY <2>2 DEF Item, Line
  <2> HIDE DEF line
  <2>4. own' \in [Edits -> SUBSET Line]
    BY <1>2, <2>3 DEF EditTypeInv, EditTypeOK
  <2>5. IsFiniteSet(own[e] \cup {line})
    BY FS_AddElement DEF EditTypeInv, RowsFinite
  <2>6. \A d \in Edits : IsFiniteSet(own'[d])
    BY <1>2, <2>5 DEF EditTypeInv, EditTypeOK, RowsFinite
  <2>7. EditTypeOK'
    BY <1>2, <2>4 DEF EditTypeInv, EditTypeOK, order
  <2> QED
    BY <1>2, <2>6, <2>7 DEF EditTypeInv, RowsFinite, order
<1> QED
  BY <1>1, <1>2 DEF Insert

LEMMA EditTypes ==
    ASSUME EditTypeInv, NEW e \in Edits, EditStep(e)
    PROVE  EditTypeInv'
<1> USE DEF order
<1>1. CASE \E how \in EditEnded : EditEnds(e, how) /\ UNCHANGED <<order, overlapped>>
  BY <1>1, EndKeepsTypes
<1>2. CASE BeginAdd(e) \/ BeginRemove(e)
  <2> USE DEF EditGoto, EditTypeInv
  <2>1. EditTypeOK'
    <3>1. CASE BeginAdd(e)
      BY <3>1 DEF BeginAdd, EditTypeOK
    <3>2. CASE BeginRemove(e)
      BY <3>2 DEF BeginRemove, EditTypeOK
    <3> QED
      BY <1>2, <3>1, <3>2
  <2>2. RowsFinite'
    BY <1>2 DEF BeginAdd, BeginRemove, RowsFinite
  <2> QED
    BY <2>1, <2>2
<1>3. CASE EditRead(e) \/ FindItem(e) \/ Delete(e) \/ AbandonEdit(e)
  <2>1. CASE EditGoto(e, epc'[e]) /\ epc'[e] \in {"insert", "find", "delete", "deleted"}
             /\ UNCHANGED <<order, added, target, own, sum, overlapped>>
    <3>1. EditTypeOK'
      BY <2>1 DEF EditGoto, EditTypeInv, EditTypeOK
    <3>2. RowsFinite'
      BY <2>1 DEF EditTypeInv, RowsFinite
    <3> QED
      BY <3>1, <3>2 DEF EditTypeInv
  <2>2. CASE EditRead(e)
    BY <1>1, <2>1, <2>2 DEF EditRead, EditEnded, EditGoto, EditTypeInv, EditTypeOK
  <2>3. CASE FindItem(e)
    BY <1>1, <2>1, <2>3 DEF FindItem, EditEnded, EditGoto, EditTypeInv, EditTypeOK
  <2>4. CASE Delete(e)
    BY <1>1, <2>1, <2>4 DEF Delete, EditEnded, EditGoto, EditTypeInv, EditTypeOK
  <2>5. CASE AbandonEdit(e)
    BY <1>1, <2>5 DEF AbandonEdit, EditEnded
  <2> QED
    BY <1>3, <2>2, <2>3, <2>4, <2>5
<1>4. CASE Insert(e)
  BY <1>4, InsertTypes
<1>5. CASE Recalculate(e)
  <2>1. Subtotal(LinesSeen(e)) \in Int
    BY SeenType, SubtotalType
  <2> QED
    BY <1>5, <2>1 DEF Recalculate, EditGoto, EditTypeInv, EditTypeOK, RowsFinite
<1>6. CASE Retotal(e)
  <2>1. EditEnds(e, "done") /\ "done" \in EditEnded
    BY <1>6 DEF Retotal, EditEnded
  <2>2. lines' \in SUBSET Line /\ IsFiniteSet(lines') /\ sum[e] \in Int
    BY <1>6, SeenType DEF Retotal, EditTypeInv, EditTypeOK
  <2>3. RowsFinite'
    BY <2>1, <2>2, EndTypes DEF RowsFinite
  <2>4. EditTypeOK'
    BY <1>6, <2>1, <2>2, EndTypes DEF Retotal, EditTypeInv, EditTypeOK, EditEnded
  <2> QED
    BY <2>3, <2>4 DEF EditTypeInv
<1> QED
  BY <1>2, <1>3, <1>4, <1>5, <1>6 DEF EditStep

LEMMA PageTypes ==
    ASSUME TypeInv, NEW g \in Pages, PageStep(g)
    PROVE  PaymentTypeOK' /\ UNCHANGED <<lines, subtotal, total, edit>> /\ modifiable' \in BOOLEAN
<1> USE DEF TypeInv, TypeOK, PaymentTypeOK, order, payment
<1>1. UNCHANGED <<lines, subtotal, total, edit>> /\ modifiable' \in BOOLEAN
  BY DEF PageStep, Load, Answer, TimeOut, NotifyRead, NotifyWrite, NotifyFails, EditTypeOK
<1>2. invited' \in [Pages -> BOOLEAN]
  <2>1. invited' = [invited EXCEPT ![g] = TRUE] \/ invited' = [invited EXCEPT ![g] = FALSE]
        \/ invited' = invited
    BY DEF PageStep, Load, Answer, TimeOut, NotifyRead, NotifyWrite, NotifyFails
  <2> QED
    BY <2>1, Zenon
<1>3. late' \in [Pages -> BOOLEAN]
  <2>1. late' = [late EXCEPT ![g] = Edited] \/ late' = late
    BY DEF PageStep, Load, Answer, TimeOut, NotifyRead, NotifyWrite, NotifyFails
  <2>2. Edited \in BOOLEAN
    BY DEF Edited
  <2> QED
    BY <2>1, <2>2, Zenon
<1>4. CASE Load(g, "success") \/ Load(g, "failure")
  <2>1. /\ kind' \in [Pages -> {"none", "success", "failure"}]
        /\ page' \in [Pages -> {"idle", "waiting", "paid", "notPaid", "error"}]
        /\ rpc' \in [Pages -> {"none", "queued", "write", "ok", "error", "lost"}]
    BY <1>4 DEF Load
  <2>2. UNCHANGED <<quoted, links, charged, recorded, read>>
    BY <1>4 DEF Load
  <2> QED
    BY <1>1, <1>2, <1>3, <2>1, <2>2
<1>5. CASE Answer(g) \/ TimeOut(g)
  <2>1. \A answered \in BOOLEAN : Verdict(g, answered) \in {"paid", "notPaid", "error"}
    BY DEF Verdict
  <2>2. PICK answered \in BOOLEAN : page' = [page EXCEPT ![g] = Verdict(g, answered)]
    BY <1>5 DEF Answer, TimeOut
  <2>3. page' \in [Pages -> {"idle", "waiting", "paid", "notPaid", "error"}]
    BY <2>1, <2>2
  <2>4. UNCHANGED <<quoted, links, charged, recorded, kind, rpc, read>>
    BY <1>5 DEF Answer, TimeOut
  <2> QED
    BY <1>1, <1>2, <1>3, <2>3, <2>4
<1>6. CASE NotifyRead(g)
  <2>1. read' \in [Pages -> Int]
    BY <1>6 DEF NotifyRead, EditTypeOK
  <2>2. rpc' \in [Pages -> {"none", "queued", "write", "ok", "error", "lost"}]
    BY <1>6 DEF NotifyRead
  <2> QED
    BY <1>1, <1>2, <1>3, <1>6, <2>1, <2>2 DEF NotifyRead
<1>7. CASE NotifyWrite(g)
  <2>1. recorded' = recorded \/ recorded' = [recorded EXCEPT ![g] = {read[g]}]
    BY <1>7 DEF NotifyWrite
  <2>2. recorded' \in [Pages -> SUBSET Int]
    BY <2>1
  <2>3. /\ read' \in [Pages -> Int]
        /\ rpc' \in [Pages -> {"none", "queued", "write", "ok", "error", "lost"}]
    BY <1>7 DEF NotifyWrite
  <2> QED
    BY <1>1, <1>2, <1>3, <1>7, <2>2, <2>3 DEF NotifyWrite
<1>8. CASE NotifyFails(g)
  BY <1>1, <1>2, <1>3, <1>8 DEF NotifyFails
<1> QED
  BY <1>1, <1>4, <1>5, <1>6, <1>7, <1>8 DEF PageStep

LEMMA TypesKept == TypeInv /\ [Next]_vars => TypeInv'
<1> SUFFICES ASSUME TypeInv, [Next]_vars PROVE TypeInv'
  OBVIOUS
<1> USE DEF TypeInv, TypeOK
<1>1. ASSUME UNCHANGED <<payment, callback>> PROVE PaymentTypeOK'
  BY <1>1 DEF PaymentTypeOK, payment, callback
<1>2. ASSUME UNCHANGED <<lines, subtotal, total, edit>>, modifiable' \in BOOLEAN
      PROVE  EditTypeInv'
  BY <1>2 DEF EditTypeInv, EditTypeOK, RowsFinite, edit
<1>3. ASSUME NEW e \in Edits, EditStep(e) PROVE TypeInv'
  <2>1. UNCHANGED <<payment, callback>>
    BY <1>3 DEF EditStep, BeginAdd, BeginRemove, EditRead, FindItem, Insert, Delete,
       Recalculate, Retotal, AbandonEdit
  <2> QED
    BY <1>1, <1>3, <2>1, EditTypes DEF EditTypeInv
<1>4. ASSUME NEW g \in Pages, PageStep(g) PROVE TypeInv'
  BY <1>2, <1>4, PageTypes DEF EditTypeInv
<1>5. CASE MoveOn \/ UNCHANGED vars
  <2>1. UNCHANGED <<payment, callback, lines, subtotal, total, edit>> /\ modifiable' \in BOOLEAN
    BY <1>5 DEF MoveOn, vars, order, EditTypeOK
  <2> QED
    BY <1>1, <1>2, <2>1 DEF EditTypeInv
<1>6. ASSUME NEW a \in Asked, MakeLink(a) PROVE TypeInv'
  <2>1. links' \in SUBSET Int /\ charged' \in SUBSET links'
    BY <1>6, AmountsAssumption DEF MakeLink, PaymentTypeOK
  <2>2. PaymentTypeOK'
    BY <1>6, <2>1 DEF MakeLink, PaymentTypeOK, callback
  <2> QED
    BY <1>2, <1>6, <2>2 DEF MakeLink, order, EditTypeInv, EditTypeOK
<1>7. ASSUME NEW a \in links, Charge(a) PROVE TypeInv'
  <2>1. charged' \in SUBSET links'
    BY <1>7 DEF Charge, PaymentTypeOK
  <2>2. PaymentTypeOK'
    BY <1>7, <2>1 DEF Charge, PaymentTypeOK, callback
  <2> QED
    BY <1>2, <1>7, <2>2 DEF Charge, order, EditTypeInv, EditTypeOK
<1> QED
  BY <1>3, <1>4, <1>5, <1>6, <1>7 DEF Next

\* Every total is a number, although addItems validates no quantity and a discount
\* has no upper bound: however many lines overlapping edits add and remove, the sum
\* in addItems and removeItem ranges over finitely many of them.
THEOREM TypeCorrect == Spec => []TypeOK
<1>1. TypeInv => TypeOK
  BY DEF TypeInv
<1> QED
  BY <1>1, InitialTypes, TypesKept, PTL DEF Spec

=============================================================================
