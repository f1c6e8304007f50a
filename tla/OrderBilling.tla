----------------------------- MODULE OrderBilling -----------------------------
(***************************************************************************)
(* What an order costs, what its customer is charged, what is recorded and *)
(* what the customer is told.                                              *)
(*                                                                         *)
(* order-service (order.service.ts) lets lines be added and removed while  *)
(* the status is PENDING or CONFIRMED.  An edit tests the status, and then *)
(* runs a transaction that writes lines, reads all of them and writes the  *)
(* totals.  The order's payment link, if the provider made it, has the     *)
(* total the order had then; POST /payment makes a link of any amount for  *)
(* any order (payment.controller.ts).  The provider sends who has paid to  *)
(* the success page of payment-service, but anybody can open it: it asks   *)
(* order-service to record a payment, waits five seconds, and gives up.    *)
(*                                                                         *)
(* The database is at read committed: a statement sees what is committed   *)
(* and what its own transaction did.  OrderItem is unique by order and     *)
(* product, so an insert waits for an open transaction that inserted or    *)
(* deleted a line of the same product.  Payments by other ways than the    *)
(* link, and the steps of the status, are in OrderLifecycle.               *)
(***************************************************************************)
EXTENDS Integers, Sequences, FiniteSets, Functions

CONSTANTS
    Products,
    Edits,      \* requests to add or remove lines
    Creation,   \* in the place of an edit: a line the order was created with
    Additions,  \* the lists of lines that are added: [product, amount]
    Quotes,     \* subtotals of a new order
    Charges,    \* tax and shipping less discount
    Asked,      \* amounts for which POST /payment makes links
    Pages       \* loads of the success and failure pages

\* addItems validates no quantity, and a discount has no upper bound.
Item == [product : Products, amount : Int]

ASSUME ProductsAssumption == IsFiniteSet(Products)
ASSUME CreationAssumption == Creation \notin Edits
ASSUME AdditionsAssumption == Additions \subseteq Seq(Item)
ASSUME AmountsAssumption == Quotes \cup Asked \subseteq Int /\ Charges \in Int

VARIABLES
    lines,      \* committed OrderItem rows
    subtotal,   \* Order.subtotal
    total,      \* Order.totalAmount
    modifiable, \* whether Order.status is PENDING or CONFIRMED
    added,      \* what each edit adds
    target,     \* the line an edit removes: {} or {line}
    epc,        \* where each edit stands
    own,        \* lines its open transaction has inserted
    sum,        \* the subtotal it has computed
    quoted,     \* the total the order was created with
    links,      \* the amounts of its payment links
    charged,    \* the amounts that were paid at the provider
    recorded,   \* the Payment row each page has led to: {} or {amount}
    kind, page, \* what each page is, and what the customer sees on it
    rpc,        \* where its request to order-service stands
    read,       \* the total that request has read
    overlapped, \* history: whether two edits were ever in progress at once
    invited,    \* history: whether anything was charged when a page was loaded
    late        \* history: whether an edit was committed when a request read the total

order == <<lines, subtotal, total, modifiable>>
edit == <<added, target, epc, own, sum, overlapped>>
payment == <<quoted, links, charged, recorded>>
callback == <<kind, page, rpc, read, invited, late>>
vars == <<order, edit, payment, callback>>

Line == [product : Products, amount : Int, by : Edits \cup {Creation}]

\* calculateSubtotal; an amount stands for unitPrice * quantity.
Subtotal(ls) == SumFunction([l \in ls |-> l.amount])

\* The lines of a new order have the prices of the catalogue, and only products
\* in stock; its subtotal has the prices and the products of the request.
Init ==
    /\ \E kept \in SUBSET Products, price \in [Products -> Quotes] :
          lines = {[product |-> p, amount |-> price[p], by |-> Creation] : p \in kept}
    /\ subtotal \in Quotes
    /\ total = subtotal + Charges
    /\ modifiable = TRUE
    /\ added = [e \in Edits |-> << >>]
    /\ target = [e \in Edits |-> {}]
    /\ epc = [e \in Edits |-> "idle"]
    /\ own = [e \in Edits |-> {}]
    /\ sum = [e \in Edits |-> 0]
    /\ overlapped = FALSE
    /\ quoted = total
    /\ links \in {{}, {total}}
    /\ charged = {}
    /\ recorded = [g \in Pages |-> {}]
    /\ kind = [g \in Pages |-> "none"]
    /\ page = [g \in Pages |-> "idle"]
    /\ rpc = [g \in Pages |-> "none"]
    /\ read = [g \in Pages |-> 0]
    /\ invited = [g \in Pages |-> FALSE]
    /\ late = [g \in Pages |-> FALSE]

-----------------------------------------------------------------------------
(* addItems and removeItem *)

EditEnded == {"done", "refused", "failed"}
InProgress == {e \in Edits : epc[e] \notin EditEnded \cup {"idle"}}

EditGoto(e, step) == epc' = [epc EXCEPT ![e] = step]

\* The edit is answered, its transaction is closed, its locals are gone.
EditEnds(e, how) ==
    /\ EditGoto(e, how)
    /\ added' = [added EXCEPT ![e] = << >>]
    /\ target' = [target EXCEPT ![e] = {}]
    /\ own' = [own EXCEPT ![e] = {}]
    /\ sum' = [sum EXCEPT ![e] = 0]

BeginAdd(e) ==
    /\ epc[e] = "idle"
    /\ \E items \in Additions : added' = [added EXCEPT ![e] = items]
    /\ EditGoto(e, "status")
    /\ overlapped' = (overlapped \/ InProgress # {})
    /\ UNCHANGED <<order, target, own, sum, payment, callback>>

BeginRemove(e) ==
    /\ epc[e] = "idle"
    /\ \E l \in lines : target' = [target EXCEPT ![e] = {l}]
    /\ EditGoto(e, "status")
    /\ overlapped' = (overlapped \/ InProgress # {})
    /\ UNCHANGED <<order, added, own, sum, payment, callback>>

\* findOne and the test of its status.
EditRead(e) ==
    /\ epc[e] = "status"
    /\ IF modifiable
       THEN /\ EditGoto(e, IF target[e] = {} THEN "insert" ELSE "find")
            /\ UNCHANGED <<added, target, own, sum>>
       ELSE EditEnds(e, "refused")
    /\ UNCHANGED <<order, overlapped, payment, callback>>

FindItem(e) ==
    /\ epc[e] = "find"
    /\ IF target[e] \subseteq lines
       THEN EditGoto(e, "delete") /\ UNCHANGED <<added, target, own, sum>>
       ELSE EditEnds(e, "refused")
    /\ UNCHANGED <<order, overlapped, payment, callback>>

\* The lines an open transaction has deleted.
Deleted(e) == IF epc[e] \in {"deleted", "total"} THEN target[e] ELSE {}

Inserted(e) == Cardinality(own[e])

\* A bug: the lines are told apart by their ids alone.
BugUnindexed(product, ls) == FALSE

HasProduct(product, ls) == \E l \in ls : l.product = product

\* One orderItem.create.  A product the order has already violates the unique
\* index, and the transaction rolls back.
Insert(e) ==
    /\ epc[e] = "insert"
    /\ Inserted(e) < Len(added[e])
    /\ LET item == added[e][Inserted(e) + 1]
       IN  /\ \A d \in Edits \ {e} : ~HasProduct(item.product, own[d] \cup Deleted(d))
           /\ IF HasProduct(item.product, lines \cup own[e])
              THEN EditEnds(e, "failed")
              ELSE /\ own' = [own EXCEPT ![e] = @ \cup
                                {[product |-> item.product, amount |-> item.amount, by |-> e]}]
                   /\ UNCHANGED <<added, target, epc, sum>>
    /\ UNCHANGED <<order, overlapped, payment, callback>>

\* orderItem.delete: waits for another deletion of the line, fails if it is gone.
Delete(e) ==
    /\ epc[e] = "delete"
    /\ \A d \in Edits : Deleted(d) \cap target[e] = {}
    /\ IF target[e] \subseteq lines
       THEN EditGoto(e, "deleted") /\ UNCHANGED <<added, target, own, sum>>
       ELSE EditEnds(e, "failed")
    /\ UNCHANGED <<order, overlapped, payment, callback>>

LinesSeen(e) == (lines \ Deleted(e)) \cup own[e]

\* A bug: the lines are read outside the transaction.
BugOutsideRecalculate(e) ==
    /\ \/ epc[e] = "insert" /\ Inserted(e) = Len(added[e])
       \/ epc[e] = "deleted"
    /\ sum' = [sum EXCEPT ![e] = Subtotal(lines)]
    /\ EditGoto(e, "total")
    /\ UNCHANGED <<order, added, target, own, overlapped, payment, callback>>

\* tx.order.findUnique with its lines, and calculateSubtotal.
Recalculate(e) ==
    /\ \/ epc[e] = "insert" /\ Inserted(e) = Len(added[e])
       \/ epc[e] = "deleted"
    /\ sum' = [sum EXCEPT ![e] = Subtotal(LinesSeen(e))]
    /\ EditGoto(e, "total")
    /\ UNCHANGED <<order, added, target, own, overlapped, payment, callback>>

\* tx.order.update and the commit: the total is the subtotal alone.
Retotal(e) ==
    /\ epc[e] = "total"
    /\ lines' = LinesSeen(e)
    /\ subtotal' = sum[e]
    /\ total' = sum[e]
    /\ EditEnds(e, "done")
    /\ UNCHANGED <<modifiable, overlapped, payment, callback>>

\* A statement fails, the transaction times out, or the database ends it because
\* two edits wait for each other's products.
AbandonEdit(e) ==
    /\ e \in InProgress
    /\ EditEnds(e, "failed")
    /\ UNCHANGED <<order, overlapped, payment, callback>>

\* The order is prepared, shipped or cancelled (OrderLifecycle).
MoveOn ==
    /\ modifiable
    /\ modifiable' = FALSE
    /\ UNCHANGED <<lines, subtotal, total, edit, payment, callback>>

-----------------------------------------------------------------------------
(* The provider and the pages of payment-service *)

\* A bug: an order has one link, and a new one takes its place.
BugSingleMakeLink(a) ==
    /\ links' = {a}
    /\ UNCHANGED <<order, edit, quoted, charged, recorded, callback>>

\* POST /payment: order-service is not asked, and only the status that the body
\* itself carries is looked at.
MakeLink(a) ==
    /\ links' = links \cup {a}
    /\ UNCHANGED <<order, edit, quoted, charged, recorded, callback>>

Charge(a) ==
    /\ a \in links
    /\ charged' = charged \cup {a}
    /\ UNCHANGED <<order, edit, quoted, links, recorded, callback>>

\* A page is loaded, by whom the provider has sent there or by anybody else:
\* neither the status nor the payment_id of the request is looked at.
Load(g, k) ==
    /\ page[g] = "idle"
    /\ kind' = [kind EXCEPT ![g] = k]
    /\ page' = [page EXCEPT ![g] = "waiting"]
    /\ rpc' = [rpc EXCEPT ![g] = "queued"]
    /\ invited' = [invited EXCEPT ![g] = charged # {}]
    /\ UNCHANGED <<order, edit, payment, read, late>>

\* What the page says when the request was answered, and when it was not:
\* handleFailedPayment swallows the error, handleSuccessfulPayment throws it.
Verdict(g, answered) ==
    IF kind[g] = "failure" THEN "notPaid" ELSE IF answered THEN "paid" ELSE "error"

Answer(g) ==
    /\ page[g] = "waiting"
    /\ rpc[g] \in {"ok", "error"}
    /\ page' = [page EXCEPT ![g] = Verdict(g, rpc[g] = "ok")]
    /\ UNCHANGED <<order, edit, payment, kind, rpc, read, invited, late>>

\* A bug: a request that was not answered within five seconds counts as done.
BugHopefulTimeOut(g) ==
    /\ page[g] = "waiting"
    /\ page' = [page EXCEPT ![g] = Verdict(g, TRUE)]
    /\ UNCHANGED <<order, edit, payment, kind, rpc, read, invited, late>>

\* timeout(5000): the page gives up, the request goes on.
TimeOut(g) ==
    /\ page[g] = "waiting"
    /\ page' = [page EXCEPT ![g] = Verdict(g, FALSE)]
    /\ UNCHANGED <<order, edit, payment, kind, rpc, read, invited, late>>

-----------------------------------------------------------------------------
(* updatePaymentStatus of order-service *)

AlreadyPaid == \E g \in Pages : recorded[g] # {}

\* Some edit has been committed.
Edited == \E e \in Edits : epc[e] = "done"

\* A bug: the payment is recorded with the subtotal.
BugUntaxedNotifyRead(g) ==
    /\ rpc[g] = "queued"
    /\ rpc' = [rpc EXCEPT ![g] = IF AlreadyPaid THEN "ok" ELSE "write"]
    /\ read' = [read EXCEPT ![g] = subtotal]
    /\ late' = [late EXCEPT ![g] = Edited]
    /\ UNCHANGED <<order, edit, payment, kind, page, invited>>

NotifyRead(g) ==
    /\ rpc[g] = "queued"
    /\ rpc' = [rpc EXCEPT ![g] = IF AlreadyPaid THEN "ok" ELSE "write"]
    /\ read' = [read EXCEPT ![g] = total]
    /\ late' = [late EXCEPT ![g] = Edited]
    /\ UNCHANGED <<order, edit, payment, kind, page, invited>>

\* A payment makes the order CONFIRMED and is recorded with the total that was
\* read; a failed one changes nothing here.
NotifyWrite(g) ==
    /\ rpc[g] = "write"
    /\ rpc' = [rpc EXCEPT ![g] = "ok"]
    /\ IF kind[g] = "success"
       THEN modifiable' = TRUE /\ recorded' = [recorded EXCEPT ![g] = {read[g]}]
       ELSE UNCHANGED <<modifiable, recorded>>
    /\ read' = [read EXCEPT ![g] = 0]
    /\ UNCHANGED <<lines, subtotal, total, edit, quoted, links, charged, kind, page, invited, late>>

\* order-service answers with an error, or stops: the request was acknowledged
\* when it was delivered, and is never answered.
NotifyFails(g) ==
    /\ rpc[g] \in {"queued", "write"}
    /\ \E end \in {"error", "lost"} : rpc' = [rpc EXCEPT ![g] = end]
    /\ read' = [read EXCEPT ![g] = 0]
    /\ UNCHANGED <<order, edit, payment, kind, page, invited, late>>

-----------------------------------------------------------------------------

EditStep(e) ==
    \/ BeginAdd(e) \/ BeginRemove(e) \/ EditRead(e) \/ FindItem(e)
    \/ Insert(e) \/ Delete(e) \/ Recalculate(e) \/ Retotal(e) \/ AbandonEdit(e)

PageStep(g) ==
    \/ Load(g, "success") \/ Load(g, "failure") \/ Answer(g) \/ TimeOut(g)
    \/ NotifyRead(g) \/ NotifyWrite(g) \/ NotifyFails(g)

Next ==
    \/ \E e \in Edits : EditStep(e)
    \/ \E g \in Pages : PageStep(g)
    \/ MoveOn
    \/ \E a \in Asked : MakeLink(a)
    \/ \E a \in links : Charge(a)

Spec == Init /\ [][Next]_vars

-----------------------------------------------------------------------------
(* Properties *)

EditTypeOK ==
    /\ lines \in SUBSET Line
    /\ subtotal \in Int /\ total \in Int
    /\ modifiable \in BOOLEAN /\ overlapped \in BOOLEAN
    /\ added \in [Edits -> Additions \cup {<< >>}]
    /\ target \in [Edits -> SUBSET Line]
    /\ epc \in [Edits -> EditEnded \cup {"idle", "status", "insert", "find", "delete",
                                         "deleted", "total"}]
    /\ own \in [Edits -> SUBSET Line]
    /\ sum \in [Edits -> Int]

PaymentTypeOK ==
    /\ quoted \in Int /\ links \in SUBSET Int /\ charged \in SUBSET links
    /\ recorded \in [Pages -> SUBSET Int]
    /\ kind \in [Pages -> {"none", "success", "failure"}]
    /\ page \in [Pages -> {"idle", "waiting", "paid", "notPaid", "error"}]
    /\ rpc \in [Pages -> {"none", "queued", "write", "ok", "error", "lost"}]
    /\ read \in [Pages -> Int]
    /\ invited \in [Pages -> BOOLEAN] /\ late \in [Pages -> BOOLEAN]

TypeOK == EditTypeOK /\ PaymentTypeOK

\* Who is told that the payment was processed finds one recorded, whatever was lost,
\* late or loaded again (paymentSuccess).  That anybody paid is not promised: the
\* page can be loaded with nothing charged, and a payment is recorded then too.
PaidPageIsBacked ==
    \A g \in Pages : page[g] = "paid" => AlreadyPaid

\* What a page records is the total the order was created with, unless an edit was
\* committed before the request read it; and that is what was charged, if anything
\* was when the page was loaded and POST /payment has made no link of another
\* amount (updatePaymentStatus, createPayment).
RecordedIsCharged ==
    \A g \in Pages : \A a \in recorded[g] :
        ~late[g] =>
            /\ a = quoted
            /\ invited[g] /\ links \subseteq {quoted} => charged = {a}

\* Edits that come one after the other leave totals that fit the lines, also when
\* some of them are refused or fail half way (addItems, removeItem).
TotalsFitLines ==
    InProgress = {} /\ ~overlapped /\ Edited =>
        subtotal = Subtotal(lines) /\ total = subtotal

\* The order has one line per product ("Un producto aparece una sola vez por
\* orden"), although edits that add and remove it overlap.
OneLinePerProduct ==
    \A l1, l2 \in lines : l1.product = l2.product => l1 = l2

\* The order, and what an open transaction has inserted, have finitely many lines:
\* without that their sum need not be a number.
RowsFinite == IsFiniteSet(lines) /\ \A e \in Edits : IsFiniteSet(own[e])

TypeInv == TypeOK /\ RowsFinite

-----------------------------------------------------------------------------
(* The invariant that makes the properties of payments hold *)

Shapes ==
    /\ DOMAIN epc = Edits /\ DOMAIN recorded = Pages /\ DOMAIN read = Pages
    /\ DOMAIN kind = Pages /\ DOMAIN page = Pages /\ DOMAIN rpc = Pages
    /\ DOMAIN invited = Pages /\ DOMAIN late = Pages

\* order-service agrees to a payment only when one is recorded, and a page's own is
\* the last thing its request does.
PagesSound ==
    \A g \in Pages :
        /\ IF page[g] = "idle" THEN rpc[g] = "none" ELSE kind[g] \in {"success", "failure"}
        /\ kind[g] = "success" /\ rpc[g] = "ok" => AlreadyPaid
        /\ recorded[g] # {} => rpc[g] = "ok"

\* What is read is what the order was created with until an edit commits, and who
\* was charged has used a link.
AmountsSound ==
    /\ total = quoted \/ Edited
    /\ \A g \in Pages : rpc[g] = "write" => read[g] = quoted \/ late[g]
    /\ charged \subseteq links
    /\ \A g \in Pages : invited[g] => charged # {}

IInv == Shapes /\ PagesSound /\ AmountsSound /\ PaidPageIsBacked /\ RecordedIsCharged

-----------------------------------------------------------------------------
(* The invariant that makes the properties of edits hold *)

EditShapes ==
    /\ DOMAIN epc = Edits /\ DOMAIN own = Edits /\ DOMAIN sum = Edits
    /\ DOMAIN added = Edits /\ DOMAIN target = Edits
    /\ \A e \in Edits : epc[e] = "insert" => target[e] = {}

\* A line some open transaction has inserted is the only one of its product, among
\* the committed lines and those of all transactions.
InsertedOnce ==
    \A e \in Edits : \A l \in own[e] :
        /\ ~HasProduct(l.product, lines)
        /\ \A d \in Edits : \A k \in own[d] : k.product = l.product => d = e /\ k = l

\* Until edits overlap, the one in progress computes its sum from the lines it leaves.
SerialSound ==
    ~overlapped =>
        /\ \A d, e \in InProgress : d = e
        /\ \A e \in Edits : epc[e] = "total" => sum[e] = Subtotal(LinesSeen(e))
        /\ Edited => subtotal = Subtotal(lines) /\ total = subtotal

EditInv == EditShapes /\ OneLinePerProduct /\ InsertedOnce /\ SerialSound

=============================================================================
