---------------------------- MODULE OrderLifecycle ----------------------------
(***************************************************************************)
(* The life of one order in order-service (order.service.ts), from its     *)
(* creation as PENDING.                                                    *)
(*                                                                         *)
(* HTTP requests, RPC messages and events reach the order through the      *)
(* operations of OrderService.  Every operation reads the order, decides   *)
(* on what it read, and writes later: between two of its database or       *)
(* broker calls any other operation may run, and nothing is read again     *)
(* before the write.  An operation is a frame with a program counter; one  *)
(* action is what it does between two awaits.                              *)
(*                                                                         *)
(* Orders share no state, so one order is modelled.  Requests about an     *)
(* order that does not exist, or of a user without rights on it, change    *)
(* nothing and are left out.                                               *)
(***************************************************************************)
EXTENDS Integers, Sequences, FiniteSets

CONSTANTS
    Frames,     \* the requests, messages and events that reach the order
    Calls,      \* what they ask for
    MaxActive,  \* how many of them may be in progress at once
    Faults      \* whether database calls fail and the service restarts

OrderStatus == {"PENDING", "PROCESSING", "CONFIRMED", "SHIPPED", "DELIVERED",
                "CANCELLED", "REFUNDED"}

FulfillmentStatus == {"PENDING", "PROCESSING", "SHIPPED", "DELIVERED"}

\* mapShippingStatusToFulfillment yields two values the enum does not have.
ShippingStatus == FulfillmentStatus \cup {"RETURNED", "FAILED"}

CallType ==
    [op : {"processPayment", "paymentConfirmed", "rejectOrder", "cancelOrder",
           "refundOrder"},
     to : {"none"}, admin : {FALSE}]
      \cup [op : {"updateFulfillment"}, to : ShippingStatus, admin : {FALSE}]
      \cup [op : {"updateStatus"}, to : OrderStatus, admin : BOOLEAN]
      \cup [op : {"updatePaymentStatus"}, to : {"PAID", "FAILED"}, admin : {FALSE}]

ASSUME CallsAssumption == Calls \subseteq CallType
ASSUME MaxActiveAssumption == MaxActive \in Nat
ASSUME FaultsAssumption == Faults \in BOOLEAN

allowedTransitions ==
    [s \in OrderStatus |->
        CASE s = "PENDING"    -> {"CONFIRMED", "CANCELLED"}
          [] s = "CONFIRMED"  -> {"PROCESSING", "CANCELLED"}
          [] s = "PROCESSING" -> {"SHIPPED", "CANCELLED"}
          [] s = "SHIPPED"    -> {"DELIVERED", "CANCELLED"}
          [] s = "DELIVERED"  -> {"REFUNDED"}
          [] OTHER            -> {}]

adminForcedTransitions ==
    [s \in OrderStatus |->
        CASE s = "PENDING"    -> {"CONFIRMED", "PROCESSING", "SHIPPED"}
          [] s = "CONFIRMED"  -> {"PROCESSING", "SHIPPED", "CANCELLED"}
          [] s = "PROCESSING" -> {"SHIPPED", "CANCELLED"}
          [] s = "SHIPPED"    -> {"DELIVERED", "CANCELLED", "REFUNDED"}
          [] s = "DELIVERED"  -> {"REFUNDED"}
          [] OTHER            -> {}]

VARIABLES
    status,         \* Order.status
    paymentStatus,  \* Order.paymentStatus, "none" for null
    history,        \* OrderStatusHistory.status, in the order of insertion
    paid,           \* number of Payment rows PAID
    refunded,       \* number of Payment rows REFUNDED
    fulfillments,   \* statuses of the Fulfillment rows
    call,           \* what each frame was asked
    pc,             \* where each frame stands
    seen            \* the status each frame read, where it uses it later

order == <<status, paymentStatus, history, paid, refunded, fulfillments>>
vars == <<order, call, pc, seen>>

NoCall == [op |-> "none", to |-> "none", admin |-> FALSE]

Ended == {"done", "refused", "failed", "lost"}   \* "lost" to a fault or a restart
Active == {f \in Frames : pc[f] \notin Ended \cup {"idle"}}

Init ==
    /\ status = "PENDING"
    /\ paymentStatus = "none"
    /\ history = <<"PENDING">>
    /\ paid = 0
    /\ refunded = 0
    /\ fulfillments = {}
    /\ call = [f \in Frames |-> NoCall]
    /\ pc = [f \in Frames |-> "idle"]
    /\ seen = [f \in Frames |-> "PENDING"]

-----------------------------------------------------------------------------
(* Control *)

FirstStep(c) ==
    CASE c.op \in {"processPayment", "paymentConfirmed"} -> "payRead"
      [] c.op = "rejectOrder"                            -> "rejectRead"
      [] c.op = "cancelOrder"                            -> "cancelRead"
      [] c.op = "refundOrder"                            -> "refundRead"
      [] c.op = "updateFulfillment"                      -> "fulfil"
      [] c.op = "updateStatus"                           -> "statusRead"
      [] c.op = "updatePaymentStatus"                    -> "notifyRead"

\* The steps of processPayment, which handlePaymentConfirmed wraps in a try.
PaySteps == {"payRead", "pay", "payAdvance", "payEmit"}

\* Where an exception takes the frame: the catch of handlePaymentConfirmed calls
\* rejectOrder, any other frame ends with an error.
Thrown(f) ==
    IF call[f].op = "paymentConfirmed" /\ pc[f] \in PaySteps THEN "rejectRead" ELSE "failed"

Goto(f, step) == pc' = [pc EXCEPT ![f] = step]

\* prisma.order.update with a nested statusHistory.create: one transaction.
SetStatus(s) == status' = s /\ history' = Append(history, s)

Begin(f, c) ==
    /\ pc[f] = "idle"
    /\ Cardinality(Active) < MaxActive
    /\ call' = [call EXCEPT ![f] = c]
    /\ Goto(f, FirstStep(c))
    /\ UNCHANGED <<order, seen>>

-----------------------------------------------------------------------------
(* processPayment *)

PayRead(f) ==
    /\ pc[f] = "payRead"
    /\ Goto(f, IF status = "PENDING" THEN "pay"
               ELSE IF Thrown(f) = "failed" THEN "refused" ELSE Thrown(f))
    /\ UNCHANGED <<order, call, seen>>

\* A bug: the payment is announced before the order moves on.
BugEarlyEmitPayCreate(f) ==
    /\ pc[f] = "pay"
    /\ paid' = paid + 1
    /\ Goto(f, "payEmit")
    /\ UNCHANGED <<status, paymentStatus, history, refunded, fulfillments, call, seen>>

PayCreate(f) ==
    /\ pc[f] = "pay"
    /\ paid' = paid + 1
    /\ Goto(f, "payAdvance")
    /\ UNCHANGED <<status, paymentStatus, history, refunded, fulfillments, call, seen>>

PayAdvance(f) ==
    /\ pc[f] = "payAdvance"
    /\ SetStatus("PROCESSING")
    /\ Goto(f, "payEmit")
    /\ UNCHANGED <<paymentStatus, paid, refunded, fulfillments, call, seen>>

\* emitEvent is a request to payment-service, which answers every pattern but
\* 'order.created' with "no matching message handler": the await throws.
PayEmit(f) ==
    /\ pc[f] = "payEmit"
    /\ Goto(f, Thrown(f))
    /\ UNCHANGED <<order, call, seen>>

\* The last await of rejectOrder, refundOrder and updateFulfillment, likewise.
Emit(f) ==
    /\ pc[f] = "emit"
    /\ Goto(f, Thrown(f))
    /\ UNCHANGED <<order, call, seen>>

-----------------------------------------------------------------------------
(* rejectOrder, and the controller's cancelOrder which ends in it *)

CancelRead(f) ==
    /\ pc[f] = "cancelRead"
    /\ Goto(f, IF status = "PENDING" THEN "rejectRead" ELSE "refused")
    /\ UNCHANGED <<order, call, seen>>

\* A bug: every order that is not cancelled yet is rejected.
BugAnyRejectRead(f) ==
    /\ pc[f] = "rejectRead"
    /\ Goto(f, IF status # "CANCELLED" THEN "rejectWrite" ELSE "refused")
    /\ UNCHANGED <<order, call, seen>>

RejectRead(f) ==
    /\ pc[f] = "rejectRead"
    /\ Goto(f, IF status \in {"PENDING", "PROCESSING"} THEN "rejectWrite" ELSE "refused")
    /\ UNCHANGED <<order, call, seen>>

RejectWrite(f) ==
    /\ pc[f] = "rejectWrite"
    /\ SetStatus("CANCELLED")
    /\ Goto(f, "emit")
    /\ UNCHANGED <<paymentStatus, paid, refunded, fulfillments, call, seen>>

-----------------------------------------------------------------------------
(* refundOrder *)

\* A bug: an order that is only being prepared is refunded too.
BugEarlyRefundRead(f) ==
    /\ pc[f] = "refundRead"
    /\ Goto(f, IF status \in {"PROCESSING", "SHIPPED", "DELIVERED"} THEN "refundCreate"
               ELSE "refused")
    /\ UNCHANGED <<order, call, seen>>

RefundRead(f) ==
    /\ pc[f] = "refundRead"
    /\ Goto(f, IF status \in {"SHIPPED", "DELIVERED"} THEN "refundCreate" ELSE "refused")
    /\ UNCHANGED <<order, call, seen>>

RefundCreate(f) ==
    /\ pc[f] = "refundCreate"
    /\ refunded' = refunded + 1
    /\ Goto(f, "refundWrite")
    /\ UNCHANGED <<status, paymentStatus, history, paid, fulfillments, call, seen>>

RefundWrite(f) ==
    /\ pc[f] = "refundWrite"
    /\ SetStatus("REFUNDED")
    /\ Goto(f, "emit")
    /\ UNCHANGED <<paymentStatus, paid, refunded, fulfillments, call, seen>>

-----------------------------------------------------------------------------
(* updateFulfillment, from HTTP or from 'shipping.updated': no test of status *)

\* A bug: the mapped status is stored without the enum's check.
BugAnyFulfil(f) ==
    /\ pc[f] = "fulfil"
    /\ fulfillments' = fulfillments \cup {call[f].to}
    /\ Goto(f, IF call[f].to \in {"SHIPPED", "DELIVERED"} THEN "fulfilWrite" ELSE "done")
    /\ UNCHANGED <<status, paymentStatus, history, paid, refunded, call, seen>>

Fulfil(f) ==
    /\ pc[f] = "fulfil"
    /\ IF call[f].to \in FulfillmentStatus
       THEN /\ fulfillments' = fulfillments \cup {call[f].to}
            /\ Goto(f, IF call[f].to \in {"SHIPPED", "DELIVERED"} THEN "fulfilWrite" ELSE "done")
       ELSE Goto(f, Thrown(f)) /\ UNCHANGED fulfillments
    /\ UNCHANGED <<status, paymentStatus, history, paid, refunded, call, seen>>

FulfilWrite(f) ==
    /\ pc[f] = "fulfilWrite"
    /\ SetStatus(call[f].to)
    /\ Goto(f, "emit")
    /\ UNCHANGED <<paymentStatus, paid, refunded, fulfillments, call, seen>>

-----------------------------------------------------------------------------
(* updateStatus *)

validateStatusTransition(from, to, admin) ==
    to \in allowedTransitions[from] \/ (admin /\ to \in adminForcedTransitions[from])

StatusRead(f) ==
    /\ pc[f] = "statusRead"
    /\ Goto(f, IF /\ call[f].to # status
                  /\ validateStatusTransition(status, call[f].to, call[f].admin)
               THEN "statusWrite" ELSE "refused")
    /\ UNCHANGED <<order, call, seen>>

\* A bug: the status is updated without its history entry.
BugSilentStatusWrite(f) ==
    /\ pc[f] = "statusWrite"
    /\ IF call[f].to \in {"CANCELLED", "DELIVERED"}
       THEN Goto(f, Thrown(f)) /\ UNCHANGED status
       ELSE Goto(f, "done") /\ status' = call[f].to
    /\ UNCHANGED <<paymentStatus, history, paid, refunded, fulfillments, call, seen>>

\* The update also sets cancelledAt or deliveredAt, columns that model Order of
\* schema.prisma does not have: Prisma rejects it and the transaction rolls back.
StatusWrite(f) ==
    /\ pc[f] = "statusWrite"
    /\ IF call[f].to \in {"CANCELLED", "DELIVERED"}
       THEN Goto(f, Thrown(f)) /\ UNCHANGED <<status, history>>
       ELSE Goto(f, "done") /\ SetStatus(call[f].to)
    /\ UNCHANGED <<paymentStatus, paid, refunded, fulfillments, call, seen>>

-----------------------------------------------------------------------------
(* updatePaymentStatus, from payment-service's success and failure callbacks *)

\* A bug: payments already made are not looked at.
BugForgetfulNotifyRead(f) ==
    /\ pc[f] = "notifyRead"
    /\ seen' = [seen EXCEPT ![f] = status]
    /\ Goto(f, "notifyWrite")
    /\ UNCHANGED <<order, call>>

NotifyRead(f) ==
    /\ pc[f] = "notifyRead"
    /\ seen' = [seen EXCEPT ![f] = status]
    /\ Goto(f, IF paid > 0 THEN "done" ELSE "notifyWrite")
    /\ UNCHANGED <<order, call>>

\* A bug: the order is marked as paid and no payment row is made.
BugRowlessNotifyPaid(f) ==
    /\ pc[f] = "notifyWrite"
    /\ call[f].to = "PAID"
    /\ paymentStatus' = "PAID"
    /\ SetStatus("CONFIRMED")
    /\ Goto(f, "done")
    /\ UNCHANGED <<paid, refunded, fulfillments, call, seen>>

NotifyPaid(f) ==
    /\ pc[f] = "notifyWrite"
    /\ call[f].to = "PAID"
    /\ paymentStatus' = "PAID"
    /\ SetStatus("CONFIRMED")
    /\ paid' = paid + 1
    /\ Goto(f, "done")
    /\ UNCHANGED <<refunded, fulfillments, call, seen>>

\* The history entry carries the status that was read, not the present one.
NotifyFailed(f) ==
    /\ pc[f] = "notifyWrite"
    /\ call[f].to = "FAILED"
    /\ paymentStatus' = "FAILED"
    /\ history' = Append(history, seen[f])
    /\ Goto(f, "done")
    /\ UNCHANGED <<status, paid, refunded, fulfillments, call, seen>>

-----------------------------------------------------------------------------
(* Failures *)

\* A database or broker call of the frame fails and changes nothing.
Fault(f) ==
    /\ Faults
    /\ f \in Active
    /\ Goto(f, IF Thrown(f) = "failed" THEN "lost" ELSE Thrown(f))
    /\ UNCHANGED <<order, call, seen>>

\* The service stops: frames in progress are lost, and so are their messages,
\* which the queue considers acknowledged when it delivers them (noAck).
Restart ==
    /\ Faults
    /\ Active # {}
    /\ pc' = [f \in Frames |-> IF f \in Active THEN "lost" ELSE pc[f]]
    /\ UNCHANGED <<order, call, seen>>

-----------------------------------------------------------------------------

Step(f) ==
    \/ PayRead(f) \/ PayCreate(f) \/ PayAdvance(f) \/ PayEmit(f)
    \/ CancelRead(f) \/ RejectRead(f) \/ RejectWrite(f)
    \/ RefundRead(f) \/ RefundCreate(f) \/ RefundWrite(f)
    \/ Fulfil(f) \/ FulfilWrite(f)
    \/ StatusRead(f) \/ StatusWrite(f)
    \/ NotifyRead(f) \/ NotifyPaid(f) \/ NotifyFailed(f)
    \/ Emit(f)

Next ==
    \/ \E f \in Frames, c \in Calls : Begin(f, c)
    \/ \E f \in Frames : Step(f) \/ Fault(f)
    \/ Restart

Spec == Init /\ [][Next]_vars

-----------------------------------------------------------------------------
(* Properties *)

Steps ==
    {"idle", "payRead", "pay", "payAdvance", "payEmit", "cancelRead", "rejectRead",
     "rejectWrite", "refundRead", "refundCreate", "refundWrite", "fulfil",
     "fulfilWrite", "statusRead", "statusWrite", "notifyRead", "notifyWrite", "emit"}

TypeOK ==
    /\ status \in OrderStatus
    /\ paymentStatus \in {"none", "PAID", "FAILED"}
    /\ history \in Seq(OrderStatus)
    /\ paid \in Nat
    /\ refunded \in Nat
    /\ fulfillments \in SUBSET FulfillmentStatus
    /\ call \in [Frames -> CallType \cup {NoCall}]
    /\ pc \in [Frames -> Steps \cup Ended]
    /\ seen \in [Frames -> OrderStatus]

Recorded == {history[i] : i \in DOMAIN history}

\* The statuses in the history are exactly those the order has had: no operation
\* changes the status without an entry, and an entry made from an outdated read
\* (updatePaymentStatus) still names a status of the past.
HistoryRecordsStatuses ==
    [][{history'[i] : i \in DOMAIN history'} = Recorded \cup {status'}]_vars

\* However requests interleave or fail, money goes back only for an order that
\* was shipped or delivered at some time (refundOrder, updateStatus).
RefundedOnlyAfterShipping ==
    (refunded > 0 \/ status = "REFUNDED") => Recorded \cap {"SHIPPED", "DELIVERED"} # {}

\* An order says PAID only if a payment row backs it, although a late failure
\* callback may overwrite the field (updatePaymentStatus).
PaidFlagBacked == paymentStatus = "PAID" => paid > 0

\* When nothing is in progress and nothing was lost, an order with a payment does
\* not wait for one (schema.prisma: PENDING is "Pendiente de pago o procesamiento").
PaidLeavesPending ==
    Active = {} /\ (\A f \in Frames : pc[f] # "lost") /\ paid > 0 => status # "PENDING"

\* An order is charged once ("Pago Realizado con Anterioidad - ignorando").
AtMostOnePaid == paid <= 1

\* The operations that do not test the status they move the order from.
Untested == {"updateFulfillment", "updatePaymentStatus"}

\* A step of any other operation moves the status along the matrices of updateStatus
\* ("Matriz de transiciones permitidas", and what an admin may force).
AlongMatrix ==
    \A f \in Frames :
        status' # status /\ pc'[f] # pc[f] /\ call[f].op \notin Untested =>
            status' \in allowedTransitions[status] \cup adminForcedTransitions[status]

\* A payment.confirmed event that recorded its payment does not cancel the order
\* (the log says "procesada exitosamente", the enum "Pago confirmado").
ConfirmedPaymentKeepsOrder ==
    \A f \in Frames :
        call[f].op = "paymentConfirmed" /\ pc[f] \in Ended /\ paid > 0 => status # "CANCELLED"

-----------------------------------------------------------------------------
(* The invariant that makes the unconditional ones hold *)

\* The present status, and every status a frame has read, is in the history.
StatusRecorded == status \in Recorded /\ \A f \in Frames : seen[f] \in Recorded

ShipmentRecorded == Recorded \cap {"SHIPPED", "DELIVERED"} # {}

\* What a frame has decided on what it read stays justified until it writes,
\* because it rests on the history, which only grows.
WritesJustified ==
    \A f \in Frames :
        /\ pc[f] = "fulfilWrite" => call[f].to \in {"SHIPPED", "DELIVERED"}
        /\ pc[f] = "statusWrite" => call[f].to \in OrderStatus \ {"PENDING"}
        /\ pc[f] = "statusWrite" /\ call[f].to = "REFUNDED" => ShipmentRecorded
        /\ pc[f] \in {"refundCreate", "refundWrite"} => ShipmentRecorded

\* A payment of an order that is still PENDING has a frame that will move the
\* order on, or that was lost.
PaymentAttended ==
    paid > 0 /\ status = "PENDING" =>
        \E f \in Frames : pc[f] \in {"payAdvance", "rejectRead", "rejectWrite", "lost"}

IInv ==
    /\ TypeOK
    /\ StatusRecorded
    /\ WritesJustified
    /\ RefundedOnlyAfterShipping
    /\ PaidFlagBacked
    /\ PaymentAttended

=============================================================================
