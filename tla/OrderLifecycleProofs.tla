------------------------- MODULE OrderLifecycleProofs -------------------------
(***************************************************************************)
(* Proofs about OrderLifecycle, for any number of requests of any kind, in *)
(* progress together, with or without faults.                              *)
(*                                                                         *)
(* What an operation decided on a status it read may be outdated when it   *)
(* writes.  The history is not: it only grows, so a decision that rests on *)
(* the order having been shipped once stays justified (WritesJustified).   *)
(***************************************************************************)
EXTENDS OrderAlone, TLAPS

(* The history *)

\* One more entry adds its status to the recorded ones and removes none.
LEMMA AppendRecords ==
    ASSUME history \in Seq(OrderStatus), NEW s \in OrderStatus,
           history' = Append(history, s)
    PROVE  history' \in Seq(OrderStatus) /\ Recorded' = Recorded \cup {s}
<1>1. history' \in Seq(OrderStatus) /\ Len(history') = Len(history) + 1
  OBVIOUS
<1>2. DOMAIN history' = DOMAIN history \cup {Len(history) + 1}
  BY <1>1
<1>3. \A i \in DOMAIN history : history'[i] = history[i]
  OBVIOUS
<1>4. history'[Len(history) + 1] = s /\ Len(history) + 1 \notin DOMAIN history
  OBVIOUS
<1>5. QED
  BY <1>1, <1>2, <1>3, <1>4 DEF Recorded

-----------------------------------------------------------------------------
(* Type correctness *)

LEMMA FirstStepType ==
    ASSUME NEW c \in CallType PROVE FirstStep(c) \in Steps
BY DEF FirstStep, CallType, Steps

LEMMA AdminType ==
    ASSUME NEW c \in CallType \cup {NoCall} PROVE c.admin \in BOOLEAN
<1>1. ASSUME NEW S, NEW T, NEW A, c \in [op : S, to : T, admin : A] PROVE c.admin \in A
  BY <1>1
<1>2. c = NoCall => c.admin \in {FALSE}
  BY DEF NoCall
<1>3. c \in CallType => c.admin \in {FALSE} \/ c.admin \in BOOLEAN
  BY <1>1, Zenon DEF CallType
<1>4. QED
  BY <1>2, <1>3, Zenon

LEMMA TransitionType ==
    ASSUME NEW s \in OrderStatus, NEW t, NEW admin \in BOOLEAN,
           validateStatusTransition(s, t, admin)
    PROVE  /\ t \in OrderStatus \ {"PENDING"}
           /\ t = "REFUNDED" => s \in {"SHIPPED", "DELIVERED"}
BY DEF validateStatusTransition, allowedTransitions, adminForcedTransitions, OrderStatus

LEMMA InitialInvariant == Init => IInv
<1> SUFFICES ASSUME Init PROVE IInv
  OBVIOUS
<1>1. history \in Seq(OrderStatus) /\ Recorded = {"PENDING"}
  BY DEF Init, Recorded, OrderStatus
<1>2. TypeOK
  BY <1>1 DEF Init, TypeOK, OrderStatus, Steps
<1>3. StatusRecorded /\ WritesJustified
  BY <1>1 DEF Init, StatusRecorded, WritesJustified
<1>4. RefundedOnlyAfterShipping /\ PaidFlagBacked /\ PaymentAttended
  BY DEF Init, RefundedOnlyAfterShipping, PaidFlagBacked, PaymentAttended
<1>5. QED
  BY <1>2, <1>3, <1>4 DEF IInv

-----------------------------------------------------------------------------
(* What the actions have in common *)

\* The actions that touch nothing of the order.
Thinks(f) ==
    \/ PayRead(f) \/ PayEmit(f) \/ Emit(f) \/ CancelRead(f) \/ RejectRead(f)
    \/ RefundRead(f) \/ StatusRead(f) \/ NotifyRead(f) \/ Fault(f)

\* The actions that write the status s.
Writes(f, s) ==
    \/ s = "PROCESSING" /\ PayAdvance(f)
    \/ s = "CANCELLED" /\ RejectWrite(f)
    \/ s = "REFUNDED" /\ RefundWrite(f)
    \/ s = call[f].to /\ FulfilWrite(f)
    \/ s = call[f].to /\ s \notin {"CANCELLED", "DELIVERED"} /\ StatusWrite(f)
    \/ s = "CONFIRMED" /\ NotifyPaid(f)

\* Where the frame f may go when it thinks: to a write only if that is justified,
\* and not away from a payment of a PENDING order unless it is lost.
Justified(f, step) ==
    /\ step \in Steps \cup Ended
    /\ step \notin {"fulfilWrite", "refundWrite"}
    /\ step = "statusWrite" => call[f].to \in OrderStatus \ {"PENDING"}
    /\ step = "statusWrite" /\ call[f].to = "REFUNDED" => ShipmentRecorded
    /\ step = "refundCreate" => ShipmentRecorded
    /\ status = "PENDING" /\ pc[f] \in {"payAdvance", "rejectRead", "rejectWrite", "lost"} =>
           step \in {"rejectRead", "rejectWrite", "lost"}

LEMMA ThinksEffect ==
    ASSUME IInv, NEW f \in Frames, Thinks(f)
    PROVE  /\ UNCHANGED <<order, call>>
           /\ seen' \in {seen, [seen EXCEPT ![f] = status]}
           /\ \E step : Justified(f, step) /\ Goto(f, step)
<1> USE DEF IInv, TypeOK, Steps, Ended
<1>1. status \in {"SHIPPED", "DELIVERED"} => ShipmentRecorded
  BY DEF StatusRecorded, ShipmentRecorded
<1>2. Thrown(f) \in {"rejectRead", "failed"}
  BY DEF Thrown
<1>3. CASE PayRead(f) \/ PayEmit(f) \/ Emit(f) \/ CancelRead(f) \/ RejectRead(f)
  BY <1>2, <1>3 DEF PayRead, PayEmit, Emit, CancelRead, RejectRead, Justified, Goto
<1>4. CASE RefundRead(f)
  BY <1>1, <1>4 DEF RefundRead, Justified, Goto
<1>5. CASE StatusRead(f)
  <2>1. call[f] \in CallType \cup {NoCall} /\ status \in OrderStatus
    OBVIOUS
  <2>2. call[f].admin \in BOOLEAN
    BY <2>1, AdminType
  <2>3. validateStatusTransition(status, call[f].to, call[f].admin) =>
            /\ call[f].to \in OrderStatus \ {"PENDING"}
            /\ call[f].to = "REFUNDED" => ShipmentRecorded
    BY <1>1, <2>1, <2>2, TransitionType
  <2>4. QED
    BY <1>5, <2>3 DEF StatusRead, Justified, Goto
<1>6. CASE NotifyRead(f)
  BY <1>6 DEF NotifyRead, Justified, Goto
<1>7. CASE Fault(f)
  <2>1. pc[f] \notin Ended
    BY <1>7 DEF Fault, Active
  <2>2. QED
    BY <1>2, <1>7, <2>1 DEF Fault, Justified, Goto
<1>8. QED
  BY <1>3, <1>4, <1>5, <1>6, <1>7 DEF Thinks

LEMMA WritesEffect ==
    ASSUME IInv, NEW f \in Frames, NEW s, Writes(f, s)
    PROVE  /\ s \in OrderStatus \ {"PENDING"}
           /\ s = "REFUNDED" => ShipmentRecorded
           /\ SetStatus(s)
           /\ \E step \in {"payEmit", "emit", "done"} : Goto(f, step)
           /\ \/ UNCHANGED <<paymentStatus, paid>>
              \/ paymentStatus' = "PAID" /\ paid' = paid + 1
           /\ UNCHANGED <<refunded, fulfillments, call, seen>>
<1> USE DEF IInv, WritesJustified, OrderStatus
<1>1. CASE PayAdvance(f) /\ s = "PROCESSING"
  BY <1>1 DEF PayAdvance
<1>2. CASE RejectWrite(f) /\ s = "CANCELLED"
  BY <1>2 DEF RejectWrite
<1>3. CASE RefundWrite(f) /\ s = "REFUNDED"
  BY <1>3 DEF RefundWrite
<1>4. CASE FulfilWrite(f) /\ s = call[f].to
  BY <1>4 DEF FulfilWrite
<1>5. CASE StatusWrite(f) /\ s = call[f].to /\ s \notin {"CANCELLED", "DELIVERED"}
  BY <1>5 DEF StatusWrite
<1>6. CASE NotifyPaid(f) /\ s = "CONFIRMED"
  BY <1>6 DEF NotifyPaid
<1>7. QED
  BY <1>1, <1>2, <1>3, <1>4, <1>5, <1>6 DEF Writes

-----------------------------------------------------------------------------
(* Each class of actions keeps the invariant *)

LEMMA ThinksKeeps ==
    ASSUME IInv, NEW f \in Frames, Thinks(f)
    PROVE  IInv' /\ Recorded' = Recorded /\ status' = status
<1> USE DEF IInv
<1>1. /\ UNCHANGED <<order, call>>
      /\ seen' \in {seen, [seen EXCEPT ![f] = status]}
  BY ThinksEffect
<1>2. PICK step : Justified(f, step) /\ pc' = [pc EXCEPT ![f] = step]
  BY ThinksEffect DEF Goto
<1>3. \A g \in Frames : pc'[g] = IF g = f THEN step ELSE pc[g]
  BY <1>2 DEF TypeOK
<1>4. Recorded' = Recorded /\ (ShipmentRecorded' <=> ShipmentRecorded)
  BY <1>1 DEF order, Recorded, ShipmentRecorded
<1>5. TypeOK'
  BY <1>1, <1>2 DEF TypeOK, order, Justified
<1>6. StatusRecorded'
  BY <1>1, <1>4 DEF StatusRecorded, TypeOK, order
<1>7. WritesJustified'
  BY <1>1, <1>2, <1>3, <1>4 DEF WritesJustified, Justified
<1>8. RefundedOnlyAfterShipping' /\ PaidFlagBacked'
  BY <1>1, <1>4 DEF RefundedOnlyAfterShipping, PaidFlagBacked, order
<1>9. PaymentAttended'
  BY <1>1, <1>2, <1>3 DEF PaymentAttended, Justified, order
<1>10. QED
  BY <1>1, <1>4, <1>5, <1>6, <1>7, <1>8, <1>9 DEF order

LEMMA WritesKeeps ==
    ASSUME IInv, NEW f \in Frames, NEW s, Writes(f, s)
    PROVE  IInv' /\ Recorded' = Recorded \cup {status'}
<1> USE DEF IInv
<1>1. /\ s \in OrderStatus \ {"PENDING"} /\ (s = "REFUNDED" => ShipmentRecorded)
      /\ status' = s /\ history' = Append(history, s)
      /\ \/ UNCHANGED <<paymentStatus, paid>>
         \/ paymentStatus' = "PAID" /\ paid' = paid + 1
      /\ UNCHANGED <<refunded, fulfillments, call, seen>>
  BY WritesEffect DEF SetStatus
<1>2. PICK step \in {"payEmit", "emit", "done"} : pc' = [pc EXCEPT ![f] = step]
  BY WritesEffect DEF Goto
<1>3. \A g \in Frames : pc'[g] = IF g = f THEN step ELSE pc[g]
  BY <1>2 DEF TypeOK
<1>4. history' \in Seq(OrderStatus) /\ Recorded' = Recorded \cup {s}
  BY <1>1, AppendRecords DEF TypeOK
<1>5. ShipmentRecorded => ShipmentRecorded'
  BY <1>4 DEF ShipmentRecorded
<1>6. TypeOK'
  BY <1>1, <1>2, <1>4 DEF TypeOK, Steps, Ended
<1>7. StatusRecorded'
  BY <1>1, <1>4 DEF StatusRecorded
<1>8. WritesJustified'
  BY <1>1, <1>3, <1>5 DEF WritesJustified
<1>9. RefundedOnlyAfterShipping'
  BY <1>1, <1>4 DEF RefundedOnlyAfterShipping, ShipmentRecorded
<1>10. PaidFlagBacked' /\ PaymentAttended'
  BY <1>1 DEF PaidFlagBacked, PaymentAttended, TypeOK
<1>11. QED
  BY <1>1, <1>4, <1>6, <1>7, <1>8, <1>9, <1>10

\* The writes that leave the status alone.
LEMMA RowsKeep ==
    ASSUME IInv, NEW f \in Frames,
           PayCreate(f) \/ RefundCreate(f) \/ Fulfil(f) \/ NotifyFailed(f)
    PROVE  IInv' /\ Recorded' = Recorded /\ status' = status
<1> USE DEF IInv
<1>1. status \in OrderStatus /\ seen[f] \in OrderStatus /\ seen[f] \in Recorded
  BY DEF TypeOK, StatusRecorded
<1>2. /\ UNCHANGED <<status, call, seen>>
      /\ \/ history' = history
         \/ history' = Append(history, seen[f])
  BY DEF PayCreate, RefundCreate, Fulfil, NotifyFailed
<1>3. history' \in Seq(OrderStatus) /\ Recorded' = Recorded
  <2>1. CASE history' = history
    BY <2>1 DEF TypeOK, Recorded
  <2>2. CASE history' = Append(history, seen[f])
    BY <1>1, <2>2, AppendRecords DEF TypeOK
  <2>3. QED
    BY <1>2, <2>1, <2>2
<1>4. ShipmentRecorded' <=> ShipmentRecorded
  BY <1>3 DEF ShipmentRecorded
<1>5. Thrown(f) \in {"rejectRead", "failed"}
  BY DEF Thrown
<1>6. TypeOK'
  BY <1>2, <1>3, <1>5 DEF TypeOK, Steps, Ended, Goto, PayCreate, RefundCreate, Fulfil, NotifyFailed
<1>7. StatusRecorded'
  BY <1>2, <1>3 DEF StatusRecorded
<1>8. WritesJustified'
  BY <1>2, <1>4, <1>5 DEF WritesJustified, TypeOK, Goto, PayCreate, RefundCreate, Fulfil, NotifyFailed
<1>9. RefundedOnlyAfterShipping'
  BY <1>2, <1>3 DEF RefundedOnlyAfterShipping, WritesJustified, ShipmentRecorded,
                    PayCreate, RefundCreate, Fulfil, NotifyFailed
<1>10. PaidFlagBacked'
  BY DEF PaidFlagBacked, TypeOK, PayCreate, RefundCreate, Fulfil, NotifyFailed
<1>11. PaymentAttended'
  BY <1>2, <1>5 DEF PaymentAttended, TypeOK, Goto, PayCreate, RefundCreate, Fulfil, NotifyFailed
<1>12. QED
  BY <1>2, <1>3, <1>6, <1>7, <1>8, <1>9, <1>10, <1>11

LEMMA BeginKeeps ==
    ASSUME IInv, NEW f \in Frames, NEW c \in Calls, Begin(f, c)
    PROVE  IInv' /\ Recorded' = Recorded /\ status' = status
<1> USE DEF IInv
<1>1. c \in CallType /\ FirstStep(c) \in Steps
  BY CallsAssumption, FirstStepType
<1>2. UNCHANGED <<order, seen>> /\ pc[f] = "idle"
  BY DEF Begin
<1>3. \A g \in Frames : /\ pc'[g] = IF g = f THEN FirstStep(c) ELSE pc[g]
                        /\ call'[g] = IF g = f THEN c ELSE call[g]
  BY DEF Begin, Goto, TypeOK
<1>4. FirstStep(c) \notin {"fulfilWrite", "statusWrite", "refundCreate", "refundWrite"}
  BY <1>1 DEF FirstStep, CallType
<1>5. Recorded' = Recorded /\ (ShipmentRecorded' <=> ShipmentRecorded)
  BY <1>2 DEF order, Recorded, ShipmentRecorded
<1>6. TypeOK'
  BY <1>1, <1>2 DEF TypeOK, Begin, Goto, order
<1>7. StatusRecorded' /\ RefundedOnlyAfterShipping' /\ PaidFlagBacked'
  BY <1>2, <1>5 DEF StatusRecorded, RefundedOnlyAfterShipping, PaidFlagBacked, order
<1>8. WritesJustified'
  BY <1>3, <1>4, <1>5 DEF WritesJustified
<1>9. PaymentAttended'
  BY <1>2, <1>3 DEF PaymentAttended, order
<1>10. QED
  BY <1>2, <1>5, <1>6, <1>7, <1>8, <1>9 DEF order

LEMMA RestartKeeps ==
    ASSUME IInv, Restart
    PROVE  IInv' /\ Recorded' = Recorded /\ status' = status
<1> USE DEF IInv
<1>1. UNCHANGED <<order, call, seen>>
  BY DEF Restart
<1>2. \A g \in Frames : pc'[g] \in {"lost", pc[g]}
                        /\ (pc[g] \in {"payAdvance", "rejectRead", "rejectWrite", "lost"} =>
                               pc'[g] = "lost")
  BY DEF Restart, Active, Ended
<1>3. Recorded' = Recorded /\ (ShipmentRecorded' <=> ShipmentRecorded)
  BY <1>1 DEF order, Recorded, ShipmentRecorded
<1>4. TypeOK'
  BY <1>1 DEF TypeOK, Restart, order, Ended
<1>5. StatusRecorded' /\ RefundedOnlyAfterShipping' /\ PaidFlagBacked'
  BY <1>1, <1>3 DEF StatusRecorded, RefundedOnlyAfterShipping, PaidFlagBacked, order
<1>6. WritesJustified'
  BY <1>1, <1>2, <1>3 DEF WritesJustified
<1>7. PaymentAttended'
  BY <1>1, <1>2 DEF PaymentAttended, order
<1>8. QED
  BY <1>1, <1>3, <1>4, <1>5, <1>6, <1>7 DEF order

LEMMA StutterKeeps ==
    ASSUME IInv, UNCHANGED vars
    PROVE  IInv' /\ Recorded' = Recorded /\ status' = status
BY DEF IInv, vars, order, TypeOK, StatusRecorded, WritesJustified, ShipmentRecorded,
       RefundedOnlyAfterShipping, PaidFlagBacked, PaymentAttended, Recorded

\* An update that Prisma rejects ends the frame and nothing else.
LEMMA RefusedWriteKeeps ==
    ASSUME IInv, NEW f \in Frames, StatusWrite(f), call[f].to \in {"CANCELLED", "DELIVERED"}
    PROVE  IInv' /\ Recorded' = Recorded /\ status' = status
<1> USE DEF IInv
<1>1. UNCHANGED <<order, call, seen>>
  BY DEF StatusWrite, order
<1>2. Thrown(f) = "failed" /\ pc[f] = "statusWrite"
  BY DEF StatusWrite, Thrown, PaySteps
<1>3. \A g \in Frames : pc'[g] = IF g = f THEN "failed" ELSE pc[g]
  BY <1>2 DEF StatusWrite, Goto, TypeOK
<1>4. Recorded' = Recorded /\ (ShipmentRecorded' <=> ShipmentRecorded)
  BY <1>1 DEF order, Recorded, ShipmentRecorded
<1>5. TypeOK'
  BY <1>1, <1>2 DEF TypeOK, StatusWrite, Goto, order, Ended
<1>6. StatusRecorded' /\ RefundedOnlyAfterShipping' /\ PaidFlagBacked'
  BY <1>1, <1>4 DEF StatusRecorded, RefundedOnlyAfterShipping, PaidFlagBacked, order
<1>7. WritesJustified'
  BY <1>1, <1>3, <1>4 DEF WritesJustified
<1>8. PaymentAttended'
  BY <1>1, <1>2, <1>3 DEF PaymentAttended, order
<1>9. QED
  BY <1>1, <1>4, <1>5, <1>6, <1>7, <1>8 DEF order

\* Every step keeps the invariant and records exactly the status it leaves.
LEMMA StepKeeps ==
    ASSUME IInv, [Next]_vars
    PROVE  IInv' /\ Recorded' = Recorded \cup {status'}
<1>1. status \in Recorded
  BY DEF IInv, StatusRecorded
<1>2. ASSUME NEW f \in Frames, Step(f) \/ Fault(f)
      PROVE  IInv' /\ Recorded' = Recorded \cup {status'}
  <2>1. CASE Thinks(f)
    BY <1>1, <2>1, ThinksKeeps
  <2>2. CASE PayCreate(f) \/ RefundCreate(f) \/ Fulfil(f) \/ NotifyFailed(f)
    BY <1>1, <2>2, RowsKeep
  <2>3. CASE PayAdvance(f) \/ RejectWrite(f) \/ RefundWrite(f) \/ FulfilWrite(f) \/ NotifyPaid(f)
    <3>1. \E s : Writes(f, s)
      BY <2>3 DEF Writes
    <3>2. QED
      BY <3>1, WritesKeeps
  <2>4. CASE StatusWrite(f)
    <3>1. CASE call[f].to \notin {"CANCELLED", "DELIVERED"}
      <4>1. Writes(f, call[f].to)
        BY <2>4, <3>1 DEF Writes
      <4>2. QED
        BY <4>1, WritesKeeps
    <3>2. CASE call[f].to \in {"CANCELLED", "DELIVERED"}
      BY <1>1, <2>4, <3>2, RefusedWriteKeeps
    <3>3. QED
      BY <3>1, <3>2
  <2>5. QED
    BY <1>2, <2>1, <2>2, <2>3, <2>4 DEF Step, Thinks
<1>3. QED
  BY <1>1, <1>2, BeginKeeps, RestartKeeps, StutterKeeps DEF Next

-----------------------------------------------------------------------------
(* The theorems *)

\* The inductive invariant holds in every reachable state.
THEOREM Invariant == Spec => []IInv
<1>1. IInv /\ [Next]_vars => IInv'
  BY StepKeeps
<1>2. QED
  BY InitialInvariant, <1>1, PTL DEF Spec

\* Every variable always has its type.
THEOREM TypeCorrect == Spec => []TypeOK
<1>1. IInv => TypeOK
  BY DEF IInv
<1>2. QED
  BY <1>1, Invariant, PTL

\* Money goes back only for an order that was shipped or delivered at some time.
THEOREM RefundsFollowShipping == Spec => []RefundedOnlyAfterShipping
<1>1. IInv => RefundedOnlyAfterShipping
  BY DEF IInv
<1>2. QED
  BY <1>1, Invariant, PTL

\* A payment row backs every order that says PAID.
THEOREM PaidFlagIsBacked == Spec => []PaidFlagBacked
<1>1. IInv => PaidFlagBacked
  BY DEF IInv
<1>2. QED
  BY <1>1, Invariant, PTL

\* An order with a payment waits for one only if a request was lost: the frame
\* that attends to the payment is in progress or lost, and then not all is quiet.
THEOREM PaidOrdersSettle == Spec => []PaidLeavesPending
<1>1. IInv => PaidLeavesPending
  <2> SUFFICES ASSUME IInv, Active = {}, \A f \in Frames : pc[f] # "lost", paid > 0,
                      status = "PENDING"
               PROVE  FALSE
    BY DEF PaidLeavesPending
  <2>1. PICK f \in Frames : pc[f] \in {"payAdvance", "rejectRead", "rejectWrite", "lost"}
    BY DEF IInv, PaymentAttended
  <2>2. f \in Active
    BY <2>1 DEF Active, Ended
  <2>3. QED
    BY <2>2
<1>2. QED
  BY <1>1, Invariant, PTL

\* The history names exactly the statuses the order has had.
THEOREM HistoryIsComplete == Spec => HistoryRecordsStatuses
<1>1. IInv /\ [Next]_vars =>
          [{history'[i] : i \in DOMAIN history'} = Recorded \cup {status'}]_vars
  BY StepKeeps DEF Recorded
<1>2. QED
  BY <1>1, Invariant, PTL DEF Spec, HistoryRecordsStatuses

-----------------------------------------------------------------------------
(* Requests one at a time *)

\* A step is taken by a frame in progress and moves that frame alone.
LEMMA StepMovesOne ==
    ASSUME TypeOK, NEW f \in Frames, Step(f)
    PROVE  /\ f \in Active
           /\ \A g \in Frames \ {f} : pc'[g] = pc[g]
           /\ call' = call
<1> USE DEF TypeOK, Goto, Active, Ended, SetStatus
<1>1. CASE PayRead(f) \/ PayCreate(f) \/ PayAdvance(f) \/ PayEmit(f) \/ Emit(f)
  BY <1>1 DEF PayRead, PayCreate, PayAdvance, PayEmit, Emit
<1>2. CASE CancelRead(f) \/ RejectRead(f) \/ RejectWrite(f)
  BY <1>2 DEF CancelRead, RejectRead, RejectWrite
<1>3. CASE RefundRead(f) \/ RefundCreate(f) \/ RefundWrite(f)
  BY <1>3 DEF RefundRead, RefundCreate, RefundWrite
<1>4. CASE Fulfil(f) \/ FulfilWrite(f) \/ StatusRead(f) \/ StatusWrite(f)
  BY <1>4 DEF Fulfil, FulfilWrite, StatusRead, StatusWrite
<1>5. CASE NotifyRead(f) \/ NotifyPaid(f) \/ NotifyFailed(f)
  BY <1>5 DEF NotifyRead, NotifyPaid, NotifyFailed
<1>6. QED
  BY <1>1, <1>2, <1>3, <1>4, <1>5 DEF Step

\* A step of the only request in progress keeps its decisions true.
LEMMA AloneStepKeeps ==
    ASSUME IInv, Alone, NEW f \in Frames, Step(f)
    PROVE  Alone'
<1> USE DEF IInv, TypeOK
<1>1. /\ f \in Active
      /\ \A g \in Frames \ {f} : pc'[g] = pc[g]
      /\ call' = call
  BY StepMovesOne
<1>2. \A g \in Frames \ {f} : pc[g] \in Ended \cup {"idle"} /\ pc'[g] \in Ended \cup {"idle"}
  BY <1>1 DEF Alone, Active
<1>3. \A g, h \in Active' : g = h
  BY <1>2 DEF Active
<1>4. DecisionsCurrent' /\ AtMostOnePaid' /\ PaymentAdvances'
  <2> USE DEF Alone, DecisionsCurrent, AtMostOnePaid, PaymentAdvances, Goto, SetStatus, Ended
  <2>1. paid > 0 /\ status = "PENDING" => pc[f] = "payAdvance"
    BY <1>2
  <2>2. Thrown(f) \in {"rejectRead", "failed"}
    BY DEF Thrown
  <2>3. CASE PayRead(f) \/ PayEmit(f) \/ Emit(f) \/ CancelRead(f) \/ RejectRead(f)
    BY <1>1, <1>2, <2>1, <2>2, <2>3 DEF PayRead, PayEmit, Emit, CancelRead, RejectRead, order
  <2>4. CASE RefundRead(f) \/ StatusRead(f) \/ NotifyRead(f)
    BY <1>1, <1>2, <2>1, <2>2, <2>4 DEF RefundRead, StatusRead, NotifyRead, order
  <2>5. CASE PayCreate(f)
    BY <1>1, <1>2, <2>1, <2>2, <2>5 DEF PayCreate, order
  <2>6. CASE PayAdvance(f) \/ RejectWrite(f)
    BY <1>1, <1>2, <2>1, <2>2, <2>6 DEF PayAdvance, RejectWrite, order
  <2>7. CASE RefundCreate(f) \/ RefundWrite(f)
    BY <1>1, <1>2, <2>1, <2>2, <2>7 DEF RefundCreate, RefundWrite, order
  <2>8. CASE Fulfil(f)
    BY <1>1, <1>2, <2>1, <2>2, <2>8 DEF Fulfil, order
  <2>9. CASE FulfilWrite(f) \/ StatusWrite(f)
    <3>1. call[f].to # "PENDING" \/ pc'[f] = "failed"
      BY <1>1, <2>9 DEF FulfilWrite, StatusWrite, WritesJustified
    <3>2. QED
      BY <1>1, <1>2, <2>1, <2>2, <2>9, <3>1 DEF FulfilWrite, StatusWrite
  <2>10. CASE NotifyPaid(f) \/ NotifyFailed(f)
    BY <1>1, <1>2, <2>1, <2>2, <2>10 DEF NotifyPaid, NotifyFailed, order
  <2>11. QED
    BY <2>3, <2>4, <2>5, <2>6, <2>7, <2>8, <2>9, <2>10 DEF Step
<1>5. QED
  BY <1>3, <1>4 DEF Alone

\* A request that finds nothing in progress begins without a decision.
LEMMA AloneBeginKeeps ==
    ASSUME IInv, Alone, Active = {}, NEW f \in Frames, NEW c \in Calls, Begin(f, c)
    PROVE  Alone'
<1> USE DEF IInv, TypeOK
<1>1. FirstStep(c) \in Steps \ {"pay", "payAdvance", "rejectWrite", "refundCreate",
                                "refundWrite", "statusWrite", "notifyWrite"}
  BY CallsAssumption DEF FirstStep, CallType, Steps
<1>2. \A g \in Frames : pc'[g] = IF g = f THEN FirstStep(c) ELSE pc[g]
  BY DEF Begin, Goto
<1>3. \A g \in Frames \ {f} : pc'[g] \in Ended \cup {"idle"}
  BY <1>2 DEF Active
<1>4. \A g, h \in Active' : g = h
  BY <1>3 DEF Active
<1>5. UNCHANGED order /\ pc[f] = "idle"
  BY DEF Begin
<1>6. DecisionsCurrent' /\ AtMostOnePaid' /\ PaymentAdvances'
  BY <1>1, <1>2, <1>3, <1>5 DEF Alone, DecisionsCurrent, AtMostOnePaid, PaymentAdvances, order, Ended
<1>7. QED
  BY <1>4, <1>6 DEF Alone

\* The steps of the operations that do not test the status stay their own.
LEMMA OwnStepsKept ==
    ASSUME IInv, OwnSteps, [Next]_vars
    PROVE  OwnSteps'
<1> USE DEF IInv, TypeOK, OwnSteps
<1>1. ASSUME NEW f \in Frames, NEW c \in Calls, Begin(f, c)
      PROVE  OwnSteps'
  <2>1. /\ FirstStep(c) \in {"fulfil", "fulfilWrite"} => c.op = "updateFulfillment"
        /\ FirstStep(c) \in {"notifyRead", "notifyWrite"} => c.op = "updatePaymentStatus"
    BY CallsAssumption DEF FirstStep, CallType
  <2>2. \A g \in Frames : /\ pc'[g] = IF g = f THEN FirstStep(c) ELSE pc[g]
                          /\ call'[g] = IF g = f THEN c ELSE call[g]
    BY <1>1 DEF Begin, Goto
  <2>3. QED
    BY <2>1, <2>2
<1>2. ASSUME NEW f \in Frames, Step(f)
      PROVE  OwnSteps'
  <2>1. /\ call' = call /\ \A g \in Frames \ {f} : pc'[g] = pc[g]
    BY <1>2, StepMovesOne
  <2>2. Thrown(f) \in {"rejectRead", "failed"}
    BY DEF Thrown
  <2>3. /\ pc'[f] = "fulfilWrite" => pc[f] = "fulfil"
        /\ pc'[f] = "notifyWrite" => pc[f] = "notifyRead"
        /\ pc'[f] \notin {"fulfil", "notifyRead"}
    <3> USE DEF Goto
    <3>1. CASE PayRead(f) \/ PayCreate(f) \/ PayAdvance(f) \/ PayEmit(f) \/ Emit(f)
      BY <2>2, <3>1 DEF PayRead, PayCreate, PayAdvance, PayEmit, Emit
    <3>2. CASE CancelRead(f) \/ RejectRead(f) \/ RejectWrite(f)
      BY <3>2 DEF CancelRead, RejectRead, RejectWrite
    <3>3. CASE RefundRead(f) \/ RefundCreate(f) \/ RefundWrite(f)
      BY <3>3 DEF RefundRead, RefundCreate, RefundWrite
    <3>4. CASE Fulfil(f) \/ FulfilWrite(f) \/ StatusRead(f) \/ StatusWrite(f)
      BY <2>2, <3>4 DEF Fulfil, FulfilWrite, StatusRead, StatusWrite
    <3>5. CASE NotifyRead(f) \/ NotifyPaid(f) \/ NotifyFailed(f)
      BY <3>5 DEF NotifyRead, NotifyPaid, NotifyFailed
    <3>6. QED
      BY <1>2, <3>1, <3>2, <3>3, <3>4, <3>5 DEF Step
  <2>4. QED
    BY <2>1, <2>3
<1>3. ASSUME NEW f \in Frames, Fault(f)
      PROVE  OwnSteps'
  BY <1>3 DEF Fault, Goto, Thrown
<1>4. ASSUME Restart
      PROVE  OwnSteps'
  BY <1>4 DEF Restart
<1>5. CASE UNCHANGED vars
  BY <1>5 DEF vars
<1>6. QED
  BY <1>1, <1>2, <1>3, <1>4, <1>5 DEF Next

\* Observing changes no step: the invariant of OrderLifecycle holds here too.
LEMMA AloneKeepsInvariant == AloneSpec => []IInv
<1>1. AloneInit => IInv
  BY InitialInvariant DEF AloneInit
<1>2. [AloneNext]_<<vars, disturbed>> => [Next]_vars
  BY DEF AloneNext, AloneBegin, AloneStep, AloneFault, Next
<1>3. IInv /\ [AloneNext]_<<vars, disturbed>> => IInv'
  BY <1>2, StepKeeps
<1>4. QED
  BY <1>1, <1>3, PTL DEF AloneSpec

\* The inductive invariant of requests that come one at a time and do not fail.
THEOREM AloneInvariant == AloneSpec => []AloneInv
<1>1. AloneInit => AloneInv
  BY DEF AloneInit, Init, AloneInv, Alone, OwnSteps, Active, DecisionsCurrent, AtMostOnePaid,
         PaymentAdvances
<1>2. IInv /\ AloneInv /\ [AloneNext]_<<vars, disturbed>> => AloneInv'
  <2> SUFFICES ASSUME IInv, AloneInv, [AloneNext]_<<vars, disturbed>>
               PROVE  AloneInv'
    OBVIOUS
  <2>1. [Next]_vars
    BY DEF AloneNext, AloneBegin, AloneStep, AloneFault, Next
  <2>2. OwnSteps'
    BY <2>1, OwnStepsKept DEF AloneInv
  <2>3. ASSUME ~disturbed' PROVE Alone'
    <3>1. CASE AloneBegin
      BY <2>3, <3>1, AloneBeginKeeps DEF AloneBegin, AloneInv
    <3>2. CASE AloneStep
      BY <2>3, <3>2, AloneStepKeeps DEF AloneStep, AloneInv
    <3>3. CASE AloneFault
      BY <2>3, <3>3 DEF AloneFault
    <3>4. CASE UNCHANGED <<vars, disturbed>>
      BY <2>3, <3>4 DEF AloneInv, Alone, Active, DecisionsCurrent, AtMostOnePaid,
                        PaymentAdvances, vars, order
    <3>5. QED
      BY <3>1, <3>2, <3>3, <3>4 DEF AloneNext
  <2>4. QED
    BY <2>2, <2>3 DEF AloneInv
<1>3. QED
  BY <1>1, <1>2, AloneKeepsInvariant, PTL DEF AloneSpec

\* Requests that come one at a time and do not fail charge an order once.
THEOREM ChargedOnceAlone == AloneSpec => []AloneChargedOnce
<1>1. AloneInv => AloneChargedOnce
  BY DEF AloneInv, Alone, AloneChargedOnce
<1>2. QED
  BY <1>1, AloneInvariant, PTL

\* Their steps keep to the matrix, save those of the operations without a test.
THEOREM MatrixKeptAlone == AloneSpec => AloneKeepsMatrix
<1>1. ASSUME IInv, OwnSteps, Alone, NEW f \in Frames, Step(f), status' # status,
             call[f].op \notin Untested
      PROVE  status' \in allowedTransitions[status] \cup adminForcedTransitions[status]
  <2> USE DEF IInv, TypeOK, Alone, DecisionsCurrent, SetStatus, order
  <2>1. CASE PayAdvance(f)
    BY <1>1, <2>1 DEF PayAdvance, adminForcedTransitions, OrderStatus
  <2>2. CASE RejectWrite(f)
    BY <1>1, <2>2 DEF RejectWrite, allowedTransitions, OrderStatus
  <2>3. CASE RefundWrite(f)
    BY <1>1, <2>3 DEF RefundWrite, adminForcedTransitions, OrderStatus
  <2>4. CASE StatusWrite(f)
    BY <1>1, <2>4 DEF StatusWrite, validateStatusTransition
  <2>5. CASE FulfilWrite(f) \/ NotifyPaid(f)
    BY <1>1, <2>5 DEF FulfilWrite, NotifyPaid, OwnSteps, Untested
  <2>6. CASE Thinks(f) \/ PayCreate(f) \/ RefundCreate(f) \/ Fulfil(f) \/ NotifyFailed(f)
    BY <1>1, <2>6, ThinksEffect DEF PayCreate, RefundCreate, Fulfil, NotifyFailed
  <2>7. QED
    BY <1>1, <2>1, <2>2, <2>3, <2>4, <2>5, <2>6 DEF Step, Thinks
<1>2. ASSUME IInv, AloneInv, [AloneNext]_<<vars, disturbed>>
      PROVE  [disturbed \/ AlongMatrix]_vars
  <2> SUFFICES ASSUME ~disturbed, NEW f \in Frames, status' # status, pc'[f] # pc[f],
                      call[f].op \notin Untested
               PROVE  status' \in allowedTransitions[status] \cup adminForcedTransitions[status]
    BY DEF AlongMatrix
  <2>1. CASE AloneStep
    <3>1. PICK g \in Frames : Step(g)
      BY <2>1 DEF AloneStep
    <3>2. g = f
      BY <1>2, <3>1, StepMovesOne DEF IInv
    <3>3. QED
      BY <1>1, <1>2, <3>1, <3>2 DEF AloneInv
  <2>2. CASE AloneBegin \/ AloneFault \/ UNCHANGED <<vars, disturbed>>
    BY <2>2 DEF AloneBegin, AloneFault, Begin, Fault, Restart, vars, order
  <2>3. QED
    BY <1>2, <2>1, <2>2 DEF AloneNext
<1>3. QED
  BY <1>2, AloneKeepsInvariant, AloneInvariant, PTL DEF AloneSpec, AloneKeepsMatrix

=============================================================================
