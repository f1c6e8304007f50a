------------------------------ MODULE OrderAlone ------------------------------
(***************************************************************************)
(* OrderLifecycle with a history variable that only observes: whether      *)
(* requests have overlapped or anything has failed.  It states what the    *)
(* tests of the operations promise together as long as neither happens.    *)
(***************************************************************************)
EXTENDS OrderLifecycle

VARIABLE disturbed

AloneInit == Init /\ disturbed = FALSE

AloneBegin ==
    /\ \E f \in Frames, c \in Calls : Begin(f, c)
    /\ disturbed' = (disturbed \/ Active # {})

AloneStep == (\E f \in Frames : Step(f)) /\ UNCHANGED disturbed

AloneFault == (Restart \/ \E f \in Frames : Fault(f)) /\ disturbed' = TRUE

AloneNext == AloneBegin \/ AloneStep \/ AloneFault

AloneSpec == AloneInit /\ [][AloneNext]_<<vars, disturbed>>

\* As long as requests come one at a time and none fails, an order is charged
\* once, though it is the matrix of updateStatus, the test of processPayment and
\* that of updatePaymentStatus together that prevent the second charge
\* ("Pago Realizado con Anterioidad - ignorando").
AloneChargedOnce == ~disturbed => AtMostOnePaid

\* As long as requests come one at a time and none fails, every operation that
\* tests the status, each with a test of its own, keeps to the one matrix.
AloneKeepsMatrix == [][disturbed \/ AlongMatrix]_vars

-----------------------------------------------------------------------------
(* The inductive invariant *)

\* The operations that do not test the status have steps of their own.
OwnSteps ==
    \A f \in Frames :
        /\ pc[f] \in {"fulfil", "fulfilWrite"} => call[f].op = "updateFulfillment"
        /\ pc[f] \in {"notifyRead", "notifyWrite"} => call[f].op = "updatePaymentStatus"

\* What the one request in progress has decided on is still so.
DecisionsCurrent ==
    \A f \in Frames :
        /\ pc[f] = "pay" => status = "PENDING" /\ paid = 0
        /\ pc[f] = "payAdvance" => status = "PENDING"
        /\ pc[f] = "rejectWrite" => status \in {"PENDING", "PROCESSING"}
        /\ pc[f] \in {"refundCreate", "refundWrite"} => status \in {"SHIPPED", "DELIVERED"}
        /\ pc[f] = "statusWrite" =>
              validateStatusTransition(status, call[f].to, call[f].admin)
        /\ pc[f] = "notifyWrite" => paid = 0

\* An order that is paid and still PENDING is one its payment is moving on.
PaymentAdvances ==
    paid > 0 /\ status = "PENDING" => \E f \in Frames : pc[f] = "payAdvance"

Alone ==
    /\ \A f, g \in Active : f = g
    /\ DecisionsCurrent
    /\ AtMostOnePaid
    /\ PaymentAdvances

AloneInv == OwnSteps /\ (~disturbed => Alone)

=============================================================================
