--------------------------- MODULE MCOrderLifecycle ---------------------------
(***************************************************************************)
(* Small instances of OrderAlone.                                          *)
(***************************************************************************)
EXTENDS OrderAlone, TLC

Symmetry == Permutations(Frames)

Simple(op) == [op |-> op, to |-> "none", admin |-> FALSE]
Fulfilment(to) == [op |-> "updateFulfillment", to |-> to, admin |-> FALSE]
Notify(to) == [op |-> "updatePaymentStatus", to |-> to, admin |-> FALSE]

AllCalls == CallType

PaidCallbacks == {Notify("PAID")}
ConfirmedEvents == {Simple("paymentConfirmed")}

=============================================================================
