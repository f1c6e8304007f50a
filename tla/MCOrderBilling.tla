---------------------------- MODULE MCOrderBilling ----------------------------
(***************************************************************************)
(* A small instance of OrderBilling: two products, added together, in      *)
(* both orders.                                                            *)
(***************************************************************************)
EXTENDS OrderBilling, TLC

CONSTANTS p1, p2

Symmetry == Permutations(Edits) \cup Permutations(Pages) \cup Permutations({p1, p2})

\* A quantity may be negative.
New(p) == [product |-> p, amount |-> -2]

MCAdditions == { <<New(p1), New(p2)>>, <<New(p2), New(p1)>> }

=============================================================================
