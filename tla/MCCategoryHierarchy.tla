-------------------------- MODULE MCCategoryHierarchy --------------------------
(***************************************************************************)
(* Small instances of CategoryHierarchy.                                   *)
(***************************************************************************)
EXTENDS CategoryHierarchy, TLC

CONSTANTS administrator, visitor

Symmetry == Permutations(Categories)

\* One administrator who makes every kind of request, one after the other.
Alone == [r \in Clients |-> CallType]

\* An administrator who rearranges and renames, and leaves the ids alone, while a
\* visitor looks at pages.
WithVisitor ==
    [r \in Clients |->
        IF r = administrator
        THEN {c \in CallType : c.op = "update" /\ c.key = {} /\ c.active = {}}
        ELSE {c \in CallType : c.op = "find"}]

\* The bound once a category has got another id, from when on only the rows are of
\* interest: at most one cached category, and no cached tree, to go on with.
FewCached ==
    rekeyed => /\ tree = {}
               /\ \A c, d \in Categories : entry[c] # {} /\ entry[d] # {} => c = d

=============================================================================
