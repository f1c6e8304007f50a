------------------------------ MODULE RemoteCall ------------------------------
(***************************************************************************)
(* What a caller may rely on when it calls an operation through something  *)
(* that forwards, gives up and restarts: the operation runs at most once,  *)
(* a result means that it ran, a denial that it never will, and whoever    *)
(* was told of a result or a failure knows that nothing more happens.      *)
(* Only who is left unsure may have the operation run behind their back.   *)
(***************************************************************************)
EXTENDS Naturals

CONSTANT Calls

VARIABLES
    ran,    \* how often the operation of each call has run
    told    \* what the caller knows

vars == <<ran, told>>

Tidings == {"nothing", "denied", "result", "failure", "unsure"}

Init ==
    /\ ran = [c \in Calls |-> 0]
    /\ told = [c \in Calls |-> "nothing"]

Run(c) ==
    /\ told[c] \in {"nothing", "unsure"}
    /\ ran[c] = 0
    /\ ran' = [ran EXCEPT ![c] = 1]
    /\ UNCHANGED told

Justified(c, tidings) ==
    /\ tidings = "denied" => ran[c] = 0
    /\ tidings = "result" => ran[c] = 1

\* A restart tells several callers at once that their calls are lost.
Tell ==
    /\ told' \in [Calls -> Tidings]
    /\ \A c \in Calls :
          told'[c] # told[c] => told[c] = "nothing" /\ Justified(c, told'[c])
    /\ UNCHANGED ran

Next == Tell \/ \E c \in Calls : Run(c)

Spec == Init /\ [][Next]_vars

=============================================================================
