----------------------------- MODULE SessionLife -----------------------------
(***************************************************************************)
(* What user-service promises of its sessions.  A session is opened live,  *)
(* lapses when its refresh token expires, may be renewed, and is closed by *)
(* a logout, a password reset, an administrator or the end of its account. *)
(* Closed is for ever, and a session opened for an account that was        *)
(* already deleted is never renewed.                                       *)
(***************************************************************************)
EXTENDS Naturals, Sequences

VARIABLES
    phase,      \* of each session, in the order they were opened
    barred      \* sessions opened for an account already deleted

Phase == {"live", "lapsed", "closed"}

Init ==
    /\ phase = <<>>
    /\ barred = {}

Open(late) ==
    /\ phase' = Append(phase, "live")
    /\ barred' = IF late THEN barred \cup {Len(phase) + 1} ELSE barred

Lapse(s) ==
    /\ phase[s] = "live"
    /\ phase' = [phase EXCEPT ![s] = "lapsed"]
    /\ UNCHANGED barred

Renew(s) ==
    /\ phase[s] = "lapsed"
    /\ s \notin barred
    /\ phase' = [phase EXCEPT ![s] = "live"]
    /\ UNCHANGED barred

Close(S) ==
    /\ phase' = [s \in DOMAIN phase |-> IF s \in S THEN "closed" ELSE phase[s]]
    /\ UNCHANGED barred

Next ==
    \/ \E late \in BOOLEAN : Open(late)
    \/ \E s \in DOMAIN phase : Lapse(s) \/ Renew(s)
    \/ \E S \in SUBSET DOMAIN phase : Close(S)

Spec == Init /\ [][Next]_<<phase, barred>>

=============================================================================
