---------------------------- MODULE SessionsAlone ----------------------------
(***************************************************************************)
(* Sessions with a history variable that only observes: whether requests,  *)
(* the deletion of an account among them, have ever overlapped.  It states *)
(* what the code promises as long as they come one at a time, which two    *)
(* requests in progress break.                                             *)
(***************************************************************************)
EXTENDS Sessions

VARIABLE overlapped

Busy == {f \in Frames : ~At(f, "idle")}

AloneInit == Init /\ overlapped = FALSE

AloneNext ==
    /\ Next
    /\ overlapped' = (\/ overlapped
                      \/ \E f, g \in Busy' : f # g
                      \/ Busy # {} /\ deleted' # deleted)

AloneSpec == AloneInit /\ [][AloneNext]_<<vars, overlapped>>

\* As long as requests come one at a time a live session knows the password of its
\* account, the account exists, and a link signed once sets one password.
AloneIsSafe ==
    ~overlapped =>
        /\ \A s \in DOMAIN session \ revoked : /\ session[s].proved = password[session[s].user]
                                              /\ session[s].user \notin deleted
        /\ LinkUsedOnce

-----------------------------------------------------------------------------
(* The inductive invariant *)

\* What the one request in progress has read is still true: the password it
\* compared, the account it found, the link it found unused.
ReadsCurrent ==
    \A f \in Frames :
        /\ At(f, "open") => /\ frame[f].saw = password[frame[f].user]
                            /\ frame[f].user \notin deleted
        /\ At(f, "reset") => LinkOf(f) \notin spent \ reissued

\* A login stored the password it verified, and no account was deleted under it.
LoginsCurrent ==
    /\ \A s \in DOMAIN session : session[s].proved = session[s].since
    /\ orphans = {}

Alone ==
    /\ \A f, g \in Busy : f = g
    /\ ReadsCurrent /\ LoginsCurrent /\ LinkUsedOnce

AloneInv == ~overlapped => Alone

=============================================================================
