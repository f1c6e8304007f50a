------------------------------- MODULE Sessions -------------------------------
(***************************************************************************)
(* Accounts, credentials and sessions in user-service: registration,       *)
(* verification of the address, login, refresh, logout, password reset,    *)
(* and what administrators do to sessions and accounts.                    *)
(*                                                                         *)
(* Requests run concurrently.  A request is a frame; one action is what it *)
(* does between two awaits, and its first action is its first read.  A     *)
(* request refused at its first read changes nothing and has no action.    *)
(*                                                                         *)
(* findActiveSessionByRefreshToken walks the active sessions of the user   *)
(* from the newest.  bcrypt compares at most 72 bytes, which the tokens of *)
(* one user have in common, so the walk ends at the newest of them.        *)
(*                                                                         *)
(* Sessions are named by their position in the order of creation and       *)
(* stored passwords by the order they were set in.  A link to a new        *)
(* password is a signed token of the account and the second it was signed  *)
(* in: two that an account asks for within a second are the same link.     *)
(***************************************************************************)
EXTENDS Integers, Sequences

CONSTANTS
    Users,          \* addresses people register with
    Frames,         \* requests that may be in progress at once
    MaxSessions,    \* bound on the sessions opened
    MaxSeconds,     \* bound on the seconds told apart
    MaxResets       \* bound on the passwords set by links of an account

ASSUME BoundsAssumption ==
    MaxSessions \in Nat /\ MaxSeconds \in Nat \ {0} /\ MaxResets \in Nat

VARIABLES
    registered,     \* addresses with a row in users
    codes,          \* those with a verification token that has not expired
    welcomed,       \* those whose verification mail was delivered
    verified,       \* those with emailVerified
    deleted,        \* those with deletedAt
    password,       \* the password hash stored for each
    resetToken,     \* the second its link was signed in, 0 if none or expired
    now,            \* the current second
    session,        \* user_sessions: [user, proved, since], the password its login
                    \* verified and, observed only, the one stored at its insertion
    revoked,        \* sessions with revokedAt
    expired,        \* sessions whose expiresAt has passed
    frame,          \* each frame's step, user and what it read
    orphans,        \* observed only: sessions opened for a deleted account
    signed,         \* observed only: links that were signed
    reissued,       \* observed only: links that were signed again
    spent,          \* observed only: links that set a password
    respent         \* observed only: links that set one again

account == <<registered, codes, welcomed, verified, deleted>>
history == <<signed, reissued, spent, respent>>
credential == <<password, resetToken, now, history>>
sessions == <<session, revoked, expired, orphans>>
vars == <<account, credential, sessions, frame>>

SessionsOf(u) == {s \in DOMAIN session : session[s].user = u}
\* A bug: updateMany asks for expiresAt like the other lookups.
BugUnrevoked(u) == SessionsOf(u) \ (revoked \cup expired)

Unrevoked(u) == SessionsOf(u) \ revoked
ActiveSessions(u) == Unrevoked(u) \ expired

\* What AuthGuard asks of the routes that are not @Public: a token signed by this
\* service, and the first one is signed at the first login.
Bearer == session # <<>>

Idle == [step |-> "idle"]

Init ==
    /\ registered = {} /\ codes = {} /\ welcomed = {} /\ verified = {} /\ deleted = {}
    /\ password = [u \in Users |-> 0]
    /\ resetToken = [u \in Users |-> 0]
    /\ now = 1 /\ signed = {} /\ reissued = {} /\ spent = {} /\ respent = {}
    /\ session = <<>> /\ revoked = {} /\ expired = {} /\ orphans = {}
    /\ frame = [f \in Frames |-> Idle]

\* A request of u begins: it has read x and goes on to step.
Starts(f, u, x, step) ==
    /\ frame[f].step = "idle"
    /\ frame' = [frame EXCEPT ![f] = [step |-> step, user |-> u, saw |-> x]]

At(f, step) == frame[f].step = step
Goto(f, step) == frame' = [frame EXCEPT ![f].step = step]
Ends(f) == frame' = [frame EXCEPT ![f] = Idle]

-----------------------------------------------------------------------------
(* create and verifyEmail *)

\* The lookup of create leaves deleted accounts out; the controller of
\* /auth/register has looked for those too.
RegisterRead(f, u) ==
    /\ u \notin registered \/ u \in deleted
    /\ Starts(f, u, 0, "create")
    /\ UNCHANGED <<account, credential, sessions>>

\* A bug: email is not unique, a second registration writes over the first.
BugRegisterWrite(f) ==
    /\ At(f, "create")
    /\ registered' = registered \cup {frame[f].user}
    /\ codes' = codes \cup {frame[f].user}
    /\ verified' = verified \ {frame[f].user}
    /\ Goto(f, "welcome")
    /\ UNCHANGED <<welcomed, deleted, credential, sessions>>

\* users.email is unique: the row is inserted, or the transaction fails.
RegisterWrite(f) ==
    /\ At(f, "create")
    /\ \/ /\ frame[f].user \notin registered
          /\ registered' = registered \cup {frame[f].user}
          /\ codes' = codes \cup {frame[f].user}
          /\ verified' = verified \ {frame[f].user}
          /\ Goto(f, "welcome")
       \/ /\ frame[f].user \in registered
          /\ Ends(f)
          /\ UNCHANGED <<registered, codes, verified>>
    /\ UNCHANGED <<welcomed, deleted, credential, sessions>>

RegisterMail(f) ==
    /\ At(f, "welcome")
    /\ Ends(f)
    /\ welcomed' = welcomed \cup {frame[f].user}
    /\ UNCHANGED <<registered, codes, verified, deleted, credential, sessions>>

\* Any code that has not expired will do: a request without a token reads the
\* first of them, whose mail may not have been sent yet.
VerifyRead(f, u) ==
    /\ u \in codes
    /\ Starts(f, u, 0, "verify")
    /\ UNCHANGED <<account, credential, sessions>>

VerifyWrite(f) ==
    /\ At(f, "verify")
    /\ Ends(f)
    /\ verified' = verified \cup {frame[f].user}
    /\ codes' = codes \ {frame[f].user}
    /\ UNCHANGED <<registered, welcomed, deleted, credential, sessions>>

-----------------------------------------------------------------------------
(* login, refresh and logout *)

\* A bug: login does not ask for emailVerified.
BugLoginRead(f, u) ==
    /\ u \in registered \ deleted
    /\ Starts(f, u, password[u], "open")
    /\ UNCHANGED <<account, credential, sessions>>

\* The password of the request is compared with the hash that was read.
LoginRead(f, u) ==
    /\ u \in verified \ deleted
    /\ Starts(f, u, password[u], "open")
    /\ UNCHANGED <<account, credential, sessions>>

LoginWrite(f) ==
    /\ Len(session) < MaxSessions
    /\ At(f, "open")
    /\ Ends(f)
    /\ session' = Append(session, [user |-> frame[f].user, proved |-> frame[f].saw,
                                    since |-> password[frame[f].user]])
    /\ orphans' = IF frame[f].user \in deleted THEN orphans \cup {Len(session) + 1} ELSE orphans
    /\ UNCHANGED <<account, credential, revoked, expired>>

\* The session the walk over the tokens of u ends at.
IsNewest(s, u) == s \in ActiveSessions(u) /\ \A t \in ActiveSessions(u) : t <= s

RefreshFind(f, u) ==
    /\ \E s \in DOMAIN session : IsNewest(s, u) /\ Starts(f, u, s, "owner")
    /\ UNCHANGED <<account, credential, sessions>>

RefreshOwner(f) ==
    /\ At(f, "owner")
    /\ IF frame[f].user \in deleted THEN Ends(f) ELSE Goto(f, "rotate")
    /\ UNCHANGED <<account, credential, sessions>>

\* A bug: the rotation makes the session active again.
BugRefreshWrite(f) ==
    /\ At(f, "rotate")
    /\ Ends(f)
    /\ expired' = expired \ {frame[f].saw}
    /\ revoked' = revoked \ {frame[f].saw}
    /\ UNCHANGED <<account, credential, session, orphans>>

\* New tokens and a new expiresAt for the session that was found; revokedAt is
\* neither read again nor written.
RefreshWrite(f) ==
    /\ At(f, "rotate")
    /\ Ends(f)
    /\ expired' = expired \ {frame[f].saw}
    /\ UNCHANGED <<account, credential, session, revoked, orphans>>

LogoutFind(f, u) ==
    /\ \E s \in DOMAIN session : IsNewest(s, u) /\ Starts(f, u, s, "revoke")
    /\ UNCHANGED <<account, credential, sessions>>

LogoutWrite(f) ==
    /\ At(f, "revoke")
    /\ Ends(f)
    /\ revoked' = revoked \cup {frame[f].saw}
    /\ UNCHANGED <<account, credential, session, expired, orphans>>

-----------------------------------------------------------------------------
(* sendPasswordResetEmail and resetPassword *)

\* A link of the account and of this second is signed.
ForgotRead(f, u) ==
    /\ Bearer
    /\ u \in registered
    /\ Starts(f, u, now, "link")
    /\ signed' = signed \cup {<<u, now>>}
    /\ reissued' = reissued \cup ({<<u, now>>} \cap signed)
    /\ UNCHANGED <<account, password, resetToken, now, spent, respent, sessions>>

\* It takes the place of the one the account had; the mail that follows changes
\* nothing.
ForgotWrite(f) ==
    /\ At(f, "link")
    /\ Ends(f)
    /\ resetToken' = [resetToken EXCEPT ![frame[f].user] = frame[f].saw]
    /\ UNCHANGED <<account, password, now, history, sessions>>

\* A bug: any link that was signed for the user will do, not only the stored one.
BugResetRead(f, u) ==
    /\ Bearer
    /\ \E t \in 1..now : <<u, t>> \in signed /\ Starts(f, u, t, "reset")
    /\ UNCHANGED <<account, credential, sessions>>

\* The link of the request is the stored one.
ResetRead(f, u) ==
    /\ Bearer
    /\ resetToken[u] # 0
    /\ Starts(f, u, resetToken[u], "reset")
    /\ UNCHANGED <<account, credential, sessions>>

\* The link that the request of f signed or read.
LinkOf(f) == <<frame[f].user, frame[f].saw>>

\* A bug: passwordResetToken is not cleared.
BugResetWrite(f) ==
    /\ At(f, "reset")
    /\ password[frame[f].user] < MaxResets
    /\ Ends(f)
    /\ password' = [password EXCEPT ![frame[f].user] = @ + 1]
    /\ revoked' = revoked \cup Unrevoked(frame[f].user)
    /\ spent' = spent \cup {LinkOf(f)}
    /\ respent' = respent \cup ({LinkOf(f)} \cap spent)
    /\ UNCHANGED <<account, resetToken, now, signed, reissued, session, expired, orphans>>

\* One transaction: the password, the link, every session not yet revoked.
ResetWrite(f) ==
    /\ At(f, "reset")
    /\ password[frame[f].user] < MaxResets
    /\ Ends(f)
    /\ password' = [password EXCEPT ![frame[f].user] = @ + 1]
    /\ resetToken' = [resetToken EXCEPT ![frame[f].user] = 0]
    /\ revoked' = revoked \cup Unrevoked(frame[f].user)
    /\ spent' = spent \cup {LinkOf(f)}
    /\ respent' = respent \cup ({LinkOf(f)} \cap spent)
    /\ UNCHANGED <<account, now, signed, reissued, session, expired, orphans>>

-----------------------------------------------------------------------------
(* Administrators, faults and time *)

RevokeSession(s) ==
    /\ revoked' = revoked \cup {s}
    /\ UNCHANGED <<account, credential, session, expired, orphans, frame>>

RevokeAllSessions(u) ==
    /\ revoked' = revoked \cup Unrevoked(u)
    /\ UNCHANGED <<account, credential, session, expired, orphans, frame>>

\* A bug: the sessions of a deleted account are left alone.
BugQuietSoftDelete(u) ==
    /\ u \in registered
    /\ deleted' = deleted \cup {u}
    /\ UNCHANGED <<registered, codes, welcomed, verified, credential, sessions, frame>>

\* A bug: an address without a row is deleted as well.
BugBlindSoftDelete(u) ==
    /\ deleted' = deleted \cup {u}
    /\ revoked' = revoked \cup SessionsOf(u)
    /\ UNCHANGED <<registered, codes, welcomed, verified, credential, session,
                   expired, orphans, frame>>

SoftDelete(u) ==
    /\ u \in registered
    /\ deleted' = deleted \cup {u}
    /\ revoked' = revoked \cup SessionsOf(u)
    /\ UNCHANGED <<registered, codes, welcomed, verified, credential, session,
                   expired, orphans, frame>>

\* A call to the database or to the mail server fails, or the service stops: what
\* the request has written stays and the rest never happens.
Fail(f) ==
    /\ ~At(f, "idle")
    /\ Ends(f)
    /\ UNCHANGED <<account, credential, sessions>>

ExpireSession(s) ==
    /\ expired' = expired \cup {s}
    /\ UNCHANGED <<account, credential, session, revoked, orphans, frame>>

ExpireCode(u) ==
    /\ codes' = codes \ {u}
    /\ UNCHANGED <<registered, welcomed, verified, deleted, credential, sessions, frame>>

ExpireLink(u) ==
    /\ resetToken' = [resetToken EXCEPT ![u] = 0]
    /\ UNCHANGED <<account, password, now, history, sessions, frame>>

Tick ==
    /\ now < MaxSeconds
    /\ now' = now + 1
    /\ UNCHANGED <<account, password, resetToken, history, sessions, frame>>

-----------------------------------------------------------------------------

Begin(f, u) ==
    \/ RegisterRead(f, u) \/ VerifyRead(f, u) \/ LoginRead(f, u)
    \/ RefreshFind(f, u) \/ LogoutFind(f, u) \/ ForgotRead(f, u) \/ ResetRead(f, u)

Step(f) ==
    \/ RegisterWrite(f) \/ RegisterMail(f) \/ VerifyWrite(f)
    \/ LoginWrite(f)
    \/ RefreshOwner(f) \/ RefreshWrite(f) \/ LogoutWrite(f)
    \/ ForgotWrite(f) \/ ResetWrite(f)
    \/ Fail(f)

Administer ==
    \/ \E s \in DOMAIN session : RevokeSession(s)
    \/ \E u \in Users : RevokeAllSessions(u) \/ SoftDelete(u)

Time ==
    \/ \E s \in DOMAIN session : ExpireSession(s)
    \/ \E u \in Users : ExpireCode(u) \/ ExpireLink(u)
    \/ Tick

Next ==
    \/ \E f \in Frames : Step(f) \/ \E u \in Users : Begin(f, u)
    \/ Administer
    \/ Time

Spec == Init /\ [][Next]_vars

-----------------------------------------------------------------------------
(* Properties *)

Steps == {"create", "welcome", "verify", "open", "owner", "rotate", "revoke", "link",
          "reset"}

Links == Users \X (1..now)

\* The type invariant.
TypeOK ==
    /\ registered \subseteq Users
    /\ codes \subseteq registered
    /\ welcomed \subseteq registered
    /\ verified \subseteq registered
    /\ deleted \subseteq registered
    /\ password \in [Users -> Nat]
    /\ resetToken \in [Users -> 0..now]
    /\ now \in Nat \ {0}
    /\ signed \subseteq Links /\ reissued \subseteq Links
    /\ spent \subseteq Links /\ respent \subseteq Links
    /\ session \in Seq([user : Users, proved : Nat, since : Nat])
    /\ revoked \subseteq DOMAIN session
    /\ expired \subseteq DOMAIN session
    /\ orphans \subseteq DOMAIN session
    /\ frame \in [Frames -> {Idle} \cup [step : Steps, user : Users, saw : Nat]]

\* Registrations of one address that overlap leave one account, and one of them
\* sends the mail: no other is about to send it, and none has.
WelcomedOnce ==
    \A f \in Frames :
        At(f, "welcome") => /\ frame[f].user \notin welcomed
                            /\ \A g \in Frames : /\ At(g, "welcome")
                                                 /\ frame[g].user = frame[f].user
                                                 => g = f

\* Every session belongs to an account whose address is verified, also when the
\* address was registered again while it was being verified or signed in.
SessionsAreVerified == \A s \in DOMAIN session : session[s].user \in verified

\* A password reset ends every session there is: one that is not revoked was
\* opened after the last reset of its account, whatever was in progress then.
ResetEndsSessions ==
    \A s \in DOMAIN session \ revoked : session[s].since = password[session[s].user]

\* So does the deletion of an account: one that is not revoked was inserted after
\* it, by a login that had read the account before.
DeletionEndsSessions ==
    \A s \in DOMAIN session \ revoked : session[s].user \in deleted => s \in orphans

\* A link that set a password is refused by every reset that reads it later, also
\* if other links were signed, stored or used meanwhile, in any order, unless the
\* very same link was signed again.
UsedLinkIsDead == \A u \in Users : <<u, resetToken[u]>> \notin spent \ reissued

\* A link sets one password ("El enlace de recuperación ya fue utilizado") unless
\* it was signed again.
LinkUsedOnce == respent \subseteq reissued

phase ==
    [s \in DOMAIN session |-> CASE s \in revoked -> "closed"
                                [] s \in expired \ revoked -> "lapsed"
                                [] OTHER -> "live"]

Life == INSTANCE SessionLife WITH barred <- orphans

\* Sessions live as SessionLife promises: a refresh in progress neither brings a
\* revoked session back nor renews one of an account deleted before its login.
RefinesSessionLife == Life!Spec

-----------------------------------------------------------------------------
(* The inductive invariant: what a request still knows when it writes *)

\* A mail or a verification is for a row that is there, and a login has read that
\* the address is verified.
Addressed ==
    \A f \in Frames :
        /\ frame[f].step \in {"welcome", "verify"} => frame[f].user \in registered
        /\ At(f, "open") => frame[f].user \in verified

\* A session found by a refresh or a logout is one of their user, and a session a
\* refresh is about to renew was opened while the account existed.
Pointed ==
    /\ \A s \in orphans : session[s].user \in deleted
    /\ \A f \in Frames :
        /\ frame[f].step \in {"owner", "rotate", "revoke"} =>
              frame[f].saw \in SessionsOf(frame[f].user)
        /\ At(f, "rotate") => frame[f].saw \notin orphans

\* A link is known once it is stored, and a request about to store one that was
\* signed once has it for itself.
Linked ==
    /\ reissued \subseteq signed /\ spent \subseteq signed
    /\ \A u \in Users : resetToken[u] # 0 => <<u, resetToken[u]>> \in signed
    /\ \A f \in Frames :
        /\ frame[f].step \in {"link", "reset"} => LinkOf(f) \in signed
        /\ At(f, "link") /\ LinkOf(f) \notin reissued =>
              /\ LinkOf(f) \notin spent
              /\ resetToken[frame[f].user] # frame[f].saw
              /\ \A g \in Frames \ {f} :
                    frame[g].step \in {"link", "reset"} => LinkOf(g) # LinkOf(f)

IInv ==
    /\ TypeOK
    /\ Addressed /\ WelcomedOnce /\ SessionsAreVerified
    /\ Pointed /\ ResetEndsSessions /\ DeletionEndsSessions
    /\ Linked /\ UsedLinkIsDead

=============================================================================
