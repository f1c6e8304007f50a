--------------------------- MODULE SessionsProofs ---------------------------
(***************************************************************************)
(* Proofs about Sessions, for any users, requests in progress, sessions    *)
(* and links.  The invariant has three parts that share only the types:    *)
(* what is known of addresses, of sessions and of links.  Requests that    *)
(* come one at a time keep more of it, proved about SessionsAlone.         *)
(***************************************************************************)
EXTENDS SessionsAlone, SequenceTheorems, TLAPS

\* Goto moves a request that is not idle and leaves the others alone.
LEMMA Moved ==
    ASSUME TypeOK, NEW f \in Frames, NEW step \in Steps, ~At(f, "idle"), Goto(f, step)
    PROVE  /\ frame' \in [Frames -> {Idle} \cup [step : Steps, user : Users, saw : Nat]]
           /\ frame[f].user \in Users
           /\ frame'[f].step = step
           /\ frame'[f].user = frame[f].user
           /\ frame'[f].saw = frame[f].saw
           /\ \A g \in Frames \ {f} : frame'[g] = frame[g]
  <1>1. frame[f] \in [step : Steps, user : Users, saw : Nat]
    BY DEF TypeOK, At, Idle
  <1>2. [frame[f] EXCEPT !.step = step]
          = [step |-> step, user |-> frame[f].user, saw |-> frame[f].saw]
    BY <1>1
  <1>3. frame' = [frame EXCEPT ![f] = [step |-> step, user |-> frame[f].user,
                                        saw |-> frame[f].saw]]
    BY <1>2 DEF Goto, TypeOK
  <1>4. QED
    BY <1>1, <1>3 DEF TypeOK

\* A session that is opened is appended to the others.
LEMMA Opened ==
    ASSUME TypeOK, NEW f \in Frames, LoginWrite(f)
    PROVE  /\ session' \in Seq([user : Users, proved : Nat, since : Nat])
           /\ DOMAIN session' = DOMAIN session \cup {Len(session) + 1}
           /\ Len(session) + 1 \notin DOMAIN session
           /\ \A s \in DOMAIN session : session'[s] = session[s]
           /\ session'[Len(session) + 1].user = frame[f].user
           /\ session'[Len(session) + 1].proved = frame[f].saw
           /\ session'[Len(session) + 1].since = password[frame[f].user]
           /\ frame[f].user \in Users
  <1> DEFINE row == [user |-> frame[f].user, proved |-> frame[f].saw,
                     since |-> password[frame[f].user]]
  <1>1. frame[f] \in [step : Steps, user : Users, saw : Nat]
    BY DEF TypeOK, LoginWrite, At, Idle
  <1>2. row \in [user : Users, proved : Nat, since : Nat]
    BY <1>1 DEF TypeOK
  <1>3. session' = Append(session, row)
    BY DEF LoginWrite
  <1> HIDE DEF row
  <1>4. /\ session' \in Seq([user : Users, proved : Nat, since : Nat])
        /\ DOMAIN session' = DOMAIN session \cup {Len(session) + 1}
        /\ Len(session) + 1 \notin DOMAIN session
        /\ \A s \in DOMAIN session : session'[s] = session[s]
        /\ session'[Len(session) + 1] = row
    <2>1. /\ session \in Seq([user : Users, proved : Nat, since : Nat])
          /\ DOMAIN session = 1..Len(session)
          /\ Len(session) \in Nat
      BY DEF TypeOK
    <2>2. QED
      BY <1>2, <1>3, <2>1, AppendProperties
  <1>5. QED
    BY <1>1, <1>4 DEF row

LEMMA InitInv == Init => IInv
  <1> SUFFICES ASSUME Init PROVE IInv
    OBVIOUS
  <1> USE DEF Init, Idle, At, SessionsOf
  <1>1. TypeOK
    BY DEF TypeOK
  <1>2. Addressed /\ WelcomedOnce /\ SessionsAreVerified
    BY DEF Addressed, WelcomedOnce, SessionsAreVerified
  <1>3. Pointed /\ ResetEndsSessions /\ DeletionEndsSessions
    BY DEF Pointed, ResetEndsSessions, DeletionEndsSessions
  <1>4. Linked /\ UsedLinkIsDead
    BY DEF Linked, UsedLinkIsDead
  <1>5. QED
    BY <1>1, <1>2, <1>3, <1>4 DEF IInv

\* Every step keeps the types.
LEMMA TypeStep ==
    ASSUME TypeOK, Pointed, Linked, Addressed, [Next]_vars
    PROVE  TypeOK'
  <1>0. \A f \in Frames : frame[f].step \in {"link", "reset"} =>
            LinkOf(f) \in Links /\ frame[f].saw \in 0..now
    BY DEF Linked, TypeOK, Links, LinkOf
  <1> USE DEF TypeOK, Idle, At, Steps, Links, Pointed, Addressed, SessionsOf, Unrevoked, ActiveSessions, IsNewest, account, credential, history, sessions
  <1>1. ASSUME NEW f \in Frames, NEW u \in Users, RegisterRead(f, u)
        PROVE  TypeOK'
    BY <1>1 DEF RegisterRead, Starts
  <1>2. ASSUME NEW f \in Frames, NEW u \in Users, VerifyRead(f, u)
        PROVE  TypeOK'
    BY <1>2 DEF VerifyRead, Starts
  <1>3. ASSUME NEW f \in Frames, NEW u \in Users, LoginRead(f, u)
        PROVE  TypeOK'
    BY <1>3 DEF LoginRead, Starts
  <1>4. ASSUME NEW f \in Frames, NEW u \in Users, RefreshFind(f, u)
        PROVE  TypeOK'
    <2>1. DOMAIN session \subseteq Nat
      BY DEF TypeOK
    <2>2. PICK s \in DOMAIN session : IsNewest(s, u) /\ Starts(f, u, s, "owner")
      BY <1>4, Zenon DEF RefreshFind
    <2>3. UNCHANGED <<account, credential, sessions>>
      BY <1>4 DEF RefreshFind
    <2>4. QED
      BY <2>1, <2>2, <2>3 DEF Starts
  <1>5. ASSUME NEW f \in Frames, NEW u \in Users, LogoutFind(f, u)
        PROVE  TypeOK'
    <2>1. DOMAIN session \subseteq Nat
      BY DEF TypeOK
    <2>2. PICK s \in DOMAIN session : IsNewest(s, u) /\ Starts(f, u, s, "revoke")
      BY <1>5, Zenon DEF LogoutFind
    <2>3. UNCHANGED <<account, credential, sessions>>
      BY <1>5 DEF LogoutFind
    <2>4. QED
      BY <2>1, <2>2, <2>3 DEF Starts
  <1>6. ASSUME NEW f \in Frames, NEW u \in Users, ForgotRead(f, u)
        PROVE  TypeOK'
    BY <1>6, SMTT(30) DEF ForgotRead, Starts
  <1>7. ASSUME NEW f \in Frames, NEW u \in Users, ResetRead(f, u)
        PROVE  TypeOK'
    BY <1>7, SMTT(30) DEF ResetRead, Starts
  <1>8. ASSUME NEW f \in Frames, RegisterWrite(f)
        PROVE  TypeOK'
    <2>1. CASE frame[f].user \notin registered
      <3>1. /\ "welcome" \in Steps /\ Goto(f, "welcome") /\ frame[f].step = "create"
            /\ registered' = registered \cup {frame[f].user}
            /\ codes' = codes \cup {frame[f].user}
            /\ verified' = verified \ {frame[f].user}
            /\ UNCHANGED <<welcomed, deleted, credential, sessions>>
        BY <1>8, <2>1, Zenon DEF RegisterWrite, Steps, At
      <3>2. /\ frame' \in [Frames -> {Idle} \cup [step : Steps, user : Users, saw : Nat]]
            /\ frame[f].user \in Users
            /\ frame'[f].step = "welcome"
            /\ frame'[f].user = frame[f].user
            /\ frame'[f].saw = frame[f].saw
            /\ \A g \in Frames \ {f} : frame'[g] = frame[g]
        BY <3>1, Moved
      <3>3. QED
        BY <2>1, <3>1, <3>2
    <2>2. CASE frame[f].user \in registered
      <3>1. Ends(f) /\ UNCHANGED <<account, credential, sessions>>
        BY <1>8, <2>2, Zenon DEF RegisterWrite
      <3>2. QED
        BY <3>1 DEF Ends
    <2>3. QED
      BY <2>1, <2>2
  <1>9. ASSUME NEW f \in Frames, RegisterMail(f)
        PROVE  TypeOK'
    BY <1>9 DEF RegisterMail, Ends
  <1>10. ASSUME NEW f \in Frames, VerifyWrite(f)
        PROVE  TypeOK'
    BY <1>10 DEF VerifyWrite, Ends
  <1>11. ASSUME NEW f \in Frames, LoginWrite(f)
        PROVE  TypeOK'
    <2>1. Ends(f) /\ UNCHANGED <<account, credential, revoked, expired>>
      BY <1>11 DEF LoginWrite
    <2>2. /\ frame[f].step = "open"
          /\ orphans' = IF frame[f].user \in deleted
                        THEN orphans \cup {Len(session) + 1} ELSE orphans
      BY <1>11 DEF LoginWrite, At
    <2>3. QED
      BY <1>11, <2>1, <2>2, Opened DEF Ends
  <1>12. ASSUME NEW f \in Frames, RefreshOwner(f)
        PROVE  TypeOK'
    <2>1. CASE frame[f].user \in deleted
      <3>1. Ends(f) /\ UNCHANGED <<account, credential, sessions>>
        BY <1>12, <2>1, Zenon DEF RefreshOwner
      <3>2. QED
        BY <3>1 DEF Ends
    <2>2. CASE frame[f].user \notin deleted
      <3>1. /\ "rotate" \in Steps /\ Goto(f, "rotate") /\ frame[f].step = "owner"
            /\ UNCHANGED <<account, credential, sessions>>
        BY <1>12, <2>2, Zenon DEF RefreshOwner, Steps, At
      <3>2. /\ frame' \in [Frames -> {Idle} \cup [step : Steps, user : Users, saw : Nat]]
            /\ frame[f].user \in Users
            /\ frame'[f].step = "rotate"
            /\ frame'[f].user = frame[f].user
            /\ frame'[f].saw = frame[f].saw
            /\ \A g \in Frames \ {f} : frame'[g] = frame[g]
        BY <3>1, Moved
      <3>3. QED
        BY <2>2, <3>1, <3>2
    <2>3. QED
      BY <2>1, <2>2
  <1>13. ASSUME NEW f \in Frames, RefreshWrite(f)
        PROVE  TypeOK'
    BY <1>13 DEF RefreshWrite, Ends
  <1>14. ASSUME NEW f \in Frames, LogoutWrite(f)
        PROVE  TypeOK'
    BY <1>14 DEF LogoutWrite, Ends
  <1>15. ASSUME NEW f \in Frames, ForgotWrite(f)
        PROVE  TypeOK'
    BY <1>0, <1>15 DEF ForgotWrite, Ends
  <1>16. ASSUME Tick
        PROVE  TypeOK'
    BY <1>16 DEF Tick
  <1>17. ASSUME NEW f \in Frames, ResetWrite(f)
        PROVE  TypeOK'
    <2>1. frame[f].user \in Users /\ frame[f].saw \in Nat /\ frame[f].step = "reset"
      BY <1>17 DEF ResetWrite, TypeOK, At, Idle
    <2>2. /\ password' = [password EXCEPT ![frame[f].user] = @ + 1]
          /\ resetToken' = [resetToken EXCEPT ![frame[f].user] = 0]
          /\ revoked' = revoked \cup Unrevoked(frame[f].user)
          /\ spent' = spent \cup {LinkOf(f)}
          /\ respent' = respent \cup ({LinkOf(f)} \cap spent)
          /\ frame' = [frame EXCEPT ![f] = Idle]
          /\ UNCHANGED <<account, now, signed, reissued, session, expired, orphans>>
      BY <1>17, Zenon DEF ResetWrite, Ends
    <2>3. QED
      <3>1. password' \in [Users -> Nat] /\ resetToken' \in [Users -> 0..now]
        BY <2>1, <2>2
      <3>2. frame' \in [Frames -> {Idle} \cup [step : Steps, user : Users, saw : Nat]]
        BY <2>2
      <3>3. spent' \subseteq Links /\ respent' \subseteq Links
        BY <1>0, <2>1, <2>2
      <3>4. revoked' \subseteq DOMAIN session
        BY <2>2
      <3>5. QED
        BY <2>2, <3>1, <3>2, <3>3, <3>4
  <1>18. ASSUME NEW f \in Frames, Fail(f)
        PROVE  TypeOK'
    BY <1>18 DEF Fail, Ends
  <1>19. ASSUME NEW s \in DOMAIN session, RevokeSession(s)
        PROVE  TypeOK'
    BY <1>19 DEF RevokeSession
  <1>20. ASSUME NEW u \in Users, RevokeAllSessions(u)
        PROVE  TypeOK'
    BY <1>20 DEF RevokeAllSessions
  <1>21. ASSUME NEW u \in Users, SoftDelete(u)
        PROVE  TypeOK'
    BY <1>21 DEF SoftDelete
  <1>22. ASSUME NEW s \in DOMAIN session, ExpireSession(s)
        PROVE  TypeOK'
    BY <1>22 DEF ExpireSession
  <1>23. ASSUME NEW u \in Users, ExpireCode(u)
        PROVE  TypeOK'
    BY <1>23 DEF ExpireCode
  <1>24. ASSUME NEW u \in Users, ExpireLink(u)
        PROVE  TypeOK'
    BY <1>24 DEF ExpireLink
  <1>25. CASE UNCHANGED vars
    BY <1>25 DEF vars
  <1>26. QED
    BY <1>1, <1>2, <1>3, <1>4, <1>5, <1>6, <1>7, <1>8, <1>9, <1>10, <1>11, <1>12, <1>13, <1>14, <1>15, <1>16, <1>17, <1>18, <1>19, <1>20, <1>21, <1>22, <1>23, <1>24, <1>25 DEF Next, Begin, Step, Administer, Time

\* What is known of addresses.
LEMMA AddressStep ==
    ASSUME TypeOK, Addressed, WelcomedOnce, SessionsAreVerified, [Next]_vars
    PROVE  Addressed' /\ WelcomedOnce' /\ SessionsAreVerified'
  <1> USE DEF TypeOK, Idle, At, Addressed, WelcomedOnce, SessionsAreVerified, account, credential, history, sessions
  <1>1. ASSUME NEW f \in Frames, NEW u \in Users, RegisterRead(f, u)
        PROVE  Addressed' /\ WelcomedOnce' /\ SessionsAreVerified'
    BY <1>1 DEF RegisterRead, Starts
  <1>2. ASSUME NEW f \in Frames, NEW u \in Users, VerifyRead(f, u)
        PROVE  Addressed' /\ WelcomedOnce' /\ SessionsAreVerified'
    BY <1>2 DEF VerifyRead, Starts
  <1>3. ASSUME NEW f \in Frames, NEW u \in Users, LoginRead(f, u)
        PROVE  Addressed' /\ WelcomedOnce' /\ SessionsAreVerified'
    BY <1>3 DEF LoginRead, Starts
  <1>4. ASSUME NEW f \in Frames, NEW u \in Users, RefreshFind(f, u)
        PROVE  Addressed' /\ WelcomedOnce' /\ SessionsAreVerified'
    <2>1. DOMAIN session \subseteq Nat
      BY DEF TypeOK
    <2>2. PICK s \in DOMAIN session : IsNewest(s, u) /\ Starts(f, u, s, "owner")
      BY <1>4, Zenon DEF RefreshFind
    <2>3. UNCHANGED <<account, credential, sessions>>
      BY <1>4 DEF RefreshFind
    <2>4. QED
      BY <2>1, <2>2, <2>3 DEF Starts
  <1>5. ASSUME NEW f \in Frames, NEW u \in Users, LogoutFind(f, u)
        PROVE  Addressed' /\ WelcomedOnce' /\ SessionsAreVerified'
    <2>1. DOMAIN session \subseteq Nat
      BY DEF TypeOK
    <2>2. PICK s \in DOMAIN session : IsNewest(s, u) /\ Starts(f, u, s, "revoke")
      BY <1>5, Zenon DEF LogoutFind
    <2>3. UNCHANGED <<account, credential, sessions>>
      BY <1>5 DEF LogoutFind
    <2>4. QED
      BY <2>1, <2>2, <2>3 DEF Starts
  <1>6. ASSUME NEW f \in Frames, NEW u \in Users, ForgotRead(f, u)
        PROVE  Addressed' /\ WelcomedOnce' /\ SessionsAreVerified'
    BY <1>6 DEF ForgotRead, Starts
  <1>7. ASSUME NEW f \in Frames, NEW u \in Users, ResetRead(f, u)
        PROVE  Addressed' /\ WelcomedOnce' /\ SessionsAreVerified'
    BY <1>7 DEF ResetRead, Starts
  <1>8. ASSUME NEW f \in Frames, RegisterWrite(f)
        PROVE  Addressed' /\ WelcomedOnce' /\ SessionsAreVerified'
    <2>1. CASE frame[f].user \notin registered
      <3>1. /\ "welcome" \in Steps /\ Goto(f, "welcome") /\ frame[f].step = "create"
            /\ registered' = registered \cup {frame[f].user}
            /\ codes' = codes \cup {frame[f].user}
            /\ verified' = verified \ {frame[f].user}
            /\ UNCHANGED <<welcomed, deleted, credential, sessions>>
        BY <1>8, <2>1, Zenon DEF RegisterWrite, Steps, At
      <3>2. /\ frame' \in [Frames -> {Idle} \cup [step : Steps, user : Users, saw : Nat]]
            /\ frame[f].user \in Users
            /\ frame'[f].step = "welcome"
            /\ frame'[f].user = frame[f].user
            /\ frame'[f].saw = frame[f].saw
            /\ \A g \in Frames \ {f} : frame'[g] = frame[g]
        BY <3>1, Moved
      <3>3. QED
        <4>1. Addressed'
          BY <2>1, <3>1, <3>2
        <4>2. WelcomedOnce'
          <5> SUFFICES ASSUME NEW g \in Frames, frame'[g].step = "welcome"
                       PROVE  /\ frame'[g].user \notin welcomed'
                              /\ \A h \in Frames : frame'[h].step = "welcome"
                                    /\ frame'[h].user = frame'[g].user => h = g
            OBVIOUS
          <5>1. \A h \in Frames : frame'[h].user = frame[h].user
            BY <3>2
          <5>2. \A h \in Frames \ {f} : frame'[h].step = frame[h].step
            BY <3>2
          <5>3. \A h \in Frames \ {f} :
                  frame[h].step = "welcome" => frame[h].user # frame[f].user
            BY <2>1
          <5>4. QED
            BY <2>1, <3>1, <5>1, <5>2, <5>3, ZenonT(60)
        <4>3. SessionsAreVerified'
          BY <2>1, <3>1, <3>2
        <4>4. QED
          BY <4>1, <4>2, <4>3
    <2>2. CASE frame[f].user \in registered
      <3>1. Ends(f) /\ UNCHANGED <<account, credential, sessions>>
        BY <1>8, <2>2, Zenon DEF RegisterWrite
      <3>2. QED
        BY <3>1 DEF Ends
    <2>3. QED
      BY <2>1, <2>2
  <1>9. ASSUME NEW f \in Frames, RegisterMail(f)
        PROVE  Addressed' /\ WelcomedOnce' /\ SessionsAreVerified'
    BY <1>9 DEF RegisterMail, Ends
  <1>10. ASSUME NEW f \in Frames, VerifyWrite(f)
        PROVE  Addressed' /\ WelcomedOnce' /\ SessionsAreVerified'
    BY <1>10 DEF VerifyWrite, Ends
  <1>11. ASSUME NEW f \in Frames, LoginWrite(f)
        PROVE  Addressed' /\ WelcomedOnce' /\ SessionsAreVerified'
    <2>1. Ends(f) /\ UNCHANGED <<account, credential, revoked, expired>>
      BY <1>11 DEF LoginWrite
    <2>2. /\ frame[f].step = "open"
          /\ orphans' = IF frame[f].user \in deleted
                        THEN orphans \cup {Len(session) + 1} ELSE orphans
      BY <1>11 DEF LoginWrite, At
    <2>3. QED
      <3>1. Addressed'
        BY <1>11, <2>1, <2>2, Opened DEF Ends
      <3>2. WelcomedOnce'
        BY <1>11, <2>1, <2>2, Opened DEF Ends
      <3>3. SessionsAreVerified'
        BY <1>11, <2>1, <2>2, Opened, ZenonT(60) DEF Ends
      <3>4. QED
        BY <3>1, <3>2, <3>3
  <1>12. ASSUME NEW f \in Frames, RefreshOwner(f)
        PROVE  Addressed' /\ WelcomedOnce' /\ SessionsAreVerified'
    <2>1. CASE frame[f].user \in deleted
      <3>1. Ends(f) /\ UNCHANGED <<account, credential, sessions>>
        BY <1>12, <2>1, Zenon DEF RefreshOwner
      <3>2. QED
        BY <3>1 DEF Ends
    <2>2. CASE frame[f].user \notin deleted
      <3>1. /\ "rotate" \in Steps /\ Goto(f, "rotate") /\ frame[f].step = "owner"
            /\ UNCHANGED <<account, credential, sessions>>
        BY <1>12, <2>2, Zenon DEF RefreshOwner, Steps, At
      <3>2. /\ frame' \in [Frames -> {Idle} \cup [step : Steps, user : Users, saw : Nat]]
            /\ frame[f].user \in Users
            /\ frame'[f].step = "rotate"
            /\ frame'[f].user = frame[f].user
            /\ frame'[f].saw = frame[f].saw
            /\ \A g \in Frames \ {f} : frame'[g] = frame[g]
        BY <3>1, Moved
      <3>3. QED
        <4>1. Addressed'
          BY <2>2, <3>1, <3>2
        <4>2. WelcomedOnce'
          <5>1. \A h \in Frames : frame'[h].user = frame[h].user
            BY <3>2
          <5>2. \A h \in Frames : frame'[h].step = "welcome" => frame[h].step = "welcome"
            BY <3>2
          <5>3. QED
            BY <3>1, <5>1, <5>2
        <4>3. SessionsAreVerified'
          BY <2>2, <3>1, <3>2
        <4>4. QED
          BY <4>1, <4>2, <4>3
    <2>3. QED
      BY <2>1, <2>2
  <1>13. ASSUME NEW f \in Frames, RefreshWrite(f)
        PROVE  Addressed' /\ WelcomedOnce' /\ SessionsAreVerified'
    BY <1>13 DEF RefreshWrite, Ends
  <1>14. ASSUME NEW f \in Frames, LogoutWrite(f)
        PROVE  Addressed' /\ WelcomedOnce' /\ SessionsAreVerified'
    BY <1>14 DEF LogoutWrite, Ends
  <1>15. ASSUME NEW f \in Frames, ForgotWrite(f)
        PROVE  Addressed' /\ WelcomedOnce' /\ SessionsAreVerified'
    BY <1>15 DEF ForgotWrite, Ends
  <1>16. ASSUME Tick
        PROVE  Addressed' /\ WelcomedOnce' /\ SessionsAreVerified'
    BY <1>16 DEF Tick
  <1>17. ASSUME NEW f \in Frames, ResetWrite(f)
        PROVE  Addressed' /\ WelcomedOnce' /\ SessionsAreVerified'
    <2>1. frame[f].user \in Users /\ frame[f].saw \in Nat /\ frame[f].step = "reset"
      BY <1>17 DEF ResetWrite, TypeOK, At, Idle
    <2>2. /\ password' = [password EXCEPT ![frame[f].user] = @ + 1]
          /\ resetToken' = [resetToken EXCEPT ![frame[f].user] = 0]
          /\ revoked' = revoked \cup Unrevoked(frame[f].user)
          /\ spent' = spent \cup {LinkOf(f)}
          /\ respent' = respent \cup ({LinkOf(f)} \cap spent)
          /\ frame' = [frame EXCEPT ![f] = Idle]
          /\ UNCHANGED <<account, now, signed, reissued, session, expired, orphans>>
      BY <1>17, Zenon DEF ResetWrite, Ends
    <2>3. QED
      <3>1. Addressed'
        BY <2>1, <2>2
      <3>2. WelcomedOnce'
        BY <2>1, <2>2
      <3>3. SessionsAreVerified'
        BY <2>1, <2>2
      <3>4. QED
        BY <3>1, <3>2, <3>3
  <1>18. ASSUME NEW f \in Frames, Fail(f)
        PROVE  Addressed' /\ WelcomedOnce' /\ SessionsAreVerified'
    BY <1>18 DEF Fail, Ends
  <1>19. ASSUME NEW s \in DOMAIN session, RevokeSession(s)
        PROVE  Addressed' /\ WelcomedOnce' /\ SessionsAreVerified'
    BY <1>19 DEF RevokeSession
  <1>20. ASSUME NEW u \in Users, RevokeAllSessions(u)
        PROVE  Addressed' /\ WelcomedOnce' /\ SessionsAreVerified'
    BY <1>20 DEF RevokeAllSessions
  <1>21. ASSUME NEW u \in Users, SoftDelete(u)
        PROVE  Addressed' /\ WelcomedOnce' /\ SessionsAreVerified'
    BY <1>21 DEF SoftDelete
  <1>22. ASSUME NEW s \in DOMAIN session, ExpireSession(s)
        PROVE  Addressed' /\ WelcomedOnce' /\ SessionsAreVerified'
    BY <1>22 DEF ExpireSession
  <1>23. ASSUME NEW u \in Users, ExpireCode(u)
        PROVE  Addressed' /\ WelcomedOnce' /\ SessionsAreVerified'
    BY <1>23 DEF ExpireCode
  <1>24. ASSUME NEW u \in Users, ExpireLink(u)
        PROVE  Addressed' /\ WelcomedOnce' /\ SessionsAreVerified'
    BY <1>24 DEF ExpireLink
  <1>25. CASE UNCHANGED vars
    BY <1>25 DEF vars
  <1>26. QED
    BY <1>1, <1>2, <1>3, <1>4, <1>5, <1>6, <1>7, <1>8, <1>9, <1>10, <1>11, <1>12, <1>13, <1>14, <1>15, <1>16, <1>17, <1>18, <1>19, <1>20, <1>21, <1>22, <1>23, <1>24, <1>25 DEF Next, Begin, Step, Administer, Time

\* What is known of sessions.
LEMMA SessionStep ==
    ASSUME TypeOK, Pointed, ResetEndsSessions, DeletionEndsSessions, [Next]_vars
    PROVE  Pointed' /\ ResetEndsSessions' /\ DeletionEndsSessions'
  <1> USE DEF TypeOK, Idle, At, Pointed, ResetEndsSessions, DeletionEndsSessions, SessionsOf, Unrevoked, ActiveSessions, IsNewest, account, credential, history, sessions
  <1>1. ASSUME NEW f \in Frames, NEW u \in Users, RegisterRead(f, u)
        PROVE  Pointed' /\ ResetEndsSessions' /\ DeletionEndsSessions'
    BY <1>1 DEF RegisterRead, Starts
  <1>2. ASSUME NEW f \in Frames, NEW u \in Users, VerifyRead(f, u)
        PROVE  Pointed' /\ ResetEndsSessions' /\ DeletionEndsSessions'
    BY <1>2 DEF VerifyRead, Starts
  <1>3. ASSUME NEW f \in Frames, NEW u \in Users, LoginRead(f, u)
        PROVE  Pointed' /\ ResetEndsSessions' /\ DeletionEndsSessions'
    BY <1>3 DEF LoginRead, Starts
  <1>4. ASSUME NEW f \in Frames, NEW u \in Users, RefreshFind(f, u)
        PROVE  Pointed' /\ ResetEndsSessions' /\ DeletionEndsSessions'
    <2>1. DOMAIN session \subseteq Nat
      BY DEF TypeOK
    <2>2. PICK s \in DOMAIN session : IsNewest(s, u) /\ Starts(f, u, s, "owner")
      BY <1>4, Zenon DEF RefreshFind
    <2>3. UNCHANGED <<account, credential, sessions>>
      BY <1>4 DEF RefreshFind
    <2>4. QED
      BY <2>1, <2>2, <2>3 DEF Starts
  <1>5. ASSUME NEW f \in Frames, NEW u \in Users, LogoutFind(f, u)
        PROVE  Pointed' /\ ResetEndsSessions' /\ DeletionEndsSessions'
    <2>1. DOMAIN session \subseteq Nat
      BY DEF TypeOK
    <2>2. PICK s \in DOMAIN session : IsNewest(s, u) /\ Starts(f, u, s, "revoke")
      BY <1>5, Zenon DEF LogoutFind
    <2>3. UNCHANGED <<account, credential, sessions>>
      BY <1>5 DEF LogoutFind
    <2>4. QED
      BY <2>1, <2>2, <2>3 DEF Starts
  <1>6. ASSUME NEW f \in Frames, NEW u \in Users, ForgotRead(f, u)
        PROVE  Pointed' /\ ResetEndsSessions' /\ DeletionEndsSessions'
    BY <1>6 DEF ForgotRead, Starts
  <1>7. ASSUME NEW f \in Frames, NEW u \in Users, ResetRead(f, u)
        PROVE  Pointed' /\ ResetEndsSessions' /\ DeletionEndsSessions'
    BY <1>7 DEF ResetRead, Starts
  <1>8. ASSUME NEW f \in Frames, RegisterWrite(f)
        PROVE  Pointed' /\ ResetEndsSessions' /\ DeletionEndsSessions'
    <2>1. CASE frame[f].user \notin registered
      <3>1. /\ "welcome" \in Steps /\ Goto(f, "welcome") /\ frame[f].step = "create"
            /\ registered' = registered \cup {frame[f].user}
            /\ codes' = codes \cup {frame[f].user}
            /\ verified' = verified \ {frame[f].user}
            /\ UNCHANGED <<welcomed, deleted, credential, sessions>>
        BY <1>8, <2>1, Zenon DEF RegisterWrite, Steps, At
      <3>2. /\ frame' \in [Frames -> {Idle} \cup [step : Steps, user : Users, saw : Nat]]
            /\ frame[f].user \in Users
            /\ frame'[f].step = "welcome"
            /\ frame'[f].user = frame[f].user
            /\ frame'[f].saw = frame[f].saw
            /\ \A g \in Frames \ {f} : frame'[g] = frame[g]
        BY <3>1, Moved
      <3>3. QED
        <4>1. Pointed'
          BY <2>1, <3>1, <3>2, ZenonT(60)
        <4>2. ResetEndsSessions'
          BY <2>1, <3>1, <3>2
        <4>3. DeletionEndsSessions'
          BY <2>1, <3>1, <3>2
        <4>4. QED
          BY <4>1, <4>2, <4>3
    <2>2. CASE frame[f].user \in registered
      <3>1. Ends(f) /\ UNCHANGED <<account, credential, sessions>>
        BY <1>8, <2>2, Zenon DEF RegisterWrite
      <3>2. QED
        BY <3>1 DEF Ends
    <2>3. QED
      BY <2>1, <2>2
  <1>9. ASSUME NEW f \in Frames, RegisterMail(f)
        PROVE  Pointed' /\ ResetEndsSessions' /\ DeletionEndsSessions'
    BY <1>9 DEF RegisterMail, Ends
  <1>10. ASSUME NEW f \in Frames, VerifyWrite(f)
        PROVE  Pointed' /\ ResetEndsSessions' /\ DeletionEndsSessions'
    BY <1>10 DEF VerifyWrite, Ends
  <1>11. ASSUME NEW f \in Frames, LoginWrite(f)
        PROVE  Pointed' /\ ResetEndsSessions' /\ DeletionEndsSessions'
    <2>1. Ends(f) /\ UNCHANGED <<account, credential, revoked, expired>>
      BY <1>11 DEF LoginWrite
    <2>2. /\ frame[f].step = "open"
          /\ orphans' = IF frame[f].user \in deleted
                        THEN orphans \cup {Len(session) + 1} ELSE orphans
      BY <1>11 DEF LoginWrite, At
    <2>3. QED
      <3>1. Pointed'
        BY <1>11, <2>1, <2>2, Opened, ZenonT(60) DEF Ends
      <3>2. ResetEndsSessions'
        <4>1. \A s \in DOMAIN session' \ revoked' :
                s = Len(session) + 1 \/ (s \in DOMAIN session \ revoked /\ session'[s] = session[s])
          BY <1>11, <2>1, Opened
        <4>2. session'[Len(session) + 1].since = password[session'[Len(session) + 1].user]
          BY <1>11, Opened
        <4>3. QED
          BY <2>1, <4>1, <4>2
      <3>3. DeletionEndsSessions'
        <4>1. \A s \in DOMAIN session' \ revoked' :
                s = Len(session) + 1 \/ (s \in DOMAIN session \ revoked /\ session'[s] = session[s])
          BY <1>11, <2>1, Opened
        <4>2. session'[Len(session) + 1].user = frame[f].user
          BY <1>11, Opened
        <4>3. QED
          BY <2>1, <2>2, <4>1, <4>2
      <3>4. QED
        BY <3>1, <3>2, <3>3
  <1>12. ASSUME NEW f \in Frames, RefreshOwner(f)
        PROVE  Pointed' /\ ResetEndsSessions' /\ DeletionEndsSessions'
    <2>1. CASE frame[f].user \in deleted
      <3>1. Ends(f) /\ UNCHANGED <<account, credential, sessions>>
        BY <1>12, <2>1, Zenon DEF RefreshOwner
      <3>2. QED
        BY <3>1 DEF Ends
    <2>2. CASE frame[f].user \notin deleted
      <3>1. /\ "rotate" \in Steps /\ Goto(f, "rotate") /\ frame[f].step = "owner"
            /\ UNCHANGED <<account, credential, sessions>>
        BY <1>12, <2>2, Zenon DEF RefreshOwner, Steps, At
      <3>2. /\ frame' \in [Frames -> {Idle} \cup [step : Steps, user : Users, saw : Nat]]
            /\ frame[f].user \in Users
            /\ frame'[f].step = "rotate"
            /\ frame'[f].user = frame[f].user
            /\ frame'[f].saw = frame[f].saw
            /\ \A g \in Frames \ {f} : frame'[g] = frame[g]
        BY <3>1, Moved
      <3>3. QED
        <4>1. Pointed'
          <5>1. \A h \in Frames : frame'[h].user = frame[h].user /\ frame'[h].saw = frame[h].saw
            BY <3>2
          <5>2. \A h \in Frames \ {f} : frame'[h].step = frame[h].step
            BY <3>2
          <5>3. frame'[f].step = "rotate" /\ frame[f].saw \notin orphans
            BY <2>2, <3>1, <3>2
          <5>4. QED
            BY <3>1, <5>1, <5>2, <5>3, ZenonT(60)
        <4>2. ResetEndsSessions'
          BY <2>2, <3>1, <3>2
        <4>3. DeletionEndsSessions'
          BY <2>2, <3>1, <3>2
        <4>4. QED
          BY <4>1, <4>2, <4>3
    <2>3. QED
      BY <2>1, <2>2
  <1>13. ASSUME NEW f \in Frames, RefreshWrite(f)
        PROVE  Pointed' /\ ResetEndsSessions' /\ DeletionEndsSessions'
    BY <1>13 DEF RefreshWrite, Ends
  <1>14. ASSUME NEW f \in Frames, LogoutWrite(f)
        PROVE  Pointed' /\ ResetEndsSessions' /\ DeletionEndsSessions'
    BY <1>14 DEF LogoutWrite, Ends
  <1>15. ASSUME NEW f \in Frames, ForgotWrite(f)
        PROVE  Pointed' /\ ResetEndsSessions' /\ DeletionEndsSessions'
    BY <1>15 DEF ForgotWrite, Ends
  <1>16. ASSUME Tick
        PROVE  Pointed' /\ ResetEndsSessions' /\ DeletionEndsSessions'
    BY <1>16 DEF Tick
  <1>17. ASSUME NEW f \in Frames, ResetWrite(f)
        PROVE  Pointed' /\ ResetEndsSessions' /\ DeletionEndsSessions'
    <2>1. frame[f].user \in Users /\ frame[f].saw \in Nat /\ frame[f].step = "reset"
      BY <1>17 DEF ResetWrite, TypeOK, At, Idle
    <2>2. /\ password' = [password EXCEPT ![frame[f].user] = @ + 1]
          /\ resetToken' = [resetToken EXCEPT ![frame[f].user] = 0]
          /\ revoked' = revoked \cup Unrevoked(frame[f].user)
          /\ spent' = spent \cup {LinkOf(f)}
          /\ respent' = respent \cup ({LinkOf(f)} \cap spent)
          /\ frame' = [frame EXCEPT ![f] = Idle]
          /\ UNCHANGED <<account, now, signed, reissued, session, expired, orphans>>
      BY <1>17, Zenon DEF ResetWrite, Ends
    <2>3. QED
      <3>1. Pointed'
        BY <2>1, <2>2
      <3>2. ResetEndsSessions'
        <4>1. \A s \in DOMAIN session : session[s].user # frame[f].user \/ s \in revoked'
          BY <2>2
        <4>2. \A u \in Users \ {frame[f].user} : password'[u] = password[u]
          BY <2>2
        <4>3. \A s \in DOMAIN session : session[s].user \in Users
            <5>1. session \in Seq([user : Users, proved : Nat, since : Nat])
              OBVIOUS
            <5>2. DOMAIN session = 1..Len(session)
              BY <5>1
            <5>3. \A s \in DOMAIN session : session[s] \in [user : Users, proved : Nat, since : Nat]
              BY <5>1, <5>2, ElementOfSeq
            <5>4. QED
              BY <5>3
        <4>4. QED
          BY <2>2, <4>1, <4>2, <4>3
      <3>3. DeletionEndsSessions'
        BY <2>1, <2>2
      <3>4. QED
        BY <3>1, <3>2, <3>3
  <1>18. ASSUME NEW f \in Frames, Fail(f)
        PROVE  Pointed' /\ ResetEndsSessions' /\ DeletionEndsSessions'
    BY <1>18 DEF Fail, Ends
  <1>19. ASSUME NEW s \in DOMAIN session, RevokeSession(s)
        PROVE  Pointed' /\ ResetEndsSessions' /\ DeletionEndsSessions'
    BY <1>19 DEF RevokeSession
  <1>20. ASSUME NEW u \in Users, RevokeAllSessions(u)
        PROVE  Pointed' /\ ResetEndsSessions' /\ DeletionEndsSessions'
    BY <1>20 DEF RevokeAllSessions
  <1>21. ASSUME NEW u \in Users, SoftDelete(u)
        PROVE  Pointed' /\ ResetEndsSessions' /\ DeletionEndsSessions'
    BY <1>21 DEF SoftDelete
  <1>22. ASSUME NEW s \in DOMAIN session, ExpireSession(s)
        PROVE  Pointed' /\ ResetEndsSessions' /\ DeletionEndsSessions'
    BY <1>22 DEF ExpireSession
  <1>23. ASSUME NEW u \in Users, ExpireCode(u)
        PROVE  Pointed' /\ ResetEndsSessions' /\ DeletionEndsSessions'
    BY <1>23 DEF ExpireCode
  <1>24. ASSUME NEW u \in Users, ExpireLink(u)
        PROVE  Pointed' /\ ResetEndsSessions' /\ DeletionEndsSessions'
    BY <1>24 DEF ExpireLink
  <1>25. CASE UNCHANGED vars
    BY <1>25 DEF vars
  <1>26. QED
    BY <1>1, <1>2, <1>3, <1>4, <1>5, <1>6, <1>7, <1>8, <1>9, <1>10, <1>11, <1>12, <1>13, <1>14, <1>15, <1>16, <1>17, <1>18, <1>19, <1>20, <1>21, <1>22, <1>23, <1>24, <1>25 DEF Next, Begin, Step, Administer, Time

\* What is known of links.
LEMMA LinkStep ==
    ASSUME TypeOK, Linked, UsedLinkIsDead, [Next]_vars
    PROVE  Linked' /\ UsedLinkIsDead'
  <1> USE DEF TypeOK, Links, LinkOf, Idle, At, Linked, UsedLinkIsDead, account, credential, history, sessions
  <1>1. ASSUME NEW f \in Frames, NEW u \in Users, RegisterRead(f, u)
        PROVE  Linked' /\ UsedLinkIsDead'
    BY <1>1 DEF RegisterRead, Starts
  <1>2. ASSUME NEW f \in Frames, NEW u \in Users, VerifyRead(f, u)
        PROVE  Linked' /\ UsedLinkIsDead'
    BY <1>2 DEF VerifyRead, Starts
  <1>3. ASSUME NEW f \in Frames, NEW u \in Users, LoginRead(f, u)
        PROVE  Linked' /\ UsedLinkIsDead'
    BY <1>3 DEF LoginRead, Starts
  <1>4. ASSUME NEW f \in Frames, NEW u \in Users, RefreshFind(f, u)
        PROVE  Linked' /\ UsedLinkIsDead'
    <2>1. DOMAIN session \subseteq Nat
      BY DEF TypeOK
    <2>2. PICK s \in DOMAIN session : IsNewest(s, u) /\ Starts(f, u, s, "owner")
      BY <1>4, Zenon DEF RefreshFind
    <2>3. UNCHANGED <<account, credential, sessions>>
      BY <1>4 DEF RefreshFind
    <2>4. QED
      BY <2>1, <2>2, <2>3 DEF Starts
  <1>5. ASSUME NEW f \in Frames, NEW u \in Users, LogoutFind(f, u)
        PROVE  Linked' /\ UsedLinkIsDead'
    <2>1. DOMAIN session \subseteq Nat
      BY DEF TypeOK
    <2>2. PICK s \in DOMAIN session : IsNewest(s, u) /\ Starts(f, u, s, "revoke")
      BY <1>5, Zenon DEF LogoutFind
    <2>3. UNCHANGED <<account, credential, sessions>>
      BY <1>5 DEF LogoutFind
    <2>4. QED
      BY <2>1, <2>2, <2>3 DEF Starts
  <1>6. ASSUME NEW f \in Frames, NEW u \in Users, ForgotRead(f, u)
        PROVE  Linked' /\ UsedLinkIsDead'
    BY <1>6 DEF ForgotRead, Starts
  <1>7. ASSUME NEW f \in Frames, NEW u \in Users, ResetRead(f, u)
        PROVE  Linked' /\ UsedLinkIsDead'
    BY <1>7 DEF ResetRead, Starts
  <1>8. ASSUME NEW f \in Frames, RegisterWrite(f)
        PROVE  Linked' /\ UsedLinkIsDead'
    <2>1. CASE frame[f].user \notin registered
      <3>1. /\ "welcome" \in Steps /\ Goto(f, "welcome") /\ frame[f].step = "create"
            /\ registered' = registered \cup {frame[f].user}
            /\ codes' = codes \cup {frame[f].user}
            /\ verified' = verified \ {frame[f].user}
            /\ UNCHANGED <<welcomed, deleted, credential, sessions>>
        BY <1>8, <2>1, Zenon DEF RegisterWrite, Steps, At
      <3>2. /\ frame' \in [Frames -> {Idle} \cup [step : Steps, user : Users, saw : Nat]]
            /\ frame[f].user \in Users
            /\ frame'[f].step = "welcome"
            /\ frame'[f].user = frame[f].user
            /\ frame'[f].saw = frame[f].saw
            /\ \A g \in Frames \ {f} : frame'[g] = frame[g]
        BY <3>1, Moved
      <3>3. QED
        <4>1. Linked'
          <5>1. \A h \in Frames : frame'[h].user = frame[h].user /\ frame'[h].saw = frame[h].saw
            BY <3>2
          <5>2. \A h \in Frames : frame'[h].step \in {"link", "reset"} => frame'[h].step = frame[h].step
            BY <3>2
          <5>3. QED
            BY <3>1, <5>1, <5>2, ZenonT(60)
        <4>2. UsedLinkIsDead'
          BY <2>1, <3>1, <3>2
        <4>3. QED
          BY <4>1, <4>2
    <2>2. CASE frame[f].user \in registered
      <3>1. Ends(f) /\ UNCHANGED <<account, credential, sessions>>
        BY <1>8, <2>2, Zenon DEF RegisterWrite
      <3>2. QED
        BY <3>1 DEF Ends
    <2>3. QED
      BY <2>1, <2>2
  <1>9. ASSUME NEW f \in Frames, RegisterMail(f)
        PROVE  Linked' /\ UsedLinkIsDead'
    BY <1>9 DEF RegisterMail, Ends
  <1>10. ASSUME NEW f \in Frames, VerifyWrite(f)
        PROVE  Linked' /\ UsedLinkIsDead'
    BY <1>10 DEF VerifyWrite, Ends
  <1>11. ASSUME NEW f \in Frames, LoginWrite(f)
        PROVE  Linked' /\ UsedLinkIsDead'
    <2>1. Ends(f) /\ UNCHANGED <<account, credential, revoked, expired>>
      BY <1>11 DEF LoginWrite
    <2>2. /\ frame[f].step = "open"
          /\ orphans' = IF frame[f].user \in deleted
                        THEN orphans \cup {Len(session) + 1} ELSE orphans
      BY <1>11 DEF LoginWrite, At
    <2>3. QED
      <3>1. Linked'
        BY <1>11, <2>1, <2>2, Opened, ZenonT(60) DEF Ends
      <3>2. UsedLinkIsDead'
        BY <1>11, <2>1, <2>2, Opened DEF Ends
      <3>3. QED
        BY <3>1, <3>2
  <1>12. ASSUME NEW f \in Frames, RefreshOwner(f)
        PROVE  Linked' /\ UsedLinkIsDead'
    <2>1. CASE frame[f].user \in deleted
      <3>1. Ends(f) /\ UNCHANGED <<account, credential, sessions>>
        BY <1>12, <2>1, Zenon DEF RefreshOwner
      <3>2. QED
        BY <3>1 DEF Ends
    <2>2. CASE frame[f].user \notin deleted
      <3>1. /\ "rotate" \in Steps /\ Goto(f, "rotate") /\ frame[f].step = "owner"
            /\ UNCHANGED <<account, credential, sessions>>
        BY <1>12, <2>2, Zenon DEF RefreshOwner, Steps, At
      <3>2. /\ frame' \in [Frames -> {Idle} \cup [step : Steps, user : Users, saw : Nat]]
            /\ frame[f].user \in Users
            /\ frame'[f].step = "rotate"
            /\ frame'[f].user = frame[f].user
            /\ frame'[f].saw = frame[f].saw
            /\ \A g \in Frames \ {f} : frame'[g] = frame[g]
        BY <3>1, Moved
      <3>3. QED
        <4>1. Linked'
          <5>1. \A h \in Frames : frame'[h].user = frame[h].user /\ frame'[h].saw = frame[h].saw
            BY <3>2
          <5>2. \A h \in Frames : frame'[h].step \in {"link", "reset"} => frame'[h].step = frame[h].step
            BY <3>2
          <5>3. QED
            BY <3>1, <5>1, <5>2
        <4>2. UsedLinkIsDead'
          BY <2>2, <3>1, <3>2
        <4>3. QED
          BY <4>1, <4>2
    <2>3. QED
      BY <2>1, <2>2
  <1>13. ASSUME NEW f \in Frames, RefreshWrite(f)
        PROVE  Linked' /\ UsedLinkIsDead'
    BY <1>13 DEF RefreshWrite, Ends
  <1>14. ASSUME NEW f \in Frames, LogoutWrite(f)
        PROVE  Linked' /\ UsedLinkIsDead'
    BY <1>14 DEF LogoutWrite, Ends
  <1>15. ASSUME NEW f \in Frames, ForgotWrite(f)
        PROVE  Linked' /\ UsedLinkIsDead'
    BY <1>15 DEF ForgotWrite, Ends
  <1>16. ASSUME Tick
        PROVE  Linked' /\ UsedLinkIsDead'
    BY <1>16 DEF Tick
  <1>17. ASSUME NEW f \in Frames, ResetWrite(f)
        PROVE  Linked' /\ UsedLinkIsDead'
    <2>1. frame[f].user \in Users /\ frame[f].saw \in Nat /\ frame[f].step = "reset"
      BY <1>17 DEF ResetWrite, TypeOK, At, Idle
    <2>2. /\ password' = [password EXCEPT ![frame[f].user] = @ + 1]
          /\ resetToken' = [resetToken EXCEPT ![frame[f].user] = 0]
          /\ revoked' = revoked \cup Unrevoked(frame[f].user)
          /\ spent' = spent \cup {LinkOf(f)}
          /\ respent' = respent \cup ({LinkOf(f)} \cap spent)
          /\ frame' = [frame EXCEPT ![f] = Idle]
          /\ UNCHANGED <<account, now, signed, reissued, session, expired, orphans>>
      BY <1>17, Zenon DEF ResetWrite, Ends
    <2>3. QED
      <3>1. Linked'
        BY <2>1, <2>2
      <3>2. UsedLinkIsDead'
        BY <2>1, <2>2
      <3>3. QED
        BY <3>1, <3>2
  <1>18. ASSUME NEW f \in Frames, Fail(f)
        PROVE  Linked' /\ UsedLinkIsDead'
    BY <1>18 DEF Fail, Ends
  <1>19. ASSUME NEW s \in DOMAIN session, RevokeSession(s)
        PROVE  Linked' /\ UsedLinkIsDead'
    BY <1>19 DEF RevokeSession
  <1>20. ASSUME NEW u \in Users, RevokeAllSessions(u)
        PROVE  Linked' /\ UsedLinkIsDead'
    BY <1>20 DEF RevokeAllSessions
  <1>21. ASSUME NEW u \in Users, SoftDelete(u)
        PROVE  Linked' /\ UsedLinkIsDead'
    BY <1>21 DEF SoftDelete
  <1>22. ASSUME NEW s \in DOMAIN session, ExpireSession(s)
        PROVE  Linked' /\ UsedLinkIsDead'
    BY <1>22 DEF ExpireSession
  <1>23. ASSUME NEW u \in Users, ExpireCode(u)
        PROVE  Linked' /\ UsedLinkIsDead'
    BY <1>23 DEF ExpireCode
  <1>24. ASSUME NEW u \in Users, ExpireLink(u)
        PROVE  Linked' /\ UsedLinkIsDead'
    BY <1>24 DEF ExpireLink
  <1>25. CASE UNCHANGED vars
    BY <1>25 DEF vars
  <1>26. QED
    BY <1>1, <1>2, <1>3, <1>4, <1>5, <1>6, <1>7, <1>8, <1>9, <1>10, <1>11, <1>12, <1>13, <1>14, <1>15, <1>16, <1>17, <1>18, <1>19, <1>20, <1>21, <1>22, <1>23, <1>24, <1>25 DEF Next, Begin, Step, Administer, Time

-----------------------------------------------------------------------------
(* Theorems *)

LEMMA StepInv == IInv /\ [Next]_vars => IInv'
  BY TypeStep, AddressStep, SessionStep, LinkStep DEF IInv

\* The inductive invariant, for any users, requests, sessions and links.
THEOREM Invariant == Spec => []IInv
  BY InitInv, StepInv, PTL DEF Spec

\* Every variable keeps its type.
THEOREM TypeCorrect == Spec => []TypeOK
  BY Invariant, PTL DEF IInv

\* Overlapping registrations of an address leave one account, mailed once.
THEOREM MailedOnce == Spec => []WelcomedOnce
  BY Invariant, PTL DEF IInv

\* Only accounts whose address is verified have sessions.
THEOREM OnlyVerifiedSignIn == Spec => []SessionsAreVerified
  BY Invariant, PTL DEF IInv

\* No session outlives a reset of its account's password, whatever refreshes,
\* logins and other resets are in progress.
THEOREM ResetsEndSessions == Spec => []ResetEndsSessions
  BY Invariant, PTL DEF IInv

\* Nor does one outlive the deletion of its account, save those of late logins.
THEOREM DeletionsEndSessions == Spec => []DeletionEndsSessions
  BY Invariant, PTL DEF IInv

\* A link that set a password is never an account's link again.
THEOREM LinksDie == Spec => []UsedLinkIsDead
  BY Invariant, PTL DEF IInv

-----------------------------------------------------------------------------
(* Sessions implements SessionLife *)

LEMMA RefineInit == Init => Life!Init
  BY DEF Init, Life!Init, phase

\* A step that leaves the rows and deletes no revocation: what it may do.
LEMMA RefineFrames ==
    ASSUME TypeOK, UNCHANGED sessions
    PROVE  UNCHANGED <<phase, orphans>>
  BY DEF sessions, phase

\* More revocations close sessions.
LEMMA RefineClose ==
    ASSUME TypeOK, NEW S \in SUBSET DOMAIN session,
           revoked' = revoked \cup S, UNCHANGED <<session, expired, orphans>>
    PROVE  Life!Next
  <1>1. DOMAIN phase = DOMAIN session
    BY DEF phase
  <1>2. phase' = [s \in DOMAIN phase |-> IF s \in S THEN "closed" ELSE phase[s]]
    BY <1>1 DEF phase
  <1>3. Life!Close(S)
    BY <1>2 DEF Life!Close
  <1>4. QED
    BY <1>1, <1>3 DEF Life!Next

LEMMA RefineOpen ==
    ASSUME TypeOK, NEW f \in Frames, LoginWrite(f)
    PROVE  Life!Next
  <1> DEFINE n == Len(session)
             P == {"live", "lapsed", "closed"}
  <1>1. n \in Nat /\ DOMAIN session = 1..n /\ DOMAIN session' = 1..(n + 1)
    <2>1. session \in Seq([user : Users, proved : Nat, since : Nat])
      BY DEF TypeOK
    <2>2. n \in Nat /\ DOMAIN session = 1..n
      BY <2>1
    <2>3. DOMAIN session' = DOMAIN session \cup {n + 1}
      BY Opened
    <2> HIDE DEF n
    <2>4. QED
      BY <2>2, <2>3
  <1>2. UNCHANGED <<revoked, expired>>
    BY DEF LoginWrite
  <1>3. n + 1 \notin revoked \cup expired
    BY <1>1 DEF TypeOK
  <1> HIDE DEF n
  <1>4. /\ phase \in [1..n -> P]
        /\ phase' \in [1..(n + 1) -> P]
        /\ phase'[n + 1] = "live"
        /\ \A s \in 1..n : phase'[s] = phase[s]
    BY <1>1, <1>2, <1>3 DEF phase
  <1> HIDE DEF P
  <1>5. phase \in Seq(P) /\ Len(phase) = n
    BY <1>1, <1>4
  <1>6. "live" \in P
    BY DEF P
  <1>7. /\ Append(phase, "live") \in Seq(P)
        /\ Len(Append(phase, "live")) = n + 1
        /\ \A i \in 1..n : Append(phase, "live")[i] = phase[i]
        /\ Append(phase, "live")[n + 1] = "live"
    BY <1>5, <1>6, AppendProperties
  <1>8. phase' \in Seq(P) /\ Len(phase') = n + 1
    BY <1>1, <1>4
  <1>9. \A i \in 1..(n + 1) : phase'[i] = Append(phase, "live")[i]
    BY <1>1, <1>4, <1>7
  <1>10. phase' = Append(phase, "live")
    BY <1>7, <1>8, <1>9, SeqEqual
  <1>11. orphans' = IF frame[f].user \in deleted THEN orphans \cup {n + 1} ELSE orphans
    BY DEF LoginWrite, n
  <1>12. Life!Open(TRUE) \/ Life!Open(FALSE)
    BY <1>5, <1>10, <1>11 DEF Life!Open
  <1>13. QED
    BY <1>12 DEF Life!Next

LEMMA RefineRenew ==
    ASSUME TypeOK, Pointed, NEW f \in Frames, RefreshWrite(f)
    PROVE  Life!Next \/ UNCHANGED <<phase, orphans>>
  <1> DEFINE s == frame[f].saw
  <1>1. s \in DOMAIN session /\ s \notin orphans
    BY DEF RefreshWrite, At, Pointed, SessionsOf
  <1>2. /\ expired' = expired \ {s}
        /\ UNCHANGED <<session, revoked, orphans>>
    BY DEF RefreshWrite
  <1> HIDE DEF s
  <1>3. CASE s \in expired \ revoked
    <2>1. phase[s] = "lapsed" /\ phase' = [phase EXCEPT ![s] = "live"]
      BY <1>1, <1>2, <1>3 DEF phase
    <2>2. Life!Renew(s) /\ s \in DOMAIN phase
      BY <1>1, <1>2, <2>1 DEF Life!Renew, phase
    <2>3. QED
      BY <2>2 DEF Life!Next
  <1>4. CASE s \notin expired \ revoked
    BY <1>2, <1>4 DEF phase
  <1>5. QED
    BY <1>3, <1>4

LEMMA RefineLapse ==
    ASSUME TypeOK, NEW s \in DOMAIN session, ExpireSession(s)
    PROVE  Life!Next \/ UNCHANGED <<phase, orphans>>
  <1>1. expired' = expired \cup {s} /\ UNCHANGED <<session, revoked, orphans>>
    BY DEF ExpireSession
  <1>2. CASE s \notin expired \cup revoked
    <2>1. phase[s] = "live" /\ phase' = [phase EXCEPT ![s] = "lapsed"]
      BY <1>1, <1>2 DEF phase
    <2>2. Life!Lapse(s) /\ s \in DOMAIN phase
      BY <1>1, <2>1 DEF Life!Lapse, phase
    <2>3. QED
      BY <2>2 DEF Life!Next
  <1>3. CASE s \in expired \cup revoked
    BY <1>1, <1>3 DEF phase
  <1>4. QED
    BY <1>2, <1>3

LEMMA RefineStep ==
    ASSUME IInv, [Next]_vars
    PROVE  [Life!Next]_<<phase, orphans>>
  <1> USE DEF IInv
  <1>1. ASSUME NEW f \in Frames, NEW u \in Users, Begin(f, u)
        PROVE  UNCHANGED sessions
    BY <1>1 DEF Begin, RegisterRead, VerifyRead, LoginRead, RefreshFind, LogoutFind,
                ForgotRead, ResetRead
  <1>2. ASSUME NEW f \in Frames, Step(f)
        PROVE  Life!Next \/ UNCHANGED <<phase, orphans>>
    <2>1. CASE \/ RegisterWrite(f) \/ RegisterMail(f) \/ VerifyWrite(f)
               \/ RefreshOwner(f) \/ ForgotWrite(f) \/ Fail(f)
      <3>1. UNCHANGED sessions
        BY <2>1 DEF RegisterWrite, RegisterMail, VerifyWrite, RefreshOwner, ForgotWrite,
                    Fail
      <3>2. QED
        BY <3>1, RefineFrames
    <2>2. CASE LoginWrite(f)
      BY <2>2, RefineOpen
    <2>3. CASE RefreshWrite(f)
      BY <2>3, RefineRenew
    <2>4. CASE LogoutWrite(f)
      <3>1. frame[f].saw \in DOMAIN session
        BY <2>4 DEF LogoutWrite, At, Pointed, SessionsOf
      <3>2. /\ {frame[f].saw} \in SUBSET DOMAIN session
            /\ revoked' = revoked \cup {frame[f].saw}
            /\ UNCHANGED <<session, expired, orphans>>
        BY <2>4, <3>1 DEF LogoutWrite
      <3>3. QED
        BY <3>2, RefineClose
    <2>5. CASE ResetWrite(f)
      <3>1. /\ Unrevoked(frame[f].user) \in SUBSET DOMAIN session
            /\ revoked' = revoked \cup Unrevoked(frame[f].user)
            /\ UNCHANGED <<session, expired, orphans>>
        BY <2>5 DEF ResetWrite, Unrevoked, SessionsOf
      <3>2. QED
        BY <3>1, RefineClose
    <2>6. QED
      BY <1>2, <2>1, <2>2, <2>3, <2>4, <2>5 DEF Step
  <1>3. ASSUME NEW s \in DOMAIN session, RevokeSession(s)
        PROVE  Life!Next
    <2>1. /\ {s} \in SUBSET DOMAIN session
          /\ revoked' = revoked \cup {s} /\ UNCHANGED <<session, expired, orphans>>
      BY <1>3 DEF RevokeSession
    <2>2. QED
      BY <2>1, RefineClose
  <1>4. ASSUME NEW u \in Users, RevokeAllSessions(u)
        PROVE  Life!Next
    <2>1. /\ Unrevoked(u) \in SUBSET DOMAIN session
          /\ revoked' = revoked \cup Unrevoked(u)
          /\ UNCHANGED <<session, expired, orphans>>
      BY <1>4 DEF RevokeAllSessions, Unrevoked, SessionsOf
    <2>2. QED
      BY <2>1, RefineClose
  <1>5. ASSUME NEW u \in Users, SoftDelete(u)
        PROVE  Life!Next
    <2>1. /\ SessionsOf(u) \in SUBSET DOMAIN session
          /\ revoked' = revoked \cup SessionsOf(u)
          /\ UNCHANGED <<session, expired, orphans>>
      BY <1>5 DEF SoftDelete, SessionsOf
    <2>2. QED
      BY <2>1, RefineClose
  <1>6. ASSUME Time
        PROVE  Life!Next \/ UNCHANGED <<phase, orphans>>
    <2>1. ASSUME NEW u \in Users, ExpireCode(u) \/ ExpireLink(u)
          PROVE  UNCHANGED sessions
      BY <2>1 DEF ExpireCode, ExpireLink
    <2>2. Tick => UNCHANGED sessions
      BY DEF Tick
    <2>3. QED
      BY <1>6, <2>1, <2>2, RefineFrames, RefineLapse DEF Time
  <1>7. CASE UNCHANGED vars
    BY <1>7, RefineFrames DEF vars
  <1>8. QED
    BY <1>1, <1>2, <1>3, <1>4, <1>5, <1>6, <1>7, RefineFrames DEF Next, Administer

\* Sessions live as SessionLife promises, for any users, requests and sessions.
THEOREM Refinement == Spec => RefinesSessionLife
  <1>1. Init => Life!Init
    BY RefineInit
  <1>2. IInv /\ [Next]_vars => [Life!Next]_<<phase, orphans>>
    BY RefineStep
  <1>3. QED
    BY <1>1, <1>2, Invariant, PTL DEF Spec, RefinesSessionLife, Life!Spec

-----------------------------------------------------------------------------
(* Requests one at a time *)

\* A step that overlaps no other keeps what the request has read true.
LEMMA AloneStep ==
    ASSUME IInv, Alone, Next, \A f, g \in Busy' : f = g,
           Busy = {} \/ deleted' = deleted
    PROVE  ReadsCurrent' /\ LoginsCurrent' /\ LinkUsedOnce'
  <1> USE DEF IInv, TypeOK, Idle, At, LinkOf, Busy, Alone, ReadsCurrent, LoginsCurrent, LinkUsedOnce, account, credential, history, sessions
  <1>1. ASSUME NEW f \in Frames, NEW u \in Users,
             RegisterRead(f, u) \/ VerifyRead(f, u) \/ ForgotRead(f, u)
        PROVE  ReadsCurrent' /\ LoginsCurrent' /\ LinkUsedOnce'
    <2>1. PICK x \in {0, now}, step \in {"create", "verify", "link"} : Starts(f, u, x, step)
      BY <1>1, Zenon DEF RegisterRead, VerifyRead, ForgotRead
    <2>2. /\ UNCHANGED <<account, password, resetToken, now, spent, respent, sessions>>
          /\ reissued \subseteq reissued'
      BY <1>1 DEF RegisterRead, VerifyRead, ForgotRead
    <2>3. QED
      BY <2>1, <2>2 DEF Starts, LinkOf
  <1>2. ASSUME NEW f \in Frames, NEW u \in Users, LoginRead(f, u)
        PROVE  ReadsCurrent' /\ LoginsCurrent' /\ LinkUsedOnce'
    BY <1>2 DEF LoginRead, Starts
  <1>3. ASSUME NEW f \in Frames, NEW u \in Users,
             RefreshFind(f, u) \/ LogoutFind(f, u)
        PROVE  ReadsCurrent' /\ LoginsCurrent' /\ LinkUsedOnce'
    <2>1. PICK s \in DOMAIN session, step \in {"owner", "revoke"} : Starts(f, u, s, step)
      BY <1>3, Zenon DEF RefreshFind, LogoutFind
    <2>2. UNCHANGED <<account, credential, sessions>>
      BY <1>3 DEF RefreshFind, LogoutFind
    <2>3. QED
      BY <2>1, <2>2 DEF Starts
  <1>4. ASSUME NEW f \in Frames, NEW u \in Users, ResetRead(f, u)
        PROVE  ReadsCurrent' /\ LoginsCurrent' /\ LinkUsedOnce'
    BY <1>4 DEF ResetRead, Starts, UsedLinkIsDead
  <1>5. ASSUME NEW f \in Frames,
             \/ RegisterWrite(f) \/ RegisterMail(f) \/ VerifyWrite(f) \/ RefreshOwner(f)
             \/ RefreshWrite(f) \/ LogoutWrite(f) \/ ForgotWrite(f) \/ Fail(f)
        PROVE  ReadsCurrent' /\ LoginsCurrent' /\ LinkUsedOnce'
    <2>1. /\ UNCHANGED <<password, history, session, orphans, deleted>>
          /\ ~At(f, "idle")
      BY <1>5 DEF RegisterWrite, RegisterMail, VerifyWrite, RefreshOwner, RefreshWrite,
                  LogoutWrite, ForgotWrite, Fail
    <2>2. /\ \A g \in Frames \ {f} : frame'[g] = frame[g]
          /\ frame'[f].step \in {"idle", "welcome", "rotate"}
      BY <1>5 DEF RegisterWrite, RegisterMail, VerifyWrite, RefreshOwner, RefreshWrite,
                  LogoutWrite, ForgotWrite, Fail, Goto, Ends
    <2>3. \A g \in Frames \ {f} : frame[g].step = "idle"
      BY <2>1
    <2>4. QED
      BY <2>1, <2>2, <2>3
  <1>6. ASSUME NEW f \in Frames, LoginWrite(f)
        PROVE  ReadsCurrent' /\ LoginsCurrent' /\ LinkUsedOnce'
    <2>1. Ends(f) /\ UNCHANGED <<account, credential>>
      BY <1>6 DEF LoginWrite
    <2>2. frame[f].saw = password[frame[f].user] /\ frame[f].user \notin deleted
      BY <1>6 DEF LoginWrite
    <2>3. orphans' = orphans
      BY <1>6, <2>2 DEF LoginWrite
    <2>4. \A s \in DOMAIN session' : session'[s].proved = session'[s].since
      BY <1>6, <2>2, Opened, ZenonT(60)
    <2>5. QED
      BY <2>1, <2>3, <2>4 DEF Ends
  <1>7. ASSUME NEW f \in Frames, ResetWrite(f)
        PROVE  ReadsCurrent' /\ LoginsCurrent' /\ LinkUsedOnce'
    <2>1. /\ spent' = spent \cup {LinkOf(f)}
          /\ respent' = respent \cup ({LinkOf(f)} \cap spent)
          /\ reissued' = reissued
          /\ frame' = [frame EXCEPT ![f] = Idle]
          /\ UNCHANGED <<session, orphans>>
          /\ frame[f].step = "reset"
      BY <1>7, Zenon DEF ResetWrite, Ends
    <2>2. \A g \in Frames : frame'[g].step = "idle"
      BY <2>1
    <2>3. QED
      BY <2>1, <2>2
  <1>8. ASSUME Administer
        PROVE  ReadsCurrent' /\ LoginsCurrent' /\ LinkUsedOnce'
    <2>1. UNCHANGED <<password, history, session, orphans, frame>>
      BY <1>8 DEF Administer, RevokeSession, RevokeAllSessions, SoftDelete
    <2>2. \A f \in Frames : At(f, "open") => deleted' = deleted
      OBVIOUS
    <2>3. QED
      BY <2>1, <2>2
  <1>9. ASSUME Time
        PROVE  ReadsCurrent' /\ LoginsCurrent' /\ LinkUsedOnce'
    BY <1>9 DEF Time, ExpireSession, ExpireCode, ExpireLink, Tick
  <1>10. QED
    BY <1>1, <1>2, <1>3, <1>4, <1>5, <1>6, <1>7, <1>8, <1>9 DEF Next, Begin, Step

\* Observing overlaps changes no step: the invariant of Sessions holds here too.
LEMMA AloneKeepsInvariant == AloneSpec => []IInv
  <1>1. AloneInit => IInv
    BY InitInv DEF AloneInit
  <1>2. IInv /\ [AloneNext]_<<vars, overlapped>> => IInv'
    BY StepInv DEF AloneNext
  <1>3. QED
    BY <1>1, <1>2, PTL DEF AloneSpec

\* The inductive invariant of requests that come one at a time.
THEOREM AloneInvariant == AloneSpec => []AloneInv
  <1>1. AloneInit => AloneInv
    BY DEF AloneInit, Init, AloneInv, Alone, Busy, At, Idle, ReadsCurrent,
           LoginsCurrent, LinkUsedOnce
  <1>2. IInv /\ AloneInv /\ [AloneNext]_<<vars, overlapped>> => AloneInv'
    <2> SUFFICES ASSUME IInv, AloneInv, [AloneNext]_<<vars, overlapped>>, ~overlapped'
                 PROVE  Alone'
      BY DEF AloneInv, Alone
    <2>1. CASE AloneNext
      <3>1. /\ Next /\ ~overlapped
            /\ \A f, g \in Busy' : f = g
            /\ Busy = {} \/ deleted' = deleted
        BY <2>1 DEF AloneNext
      <3>2. QED
        BY <3>1, AloneStep DEF AloneInv, Alone
    <2>2. CASE UNCHANGED <<vars, overlapped>>
      BY <2>2 DEF AloneInv, Alone, Busy, At, LinkOf, ReadsCurrent, LoginsCurrent, LinkUsedOnce,
                  vars, account, credential, history, sessions
    <2>3. QED
      BY <2>1, <2>2
  <1>3. QED
    BY <1>1, <1>2, AloneKeepsInvariant, PTL DEF AloneSpec

\* As long as requests come one at a time, live sessions know the present password
\* of an existing account and a link sets one password, for any users and sessions.
THEOREM SafeAlone == AloneSpec => []AloneIsSafe
  <1>1. IInv /\ AloneInv => AloneIsSafe
    BY DEF IInv, AloneInv, Alone, AloneIsSafe, LoginsCurrent, ResetEndsSessions,
           DeletionEndsSessions
  <1>2. QED
    BY <1>1, AloneKeepsInvariant, AloneInvariant, PTL

=============================================================================
