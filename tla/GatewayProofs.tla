----------------------------- MODULE GatewayProofs -----------------------------
(***************************************************************************)
(* For any number of calls to any routes the gateway implements RemoteCall. *)
(* No step changes the fields of two calls differently from its own, but   *)
(* the restarts, which treat all calls alike.                              *)
(***************************************************************************)
EXTENDS Gateway, TLAPS

\* At the start no call has arrived.
LEMMA InitInv == Init => IInv
BY DEF Init, IInv, TypeOK, Consistent

\* The gateway answers an error of the proxy in one of the listed ways.
LEMMA ThrownTypes ==
    ASSUME TypeOK, NEW c \in Calls, route[c] # {}, NEW e \in {"error", "unavailable"}
    PROVE  Thrown(c, e) \in {e, "blank", "fault", "standIn"}
<1>1. PICK r \in Routes : route[c] = {r}
  BY DEF TypeOK
<1>2. r.errors \in {"relay", "rewrap", "bare", "standIn"}
  BY <1>1 DEF Routes, Route, OrderRoutes, UserRoutes, AuthRoutes, PasswordRoutes,
     PaymentRoutes, Page, SuccessPage, FailurePage, PaymentStandIns, ProductRoutes, CategoryPages, CategoryAdministration,
     CategoryHealth
<1> QED BY <1>1, <1>2 DEF Thrown

\* The types are kept.
LEMMA TypeStep == IInv /\ [Next]_vars => TypeOK'
<1> SUFFICES ASSUME IInv, [Next]_vars PROVE TypeOK'
  OBVIOUS
<1> USE DEF IInv, Consistent
<1>1. ASSUME NEW c \in Calls, NEW r \in Routes, Arrive(c, r) PROVE TypeOK'
  BY <1>1 DEF Arrive, Goto, service, TypeOK, Answers
<1>2. ASSUME NEW c \in Calls, Vet(c) PROVE TypeOK'
  BY <1>2 DEF Vet, Finish, Goto, service, TypeOK, Answers
<1>3. ASSUME NEW c \in Calls, Send(c) PROVE TypeOK'
  <2>1. Thrown(c, "unavailable") \in Answers
    BY <1>3, ThrownTypes DEF Send, Answers
  <2> QED BY <1>3, <2>1 DEF Send, Finish, Goto, service, TypeOK, Answers
<1>4. ASSUME NEW c \in Calls, Receive(c) PROVE TypeOK'
  <2>1. Thrown(c, "unavailable") \in Answers /\ Thrown(c, "error") \in Answers
    BY <1>4, ThrownTypes DEF Receive, Answers
  <2>2. reply[c] \in {"body", "error", "reset"}
    BY <1>4 DEF Receive, TypeOK
  <2>3. \E a \in Answers : Finish(c, a)
    BY <1>4, <2>1, <2>2 DEF Receive, Answers
  <2> QED BY <1>4, <2>3 DEF Receive, Finish, Goto, service, TypeOK, Answers
<1>5. ASSUME NEW c \in Calls, TimeOut(c) PROVE TypeOK'
  <2>1. Thrown(c, "unavailable") \in Answers
    BY <1>5, ThrownTypes DEF TimeOut, Answers
  <2> QED BY <1>5, <2>1 DEF TimeOut, Finish, Goto, service, TypeOK, Answers
<1>6. ASSUME NEW c \in Calls, Serve(c) PROVE TypeOK'
  BY <1>6 DEF Serve, Refuse, Run, Reply, GiveUp, gateway, TypeOK
<1>7. ASSUME NEW s \in Services, ServiceRestart(s) PROVE TypeOK'
  BY <1>7 DEF ServiceRestart, gateway, TypeOK
<1>8. CASE Restart
  BY <1>8 DEF Restart, service, TypeOK, Answers
<1>9. CASE UNCHANGED vars
  BY <1>9 DEF vars, gateway, service, TypeOK
<1> QED BY <1>1, <1>2, <1>3, <1>4, <1>5, <1>6, <1>7, <1>8, <1>9 DEF Next, Proxy

\* What is known of a call is kept, step by step.
LEMMA ConsistentStep == IInv /\ [Next]_vars => Consistent'
<1> SUFFICES ASSUME IInv, [Next]_vars, NEW d \in Calls PROVE Consistent!(d)'
  BY DEF Consistent
<1> USE DEF IInv, Consistent, Asking, Swallows
<1>1. ASSUME NEW c \in Calls, NEW r \in Routes, Arrive(c, r) PROVE Consistent!(d)'
  <2>1. /\ UNCHANGED <<work, reply, ran>> /\ route'[c] = {r}
        /\ stage[c] = "idle" /\ answer[c] = "none"
        /\ stage'[c] \in {"asking", "ready", "answered"} /\ answer'[c] \in {"none", "denied"}
        /\ \A b \in Calls \ {c} : /\ route'[b] = route[b] /\ stage'[b] = stage[b]
                                  /\ answer'[b] = answer[b]
    BY <1>1 DEF Arrive, Goto, service, TypeOK
  <2>2. CASE d = c
    <3>1. work[c] = "none" /\ reply[c] = "none"
      BY <2>1
    <3> QED BY <2>1, <2>2, <3>1
  <2>3. CASE d # c
    BY <2>1, <2>3
  <2> QED BY <2>2, <2>3
<1>2. ASSUME NEW c \in Calls, Vet(c) PROVE Consistent!(d)'
  BY <1>2 DEF Vet, Finish, Goto, service, TypeOK
<1>3. ASSUME NEW c \in Calls, Send(c) PROVE Consistent!(d)'
  <2>1. Thrown(c, "unavailable") \in {"unavailable", "blank", "fault", "standIn"}
    BY <1>3, ThrownTypes DEF Send
  <2> QED BY <1>3, <2>1 DEF Send, Finish, Goto, service, TypeOK
<1>4. ASSUME NEW c \in Calls, Receive(c) PROVE Consistent!(d)'
  <2>1. Thrown(c, "unavailable") \in {"unavailable", "blank", "fault", "standIn"}
    BY <1>4, ThrownTypes DEF Receive
  <2>2. Thrown(c, "error") \in {"error", "blank", "fault", "standIn"}
    BY <1>4, ThrownTypes DEF Receive
  <2>3. reply[c] \in {"body", "error", "reset"}
    BY <1>4 DEF Receive, TypeOK
  <2>4. \E a \in Answers \ {"denied"} : Finish(c, a) /\ (a = "ok" => reply[c] = "body")
    BY <1>4, <2>1, <2>2, <2>3 DEF Receive, Answers
  <2> QED BY <1>4, <2>4 DEF Receive, Finish, Goto, service, TypeOK, Answers
<1>5. ASSUME NEW c \in Calls, TimeOut(c) PROVE Consistent!(d)'
  <2>1. Thrown(c, "unavailable") \in {"unavailable", "blank", "fault", "standIn"}
    BY <1>5, ThrownTypes DEF TimeOut
  <2> QED BY <1>5, <2>1 DEF TimeOut, Finish, Goto, service, TypeOK
<1>6. ASSUME NEW c \in Calls, Serve(c) PROVE Consistent!(d)'
  BY <1>6 DEF Serve, Refuse, Run, Reply, GiveUp, gateway, TypeOK
<1>7. ASSUME NEW s \in Services, ServiceRestart(s) PROVE Consistent!(d)'
  BY <1>7 DEF ServiceRestart, gateway, TypeOK
<1>8. CASE Restart
  BY <1>8 DEF Restart, service, TypeOK
<1>9. CASE UNCHANGED vars
  BY <1>9 DEF vars, gateway, service, TypeOK
<1> QED BY <1>1, <1>2, <1>3, <1>4, <1>5, <1>6, <1>7, <1>8, <1>9 DEF Next, Proxy

\* The inductive invariant holds of every behaviour: what a call has had done and what
\* its client was answered go together, except that a page of payment-service which has
\* given up may still have its operation run (ProxyRequest.request,
\* handleSuccessfulPayment).
THEOREM Invariant == Spec => []IInv
<1>1. IInv /\ [Next]_vars => IInv'
  BY TypeStep, ConsistentStep DEF IInv
<1> QED BY InitInv, <1>1, PTL DEF Spec

\* The variables keep their types (the controllers and ProxyRequest).
THEOREM TypeCorrect == Spec => []TypeOK
<1>1. IInv => TypeOK
  BY DEF IInv
<1> QED BY <1>1, Invariant, PTL

\* A step that only answers calls tells their clients nothing unjustified.
LEMMA TellStep ==
    ASSUME IInv, IInv', UNCHANGED service,
           \A c \in Calls : /\ answer'[c] # answer[c] => answer[c] = "none"
                            /\ answer[c] = "none" \/ route'[c] = route[c]
    PROVE  Remote!Tell
<1>1. told' \in [Calls -> Remote!Tidings]
  BY DEF told, Remote!Tidings
<1>2. ASSUME NEW c \in Calls, told'[c] # told[c]
      PROVE  told[c] = "nothing" /\ Remote!Justified(c, told'[c])
  <2>1. answer[c] = "none"
    <3>1. CASE answer'[c] = answer[c] /\ route'[c] = route[c]
      BY <1>2, <3>1 DEF told, Asking, Swallows
    <3> QED BY <3>1
  <2>2. told[c] = "nothing"
    BY <2>1 DEF told
  <2>3. told'[c] = "denied" => answer'[c] = "denied"
    BY DEF told
  <2>4. told'[c] = "result" => answer'[c] = "ok" /\ ~Swallows(c)'
    BY DEF told
  <2>5. /\ answer'[c] = "denied" => ran'[c] = 0
        /\ answer'[c] = "ok" /\ ~Swallows(c)' => ran'[c] = 1
    BY DEF IInv, Consistent
  <2>6. ran' = ran
    BY DEF service
  <2> QED BY <2>2, <2>3, <2>4, <2>5, <2>6 DEF Remote!Justified
<1>3. UNCHANGED ran
  BY DEF service
<1> QED BY <1>1, <1>2, <1>3 DEF Remote!Tell

\* Every step of the gateway or of a service is a step of RemoteCall or invisible.
LEMMA RefinementStep == IInv /\ IInv' /\ [Next]_vars => [Remote!Next]_(Remote!vars)
<1> SUFFICES ASSUME IInv, IInv', [Next]_vars PROVE [Remote!Next]_(Remote!vars)
  OBVIOUS
<1>0. UNCHANGED <<answer, route, ran>> => UNCHANGED Remote!vars
  BY DEF told, Asking, Swallows, Remote!vars
<1>1. ASSUME UNCHANGED service,
             \A c \in Calls : /\ answer'[c] # answer[c] => answer[c] = "none"
                              /\ answer[c] = "none" \/ route'[c] = route[c]
      PROVE  [Remote!Next]_(Remote!vars)
  BY <1>1, TellStep DEF Remote!Next
<1>2. ASSUME NEW c \in Calls,
             (\E r \in Routes : Arrive(c, r)) \/ Vet(c) \/ Receive(c) \/ TimeOut(c)
      PROVE  [Remote!Next]_(Remote!vars)
  <2>1. UNCHANGED service
    BY <1>2 DEF Arrive, Vet, Receive, TimeOut
  <2>2. \A d \in Calls : /\ answer'[d] # answer[d] => answer[d] = "none"
                         /\ answer[d] = "none" \/ route'[d] = route[d]
    BY <1>2 DEF Arrive, Vet, Receive, TimeOut, Finish, Goto, IInv, TypeOK
  <2> QED BY <1>1, <2>1, <2>2
<1>3. ASSUME NEW c \in Calls, Send(c) PROVE [Remote!Next]_(Remote!vars)
  <2>1. CASE UNCHANGED service
    <3>1. \A d \in Calls : /\ answer'[d] # answer[d] => answer[d] = "none"
                           /\ answer[d] = "none" \/ route'[d] = route[d]
      BY <1>3 DEF Send, Finish, Goto, IInv, TypeOK
    <3> QED BY <1>1, <2>1, <3>1
  <2>2. CASE UNCHANGED <<answer, route, ran>>
    BY <1>0, <2>2
  <2> QED BY <1>3, <2>1, <2>2 DEF Send
<1>4. ASSUME NEW c \in Calls, Run(c) PROVE [Remote!Next]_(Remote!vars)
  <2>0. work[c] \in {"queued", "adrift"} /\ ran' = [ran EXCEPT ![c] = @ + 1]
    BY <1>4 DEF Run
  <2>1. ran[c] = 0 /\ ran' = [ran EXCEPT ![c] = 1]
    <3>1. ran[c] = 0
      BY <2>0 DEF IInv, Consistent
    <3> QED BY <2>0, <3>1
  <2>2. /\ answer[c] # "denied"
        /\ answer[c] = "ok" => Swallows(c)
        /\ answer[c] = "error" => Asking(c)
    BY <1>4 DEF Run, IInv, Consistent
  <2>3. told[c] \in {"nothing", "unsure"}
    BY <2>2 DEF told
  <2>4. UNCHANGED told
    BY <1>4 DEF Run, gateway, told, Asking, Swallows
  <2> QED BY <2>1, <2>3, <2>4 DEF Remote!Run, Remote!Next
<1>5. ASSUME NEW c \in Calls, Refuse(c) \/ Reply(c) \/ GiveUp(c) PROVE [Remote!Next]_(Remote!vars)
  BY <1>0, <1>5 DEF Refuse, Reply, GiveUp, gateway
<1>6. ASSUME NEW s \in Services, ServiceRestart(s) PROVE [Remote!Next]_(Remote!vars)
  BY <1>0, <1>6 DEF ServiceRestart, gateway
<1>7. CASE Restart
  <2>1. UNCHANGED service
    BY <1>7 DEF Restart
  <2>2. \A d \in Calls : /\ answer'[d] # answer[d] => answer[d] = "none"
                         /\ answer[d] = "none" \/ route'[d] = route[d]
    BY <1>7 DEF Restart, IInv, TypeOK
  <2> QED BY <1>1, <2>1, <2>2
<1>8. CASE UNCHANGED vars
  BY <1>0, <1>8 DEF vars, gateway, service
<1> QED BY <1>2, <1>3, <1>4, <1>5, <1>6, <1>7, <1>8 DEF Next, Proxy, Serve

\* The gateway with its services implements RemoteCall (ProxyRequest.request); the
\* failure of the success page and the answers of the failure page tell nothing.
THEOREM Refinement == Spec => RefinesRemoteCall
<1>1. Init => Remote!Init
  BY DEF Init, Remote!Init, told
<1> QED BY <1>1, Invariant, RefinementStep, PTL DEF Spec, RefinesRemoteCall, Remote!Spec

=============================================================================
