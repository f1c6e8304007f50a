-------------------------------- MODULE Gateway --------------------------------
(***************************************************************************)
(* The gateway: a guard, one HTTP request to a service (ProxyRequest), and *)
(* the conversion of its failure that each controller makes.               *)
(*                                                                         *)
(* The gateway stops waiting after ten seconds and may restart; neither is *)
(* noticed by the service, which goes on with what it was sent.  A service *)
(* may be slow for any time, refuse, fail after it has done its work, or   *)
(* restart, which loses the requests it was working on.                    *)
(*                                                                         *)
(* A route is the service it leads to, its guard, what its controller does *)
(* with an error of the proxy, and whether the service has the operation   *)
(* run by another one.  What the operations do is the subject of the other *)
(* modules; here an operation either has run or has not.                   *)
(***************************************************************************)
EXTENDS Naturals

CONSTANT Calls  \* HTTP requests of clients

-----------------------------------------------------------------------------
(* The controllers *)

Route(service, guards, errors) ==
    [service : {service}, guard : guards, errors : errors, asks : {"none"}]

\* Pages of payment-service, which has order-service record the payment and waits
\* five seconds for it.  asks tells what the page makes of a failure.
Page(ask) == [service : {"payment"}, guard : {"open"}, errors : {"relay"}, asks : {ask}]

\* OrdersController has no try: the exception of the proxy is the answer.
OrderRoutes == Route("order", {"token", "open"}, {"relay"})

\* UsersController has /users/me only.
UserRoutes == Route("user", {"token"}, {"relay"})

\* AuthController passes on what the proxy throws.
AuthRoutes == Route("user", {"open"}, {"relay"})

\* forgot-password, reset-password and info make a new HttpException from fields
\* (response.data, response.status) that the exception of the proxy does not have.
PasswordRoutes == Route("user", {"open"}, {"rewrap"})

\* createPayment and the pending page of PaymentController.
PaymentRoutes == Route("payment", {"open"}, {"relay"})

\* handleSuccessfulPayment throws what it is told, or that it was told nothing.
SuccessPage == Page("mustHear")

\* handleFailedPayment swallows both.
FailurePage == Page("mayHear")

\* webhook, diagnostic and ping answer something of their own instead.
PaymentStandIns == Route("payment", {"open"}, {"standIn"})

\* ProductController rewraps as AuthController does.
ProductRoutes == Route("product", {"open", "admin"}, {"rewrap"})

\* The pages of ProductCategoryController, which throws a value that is no
\* exception when the proxy fails.
CategoryPages == Route("product", {"open"}, {"bare"})

\* What administrators do with categories fails likewise.
CategoryAdministration == Route("product", {"admin"}, {"bare"})

\* Its health check answers that the service is unhealthy.
CategoryHealth == Route("product", {"open"}, {"standIn"})

Routes ==
    OrderRoutes \cup UserRoutes \cup AuthRoutes \cup PasswordRoutes
      \cup PaymentRoutes \cup SuccessPage \cup FailurePage \cup PaymentStandIns \cup ProductRoutes
      \cup CategoryPages \cup CategoryAdministration \cup CategoryHealth

Services == {"order", "user", "payment", "product"}

VARIABLES
    route,      \* what each call asked for, {} before it arrived
    stage,      \* where it stands in the gateway
    answer,     \* what its client was answered
    work,       \* where it stands in the service
    reply,      \* what came back on the connection of the proxy
    ran         \* how often its operation has run

gateway == <<route, stage, answer>>
service == <<work, reply, ran>>
vars == <<gateway, service>>

Init ==
    /\ route = [c \in Calls |-> {}]
    /\ stage = [c \in Calls |-> "idle"]
    /\ answer = [c \in Calls |-> "none"]
    /\ work = [c \in Calls |-> "none"]
    /\ reply = [c \in Calls |-> "none"]
    /\ ran = [c \in Calls |-> 0]

Goto(c, step) == stage' = [stage EXCEPT ![c] = step]

Finish(c, a) ==
    /\ Goto(c, "answered")
    /\ answer' = [answer EXCEPT ![c] = a]
    /\ UNCHANGED route

\* What a client is answered when the proxy throws.  A rewrapped error has neither
\* body nor status: Nest sends an empty object with the status of success.  A value
\* that is no exception becomes status 500.
Thrown(c, error) ==
    LET Does(e) == \E r \in route[c] : r.errors = e
    IN  CASE Does("relay")   -> error
          [] Does("rewrap")  -> "blank"
          [] Does("bare")    -> "fault"
          [] Does("standIn") -> "standIn"

-----------------------------------------------------------------------------
(* The guards *)

\* JwtAuthGuard verifies the token itself; AdminGuard asks user-service.
Arrive(c, r) ==
    /\ stage[c] = "idle"
    /\ route' = [route EXCEPT ![c] = {r}]
    /\ \/ Goto(c, IF r.guard = "admin" THEN "asking" ELSE "ready") /\ UNCHANGED answer
       \/ /\ r.guard # "open"
          /\ Goto(c, "answered")
          /\ answer' = [answer EXCEPT ![c] = "denied"]
    /\ UNCHANGED service

\* POST /auth/validate has no time-out.  It names an administrator, or the call is
\* denied: for another role, for status 401 or 403, and for any other failure.
Vet(c) ==
    /\ stage[c] = "asking"
    /\ \/ Goto(c, "ready") /\ UNCHANGED <<route, answer>>
       \/ Finish(c, "denied")
    /\ UNCHANGED service

-----------------------------------------------------------------------------
(* ProxyRequest.request *)

\* The request is sent, or the connection is refused.
Send(c) ==
    /\ stage[c] = "ready"
    /\ \/ /\ Goto(c, "waiting")
          /\ work' = [work EXCEPT ![c] = "queued"]
          /\ UNCHANGED <<route, answer, reply, ran>>
       \/ Finish(c, Thrown(c, "unavailable")) /\ UNCHANGED service

\* The body, or the status and body of an error; a broken connection is status 503.
Receive(c) ==
    /\ stage[c] = "waiting"
    /\ reply[c] # "none"
    /\ Finish(c, CASE reply[c] = "body"  -> "ok"
                   [] reply[c] = "error" -> Thrown(c, "error")
                   [] reply[c] = "reset" -> Thrown(c, "unavailable"))
    /\ UNCHANGED service

\* A bug: only the time-outs that the controllers name apply.
BugTimeOut(c) ==
    /\ stage[c] = "waiting"
    /\ \E r \in route[c] : r.service \in {"payment", "product"}
    /\ Finish(c, Thrown(c, "unavailable"))
    /\ UNCHANGED service

\* A bug: the proxy sends the request again before it gives up.
BugResendTimeOut(c) ==
    /\ stage[c] = "waiting"
    /\ \/ Finish(c, Thrown(c, "unavailable")) /\ UNCHANGED service
       \/ /\ work' = [work EXCEPT ![c] = "queued"]
          /\ UNCHANGED <<gateway, reply, ran>>

\* The ten seconds of the proxy, which replace the time-out a controller names.
\* axios reports ECONNABORTED, so the status is 503 as for a broken connection.
TimeOut(c) ==
    /\ stage[c] = "waiting"
    /\ Finish(c, Thrown(c, "unavailable"))
    /\ UNCHANGED service

\* A bug: the calls that are being vetted are forgotten.
BugRestart ==
    LET Open == {c \in Calls : stage[c] \in {"asking", "ready", "waiting"}}
    IN  /\ Open # {}
        /\ stage' = [c \in Calls |-> IF c \in Open THEN "answered" ELSE stage[c]]
        /\ answer' = [c \in Calls |-> IF stage[c] \in {"ready", "waiting"} THEN "lost"
                                      ELSE answer[c]]
        /\ UNCHANGED <<route, service>>

\* The gateway restarts and closes every connection.
Restart ==
    LET Open == {c \in Calls : stage[c] \in {"asking", "ready", "waiting"}}
    IN  /\ Open # {}
        /\ stage' = [c \in Calls |-> IF c \in Open THEN "answered" ELSE stage[c]]
        /\ answer' = [c \in Calls |-> IF c \in Open THEN "lost" ELSE answer[c]]
        /\ UNCHANGED <<route, service>>

-----------------------------------------------------------------------------
(* The service *)

Asking(c) == \E r \in route[c] : r.asks # "none"
Swallows(c) == \E r \in route[c] : r.asks = "mayHear"

\* A guard, the validation of the body or a missing route ends the request, or
\* order-service refuses what a page has asked it for.
Refuse(c) ==
    /\ work[c] = "queued"
    /\ work' = [work EXCEPT ![c] = "over"]
    /\ reply' = [reply EXCEPT ![c] = IF Swallows(c) THEN "body" ELSE "error"]
    /\ UNCHANGED <<ran, gateway>>

\* The operation of a page that has given up runs unheard.
Run(c) ==
    /\ work[c] \in {"queued", "adrift"}
    /\ work' = [work EXCEPT ![c] = IF work[c] = "queued" THEN "done" ELSE "over"]
    /\ ran' = [ran EXCEPT ![c] = @ + 1]
    /\ UNCHANGED <<reply, gateway>>

\* A handler that has done its work may still fail (register, whose mail is not
\* sent; create, whose second inventory check fails).
Reply(c) ==
    /\ work[c] = "done"
    /\ work' = [work EXCEPT ![c] = "over"]
    /\ \E answered \in IF Swallows(c) THEN {"body"} ELSE {"body", "error"} :
          reply' = [reply EXCEPT ![c] = answered]
    /\ UNCHANGED <<ran, gateway>>

\* timeout(5000) of the client of order-service: the page is answered, and what it
\* asked for is still to be done, or is lost.
GiveUp(c) ==
    /\ work[c] = "queued"
    /\ Asking(c)
    /\ work' = [work EXCEPT ![c] = "adrift"]
    /\ reply' = [reply EXCEPT ![c] = IF Swallows(c) THEN "body" ELSE "error"]
    /\ UNCHANGED <<ran, gateway>>

\* What a page has asked of order-service survives payment-service.
ServiceRestart(s) ==
    LET Lost == {c \in Calls : /\ work[c] \in {"queued", "done"}
                               /\ \E r \in route[c] : r.service = s}
    IN  /\ Lost # {}
        /\ work' = [c \in Calls |-> IF c \notin Lost THEN work[c]
                                    ELSE IF work[c] = "queued" /\ Asking(c) THEN "adrift"
                                    ELSE "over"]
        /\ reply' = [c \in Calls |-> IF c \in Lost THEN "reset" ELSE reply[c]]
        /\ UNCHANGED <<ran, gateway>>

-----------------------------------------------------------------------------

Proxy(c) == Send(c) \/ Receive(c) \/ TimeOut(c)

Serve(c) == Refuse(c) \/ Run(c) \/ Reply(c) \/ GiveUp(c)

Next ==
    \/ \E c \in Calls : (\E r \in Routes : Arrive(c, r)) \/ Vet(c) \/ Proxy(c) \/ Serve(c)
    \/ \E s \in Services : ServiceRestart(s)
    \/ Restart

\* The gateway makes progress with what it has in hand, and its timers fire.  No
\* service has to answer, user-service included.
Fairness == \A c \in Calls : WF_vars(Send(c)) /\ WF_vars(TimeOut(c))

Spec == Init /\ [][Next]_vars

FairSpec == Spec /\ Fairness

-----------------------------------------------------------------------------
(* Properties *)

Answers == {"ok", "error", "unavailable", "blank", "fault", "standIn", "denied", "lost"}

TypeOK ==
    /\ route \in [Calls -> {{}} \cup {{r} : r \in Routes}]
    /\ stage \in [Calls -> {"idle", "asking", "ready", "waiting", "answered"}]
    /\ answer \in [Calls -> {"none"} \cup Answers]
    /\ work \in [Calls -> {"none", "queued", "done", "adrift", "over"}]
    /\ reply \in [Calls -> {"none", "body", "error", "reset"}]
    /\ ran \in [Calls -> Nat]
    /\ \A c \in Calls : stage[c] = "answered" <=> answer[c] # "none"

\* What an answer tells the client.  An empty answer with the status of success, a
\* status 500 or 503 and a stand-in tell nothing.  Nor does the failure of the success
\* page, which may only mean that order-service was slow, or any answer of the
\* failure page.
told ==
    [c \in Calls |->
        CASE answer[c] = "none"   -> "nothing"
          [] answer[c] = "denied" -> "denied"
          [] answer[c] = "ok"     -> IF Swallows(c) THEN "unsure" ELSE "result"
          [] answer[c] = "error"  -> IF Asking(c) THEN "unsure" ELSE "failure"
          [] OTHER                -> "unsure"]

Remote == INSTANCE RemoteCall

\* Through time-outs, late replies and restarts of the gateway and of the services
\* an operation runs at most once, never for a call that was denied, never again
\* after its result or its failure was relayed, and a result relayed is one that
\* was produced (ProxyRequest.request, the guards, the controllers).  What the
\* failure of the success page and the failure page relay counts as no news.
RefinesRemoteCall == Remote!Spec

\* A call that has passed its guard is answered, though its service may hang for
\* ever, as order-service does while payment-service is down (the time-out of
\* ProxyRequest.request).  A call that waits for user-service in AdminGuard may
\* hang with it.
AdmittedCallsAnswered ==
    \A c \in Calls : (stage[c] \in {"ready", "waiting"}) ~> (stage[c] = "answered")

-----------------------------------------------------------------------------
(* The invariant that makes the refinement hold *)

\* Where a call stands in the service, what it has had done and what the client
\* can have been answered go together.
Consistent ==
    \A c \in Calls :
        /\ stage[c] \in {"idle", "asking", "ready"} => work[c] = "none"
        /\ work[c] \in {"none", "queued", "adrift"} => ran[c] = 0
        /\ work[c] = "done" => ran[c] = 1
        /\ work[c] = "adrift" => Asking(c)
        /\ reply[c] = "body" => ran[c] = 1 \/ Swallows(c)
        /\ reply[c] # "none" => work[c] \in {"over", "adrift"}
        /\ work[c] # "none" => route[c] # {}
        /\ stage[c] \in {"asking", "ready", "waiting"} => route[c] # {}
        /\ answer[c] = "denied" => work[c] = "none"
        /\ answer[c] = "ok" => ran[c] = 1 \/ Swallows(c)
        /\ answer[c] = "error" => work[c] = "over" \/ Asking(c)

IInv == TypeOK /\ Consistent

=============================================================================
