-------------------------- MODULE ApiGatewayProofs --------------------------
(***************************************************************************)
(* What the gateway keeps for any number of requests, whatever happens to  *)
(* the services behind it.                                                 *)
(***************************************************************************)
EXTENDS ApiGateway, TLAPS

\* The part of the types the argument needs.
Shapes ==
  /\ pc \in [Calls -> Steps]
  /\ code \in [Calls -> {0, 200, 400, 401, 500}]
  /\ runs \in [Calls -> Nat]
  /\ done \in [Calls -> Nat]
  /\ DOMAIN req = Calls
  /\ DOMAIN rpc = Calls
  /\ running \in [P!Services -> SUBSET Calls]

\* A request is not run before its call, and is run once by it; an answer says
\* what the call has come to.
Progress ==
  \A c \in Calls :
    /\ done[c] <= runs[c] /\ runs[c] <= 1
    /\ pc[c] \in {"unsent", "received", "calling"} => runs[c] = 0
    /\ pc[c] = "invoked" => runs[c] = 1
    /\ pc[c] = "ok" => runs[c] = 1 /\ done[c] = 1
    /\ code[c] # 0 => pc[c] = "answered"
    /\ code[c] = 200 => runs[c] = 1 /\ done[c] = 1
    /\ code[c] = 400 => runs[c] = 0
    /\ (code[c] = 401 /\ req[c].method \in Protected) => runs[c] = 0

\* Only requests that were called are running, and a message is for the method
\* of its request.
Calling ==
  \A c \in Calls :
    /\ IsRunning(c) => runs[c] = 1
    /\ pc[c] = "received" => req[c].method \in InitRoutes
    /\ pc[c] \in {"calling", "invoked", "ok", "error"} => rpc[c].method = req[c].method

IInv == Shapes /\ Progress /\ Calling

\* A handler sends a message of its own method.
LEMMA MessageMethod ==
  ASSUME NEW r, r.method \in InitRoutes, Message(r) # BadRequest
  PROVE  Message(r).method = r.method
BY DEF Message, InitRoutes, Public, Protected, Register, Login, HistoryOfRoutes,
  CreateRoom, JoinRoom, ExitRoom, FindRoom, GetRoomDetails, CompleteRide, ProcessPayment,
  RefundPayment, GetPaymentHistory, AuthClient, RoomServiceClient, PaymentServiceClient,
  CompleteRideClient, BadRequest

\* Whatever happens to the processes, no call begins to run.
LEMMA ProcessesShrink ==
  ASSUME Shapes, Processes
  PROVE  /\ running' \in [P!Services -> SUBSET Calls]
         /\ \A s \in P!Services : running'[s] \subseteq running[s]
BY DEF Processes, Shapes, P!Continue, P!Fault, P!Start, P!NoChange, P!MarkDirty, P!RunScript,
  P!MigrateFatal, P!Connect, P!Listen, P!GracefulStop, P!Drained, P!Signal, P!Kill, P!Exit,
  P!Outage, P!Recover, P!process

\* At the start no request is on its way.
LEMMA InitInv == Init => IInv
BY DEF Init, P!Serving, IInv, Shapes, Progress, Calling, Steps, IsRunning

\* Every step preserves it.
LEMMA NextInv == IInv /\ [Next]_vars => IInv'
<1> SUFFICES ASSUME IInv, [Next]_vars PROVE IInv'
  OBVIOUS
<1> USE DEF Goto, Steps
<1>1. CASE UNCHANGED vars
  BY <1>1 DEF vars, requests, services, IInv, Shapes, Progress, Calling, IsRunning
<1>2. ASSUME NEW c \in Calls, Send(c) PROVE IInv'
  BY <1>2 DEF Send, services, IInv, Shapes, Progress, Calling, IsRunning
<1>3. ASSUME NEW c \in Calls, JWT(c) PROVE IInv'
  <2>1. CASE Message(req[c]) # BadRequest /\ Handle(c)
    <3>1. Message(req[c]).method = req[c].method
      BY <1>3, <2>1, MessageMethod DEF JWT, IInv, Calling
    <3> QED
      BY <1>3, <2>1, <3>1 DEF JWT, Handle, services, IInv, Shapes, Progress, Calling, IsRunning
  <2>2. CASE (Message(req[c]) = BadRequest /\ Handle(c)) \/ (Respond(c, 401) /\ UNCHANGED rpc)
    BY <1>3, <2>2 DEF JWT, Handle, Respond, services, IInv, Shapes, Progress, Calling, IsRunning
  <2> QED
    BY <1>3, <2>1, <2>2 DEF JWT
<1>4. ASSUME NEW c \in Calls, NEW methods, Invoke(c, methods) PROVE IInv'
  <2>1. CASE UNCHANGED <<runs, services>> /\ pc' = [pc EXCEPT ![c] = "error"]
    BY <1>4, <2>1 DEF Invoke, services, IInv, Shapes, Progress, Calling, IsRunning
  <2>2. CASE P!Accept(rpc[c].service, c) /\ pc' = [pc EXCEPT ![c] = "invoked"]
             /\ runs' = [runs EXCEPT ![c] = @ + 1]
    <3>1. Shapes'
      <4>1. running' \in [P!Services -> SUBSET Calls]
        <5>1. CASE rpc[c].service \in P!Services
          BY <2>2, <5>1 DEF P!Accept, IInv, Shapes
        <5>2. CASE rpc[c].service \notin P!Services
          <6>1. running' = running
            BY <2>2, <5>2 DEF P!Accept, IInv, Shapes
          <6> QED
            BY <6>1 DEF IInv, Shapes
        <5> QED
          BY <5>1, <5>2
      <4> QED
        BY <1>4, <2>2, <4>1 DEF Invoke, IInv, Shapes
    <3>2. Progress'
      BY <1>4, <2>2 DEF Invoke, IInv, Shapes, Progress
    <3>3. runs'[c] = 1 /\ \A k \in Calls \ {c} : IsRunning(k)' => IsRunning(k)
      BY <1>4, <2>2 DEF Invoke, P!Accept, IInv, Shapes, Progress, IsRunning
    <3>4. Calling'
      BY <1>4, <2>2, <3>3 DEF Invoke, IInv, Shapes, Calling
    <3> QED
      BY <3>1, <3>2, <3>4 DEF IInv
  <2> QED
    BY <1>4, <2>1, <2>2 DEF Invoke
<1>5. ASSUME NEW c \in Calls, Execute(c) PROVE IInv'
  <2>1. runs[c] = 1 /\ done[c] = 0
    BY <1>5 DEF Execute, IInv, Shapes, Progress, Calling
  <2> QED
    BY <1>5, <2>1 DEF Execute, services, IInv, Shapes, Progress, Calling, IsRunning
<1>6. ASSUME NEW c \in Calls, Return(c) PROVE IInv'
  <2>1. /\ running' \in [P!Services -> SUBSET Calls]
        /\ \A k \in Calls : IsRunning(k)' => IsRunning(k)
    <3>1. CASE rpc[c].service \in P!Services
      BY <1>6, <3>1 DEF Return, P!Answer, IInv, Shapes, IsRunning
    <3>2. CASE rpc[c].service \notin P!Services
      <4>1. running' = running
        BY <1>6, <3>2 DEF Return, P!Answer, IInv, Shapes
      <4> QED
        BY <4>1 DEF IInv, Shapes, IsRunning
    <3> QED
      BY <3>1, <3>2
  <2>2. runs[c] = 1
    BY <1>6 DEF Return, IInv, Calling
  <2>3. pc[c] = "invoked" /\ pc'[c] = "ok" => done[c] = runs[c]
    BY <1>6 DEF Return, Outcome, IInv, Shapes
  <2>4. pc' \in [Calls -> Steps] /\ \A k \in Calls : pc'[k] = pc[k] \/ (k = c /\ pc[c] = "invoked" /\ pc'[c] \in {"ok", "error"})
    BY <1>6 DEF Return, Outcome, IInv, Shapes
  <2> QED
    BY <1>6, <2>1, <2>2, <2>3, <2>4 DEF Return, IInv, Shapes, Progress, Calling
<1>7. ASSUME NEW c \in Calls, ConnectionLost(c) \/ Disconnect(c) PROVE IInv'
  BY <1>7 DEF ConnectionLost, Disconnect, InFlight, services, IInv, Shapes, Progress, Calling, IsRunning
<1>8. ASSUME NEW c \in Calls, Reply(c) PROVE IInv'
  <2>1. pc[c] = "error" /\ code'[c] = 401 => req[c].method \notin Protected
    BY <1>8 DEF Reply, Respond, IInv, Shapes, Calling, Protected
  <2> QED
    BY <1>8, <2>1 DEF Reply, Respond, services, IInv, Shapes, Progress, Calling, IsRunning
<1>9. CASE Shutdown
  BY <1>9 DEF Shutdown, InFlight, services, IInv, Shapes, Progress, Calling, IsRunning
<1>10. CASE Tick
  BY <1>10 DEF Tick, requests, services, IInv, Shapes, Progress, Calling, IsRunning
<1>11. CASE Processes /\ UNCHANGED <<requests, clock>>
  BY <1>11, ProcessesShrink DEF requests, IInv, Shapes, Progress, Calling, IsRunning
<1> QED
  BY <1>1, <1>2, <1>3, <1>4, <1>5, <1>6, <1>7, <1>8, <1>9, <1>10, <1>11
     DEF Next, Advance, Work, Call, CallUser, CallRoom, CallPayment

\* The inductive invariant holds in every behaviour.
LEMMA InvHolds == Spec => []IInv
BY InitInv, NextInv, PTL DEF Spec

\* No request is run twice, for any number of requests, restarts and lost
\* connections.
THEOREM EveryRequestRunsOnce == Spec => []RunsOnce
<1>1. IInv => RunsOnce
  BY DEF IInv, Progress, RunsOnce
<1> QED
  BY <1>1, InvHolds, PTL

\* An answer 200 stands for work that was done.
THEOREM OkMeansDone == Spec => []OkIsDone
<1>1. IInv => OkIsDone
  BY DEF IInv, Progress, OkIsDone
<1> QED
  BY <1>1, InvHolds, PTL

\* A request the gateway refuses reaches no service.
THEOREM RefusalReachesNobody == Spec => []RefusedIsUntouched
<1>1. IInv => RefusedIsUntouched
  BY DEF IInv, Progress, RefusedIsUntouched
<1> QED
  BY <1>1, InvHolds, PTL

-----------------------------------------------------------------------------
(* Tokens and callers.                                                      *)

\* What was sent to a service is the message of a request that passed the
\* middleware.
Passed ==
  \A c \in Calls :
    (runs[c] > 0 \/ pc[c] \in {"calling", "invoked", "ok", "error"}) =>
      /\ req[c].method \in InitRoutes
      /\ rpc[c] = Message(req[c]) /\ rpc[c] # BadRequest
      /\ req[c].method \in Protected => req[c].token # Nobody

\* A token is of the user of a login that was run, and signed by user_service.
Signed ==
  \A l \in Calls :
    issued[l] # Nobody =>
      /\ runs[l] > 0 /\ rpc[l].method = "Login"
      /\ rpc[l].user # Nobody /\ issued[l].user = rpc[l].user
      /\ issued[l].secret = UserSecret /\ issued[l].exp \in Nat

\* Clients send tokens of logins that were answered.
Carried ==
  \A c \in Calls :
    req[c].token # Nobody =>
      \E l \in Calls : code[l] = 200 /\ issued[l] = req[c].token

TInv == clock \in Nat /\ DOMAIN issued = Calls /\ Passed /\ Signed /\ Carried

\* A gateway that has just started satisfies the invariant.
LEMMA InitTInv == Init => TInv
BY DEF Init, TInv, Passed, Signed, Carried

\* An answer, once given, and the token of an answered login stay.
LEMMA AnswersStay ==
  ASSUME IInv, TInv, NEW t \in {req[c].token : c \in Calls} \cup Held, t # Nobody,
         DOMAIN issued' = Calls,
         \A l \in Calls : code[l] = 200 => code'[l] = 200 /\ issued'[l] = issued[l]
  PROVE  \E l \in Calls : code'[l] = 200 /\ issued'[l] = t
BY DEF TInv, Carried, Held

\* Every step preserves it.
LEMMA NextTInv == IInv /\ TInv /\ [Next]_vars => TInv'
<1> SUFFICES ASSUME IInv, TInv, [Next]_vars PROVE TInv'
  OBVIOUS
<1> USE DEF Goto
<1>1. ASSUME UNCHANGED <<req, rpc, runs, code, issued, clock>>,
             \A c \in Calls : pc'[c] \in {"calling", "invoked", "ok", "error"}
                                => pc[c] \in {"calling", "invoked", "ok", "error"}
      PROVE  TInv'
  BY <1>1 DEF TInv, Passed, Signed, Carried
<1>2. ASSUME NEW c \in Calls, Send(c) PROVE TInv'
  <2>1. /\ pc[c] = "unsent" /\ runs[c] = 0 /\ issued[c] = Nobody
        /\ pc' = [pc EXCEPT ![c] = "received"]
        /\ UNCHANGED <<rpc, runs, code, issued, clock>>
    BY <1>2 DEF Send, IInv, Shapes, Progress, TInv, Signed
  <2>2. PICK t \in Held \cup {Nobody} :
          \E m, b : req' = [req EXCEPT ![c] = [method |-> m, token |-> t, body |-> b]]
    BY <1>2 DEF Send
  <2>3. Passed'
    BY <2>1, <2>2 DEF TInv, Passed, IInv, Shapes
  <2>4. Signed'
    BY <2>1 DEF TInv, Signed
  <2>5. ASSUME NEW k \in Calls, req'[k].token # Nobody
        PROVE  \E l \in Calls : code'[l] = 200 /\ issued'[l] = req'[k].token
    <3>1. req'[k].token \in {req[i].token : i \in Calls} \cup Held
      BY <2>2, <2>5 DEF IInv, Shapes
    <3> QED BY <2>1, <2>5, <3>1, AnswersStay DEF TInv
  <2> QED BY <2>1, <2>3, <2>4, <2>5 DEF TInv, Carried
<1>3. ASSUME NEW c \in Calls, JWT(c) PROVE TInv'
  <2>1. /\ pc[c] = "received" /\ runs[c] = 0 /\ issued[c] = Nobody /\ code[c] = 0
        /\ req[c].method \in InitRoutes
        /\ UNCHANGED <<req, runs, issued, clock>>
    BY <1>3 DEF JWT, IInv, Shapes, Progress, Calling, TInv, Signed
  <2>2. \A l \in Calls : code[l] = 200 => code'[l] = 200
    BY <1>3, <2>1 DEF JWT, Handle, Respond, IInv, Shapes
  <2>3. Carried'
    BY <2>1, <2>2 DEF TInv, Carried
  <2>4. \A l \in Calls \ {c} : rpc'[l] = rpc[l] /\ pc'[l] = pc[l]
    BY <1>3 DEF JWT, Handle, Respond, IInv, Shapes
  <2>5. Signed'
    BY <2>1, <2>4 DEF TInv, Signed
  <2>6. pc'[c] = "calling" =>
          /\ rpc'[c] = Message(req[c]) /\ rpc'[c] # BadRequest
          /\ req[c].method \in Protected => req[c].token # Nobody
    BY <1>3, <2>1 DEF JWT, Handle, Respond, IInv, Shapes
  <2>7. pc'[c] \in {"calling", "answered"}
    BY <1>3 DEF JWT, Handle, Respond, IInv, Shapes
  <2>8. ASSUME NEW l \in Calls,
               runs[l] > 0 \/ pc'[l] \in {"calling", "invoked", "ok", "error"}
        PROVE  /\ req[l].method \in InitRoutes
               /\ rpc'[l] = Message(req[l]) /\ rpc'[l] # BadRequest
               /\ req[l].method \in Protected => req[l].token # Nobody
    <3>1. CASE l = c
      BY <2>1, <2>6, <2>7, <2>8, <3>1
    <3>2. CASE l # c
      BY <2>4, <2>8, <3>2 DEF TInv, Passed
    <3> QED BY <3>1, <3>2
  <2>9. Passed'
    <3>1. req' = req /\ runs' = runs
      BY <2>1
    <3> QED BY <2>8, <3>1 DEF Passed, Message, Register, Login, HistoryOfRoutes, CreateRoom,
          JoinRoom, ExitRoom, FindRoom, GetRoomDetails, CompleteRide, ProcessPayment,
          RefundPayment, GetPaymentHistory, Binds, Whole, Named, Caller
  <2> QED BY <2>1, <2>3, <2>5, <2>9 DEF TInv
<1>4. ASSUME NEW c \in Calls, NEW methods, Invoke(c, methods) PROVE TInv'
  <2>1. /\ pc[c] = "calling" /\ UNCHANGED <<req, rpc, code, issued, clock>>
        /\ \A l \in Calls : /\ runs'[l] >= runs[l]
                            /\ runs'[l] > 0 => runs[l] > 0 \/ l = c
                            /\ l # c => pc'[l] = pc[l]
    BY <1>4 DEF Invoke, IInv, Shapes
  <2>2. Passed'
    BY <2>1 DEF TInv, Passed
  <2>3. \A l \in Calls : runs[l] > 0 => runs'[l] > 0
    BY <1>4 DEF Invoke, IInv, Shapes
  <2>4. Signed'
    BY <2>1, <2>3 DEF TInv, Signed
  <2> QED BY <2>1, <2>2, <2>4 DEF TInv, Carried
<1>5. ASSUME NEW c \in Calls, Execute(c) PROVE TInv'
  <2>1. /\ UNCHANGED <<pc, req, rpc, runs, code, clock>>
        /\ runs[c] > 0 /\ code[c] # 200
    BY <1>5 DEF Execute, IInv, Shapes, Progress, Calling
  <2>2. /\ DOMAIN issued' = Calls
        /\ \A l \in Calls \ {c} : issued'[l] = issued[l]
        /\ \/ issued' = issued
           \/ /\ rpc[c].method = "Login"
              /\ issued'[c] = [user |-> rpc[c].user, exp |-> clock + TTL,
                               secret |-> UserSecret]
    BY <1>5 DEF Execute, TInv, NewToken
  <2>3. Carried'
    BY <2>1, <2>2 DEF TInv, Carried
  <2>4. rpc[c].method = "Login" => rpc[c].user # Nobody
    BY <1>5 DEF Execute, Valid, Public
  <2>5. ASSUME NEW l \in Calls, issued'[l] # Nobody
        PROVE  /\ runs[l] > 0 /\ rpc[l].method = "Login"
               /\ rpc[l].user # Nobody /\ issued'[l].user = rpc[l].user
               /\ issued'[l].secret = UserSecret /\ issued'[l].exp \in Nat
    BY <2>1, <2>2, <2>4, <2>5, TimeAssumption DEF TInv, Signed
  <2>6. Signed'
    BY <2>1, <2>5 DEF Signed
  <2> QED BY <2>1, <2>2, <2>3, <2>6 DEF TInv, Passed
<1>6. ASSUME NEW c \in Calls, Return(c) \/ ConnectionLost(c) \/ Disconnect(c) PROVE TInv'
  BY <1>1, <1>6 DEF Return, Outcome, ConnectionLost, Disconnect, InFlight, IInv, Shapes
<1>7. ASSUME NEW c \in Calls, Reply(c) PROVE TInv'
  <2>1. /\ UNCHANGED <<req, rpc, runs, issued, clock>>
        /\ \A l \in Calls : code[l] = 200 => code'[l] = 200
        /\ \A l \in Calls : pc'[l] = pc[l] \/ pc'[l] = "answered"
    BY <1>7 DEF Reply, Respond, IInv, Shapes, Progress
  <2> QED BY <2>1 DEF TInv, Passed, Signed, Carried
<1>8. CASE Shutdown
  BY <1>1, <1>8 DEF Shutdown
<1>9. CASE Tick
  BY <1>9 DEF Tick, requests, TInv, Passed, Signed, Carried
<1>10. CASE UNCHANGED <<requests, clock>>
  BY <1>1, <1>10 DEF requests
<1> QED
  BY <1>2, <1>3, <1>4, <1>5, <1>6, <1>7, <1>8, <1>9, <1>10
     DEF Next, Advance, Work, Call, CallUser, CallRoom, CallPayment, vars

\* The invariant holds in every reachable state.
LEMMA TInvHolds == Spec => []TInv
BY InvHolds, InitTInv, NextTInv, PTL DEF Spec

\* A message that acts for a user is for the user of the token.
LEMMA PersonalMessage ==
  ASSUME NEW r, r.method \in Personal, Message(r) # BadRequest
  PROVE  Message(r).user = r.token.user
<1> USE DEF AuthClient, RoomServiceClient, PaymentServiceClient, CompleteRideClient,
            BadRequest, Caller
<1>1. CASE r.method = "HistoryOfRoutes"
  BY <1>1 DEF Message, HistoryOfRoutes
<1>2. CASE r.method = "CreateRoom"
  BY <1>2 DEF Message, CreateRoom
<1>3. CASE r.method = "JoinRoom"
  BY <1>3 DEF Message, JoinRoom
<1>4. CASE r.method = "ExitRoom"
  BY <1>4 DEF Message, ExitRoom
<1>5. CASE r.method = "CompleteRide"
  BY <1>5 DEF Message, CompleteRide
<1>6. CASE r.method = "GetPaymentHistory"
  BY <1>6 DEF Message, GetPaymentHistory
<1> QED BY <1>1, <1>2, <1>3, <1>4, <1>5, <1>6 DEF Personal

\* A service that acts for a user acts for one who logged in, whose token came
\* with this very request, for any number of requests and logins.
THEOREM ServicesActForCaller == Spec => []ActsForCaller
<1>1. ASSUME IInv, TInv, NEW c \in Calls, runs[c] > 0, rpc[c].method \in Personal
      PROVE  \E l \in Calls : /\ code[l] = 200 /\ req[l].method = "Login"
                              /\ issued[l] = req[c].token /\ req[l].body = rpc[c].user
  <2>1. /\ rpc[c] = Message(req[c]) /\ rpc[c] # BadRequest
        /\ rpc[c].method = req[c].method
        /\ req[c].method \in Protected => req[c].token # Nobody
    BY <1>1, MessageMethod DEF TInv, Passed
  <2>2. rpc[c].user = req[c].token.user
    BY <1>1, <2>1, PersonalMessage
  <2>3. PICK l \in Calls : code[l] = 200 /\ issued[l] = req[c].token
    BY <1>1, <2>1 DEF TInv, Carried, Personal, Protected
  <2>4. /\ runs[l] > 0 /\ rpc[l].method = "Login"
        /\ rpc[l].user # Nobody /\ issued[l].user = rpc[l].user
    BY <1>1, <2>1, <2>3 DEF TInv, Signed, Personal, Protected
  <2>5. rpc[l] = Message(req[l]) /\ req[l].method = "Login"
    BY <1>1, <2>4, MessageMethod DEF TInv, Passed
  <2>6. req[l].body = rpc[l].user
    BY <2>4, <2>5 DEF Message, Login, AuthClient, Named, Whole, BadRequest
  <2> QED BY <2>2, <2>3, <2>4, <2>5, <2>6
<1>2. IInv /\ TInv => ActsForCaller
  BY <1>1 DEF ActsForCaller
<1> QED
  BY <1>2, InvHolds, TInvHolds, PTL

\* With JWT_SECRET in the environment both processes sign and check with it,
\* whatever their files and defaults say.
LEMMA SecretsAgree == EnvSecret # Nobody => UserSecret = GatewaySecret
BY DEF UserSecret, GatewaySecret, Setting

\* A protected request is answered 401 only if its token has expired.
LEMMA ExpiredStep ==
  ASSUME EnvSecret # Nobody, IInv, TInv, TokensAreAccepted, [Next]_vars
  PROVE  TokensAreAccepted'
<1> USE DEF TokensAreAccepted, Goto
<1>1. ASSUME UNCHANGED <<req, code>>, clock' \in Nat, clock <= clock' PROVE TokensAreAccepted'
  <2>1. \A l \in Calls : issued[l] # Nobody => issued[l].exp \in Nat
    BY DEF TInv, Signed
  <2>2. \A c \in Calls : req[c].token # Nobody => req[c].token.exp \in Nat
    BY <2>1 DEF TInv, Carried
  <2> QED BY <1>1, <2>2 DEF TInv
<1>2. ASSUME NEW c \in Calls, Send(c) PROVE TokensAreAccepted'
  BY <1>2 DEF Send, IInv, Shapes, Progress
<1>3. ASSUME NEW c \in Calls, JWT(c) PROVE TokensAreAccepted'
  <2>1. UNCHANGED <<req, clock>> /\ \A l \in Calls \ {c} : code'[l] = code[l]
    BY <1>3 DEF JWT, Handle, Respond, IInv, Shapes
  <2>2. ASSUME code'[c] = 401, req[c].method \in Protected, req[c].token # Nobody
        PROVE  req[c].token.exp <= clock
    <3>1. PICK l \in Calls : issued[l] = req[c].token
      BY <2>2 DEF TInv, Carried
    <3>2. req[c].token.exp \in Nat /\ req[c].token.secret = UserSecret /\ clock \in Nat
      BY <2>2, <3>1 DEF TInv, Signed
    <3>3. ~ parseJWT(req[c].token)
      BY <1>3, <2>2 DEF JWT, Handle, Respond, IInv, Shapes, Progress
    <3>4. ~ (clock < req[c].token.exp)
      BY <3>2, <3>3, SecretsAgree DEF parseJWT
    <3> QED BY <3>2, <3>4
  <2> QED BY <2>1, <2>2
<1>4. ASSUME NEW c \in Calls, Reply(c) PROVE TokensAreAccepted'
  BY <1>4 DEF Reply, Respond, IInv, Shapes, Calling, Progress, Protected
<1>5. CASE Tick
  BY <1>1, <1>5 DEF Tick, requests, TInv
<1>6. ASSUME NEW c \in Calls, NEW methods,
             Invoke(c, methods) \/ Execute(c) \/ Return(c)
               \/ ConnectionLost(c) \/ Disconnect(c)
      PROVE  UNCHANGED <<req, code, clock>>
  BY <1>6 DEF Invoke, Execute, Return, ConnectionLost, Disconnect
<1>7. CASE Shutdown \/ UNCHANGED <<requests, clock>>
  BY <1>7 DEF Shutdown, requests
<1> QED
  BY <1>2, <1>3, <1>4, <1>5, <1>6, <1>7
     DEF Next, Advance, Work, Call, CallUser, CallRoom, CallPayment, vars

\* A token that Login has given out is accepted until it expires, in any
\* deployment that sets JWT_SECRET.
THEOREM TokensLast ==
  ASSUME EnvSecret # Nobody
  PROVE  Spec => []TokensAreAccepted
<1>1. Init => TokensAreAccepted
  BY DEF Init, TokensAreAccepted
<1> QED
  BY <1>1, ExpiredStep, InvHolds, TInvHolds, PTL DEF Spec

-----------------------------------------------------------------------------
(* Types.                                                                   *)

Requests == [method : InitRoutes \cup {"none"}, token : Tokens \cup {Nobody}, body : Bodies]
Messages == [service : P!Services \cup {"none"}, method : InitRoutes \cup {"none"},
             user : Users \cup {Nobody}]

\* The message of a request that passes the middleware is well formed.
LEMMA MessageType ==
  ASSUME NEW r \in Requests, r.method \in InitRoutes,
         r.method \in Protected => r.token # Nobody
  PROVE  Message(r) \in Messages
<1>1. /\ Named(r) \in Users \cup {Nobody}
      /\ r.method \in Protected => Caller(r) \in Users
  BY DEF Named, Whole, Caller, Requests, Tokens
<1>2. BadRequest \in Messages
  BY DEF BadRequest, Messages
<1>3. ASSUME NEW m \in InitRoutes, NEW u \in Users \cup {Nobody}
      PROVE  /\ AuthClient(m, u) \in Messages /\ RoomServiceClient(m, u) \in Messages
             /\ PaymentServiceClient(m, u) \in Messages
             /\ CompleteRideClient(u) \in Messages
  BY DEF AuthClient, RoomServiceClient, PaymentServiceClient, CompleteRideClient,
     Messages, P!Services, InitRoutes, Protected
<1>4. r.method \in Public => Message(r) \in Messages
  BY <1>1, <1>2, <1>3 DEF Message, Register, Login, Public, InitRoutes
<1>5. ASSUME r.method \in Protected PROVE Message(r) \in Messages
  <2> DEFINE u == Caller(r)
  <2>1. u \in Users \cup {Nobody} /\ Nobody \in Users \cup {Nobody} /\ Protected \subseteq InitRoutes
    BY <1>1, <1>5 DEF InitRoutes
  <2> HIDE DEF u
  <2>2. CASE r.method \in {"HistoryOfRoutes", "FindRoom", "GetPaymentHistory"}
    BY <1>3, <2>1, <2>2 DEF Message, HistoryOfRoutes, FindRoom, GetPaymentHistory,
       InitRoutes, Protected, u
  <2>3. CASE r.method \in {"CreateRoom", "JoinRoom", "ExitRoom"}
    BY <1>2, <1>3, <2>1, <2>3 DEF Message, CreateRoom, JoinRoom, ExitRoom, InitRoutes,
       Protected, u
  <2>4. CASE r.method \in {"CompleteRide", "GetRoomDetails"}
    BY <1>2, <1>3, <2>1, <2>4 DEF Message, CompleteRide, GetRoomDetails, InitRoutes,
       Protected, u
  <2>5. CASE r.method \in {"ProcessPayment", "RefundPayment"}
    BY <1>1, <1>2, <1>3, <2>1, <2>5 DEF Message, ProcessPayment, RefundPayment, InitRoutes,
       Protected
  <2> QED BY <1>5, <2>2, <2>3, <2>4, <2>5 DEF Protected
<1> QED BY <1>4, <1>5 DEF InitRoutes

\* Every step keeps the types.
LEMMA TypeStep == IInv /\ TInv /\ TypeOK /\ [Next]_vars => TypeOK'
<1> SUFFICES ASSUME IInv, TInv, TypeOK, [Next]_vars PROVE TypeOK'
  OBVIOUS
<1> USE DEF Goto
<1>1. req \in [Calls -> Requests] /\ rpc \in [Calls -> Messages]
  BY DEF TypeOK, Requests, Messages
<1>2. pc' \in [Calls -> Steps] /\ runs' \in [Calls -> Nat] /\ done' \in [Calls -> Nat]
        /\ code' \in [Calls -> {0, 200, 400, 401, 500}]
  BY NextInv DEF IInv, Shapes
<1>3. clock' \in Nat
  BY NextTInv DEF TInv
<1>4. ASSUME req' \in [Calls -> Requests], rpc' \in [Calls -> Messages],
             issued' \in [Calls -> Tokens \cup {Nobody}],
             \A c \in Calls : code'[c] # 0 <=> pc'[c] = "answered"
      PROVE  TypeOK'
  BY <1>2, <1>3, <1>4 DEF TypeOK, Requests, Messages, Tokens
<1>5. ASSUME UNCHANGED <<req, rpc, issued, code>>,
             \A c \in Calls : pc'[c] = "answered" <=> pc[c] = "answered"
      PROVE  TypeOK'
  BY <1>1, <1>4, <1>5 DEF TypeOK
<1>6. ASSUME NEW c \in Calls, Send(c) PROVE TypeOK'
  <2>1. PICK m \in InitRoutes, t \in Held \cup {Nobody} : \E b \in Inputs(m) :
          req' = [req EXCEPT ![c] = [method |-> m, token |-> t, body |-> b]]
    BY <1>6 DEF Send
  <2>2. t \in Tokens \cup {Nobody} /\ Inputs(m) \subseteq Bodies
    BY DEF TypeOK, Held, Inputs, Bodies
  <2>3. req' \in [Calls -> Requests]
    BY <1>1, <2>1, <2>2 DEF Requests
  <2> QED BY <1>1, <1>4, <1>6, <2>3 DEF Send, TypeOK
<1>7. ASSUME NEW c \in Calls, JWT(c) PROVE TypeOK'
  <2>1. pc[c] = "received" /\ req[c].method \in InitRoutes /\ UNCHANGED <<req, issued>>
    BY <1>7 DEF JWT, IInv, Calling
  <2>2. \A k \in Calls : code'[k] # 0 <=> pc'[k] = "answered"
    BY <1>7, <2>1 DEF JWT, Handle, Respond, TypeOK
  <2>3. rpc' \in [Calls -> Messages]
    <3>1. CASE UNCHANGED rpc
      BY <1>1, <3>1
    <3>2. CASE /\ rpc' = [rpc EXCEPT ![c] = Message(req[c])]
               /\ req[c].method \in Protected => req[c].token # Nobody
      BY <1>1, <2>1, <3>2, MessageType
    <3> QED BY <1>7, <3>1, <3>2 DEF JWT, Handle
  <2> QED BY <1>1, <1>4, <2>1, <2>2, <2>3 DEF TypeOK
<1>8. ASSUME NEW c \in Calls, NEW methods, Invoke(c, methods) PROVE TypeOK'
  BY <1>5, <1>8 DEF Invoke, TypeOK, Steps
<1>9. ASSUME NEW c \in Calls, Execute(c) PROVE TypeOK'
  <2>1. UNCHANGED <<pc, req, rpc, code>>
    BY <1>9 DEF Execute
  <2>2. rpc[c].method = "Login" => NewToken(rpc[c].user) \in Tokens
    BY <1>1, <1>9, TimeAssumption DEF Execute, Valid, Public, NewToken, Tokens, Messages, TInv
  <2>3. issued' \in [Calls -> Tokens \cup {Nobody}]
    BY <1>9, <2>2 DEF Execute, TypeOK
  <2> QED BY <1>1, <1>4, <2>1, <2>3 DEF TypeOK
<1>10. ASSUME NEW c \in Calls, Return(c) \/ ConnectionLost(c) \/ Disconnect(c) PROVE TypeOK'
  BY <1>5, <1>10 DEF Return, Outcome, ConnectionLost, Disconnect, InFlight, TypeOK
<1>11. ASSUME NEW c \in Calls, Reply(c) PROVE TypeOK'
  BY <1>1, <1>4, <1>11 DEF Reply, Respond, TypeOK
<1>12. CASE Shutdown
  BY <1>5, <1>12 DEF Shutdown, InFlight, TypeOK
<1>13. CASE Tick \/ UNCHANGED <<requests, clock>>
  BY <1>5, <1>13 DEF Tick, requests
<1> QED
  BY <1>6, <1>7, <1>8, <1>9, <1>10, <1>11, <1>12, <1>13
     DEF Next, Advance, Work, Call, CallUser, CallRoom, CallPayment, vars

\* The gateway keeps its types, and a request has a status exactly when it is
\* answered.
THEOREM TypeCorrect == Spec => []TypeOK
<1>1. Init => TypeOK
  BY DEF Init, TypeOK, Steps, BadRequest, Bodies
<1> QED
  BY <1>1, TypeStep, InvHolds, TInvHolds, PTL DEF Spec
=============================================================================
