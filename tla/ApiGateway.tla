----------------------------- MODULE ApiGateway -----------------------------
(***************************************************************************)
(* The HTTP gateway: a request passes the JWT middleware and its handler,  *)
(* which turns it into one gRPC call, waits for it and answers.  The       *)
(* services behind it are the processes of ServiceProcess; what their      *)
(* handlers do to the tables is the subject of the other modules, here a   *)
(* handler only runs, completes its work or refuses.                       *)
(***************************************************************************)
EXTENDS Naturals, FiniteSets

CONSTANTS
  Calls,          \* HTTP requests; each is sent once
  Users,
  Nobody,         \* no user, no token
  EnvSecret,      \* JWT_SECRET of the deployment, the same for both processes
  FileSecret,     \* JWT_SECRET of api/config/config.yaml
  DefaultSecret,  \* the default of user_service, whose file its image lacks
  TTL,            \* JWT_ACCESS_TOKEN_TTL
  MaxTime,        \* bound: the clock
  Troubles,       \* what may happen to requests
  Bundled, Extended, Faults, MaxFaults  \* as in ServiceProcess

\* "refusal": a service answers with an error; "disconnect": a client goes away;
\* "shutdown": the gateway gets a SIGTERM.
TroubleKinds == {"refusal", "disconnect", "shutdown"}

ASSUME TroublesAssumption == Troubles \subseteq TroubleKinds
ASSUME NobodyAssumption   == Nobody \notin Users
ASSUME TimeAssumption     == TTL \in Nat /\ MaxTime \in Nat

VARIABLES
  pc,      \* where each request is
  req,     \* the request: method, token and body
  rpc,     \* the message the handler sends: service, method and user
  runs,    \* how often a service has begun to run it
  done,    \* and how often it has done its work
  code,    \* the HTTP status of the answer, 0 before it
  issued,  \* the token a Login has made
  clock,
  db, schema, applied, phase, pool, signalled, running, answered, faults, kills

P == INSTANCE ServiceProcess

requests == <<pc, req, rpc, runs, done, code, issued>>
services == <<db, schema, applied, phase, pool, signalled, running, answered, faults, kills>>
vars     == <<requests, clock, services>>

Steps == {"unsent", "received", "calling", "invoked", "ok", "error", "answered", "gone"}
InFlight(c) == pc[c] \in Steps \ {"unsent", "answered", "gone"}

IsRunning(c) == \E s \in P!Services : c \in running[s]

-----------------------------------------------------------------------------
(* The routes, and the descriptions of the services.                        *)

Public    == {"Register", "Login"}
Protected == {"HistoryOfRoutes", "CreateRoom", "FindRoom", "GetRoomDetails",
              "JoinRoom", "ExitRoom", "CompleteRide", "ProcessPayment",
              "RefundPayment", "GetPaymentHistory"}
InitRoutes == Public \cup Protected

AuthServiceDesc    == {"Register", "Login", "HistoryOfRoutes", "SaveRoute"}
RoomServiceDesc    == {"CreateRoom", "JoinRoom", "ExitRoom", "FindRoom", "GetRoomDetails"}
PaymentServiceDesc == {"ProcessPayment", "RefundPayment", "GetPaymentHistory"}

\* The calls of the generated clients.
AuthClient(m, u)           == [service |-> "user", method |-> m, user |-> u]
RoomServiceClient(m, u)    == [service |-> "room", method |-> m, user |-> u]
PaymentServiceClient(m, u) == [service |-> "payment", method |-> m, user |-> u]

\* CompleteRideClient invokes the method of RoomService by its name.
CompleteRideClient(u) == [service |-> "room", method |-> "CompleteRide", user |-> u]

\* CompleteRideRequest is a plain struct, which the codec of grpc cannot encode.
Encodable(m) == m # "CompleteRide"

-----------------------------------------------------------------------------
(* Tokens.                                                                  *)

\* cleanenv: the environment over the file over the default.
Setting(env, file, default) ==
  CHOOSE v \in {env, file, default} :
    v = IF env # Nobody THEN env ELSE IF file # Nobody THEN file ELSE default

UserSecret == Setting(EnvSecret, Nobody, DefaultSecret)

\* Mutation: the file over the environment.
FileFirst == Setting(FileSecret, EnvSecret, DefaultSecret)

GatewaySecret == Setting(EnvSecret, FileSecret, DefaultSecret)

NewToken(u) == [user |-> u, exp |-> clock + TTL, secret |-> UserSecret]
parseJWT(t) == t.secret = GatewaySecret /\ clock < t.exp
Caller(r)   == r.token.user

-----------------------------------------------------------------------------
(* Handlers: the message for a request.  A body may be broken (Bind fails),  *)
(* partial (an id or a required field is missing), or whole and name a user. *)

Bodies     == {"broken", "partial"} \cup Users
BadRequest == [service |-> "none", method |-> "none", user |-> Nobody]
Inputs(m)  ==  \* what the handler reads, besides the token
  IF m \in {"HistoryOfRoutes", "FindRoom", "GetPaymentHistory"} THEN {"partial"}
  ELSE IF m \in {"JoinRoom", "ExitRoom", "GetRoomDetails"} THEN Bodies \ {"broken"}
  ELSE Bodies
Binds(r)   == r.body # "broken"
Whole(r)   == r.body \in Users
Named(r)   == IF Whole(r) THEN r.body ELSE Nobody

Register(r) == IF Binds(r) THEN AuthClient("Register", Named(r)) ELSE BadRequest
Login(r)    == IF Binds(r) THEN AuthClient("Login", Named(r)) ELSE BadRequest
HistoryOfRoutes(r) == AuthClient("HistoryOfRoutes", Caller(r))

\* Mutation: the creator the body names is kept.
CreateRoomForNamed(r) ==
  IF Binds(r) THEN RoomServiceClient("CreateRoom", Named(r)) ELSE BadRequest

CreateRoom(r) ==
  IF Binds(r) THEN RoomServiceClient("CreateRoom", Caller(r)) ELSE BadRequest
JoinRoom(r) ==
  IF Whole(r) THEN RoomServiceClient("JoinRoom", Caller(r)) ELSE BadRequest
ExitRoom(r) ==
  IF Whole(r) THEN RoomServiceClient("ExitRoom", Caller(r)) ELSE BadRequest
FindRoom(r) == RoomServiceClient("FindRoom", Nobody)
GetRoomDetails(r) ==
  IF Whole(r) THEN RoomServiceClient("GetRoomDetails", Nobody) ELSE BadRequest
CompleteRide(r) ==
  IF Whole(r) THEN CompleteRideClient(Caller(r)) ELSE BadRequest
ProcessPayment(r) ==
  IF Whole(r) THEN PaymentServiceClient("ProcessPayment", Named(r)) ELSE BadRequest
RefundPayment(r) ==
  IF Whole(r) THEN PaymentServiceClient("RefundPayment", Nobody) ELSE BadRequest
GetPaymentHistory(r) == PaymentServiceClient("GetPaymentHistory", Caller(r))

Message(r) ==
  CASE r.method = "Register"          -> Register(r)
    [] r.method = "Login"             -> Login(r)
    [] r.method = "HistoryOfRoutes"   -> HistoryOfRoutes(r)
    [] r.method = "CreateRoom"        -> CreateRoom(r)
    [] r.method = "JoinRoom"          -> JoinRoom(r)
    [] r.method = "ExitRoom"          -> ExitRoom(r)
    [] r.method = "FindRoom"          -> FindRoom(r)
    [] r.method = "GetRoomDetails"    -> GetRoomDetails(r)
    [] r.method = "CompleteRide"      -> CompleteRide(r)
    [] r.method = "ProcessPayment"    -> ProcessPayment(r)
    [] r.method = "RefundPayment"     -> RefundPayment(r)
    [] r.method = "GetPaymentHistory" -> GetPaymentHistory(r)

-----------------------------------------------------------------------------
(* A request on its way.                                                    *)

Goto(c, p) == pc' = [pc EXCEPT ![c] = p]

Respond(c, status) ==
  /\ Goto(c, "answered")
  /\ code' = [code EXCEPT ![c] = status]

\* The tokens clients hold: those of the logins that were answered.
Held == {issued[l] : l \in {k \in Calls : code[k] = 200}} \ {Nobody}

\* A client sends a request, with any token it holds or with none.
Send(c) ==
  /\ pc[c] = "unsent"
  /\ \E m \in InitRoutes, t \in Held \cup {Nobody} : \E b \in Inputs(m) :
       req' = [req EXCEPT ![c] = [method |-> m, token |-> t, body |-> b]]
  /\ Goto(c, "received")
  /\ UNCHANGED <<rpc, runs, done, code, issued, clock, services>>

\* Mutation: the 400 is written, and the handler goes on.
HandleNoReturn(c) ==
  LET refused == Message(req[c]) = BadRequest
  IN  /\ rpc' = [rpc EXCEPT ![c] = IF refused THEN RoomServiceClient(req[c].method, Nobody)
                                              ELSE Message(req[c])]
      /\ Goto(c, "calling")
      /\ code' = [code EXCEPT ![c] = IF refused THEN 400 ELSE 0]

Handle(c) ==
  LET message == Message(req[c])
  IN  IF message = BadRequest
      THEN Respond(c, 400) /\ UNCHANGED rpc
      ELSE /\ rpc' = [rpc EXCEPT ![c] = message]
           /\ Goto(c, "calling")
           /\ UNCHANGED code

\* The middleware in front of the protected routes, and the handler behind it.
JWT(c) ==
  /\ pc[c] = "received"
  /\ IF req[c].method \in Protected => (req[c].token # Nobody /\ parseJWT(req[c].token))
     THEN Handle(c)
     ELSE Respond(c, 401) /\ UNCHANGED rpc
  /\ UNCHANGED <<req, runs, done, issued, clock, services>>

\* Mutation: the call waits until the service serves (WaitForReady).
InvokeWaiting(c, methods) ==
  /\ pc[c] = "calling" /\ phase[rpc[c].service] = "serving"
  /\ IF rpc[c].method \in methods
     THEN /\ P!Accept(rpc[c].service, c)
          /\ Goto(c, "invoked")
          /\ runs' = [runs EXCEPT ![c] = @ + 1]
     ELSE Goto(c, "error") /\ UNCHANGED <<runs, services>>
  /\ UNCHANGED <<req, rpc, done, code, issued, clock>>

\* A call of a method the service has under a connection it serves runs; any
\* other fails fast.
Invoke(c, methods) ==
  /\ pc[c] = "calling"
  /\ IF rpc[c].method \in methods /\ Encodable(rpc[c].method) /\ phase[rpc[c].service] = "serving"
     THEN /\ P!Accept(rpc[c].service, c)
          /\ Goto(c, "invoked")
          /\ runs' = [runs EXCEPT ![c] = @ + 1]
     ELSE Goto(c, "error") /\ UNCHANGED <<runs, services>>
  /\ UNCHANGED <<req, rpc, done, code, issued, clock>>

CallUser(c)    == rpc[c].service = "user" /\ Invoke(c, AuthServiceDesc)
CallRoom(c)    == rpc[c].service = "room" /\ Invoke(c, RoomServiceDesc)
CallPayment(c) == rpc[c].service = "payment" /\ Invoke(c, PaymentServiceDesc)
Call(c)        == CallUser(c) \/ CallRoom(c) \/ CallPayment(c)

\* user_service refuses credentials with a field missing.
Valid(c) == rpc[c].method \in Public => rpc[c].user # Nobody

\* The handler of the service does its work, whether or not somebody waits.
Execute(c) ==
  /\ IsRunning(c) /\ done[c] < runs[c] /\ Valid(c)
  /\ done' = [done EXCEPT ![c] = @ + 1]
  /\ issued' = IF rpc[c].method = "Login"
               THEN [issued EXCEPT ![c] = NewToken(rpc[c].user)] ELSE issued
  /\ UNCHANGED <<pc, req, rpc, runs, code, clock, services>>

\* Mutation: the error of the call is dropped.
OutcomeIgnored(c) == "ok"

\* What the client of the call is told.
Outcome(c) == IF done[c] = runs[c] THEN "ok" ELSE "error"

\* It returns: with its result, or with an error and nothing done.
Return(c) ==
  /\ IsRunning(c)
  /\ done[c] = runs[c] \/ ~Valid(c) \/ "refusal" \in Troubles
  /\ P!Answer(rpc[c].service, c)
  /\ IF pc[c] = "invoked" THEN Goto(c, Outcome(c)) ELSE UNCHANGED pc
  /\ UNCHANGED <<req, rpc, runs, done, code, issued, clock>>

\* Mutation: a call whose connection broke is made again.
ConnectionRetried(c) ==
  /\ pc[c] = "invoked" /\ ~IsRunning(c)
  /\ Goto(c, "calling")
  /\ UNCHANGED <<req, rpc, runs, done, code, issued, clock, services>>

\* The service ends while it runs the call, whatever it has done.
ConnectionLost(c) ==
  /\ pc[c] = "invoked" /\ ~IsRunning(c)
  /\ Goto(c, "error")
  /\ UNCHANGED <<req, rpc, runs, done, code, issued, clock, services>>

\* Every error of Login is 401, of the others 500.
Reply(c) ==
  /\ \/ pc[c] = "ok" /\ Respond(c, 200)
     \/ pc[c] = "error" /\ Respond(c, IF rpc[c].method = "Login" THEN 401 ELSE 500)
  /\ UNCHANGED <<req, rpc, runs, done, issued, clock, services>>

Disconnect(c) ==
  /\ "disconnect" \in Troubles
  /\ InFlight(c)
  /\ Goto(c, "gone")
  /\ UNCHANGED <<req, rpc, runs, done, code, issued, clock, services>>

\* Shutdown closes the listener, Start returns ErrServerClosed, and Fatal ends
\* the process: nobody who waits is answered.
Shutdown ==
  /\ "shutdown" \in Troubles
  /\ \E c \in Calls : InFlight(c)
  /\ pc' = [c \in Calls |-> IF InFlight(c) THEN "gone" ELSE pc[c]]
  /\ UNCHANGED <<req, rpc, runs, done, code, issued, clock, services>>

Tick ==
  /\ clock < MaxTime
  /\ clock' = clock + 1
  /\ UNCHANGED <<requests, services>>

-----------------------------------------------------------------------------
\* Every service serves.
Init ==
  /\ pc     = [c \in Calls |-> "unsent"]
  /\ req    = [c \in Calls |-> [method |-> "none", token |-> Nobody, body |-> "broken"]]
  /\ rpc    = [c \in Calls |-> BadRequest]
  /\ runs   = [c \in Calls |-> 0]
  /\ done   = [c \in Calls |-> 0]
  /\ code   = [c \in Calls |-> 0]
  /\ issued = [c \in Calls |-> Nobody]
  /\ clock  = 0
  /\ P!Serving

Advance(c) == JWT(c) \/ Call(c) \/ ConnectionLost(c) \/ Reply(c)
Work(c)    == Execute(c) \/ Return(c)
Processes  == \/ \E s \in P!Services : P!Continue(s) \/ P!Fault(s)
              \/ P!Outage \/ P!Recover

Next ==
  \/ \E c \in Calls : Send(c) \/ Advance(c) \/ Work(c) \/ Disconnect(c)
  \/ Shutdown \/ Tick
  \/ Processes /\ UNCHANGED <<requests, clock>>

Spec == Init /\ [][Next]_vars

\* The gateway goes on with every request, and handlers of services return.
FairSpec == Spec /\ \A c \in Calls : WF_vars(Advance(c)) /\ WF_vars(Work(c))

-----------------------------------------------------------------------------
(* Properties.                                                              *)

Tokens == [user : Users, exp : Nat, secret : {UserSecret}]

\* The variables keep their types; a request has a status exactly when it is
\* answered.
TypeOK ==
  /\ pc \in [Calls -> Steps]
  /\ req \in [Calls -> [method : InitRoutes \cup {"none"},
                        token : Tokens \cup {Nobody}, body : Bodies]]
  /\ rpc \in [Calls -> [service : P!Services \cup {"none"},
                        method : InitRoutes \cup {"none"}, user : Users \cup {Nobody}]]
  /\ runs \in [Calls -> Nat] /\ done \in [Calls -> Nat]
  /\ code \in [Calls -> {0, 200, 400, 401, 500}]
  /\ issued \in [Calls -> Tokens \cup {Nobody}]
  /\ clock \in Nat
  /\ \A c \in Calls : code[c] # 0 <=> pc[c] = "answered"

\* A client that is answered 200 has had its work done, exactly once, whatever
\* stopped, restarted or went away between the call and the answer.
OkIsDone == \A c \in Calls : code[c] = 200 => runs[c] = 1 /\ done[c] = 1

\* Whatever was answered 400, or 401 on a protected route, has reached no
\* service.
RefusedIsUntouched ==
  \A c \in Calls :
    (code[c] = 400 \/ (code[c] = 401 /\ req[c].method \in Protected)) => runs[c] = 0

\* The methods that act for a user.
Personal == {"HistoryOfRoutes", "CreateRoom", "JoinRoom", "ExitRoom",
             "CompleteRide", "GetPaymentHistory"}

\* A service that acts for a user acts for one who logged in, whose token came
\* with this very request, whatever users the body names.
ActsForCaller ==
  \A c \in Calls :
    (runs[c] > 0 /\ rpc[c].method \in Personal) =>
      \E l \in Calls : /\ code[l] = 200 /\ req[l].method = "Login"
                       /\ issued[l] = req[c].token
                       /\ req[l].body = rpc[c].user

\* A request is run at most once: none is repeated by the gateway, however its
\* connection or its client is lost.
RunsOnce == \A c \in Calls : runs[c] <= 1

\* A token that Login has given out is accepted until it expires: the gateway
\* and user_service agree on the secret.
TokensAreAccepted ==
  \A c \in Calls :
    (code[c] = 401 /\ req[c].method \in Protected /\ req[c].token # Nobody)
      => req[c].token.exp <= clock

\* Every request is answered in the end, unless its client or the gateway is
\* gone, also when the service stops under it.
EveryRequestIsAnswered ==
  \A c \in Calls : pc[c] = "received" ~> pc[c] \in {"answered", "gone"}

\* README.md:54: POST /rooms/:id/complete completes the ride.
RidesCanBeCompleted ==
  \A c \in Calls :
    (pc[c] = "calling" /\ rpc[c].method = "CompleteRide") ~> code[c] = 200
=============================================================================
