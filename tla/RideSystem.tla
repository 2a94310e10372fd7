----------------------------- MODULE RideSystem -----------------------------
(***************************************************************************)
(* The three services together: a call of CompleteRide is the room         *)
(* service's handler, the ProcessPayment call it makes and waits for, and  *)
(* the SaveRoute call of the goroutine it starts and forgets.  Each step   *)
(* is one of RoomService, PaymentService or UserService, or two of them    *)
(* where a call begins or ends; and amounts are in kopecks here, as they   *)
(* are for the gateway and the tables.  ProcessPayment is also called by   *)
(* POST /payments/process, for any room, any users and any amount.         *)
(*                                                                         *)
(* Calls do not fail here: what failures do is the subject of the three    *)
(* modules.  Refunds are asked for by users and not by rides.              *)
(***************************************************************************)
EXTENDS FareSplit, Sequences, FiniteSetsExt

CONSTANTS
  Rooms, Users, Nil, Nobody,
  Handlers,      \* calls in flight at once, in each service
  Callers,       \* direct calls of ProcessPayment in flight at once
  SeatCounts,    \* max_members of a CreateRoom request
  Prices,        \* total_price of a CompleteRide request
  DirectAmounts, \* amount_per_user of a direct ProcessPayment request
  UserLists,     \* user_ids of a request: of a ride, its members in the order read
  MaxCalls,      \* bound: completions and direct payments in a behaviour
  MaxNamed       \* bound of PaymentService

ASSUME BoundsAssumption   == MaxCalls \in Nat /\ MaxNamed \in Nat
ASSUME HandlersAssumption == IsFiniteSet(Handlers) /\ Handlers # {}
ASSUME CallersAssumption  == IsFiniteSet(Callers) /\ Callers \cap Handlers = {}
ASSUME NumbersAssumption  == SeatCounts \subseteq Int /\ Prices \subseteq Int
ASSUME AmountsAssumption  == DirectAmounts \subseteq Nat \ {0}
ASSUME ListsAssumption    == UserLists \subseteq Seq(Users) \ {<<>>}
ASSUME NilAssumption      == Nil \notin Rooms \cup Users
ASSUME UsersAssumption    == IsFiniteSet(Users)  \* what they pay can be added up

VARIABLES
  \* room_service
  status, seats, fare, members, pc, req, view,
  \* payment_service and the gateway
  client, rows, charges, refunds, payPc, payCall, payTodo, payResult, nextId, named,
  \* user_service
  accounts, routes, passengers, pending, asked, userPc, userId, userTodo, told, answered,
  \* between them
  sent,     \* the amount in the ProcessPayment call of a handler, -1 for no call,
            \* or in the last one of a caller
  charged,  \* the amount of the payment the gateway has created for a passenger
  outside,  \* the rooms and users for whom a direct call has created it
  direct,   \* the direct calls so far
  prices    \* the total_price of each completion, in the order of asked

roomVars == <<status, seats, fare, members, pc, req, view>>
payVars  == <<client, rows, charges, refunds, payPc, payCall, payTodo, payResult,
              nextId, named>>
userVars == <<accounts, routes, passengers, pending, asked, userPc, userId, userTodo,
              told, answered>>
between  == <<sent, charged, outside, direct, prices>>
vars     == <<roomVars, payVars, userVars, between>>

ChargedUsers(r) == {c.user : c \in {d \in charges : d.room = r}}

\* Those of them who were charged by a completion of the ride.
RideCharges(r) == {u \in ChargedUsers(r) : <<r, u>> \notin outside}

Calls == Handlers \cup Callers

\* What the room service leaves to the others is what has become of it there; its
\* ProcessPayment, with no answer of its own, then only ends the call.
Room == INSTANCE RoomService WITH
  Faults <- {"rpc"},
  billed <- [r \in Rooms |-> RideCharges(r)],
  saving <- [r \in Rooms |-> \E h \in Handlers :
                               userPc[h] # "idle" /\ asked[userId[h]].room = r],
  saved  <- [r \in Rooms |-> routes[r] # 0]

Payment == INSTANCE PaymentService WITH
  Handlers <- Calls, Clients <- {"configured"}, Faults <- {},
  pc <- payPc, call <- payCall, todo <- payTodo, result <- payResult

User == INSTANCE UserService WITH
  Emails <- {}, Passwords <- {}, Faults <- {},
  MaxSaves <- MaxCalls, pc <- userPc, id <- userId, todo <- userTodo

-----------------------------------------------------------------------------
(* Calls between the services.                                              *)

Completing == {h \in Handlers : pc[h] \in {"complete_members", "complete_room"}}

CallsLeft == Len(asked) + Cardinality(Completing) + Len(direct) < MaxCalls

CompleteRide(h) ==
  /\ UNCHANGED <<payVars, userVars, between>>
  /\ CallsLeft
  /\ Room!CompleteRide(h)

\* The goroutine's SaveRoute call arrives at user_service with the members the
\* handler has read.
SaveRoute(h) ==
  /\ \E g \in Handlers : User!SaveRoute(g)
  /\ asked'[Len(asked')] = [room |-> req[h].room, users |-> view[h].seen]

\* Mutation: the route of a free ride is not saved.
CompleteRoomPaidOnly(h) ==
  /\ pc[h] = "complete_room"
  /\ UNCHANGED <<payVars, sent, charged, outside, direct>>
  /\ IF req[h].total > 0 THEN SaveRoute(h) /\ Room!CompleteRoom(h)
     ELSE /\ UNCHANGED userVars
          /\ Room!SetCompleted(req[h].room, req[h].total, Cardinality(view[h].seen))
          /\ Room!Goto(h, "complete_bill")
  /\ prices' = Append(prices, req[h].total)

CompleteRoom(h) ==
  /\ pc[h] = "complete_room"
  /\ SaveRoute(h)
  /\ UNCHANGED <<payVars, sent, charged, outside, direct>>
  /\ Room!CompleteRoom(h)
  /\ prices' = Append(prices, req[h].total)

\* Mutation: the price is divided by the number of seats.
AmountsBySeats(h) == Shares(req[h].total, seats[req[h].room])

\* AmountPerUser as ProcessPayment formats it for the gateway.
Amounts(h) == Shares(req[h].total, Cardinality(view[h].seen))

\* Mutation: the bill is sent before the room is updated.
BillFirst(h) ==
  /\ pc[h] = "complete_room" /\ sent[h] = -1 /\ req[h].total > 0
  /\ Payment!ProcessPayment(h)
  /\ payCall'[h] = [room |-> req[h].room, users |-> view[h].seen]
  /\ Len(payTodo'[h]) = Cardinality(view[h].seen)
  /\ \E amount \in Amounts(h) : sent' = [sent EXCEPT ![h] = amount]
  /\ UNCHANGED <<roomVars, userVars, charged, outside, direct, prices>>

\* Mutation: the members are read again for the bill.
BillMembers(h) ==
  /\ pc[h] = "complete_bill" /\ sent[h] = -1 /\ req[h].total > 0
  /\ Payment!ProcessPayment(h)
  /\ payCall'[h] = [room |-> req[h].room, users |-> members[req[h].room]]
  /\ Len(payTodo'[h]) = Cardinality(members[req[h].room])
  /\ \E amount \in Amounts(h) : sent' = [sent EXCEPT ![h] = amount]
  /\ UNCHANGED <<roomVars, userVars, charged, outside, direct, prices>>

\* The ProcessPayment call arrives, with the members in the order they were read.
Bill(h) ==
  /\ pc[h] = "complete_bill" /\ sent[h] = -1 /\ req[h].total > 0
  /\ Payment!ProcessPayment(h)
  /\ payCall'[h] = [room |-> req[h].room, users |-> view[h].seen]
  /\ Len(payTodo'[h]) = Cardinality(view[h].seen)
  /\ \E amount \in Amounts(h) : sent' = [sent EXCEPT ![h] = amount]
  /\ UNCHANGED <<roomVars, userVars, charged, outside, direct, prices>>

\* It is over, or has been refused for an amount that is not positive, and the
\* handler answers.
Billed(h) ==
  /\ pc[h] = "complete_bill"
  /\ sent[h] # -1 \/ req[h].total <= 0
  /\ payPc[h] = "idle"
  /\ sent' = [sent EXCEPT ![h] = -1]
  /\ UNCHANGED <<payVars, userVars, charged, outside, direct, prices>>
  /\ Room!ProcessPayment(h)

\* Mutation: the amount is divided among the users of the call.
DirectPaymentDivided(g) ==
  /\ CallsLeft
  /\ Payment!ProcessPayment(g)
  /\ \E amount \in DirectAmounts :
       /\ sent' = [sent EXCEPT ![g] = amount \div Len(payTodo'[g])]
       /\ direct' = Append(direct, [room   |-> payCall'[g].room,
                                   users  |-> payCall'[g].users,
                                   amount |-> amount])
  /\ UNCHANGED <<roomVars, userVars, charged, outside, prices>>

\* POST /payments/process: any client that is logged in, for whatever room and users
\* its request names, whether or not there is such a ride and they were in it.
DirectPayment(g) ==
  /\ CallsLeft
  /\ Payment!ProcessPayment(g)
  /\ \E amount \in DirectAmounts :
       /\ sent' = [sent EXCEPT ![g] = amount]
       /\ direct' = Append(direct, [room   |-> payCall'[g].room,
                                   users  |-> payCall'[g].users,
                                   amount |-> amount])
  /\ UNCHANGED <<roomVars, userVars, charged, outside, prices>>

-----------------------------------------------------------------------------
(* Steps of one service.                                                    *)

OfRoom(h) ==
  /\ UNCHANGED <<payVars, userVars, between>>
  /\ \/ Room!CreateRoom(h) \/ Room!CreateMember(h)
     \/ Room!JoinRoom(h) \/ Room!JoinMembers(h) \/ Room!JoinFull(h) \/ Room!JoinAdd(h)
     \/ Room!CompleteMembers(h)

ExitRoom(r, u) ==
  /\ UNCHANGED <<payVars, userVars, between>>
  /\ Room!ExitRoom(r, u)

\* A payment the gateway creates has the amount of the request; one it has
\* created before, under the same key, keeps its own.
Charge(h) ==
  /\ Payment!Charge(h)
  /\ \A c \in charges' : c.status = "pending"
  /\ LET r == payCall[h].room
         u == Head(payTodo[h])
         created == charges' # charges
     IN  /\ charged' = IF created THEN [charged EXCEPT ![r][u] = sent[h]] ELSE charged
         /\ outside' = IF created /\ h \in Callers THEN outside \cup {<<r, u>>} ELSE outside
  /\ UNCHANGED <<roomVars, userVars, sent, direct, prices>>

OfPayment(h) ==
  /\ Payment!SavePayment(h) \/ Payment!Answer(h)
  /\ UNCHANGED <<roomVars, userVars, between>>

OfUser(h) ==
  /\ User!Continue(h)
  /\ UNCHANGED <<roomVars, payVars, between>>

-----------------------------------------------------------------------------
Init ==
  /\ Payment!Init /\ User!Init /\ Room!Init
  /\ sent    = [h \in Calls |-> -1]
  /\ charged = [r \in Rooms |-> [u \in Users |-> 0]]
  /\ outside = {} /\ direct = <<>> /\ prices = <<>>

Next ==
  \/ \E h \in Handlers :
       OfRoom(h) \/ CompleteRide(h) \/ CompleteRoom(h) \/ Bill(h) \/ Billed(h) \/ OfUser(h)
  \/ \E g \in Callers : DirectPayment(g)
  \/ \E c \in Calls : Charge(c) \/ OfPayment(c)
  \/ \E r \in Rooms, u \in Users : ExitRoom(r, u)

Spec == Init /\ [][Next]_vars

-----------------------------------------------------------------------------
(* Properties.                                                              *)

\* Nothing is under way in any service.
AtRest ==
  /\ \A h \in Handlers : pc[h] = "idle" /\ userPc[h] = "idle"
  /\ \A c \in Calls : payPc[c] = "idle"

\* The completions of a ride, by the requests to save its route, and who was in it.
Completions(r) == {i \in DOMAIN asked : asked[i].room = r}
Riders(r)      == UNION {asked[i].users : i \in Completions(r)}

\* The tables behave as the ledger says with the payments made for a ride as its
\* charges: nobody is charged by a ride, one passenger at a time, before it has its
\* price, and a room is oversold by one seat for every other call at most.
Ledger == INSTANCE RoomLedger WITH
  Slack <- Cardinality(Handlers) - 1, billed <- [r \in Rooms |-> RideCharges(r)]
ImplementsLedger == Ledger!Spec

\* When the one completion of a ride is over, its price has been divided by the
\* number of its riders; all of them have been charged, and by the ride nobody else
\* and everybody the same share.  If no direct call was faster, what the riders were
\* charged adds up to the price the room has, to half a kopeck each.
PriceIsCharged ==
  \A r \in Rooms :
    /\ Cardinality(Completions(r)) = 1 /\ fare[r].total > 0
    /\ \A h \in Handlers : pc[h] = "complete_bill" => req[h].room # r
    => /\ Cardinality(Riders(r)) = fare[r].share
       /\ Riders(r) \subseteq ChargedUsers(r)
       /\ RideCharges(r) \subseteq Riders(r)
       /\ \E share \in Shares(fare[r].total, fare[r].share) :
            \A u \in RideCharges(r) : charged[r][u] = share
       /\ Riders(r) = RideCharges(r) =>
            SplitsInto(fare[r].total, fare[r].share,
                       MapThenSumSet(LAMBDA u : charged[r][u], Riders(r)))

\* In the end exactly those are charged for a ride who were members when it was
\* completed for a price or whom a direct call named: also when the ride was
\* completed twice, with passengers who came and went in between.
RidersAreCharged ==
  AtRest => \A r \in Rooms :
    ChargedUsers(r) =
      UNION ({asked[i].users  : i \in {j \in Completions(r) : prices[j] > 0}} \cup
             {direct[i].users : i \in {j \in DOMAIN direct : direct[j].room = r}})

\* Nobody is charged an amount that was not asked for them: it is that of a direct
\* call that named them, or else their share of a price for which a ride they were in
\* was completed, however the two race for the one payment of a room and a user.
AmountsAreAsked ==
  \A r \in Rooms : \A u \in ChargedUsers(r) :
    \/ /\ <<r, u>> \in outside
       /\ \E i \in DOMAIN direct :
            direct[i].room = r /\ u \in direct[i].users /\ charged[r][u] = direct[i].amount
    \/ /\ <<r, u>> \notin outside
       /\ \E i \in Completions(r) :
            /\ u \in asked[i].users /\ prices[i] > 0
            /\ charged[r][u] \in Shares(prices[i], Cardinality(asked[i].users))

\* In the end a completed ride is in the history of the members of one of its
\* completions, free or not, and of nobody else.
RideIsInHistory ==
  AtRest => \A r \in Rooms :
    status[r] = "COMPLETED" =>
      \E i \in Completions(r) : {u \in Users : r \in User!GetUserRoutes(u)} = asked[i].users
=============================================================================
