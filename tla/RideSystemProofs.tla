-------------------------- MODULE RideSystemProofs --------------------------
(***************************************************************************)
(* Theorems about the three services together, for any rooms, users and    *)
(* prices and any finite number of calls in flight.  Each service keeps    *)
(* its own specification in the composition: UserP, PayP and RoomP are the *)
(* services with their theorems, of which the invariants are taken over.   *)
(* BetweenInv adds what the services know of each other, with one lemma    *)
(* for each step of the composition; the properties of RideSystem follow   *)
(* from it, and the ledger of the rooms is implemented with the payments   *)
(* made for a ride for its charges.                                        *)
(***************************************************************************)
EXTENDS RideSystem, FareSplitProofs, SequenceTheorems

\* The services with their theorems.  For the room service billing has no outcome
\* and a route that has been asked for is being saved for ever: what becomes of
\* them is not its affair.
UserP == INSTANCE UserServiceProofs WITH
  Emails <- {}, Passwords <- {}, Faults <- {},
  MaxSaves <- MaxCalls, pc <- userPc, id <- userId, todo <- userTodo

PayP == INSTANCE PaymentServiceProofs WITH
  Handlers <- Calls, Clients <- {"configured"}, Faults <- {},
  pc <- payPc, call <- payCall, todo <- payTodo, result <- payResult

RoomP == INSTANCE RoomServiceProofs WITH
  Faults <- {"rpc"},
  billed <- [r \in Rooms |-> {}],
  saving <- [r \in Rooms |-> \E i \in DOMAIN asked : asked[i].room = r],
  saved  <- [r \in Rooms |-> FALSE]

-----------------------------------------------------------------------------
(* Each service keeps its own specification.                                *)

\* What the services assume of their constants.
LEMMA UserAssumptions ==
  /\ UserP!ListsAssumption /\ UserP!NobodyAssumption
  /\ UserP!FaultsAssumption /\ UserP!SavesAssumption
BY ListsAssumption, BoundsAssumption
DEF UserP!ListsAssumption, UserP!NobodyAssumption, UserP!FaultsAssumption,
    UserP!SavesAssumption

\* The same for the payment service.
LEMMA PaymentAssumptions ==
  /\ PayP!ListsAssumption /\ PayP!ClientsAssumption /\ PayP!FaultsAssumption
  /\ PayP!NamedAssumption /\ PayP!HandlersAssumption
<1>1. IsFiniteSet(Calls)
  BY HandlersAssumption, CallersAssumption, FS_Union DEF Calls
<1> QED BY <1>1, ListsAssumption, BoundsAssumption
  DEF PayP!ListsAssumption, PayP!ClientsAssumption, PayP!FaultsAssumption,
      PayP!NamedAssumption, PayP!HandlersAssumption, PayP!ClientKinds,
      PayP!IsFiniteSet, IsFiniteSet

\* The same for the room service.
LEMMA RoomAssumptions ==
  /\ RoomP!HandlersAssumption /\ RoomP!NumbersAssumption
  /\ RoomP!FaultsAssumption /\ RoomP!NilAssumption
BY HandlersAssumption, NumbersAssumption, NilAssumption
DEF RoomP!HandlersAssumption, RoomP!NumbersAssumption, RoomP!FaultsAssumption,
    RoomP!FaultKinds, RoomP!NilAssumption, RoomP!IsFiniteSet, IsFiniteSet

\* Every step is a step of the user service or none of its business.
LEMMA UserSpec == Spec => UserP!Spec
<1>1. Init => UserP!Init
  BY DEF Init, User!Init, UserP!Init
<1>2. ASSUME NEW h \in Handlers, User!SaveRoute(h) PROVE UserP!SaveRoute(h)
  BY <1>2 DEF User!SaveRoute, User!Begin, User!Elements, User!tables,
              UserP!SaveRoute, UserP!Begin, UserP!Elements, UserP!tables
<1>3. ASSUME NEW h \in Handlers, User!Continue(h) PROVE UserP!Continue(h)
  BY <1>3 DEF User!Continue, User!InsertRoute, User!InsertPassenger, User!Commit,
              User!Rollback, User!Return, User!Loop, User!RoomOf, User!tables,
              UserP!Continue, UserP!InsertRoute, UserP!InsertPassenger, UserP!Commit,
              UserP!Rollback, UserP!Return, UserP!Loop, UserP!RoomOf, UserP!tables
<1>4. UNCHANGED userVars => UNCHANGED UserP!vars
  BY DEF userVars, UserP!vars, UserP!tables, UserP!local
<1>5. [Next]_vars => [UserP!Next]_(UserP!vars)
  BY <1>2, <1>3, <1>4
  DEF Next, OfRoom, CompleteRide, CompleteRoom, SaveRoute, Bill, Billed, Charge,
      DirectPayment, OfPayment, OfUser, ExitRoom, vars, UserP!Next
<1> QED BY <1>1, <1>5, PTL DEF Spec, UserP!Spec

\* The same for the payment service and the gateway.
LEMMA PaymentSpec == Spec => PayP!Spec
<1>1. Init => PayP!Init
  BY DEF Init, Payment!Init, PayP!Init, Payment!NoCall, PayP!NoCall,
         Payment!NoResult, PayP!NoResult
<1>2. ASSUME NEW h \in Calls, Payment!ProcessPayment(h) PROVE PayP!ProcessPayment(h)
  BY <1>2 DEF Payment!ProcessPayment, Payment!Loop, Payment!Elements, Payment!NoResult,
              Payment!gateway, PayP!ProcessPayment, PayP!Loop, PayP!Elements, PayP!NoResult,
              PayP!gateway
<1>3. ASSUME NEW h \in Calls, Payment!Charge(h) PROVE PayP!Charge(h)
  BY <1>3 DEF Payment!Charge, Payment!IdempotencyKey, Payment!CreatePayment,
              Payment!ChargeStatuses, Payment!Failing, Payment!Restart, Payment!NoCall, Payment!NoResult,
              PayP!Charge, PayP!IdempotencyKey, PayP!CreatePayment,
              PayP!ChargeStatuses, PayP!Failing, PayP!Restart, PayP!NoCall, PayP!NoResult
<1>4. ASSUME NEW h \in Calls, Payment!SavePayment(h) PROVE PayP!SavePayment(h)
  BY <1>4 DEF Payment!SavePayment, Payment!InsertPayment, Payment!Loop, Payment!Return,
              Payment!NoCall, Payment!NoResult, Payment!gateway, Payment!bounds,
              PayP!SavePayment, PayP!InsertPayment, PayP!Loop, PayP!Return,
              PayP!NoCall, PayP!NoResult, PayP!gateway, PayP!bounds
<1>5. ASSUME NEW h \in Calls, Payment!Answer(h) PROVE PayP!Answer(h)
  BY <1>5 DEF Payment!Answer, Payment!Return, Payment!NoCall, Payment!NoResult,
              Payment!gateway, Payment!bounds,
              PayP!Answer, PayP!Return, PayP!NoCall, PayP!NoResult,
              PayP!gateway, PayP!bounds
<1>6. UNCHANGED payVars => UNCHANGED PayP!vars
  BY DEF payVars, PayP!vars, PayP!gateway, PayP!local, PayP!bounds
<1>7. [Next]_vars => [PayP!Next]_(PayP!vars)
  BY <1>2, <1>3, <1>4, <1>5, <1>6
  DEF Next, OfRoom, CompleteRide, CompleteRoom, SaveRoute, Bill, Billed, Charge,
      DirectPayment, OfPayment, OfUser, ExitRoom, vars, Calls, PayP!Next, PayP!Continue
<1> QED BY <1>1, <1>7, PTL DEF Spec, PayP!Spec

\* So the invariant of the user service holds.
LEMMA UserInv == Spec => []UserP!Inv
BY UserSpec, UserAssumptions, UserP!InvHolds, PTL

\* The room service begins as it does alone.
LEMMA RoomInit == Init => RoomP!Init
<1> SUFFICES ASSUME Init PROVE RoomP!Init
  OBVIOUS
<1>1. asked = <<>>
  BY DEF Init, User!Init
<1> QED BY <1>1, EmptySeq
  DEF Init, Room!Init, RoomP!Init, Room!NoRequest, RoomP!NoRequest, Room!NoView, RoomP!NoView

\* A completion asks for the route of its room to be saved with the members it has read.
LEMMA NewRequest ==
  ASSUME UserP!Inv, NEW h \in Handlers, CompleteRoom(h)
  PROVE  /\ req[h].room \in Rooms /\ view[h].seen \subseteq Users
         /\ DOMAIN asked = 1 .. Len(asked) /\ Len(asked) \in Nat
         /\ DOMAIN asked' = DOMAIN asked \cup {Len(asked) + 1}
         /\ Len(asked') = Len(asked) + 1
         /\ \A i \in DOMAIN asked : asked'[i] = asked[i] /\ i # Len(asked) + 1
         /\ asked'[Len(asked) + 1] = [room |-> req[h].room, users |-> view[h].seen]
<1>1. PICK g \in Handlers : User!SaveRoute(g)
  BY DEF CompleteRoom, SaveRoute
<1>2. PICK r \in Rooms, list \in UserLists : User!Begin(g, r, list)
  BY <1>1 DEF User!SaveRoute
<1> DEFINE T == [room : Rooms, users : SUBSET Users]
           new == [room |-> r, users |-> User!Elements(list)]
<1>3. asked \in Seq(T) /\ new \in T
  <2>1. list \in Seq(Users)
    BY ListsAssumption
  <2> QED BY <2>1, ElementOfSeq DEF User!Elements, UserP!Inv, UserP!CallsAreDistinct
<1>4. asked' = Append(asked, new)
  BY <1>2 DEF User!Begin
<1> HIDE DEF T, new
<1>5. /\ DOMAIN asked = 1 .. Len(asked) /\ Len(asked) \in Nat
      /\ DOMAIN asked' = 1 .. Len(asked) + 1 /\ Len(asked') = Len(asked) + 1
      /\ \A i \in 1 .. Len(asked) : asked'[i] = asked[i]
      /\ asked'[Len(asked) + 1] = new
  BY <1>3, <1>4, AppendProperties, LenProperties
<1>6. new = [room |-> req[h].room, users |-> view[h].seen]
  BY <1>5 DEF CompleteRoom, SaveRoute
<1>7. new.room = r /\ new.users = User!Elements(list)
  BY DEF new
<1> QED BY <1>3, <1>5, <1>6, <1>7 DEF T

\* The room service cannot tell what becomes of the bill.
LEMMA RoomStep ==
  ASSUME UserP!Inv, [Next]_vars
  PROVE  [RoomP!Next]_(RoomP!vars)
<1>1. asked' = asked => UNCHANGED RoomP!outbound
  BY DEF RoomP!outbound
<1>2. ASSUME NEW h \in Handlers, OfRoom(h) PROVE RoomP!Next
  <2>1. UNCHANGED RoomP!outbound
    BY <1>1, <1>2 DEF OfRoom, userVars
  <2>2. CASE Room!CreateRoom(h)
    <3>1. PICK r \in Rooms, u \in Users, n \in SeatCounts :
            /\ n > 0 /\ ~Room!Exists(r) /\ Room!Insert(r, n)
            /\ \/ Room!Begin(h, "create_member", r, u, 0, n)
               \/ Room!Failing /\ pc[h] = "idle" /\ UNCHANGED Room!local
      BY <2>2 DEF Room!CreateRoom
    <3>2. ~RoomP!Exists(r) /\ RoomP!Insert(r, n)
      BY <3>1 DEF Room!Exists, Room!Insert, RoomP!Exists, RoomP!Insert
    <3>3. \/ RoomP!Begin(h, "create_member", r, u, 0, n)
          \/ RoomP!Failing /\ pc[h] = "idle" /\ UNCHANGED RoomP!local
      BY <3>1 DEF Room!Begin, Room!Failing, Room!local,
                  RoomP!Begin, RoomP!Failing, RoomP!local
    <3>4. RoomP!CreateRoom(h)
      BY <2>1, <3>1, <3>2, <3>3 DEF RoomP!CreateRoom
    <3> QED BY <3>4 DEF RoomP!Next, RoomP!Call
  <2>3. CASE Room!CreateMember(h)
    <3>1. RoomP!CreateMember(h)
      BY <2>1, <2>3
      DEF Room!CreateMember, Room!AddMember, Room!Return, Room!FailUnapplied, Room!Failing,
          Room!tables, Room!NoRequest, Room!NoView,
          RoomP!CreateMember, RoomP!AddMember, RoomP!Return, RoomP!FailUnapplied, RoomP!Failing,
          RoomP!tables, RoomP!NoRequest, RoomP!NoView
    <3> QED BY <3>1 DEF RoomP!Next, RoomP!Continue
  <2>4. CASE Room!JoinRoom(h)
    <3>1. RoomP!JoinRoom(h)
      BY <2>1, <2>4
      DEF Room!JoinRoom, Room!Exists, Room!Begin, Room!tables,
          RoomP!JoinRoom, RoomP!Exists, RoomP!Begin, RoomP!tables
    <3> QED BY <3>1 DEF RoomP!Next, RoomP!Call
  <2>5. CASE Room!JoinMembers(h)
    <3>1. RoomP!JoinMembers(h)
      BY <2>1, <2>5
      DEF Room!JoinMembers, Room!GetRoomMembers, Room!Goto, Room!Return, Room!Failing,
          Room!tables, Room!NoRequest, Room!NoView, Room!Cardinality, Room!IsFiniteSet,
          RoomP!JoinMembers, RoomP!GetRoomMembers, RoomP!Goto, RoomP!Return, RoomP!Failing,
          RoomP!tables, RoomP!NoRequest, RoomP!NoView, RoomP!Cardinality, RoomP!IsFiniteSet
    <3> QED BY <3>1 DEF RoomP!Next, RoomP!Continue
  <2>6. CASE Room!JoinFull(h)
    <3>1. RoomP!JoinFull(h)
      BY <2>1, <2>6
      DEF Room!JoinFull, Room!UpdateRoomStatus, Room!Return, Room!FailUnapplied, Room!Failing,
          Room!tables, Room!NoRequest, Room!NoView,
          RoomP!JoinFull, RoomP!UpdateRoomStatus, RoomP!Return, RoomP!FailUnapplied,
          RoomP!Failing, RoomP!tables, RoomP!NoRequest, RoomP!NoView
    <3> QED BY <3>1 DEF RoomP!Next, RoomP!Continue
  <2>7. CASE Room!JoinAdd(h)
    <3>1. RoomP!JoinAdd(h)
      BY <2>1, <2>7
      DEF Room!JoinAdd, Room!AddMember, Room!Return, Room!FailUnapplied, Room!Failing,
          Room!tables, Room!NoRequest, Room!NoView,
          RoomP!JoinAdd, RoomP!AddMember, RoomP!Return, RoomP!FailUnapplied, RoomP!Failing,
          RoomP!tables, RoomP!NoRequest, RoomP!NoView
    <3> QED BY <3>1 DEF RoomP!Next, RoomP!Continue
  <2>8. CASE Room!CompleteMembers(h)
    <3>1. RoomP!CompleteMembers(h)
      BY <2>1, <2>8
      DEF Room!CompleteMembers, Room!GetRoomMembers, Room!Return, Room!Failing,
          Room!tables, Room!NoRequest, Room!NoView,
          RoomP!CompleteMembers, RoomP!GetRoomMembers, RoomP!Return, RoomP!Failing,
          RoomP!tables, RoomP!NoRequest, RoomP!NoView
    <3> QED BY <3>1 DEF RoomP!Next, RoomP!Continue
  <2> QED BY <1>2, <2>2, <2>3, <2>4, <2>5, <2>6, <2>7, <2>8 DEF OfRoom
<1>3. ASSUME NEW h \in Handlers, CompleteRide(h) PROVE RoomP!Next
  <2>1. UNCHANGED RoomP!outbound
    BY <1>1, <1>3 DEF CompleteRide, userVars
  <2>2. RoomP!CompleteRide(h)
    BY <1>3, <2>1
    DEF CompleteRide, Room!CompleteRide, Room!Exists, Room!Begin, Room!tables,
        RoomP!CompleteRide, RoomP!Exists, RoomP!Begin, RoomP!tables
  <2> QED BY <2>2 DEF RoomP!Next, RoomP!Call
<1>4. ASSUME NEW r \in Rooms, NEW u \in Users, ExitRoom(r, u) PROVE RoomP!Next
  <2>1. UNCHANGED RoomP!outbound
    BY <1>1, <1>4 DEF ExitRoom, userVars
  <2>2. RoomP!ExitRoom(r, u)
    BY <1>4, <2>1
    DEF ExitRoom, Room!ExitRoom, Room!RemoveMember, Room!local,
        RoomP!ExitRoom, RoomP!RemoveMember, RoomP!local
  <2> QED BY <2>2 DEF RoomP!Next
<1>5. ASSUME NEW h \in Handlers, Billed(h) PROVE RoomP!Next
  <2>1. UNCHANGED RoomP!outbound
    BY <1>1, <1>5 DEF Billed, userVars
  <2>2. pc[h] = "complete_bill" /\ RoomP!Return(h) /\ UNCHANGED RoomP!tables
    BY <1>5
    DEF Billed, Room!ProcessPayment, Room!Return, Room!NoRequest, Room!NoView, Room!tables,
        RoomP!Return, RoomP!NoRequest, RoomP!NoView, RoomP!tables
  <2> DEFINE none == [r \in Rooms |-> {}]
  <2>3. none = IF req[h].total > 0 THEN [none EXCEPT ![req[h].room] = @ \cup {}] ELSE none
    OBVIOUS
  <2>4. RoomP!ProcessPayment(h)
    BY <2>1, <2>2, <2>3 DEF RoomP!ProcessPayment, RoomP!outbound
  <2> QED BY <2>4 DEF RoomP!Next, RoomP!Continue
<1>6. ASSUME NEW h \in Handlers, CompleteRoom(h) PROVE RoomP!Next
  <2> DEFINE r0 == req[h].room
             A  == [r \in Rooms |-> \E i \in DOMAIN asked : asked[i].room = r]
  <2>1. /\ r0 \in Rooms
        /\ DOMAIN asked' = DOMAIN asked \cup {Len(asked) + 1}
        /\ \A i \in DOMAIN asked : asked'[i].room = asked[i].room
        /\ asked'[Len(asked) + 1].room = r0
    <3>1. /\ r0 \in Rooms
          /\ DOMAIN asked' = DOMAIN asked \cup {Len(asked) + 1}
          /\ \A i \in DOMAIN asked : asked'[i] = asked[i]
          /\ asked'[Len(asked) + 1] = [room |-> r0, users |-> view[h].seen]
      BY <1>6, NewRequest
    <3> QED BY <3>1
  <2>2. [r \in Rooms |-> \E i \in DOMAIN asked' : asked'[i].room = r] = [A EXCEPT ![r0] = TRUE]
    BY <2>1
  <2>3. /\ pc[h] = "complete_room"
        /\ RoomP!SetCompleted(r0, req[h].total, RoomP!Cardinality(view[h].seen))
        /\ RoomP!Goto(h, "complete_bill")
    BY <1>6
    DEF CompleteRoom, Room!CompleteRoom, Room!SetCompleted, Room!Goto, Room!FailUnapplied,
        Room!Failing, Room!Cardinality, Room!IsFiniteSet, RoomP!SetCompleted, RoomP!Goto,
        RoomP!Cardinality, RoomP!IsFiniteSet
  <2>4. RoomP!CompleteRoom(h)
    BY <2>2, <2>3 DEF RoomP!CompleteRoom
  <2> QED BY <2>4 DEF RoomP!Next, RoomP!Continue
<1>7. ASSUME UNCHANGED <<roomVars, asked>> PROVE UNCHANGED RoomP!vars
  BY <1>1, <1>7 DEF roomVars, RoomP!vars, RoomP!tables, RoomP!local
<1>8. ASSUME NEW h, Bill(h) \/ DirectPayment(h) \/ Charge(h) \/ OfPayment(h) \/ OfUser(h)
      PROVE  UNCHANGED <<roomVars, asked>>
  BY <1>8 DEF Bill, DirectPayment, Charge, OfPayment, OfUser, userVars, User!Continue, User!InsertRoute,
              User!InsertPassenger, User!Commit
<1>9. UNCHANGED vars => UNCHANGED <<roomVars, asked>>
  BY DEF vars, userVars
<1> QED
  BY <1>2, <1>3, <1>4, <1>5, <1>6, <1>7, <1>8, <1>9 DEF Next

\* In the composition each service behaves as its own module says, so that what is
\* proved of it alone, with these faults, is true here.
THEOREM ServicesAreThemselves == Spec => UserP!Spec /\ PayP!Spec /\ RoomP!Spec
<1>1. Spec => RoomP!Spec
  BY RoomInit, RoomStep, UserInv, PTL DEF Spec, RoomP!Spec
<1> QED BY <1>1, UserSpec, PaymentSpec, PTL

\* So do the invariants of the room service and of the payment service.
LEMMA RoomInv == Spec => []RoomP!Inv
BY ServicesAreThemselves, RoomAssumptions, RoomP!InvHolds, PTL

\* The keys identify the charges, and every call in flight has its own list to go
\* through.
LEMMA PaymentInv == Spec => [](PayP!KeysIdentify /\ PayP!RecordInv /\ PayP!TypeOK)
BY PaymentSpec, PaymentAssumptions, PayP!KeysIdentifyHolds, PayP!RecordInvHolds,
   PayP!TypeCorrect, PTL

-----------------------------------------------------------------------------
(* What the services know of each other.                                    *)

\* A handler that is billing has completed its room with its price and the members
\* it has read; the ProcessPayment call in flight is its own, about these, and no
\* answer of the gateway is a failure.
CallIsOwn(h) ==
  /\ pc[h] = "complete_bill" =>
       \E i \in DOMAIN asked :
         /\ asked[i] = [room |-> req[h].room, users |-> view[h].seen]
         /\ prices[i] = req[h].total
  /\ sent[h] # -1 => /\ pc[h] = "complete_bill" /\ req[h].total > 0
                     /\ sent[h] \in Amounts(h)
  /\ payPc[h] # "idle" =>
       /\ payPc[h] \in {"charge", "save", "charged"} /\ sent[h] # -1
       /\ payCall[h] = [room |-> req[h].room, users |-> view[h].seen]
       /\ \A k \in DOMAIN payTodo[h] : payTodo[h][k] \in view[h].seen
  /\ payPc[h] = "save" => payResult[h].status # "failed"

\* A direct call in flight is one of those noted, with its room, users and amount.
DirectIsOwn(g) ==
  /\ payPc[g] # "idle" =>
       /\ payPc[g] \in {"charge", "save", "charged"}
       /\ \E i \in DOMAIN direct :
            direct[i] = [room |-> payCall[g].room, users |-> payCall[g].users,
                         amount |-> sent[g]]
       /\ \A k \in DOMAIN payTodo[g] : payTodo[g][k] \in payCall[g].users
  /\ payPc[g] = "save" => payResult[g].status # "failed"

\* Call c will charge user u for room r: it has u ahead, or the handler has not yet
\* made it.
Owes(c, r, u) ==
  \/ /\ payCall[c].room = r
     /\ \/ payPc[c] = "charge" /\ \E k \in DOMAIN payTodo[c] : payTodo[c][k] = u
        \/ payPc[c] = "save" /\ \E k \in DOMAIN payTodo[c] : k > 1 /\ payTodo[c][k] = u
  \/ /\ c \in Handlers /\ pc[c] = "complete_bill" /\ sent[c] = -1
     /\ req[c].room = r /\ req[c].total > 0 /\ u \in view[c].seen

\* User u is charged for room r or will be by one of the calls C.
Settled(C, r, u) == u \in ChargedUsers(r) \/ \E c \in C : Owes(c, r, u)

\* Whoever took part in a completed ride with a price, or was named by a direct
\* call, is charged or will be.
EverybodyPays ==
  /\ \A i \in DOMAIN asked : prices[i] > 0 =>
       \A u \in asked[i].users : Settled(Handlers, asked[i].room, u)
  /\ \A i \in DOMAIN direct : \A u \in direct[i].users : Settled(Callers, direct[i].room, u)

\* A room has the price and the number of shares of one of its completions.
FareIsOfCompletion ==
  \A r \in Rooms : fare[r].share > 0 =>
    \E i \in Completions(r) :
      fare[r] = [total |-> prices[i], share |-> Cardinality(asked[i].users)]

\* A ride that is completed once is billed by one handler, for one amount.
Once(r) == \E i \in DOMAIN asked : Completions(r) = {i}

Billing(h, r) == pc[h] = "complete_bill" /\ req[h].room = r

OneAmount(r) ==
  /\ \A g, h \in Handlers : Billing(g, r) /\ Billing(h, r) => g = h
  /\ \A h \in Handlers : Billing(h, r) =>
       \A u \in RideCharges(r) : sent[h] # -1 /\ charged[r][u] = sent[h]
  /\ \A u, v \in RideCharges(r) : charged[r][u] = charged[r][v]
  /\ \A u \in RideCharges(r) : charged[r][u] \in Shares(fare[r].total, fare[r].share)

\* What is noted of amounts and of direct calls is of those who are charged.
AmountsInv ==
  /\ charged \in [Rooms -> [Users -> Int]]
  /\ \A r \in Rooms, u \in Users : <<r, u>> \in outside => u \in ChargedUsers(r)
  /\ \A r \in Rooms : Once(r) => OneAmount(r)

Directs == [room : Rooms, users : SUBSET Users, amount : DirectAmounts]

BetweenInv ==
  /\ DOMAIN sent = Calls /\ direct \in Seq(Directs)
  /\ Len(prices) = Len(asked) /\ prices \in Seq(Int)
  /\ \A h \in Handlers : CallIsOwn(h)
  /\ \A g \in Callers : DirectIsOwn(g)
  /\ EverybodyPays /\ AmountsAreAsked /\ FareIsOfCompletion
  /\ AmountsInv

\* What the steps of one handler leave alone, in the room and in the payment service.
RoomOnlyOf(h) ==
  \A g \in Handlers \ {h} : pc'[g] = pc[g] /\ req'[g] = req[g] /\ view'[g] = view[g]

PayOnlyOf(c) ==
  \A g \in Calls \ {c} :
    /\ payPc'[g] = payPc[g] /\ payCall'[g] = payCall[g]
    /\ payTodo'[g] = payTodo[g] /\ payResult'[g] = payResult[g]

\* A call is in order as long as nothing of it changes.
LEMMA CallStays ==
  ASSUME NEW g, CallIsOwn(g), UNCHANGED <<asked, prices>>,
         pc'[g] = pc[g], req'[g] = req[g], view'[g] = view[g], sent'[g] = sent[g],
         payPc'[g] = payPc[g], payCall'[g] = payCall[g],
         payTodo'[g] = payTodo[g], payResult'[g] = payResult[g]
  PROVE  CallIsOwn(g)'
<1>1. Amounts(g)' = Amounts(g)
  BY DEF Amounts
<1> QED BY <1>1 DEF CallIsOwn

\* The direct calls of before are still noted.
DirectKept == \A i \in DOMAIN direct : i \in DOMAIN direct' /\ direct'[i] = direct[i]

\* The same for a direct call.
LEMMA DirectStays ==
  ASSUME NEW g, DirectIsOwn(g), DirectKept, sent'[g] = sent[g],
         payPc'[g] = payPc[g], payCall'[g] = payCall[g],
         payTodo'[g] = payTodo[g], payResult'[g] = payResult[g]
  PROVE  DirectIsOwn(g)'
BY DEF DirectIsOwn, DirectKept

\* A step of a call that completes and charges nothing keeps the invariant, if the
\* call itself stays in order, it goes on owing what is not charged, and it owes what
\* a new direct call asks for.
LEMMA QuietStep ==
  ASSUME BetweenInv, NEW c \in Calls,
         UNCHANGED <<asked, prices, charges, charged, outside>>,
         RoomOnlyOf(c), PayOnlyOf(c),
         DOMAIN sent' = Calls, \A g \in Calls \ {c} : sent'[g] = sent[g],
         \A r \in Rooms : \/ fare'[r] = fare[r]
                          \/ fare'[r].share = 0 /\ Completions(r) = {},
         c \in Handlers => CallIsOwn(c)', c \in Callers => DirectIsOwn(c)',
         \A r, u : Owes(c, r, u) => Owes(c, r, u)' \/ u \in ChargedUsers(r),
         c \in Handlers => \A r : Billing(c, r)' =>
                             Billing(c, r) /\ (sent'[c] = sent[c] \/ sent[c] = -1),
         direct' \in Seq(Directs), DirectKept,
         \A i \in DOMAIN direct' : \/ i \in DOMAIN direct
                                   \/ /\ c \in Callers
                                      /\ \A u \in direct'[i].users : Owes(c, direct[i].room, u)'
  PROVE  BetweenInv'
<1>0. Handlers \subseteq Calls /\ Callers \subseteq Calls
  BY DEF Calls
<1>1. ASSUME NEW g \in Handlers PROVE CallIsOwn(g)'
  <2>1. CASE g = c
    BY <2>1
  <2>2. CASE g # c
    <3>1. /\ pc'[g] = pc[g] /\ req'[g] = req[g] /\ view'[g] = view[g] /\ sent'[g] = sent[g]
          /\ payPc'[g] = payPc[g] /\ payCall'[g] = payCall[g]
          /\ payTodo'[g] = payTodo[g] /\ payResult'[g] = payResult[g]
      BY <1>0, <2>2 DEF RoomOnlyOf, PayOnlyOf
    <3>2. CallIsOwn(g) /\ UNCHANGED <<asked, prices>>
      BY DEF BetweenInv
    <3> QED BY <3>1, <3>2, CallStays
  <2> QED BY <2>1, <2>2
<1>2. ASSUME NEW g \in Callers PROVE DirectIsOwn(g)'
  <2>1. CASE g = c
    BY <2>1
  <2>2. CASE g # c
    <3>1. /\ sent'[g] = sent[g]
          /\ payPc'[g] = payPc[g] /\ payCall'[g] = payCall[g]
          /\ payTodo'[g] = payTodo[g] /\ payResult'[g] = payResult[g]
      BY <1>0, <2>2 DEF PayOnlyOf
    <3>2. DirectIsOwn(g)
      BY DEF BetweenInv
    <3> QED BY <3>1, <3>2, DirectStays
  <2> QED BY <2>1, <2>2
<1>3. /\ \A r : Completions(r)' = Completions(r)
      /\ \A r : ChargedUsers(r)' = ChargedUsers(r) /\ RideCharges(r)' = RideCharges(r)
  BY DEF Completions, ChargedUsers, RideCharges
<1>4. EverybodyPays'
  <2>1. ASSUME NEW g \in Calls, NEW r, NEW u, Owes(g, r, u)
        PROVE  Owes(g, r, u)' \/ u \in ChargedUsers(r)
    BY <2>1 DEF Owes, RoomOnlyOf, PayOnlyOf
  <2>2. \A r, u : /\ Settled(Handlers, r, u) => Settled(Handlers, r, u)'
                  /\ Settled(Callers, r, u) => Settled(Callers, r, u)'
    BY <1>0, <1>3, <2>1 DEF Settled
  <2>3. EverybodyPays
    BY DEF BetweenInv
  <2>4. ASSUME NEW i \in DOMAIN direct', NEW u \in direct'[i].users
        PROVE  Settled(Callers, direct[i].room, u)'
    <3>1. CASE i \in DOMAIN direct
      BY <2>2, <2>3, <2>4, <3>1 DEF EverybodyPays, DirectKept
    <3>2. CASE i \notin DOMAIN direct
      <4>1. c \in Callers
        BY <2>4, <3>2
      <4> QED BY <2>4, <3>2, <4>1 DEF Settled
    <3> QED BY <3>1, <3>2
  <2> QED BY <2>2, <2>3, <2>4 DEF EverybodyPays
<1>5. AmountsAreAsked'
  <2>1. AmountsAreAsked
    BY DEF BetweenInv
  <2>2. ASSUME NEW r \in Rooms, NEW u \in ChargedUsers(r)
        PROVE  \/ /\ <<r, u>> \in outside
                  /\ \E i \in DOMAIN direct' :
                       /\ direct'[i].room = r /\ u \in direct'[i].users
                       /\ charged[r][u] = direct'[i].amount
               \/ /\ <<r, u>> \notin outside
                  /\ \E i \in Completions(r) :
                       /\ u \in asked[i].users /\ prices[i] > 0
                       /\ charged[r][u] \in Shares(prices[i], Cardinality(asked[i].users))
    BY <2>1 DEF AmountsAreAsked, DirectKept
  <2>3. /\ charged' = charged /\ outside' = outside /\ asked' = asked /\ prices' = prices
    OBVIOUS
  <2>4. ASSUME NEW r \in Rooms, NEW u \in ChargedUsers(r)'
        PROVE  \/ /\ <<r, u>> \in outside'
                  /\ \E i \in DOMAIN direct' :
                       /\ direct'[i].room = r /\ u \in direct'[i].users
                       /\ charged'[r][u] = direct'[i].amount
               \/ /\ <<r, u>> \notin outside'
                  /\ \E i \in Completions(r)' :
                       /\ u \in asked'[i].users /\ prices'[i] > 0
                       /\ charged'[r][u] \in Shares(prices'[i], Cardinality(asked'[i].users))
    <3>1. u \in ChargedUsers(r) /\ Completions(r)' = Completions(r)
      BY <1>3, <2>4
    <3> QED BY <2>2, <2>3, <3>1
  <2> QED BY <2>4, Zenon DEF AmountsAreAsked
<1>6. FareIsOfCompletion'
  <2>1. ASSUME NEW r \in Rooms, fare'[r].share > 0 PROVE fare'[r] = fare[r]
    BY <2>1
  <2>2. FareIsOfCompletion
    BY DEF BetweenInv
  <2> QED BY <1>3, <2>1, <2>2, Zenon DEF FareIsOfCompletion
<1>7. AmountsInv'
  <2>1. \A r : Once(r)' => Once(r) /\ Completions(r) # {}
    BY <1>3 DEF Once
  <2>2. \A r : \A g \in Handlers :
          Billing(g, r)' => Billing(g, r) /\ (sent'[g] = sent[g] \/ sent[g] = -1)
    BY <1>0 DEF Billing, RoomOnlyOf
  <2>3. ASSUME NEW r \in Rooms, Once(r)' PROVE OneAmount(r)'
    <3>1. OneAmount(r) /\ fare'[r] = fare[r]
      BY <2>1, <2>3 DEF BetweenInv, AmountsInv
    <3>2. \A f, g \in Handlers : Billing(f, r)' /\ Billing(g, r)' => f = g
      BY <2>2, <3>1 DEF OneAmount
    <3>3. ASSUME NEW g \in Handlers, Billing(g, r)', NEW u \in RideCharges(r)
          PROVE  sent'[g] # -1 /\ charged[r][u] = sent'[g]
      BY <2>2, <3>1, <3>3 DEF OneAmount
    <3>4. /\ \A u, v \in RideCharges(r) : charged[r][u] = charged[r][v]
          /\ \A u \in RideCharges(r) : charged[r][u] \in Shares(fare'[r].total, fare'[r].share)
      BY <3>1 DEF OneAmount
    <3> QED BY <1>3, <3>2, <3>3, <3>4 DEF OneAmount
  <2> QED BY <1>3, <2>3 DEF BetweenInv, AmountsInv
<1> QED BY <1>1, <1>2, <1>4, <1>5, <1>6, <1>7 DEF BetweenInv

\* A step that changes nothing the invariant speaks of.
LEMMA Untouched ==
  ASSUME BetweenInv,
         UNCHANGED <<asked, prices, charges, charged, outside, direct, pc, req, view, sent,
                     payPc, payCall, payTodo, payResult, fare>>
  PROVE  BetweenInv'
<1>1. PICK h \in Handlers : TRUE
  BY HandlersAssumption
<1>2. RoomOnlyOf(h) /\ PayOnlyOf(h)
  BY DEF RoomOnlyOf, PayOnlyOf
<1>3. CallIsOwn(h)' /\ h \notin Callers /\ h \in Calls
  BY CallersAssumption DEF BetweenInv, CallIsOwn, Amounts, Calls
<1>4. \A r, u : Owes(h, r, u) => Owes(h, r, u)'
  BY DEF Owes
<1>5. \A r : Billing(h, r)' => Billing(h, r)
  BY DEF Billing
<1>6. DOMAIN sent' = Calls /\ direct' \in Seq(Directs) /\ DirectKept
  BY DEF BetweenInv, DirectKept
<1> QED BY <1>2, <1>3, <1>4, <1>5, <1>6, QuietStep

\* What the handlers of the room service do before a room is completed.
LEMMA RoomFacts ==
  ASSUME RoomP!Inv, NEW h \in Handlers, OfRoom(h) \/ CompleteRide(h)
  PROVE  /\ pc[h] # "complete_bill" /\ pc'[h] # "complete_bill"
         /\ RoomOnlyOf(h)
         /\ \A r \in Rooms : \/ fare'[r] = fare[r]
                             \/ fare'[r].share = 0 /\ status[r] = "ABSENT"
<1>1. /\ DOMAIN pc = Handlers /\ DOMAIN req = Handlers /\ DOMAIN view = Handlers
      /\ DOMAIN fare = Rooms
  BY DEF RoomP!Inv, RoomP!TypeOK, RoomP!LocalTypeOK, RoomP!TablesTypeOK
<1>2. ASSUME NEW step, NEW r, NEW u, NEW t, NEW n, Room!Begin(h, step, r, u, t, n),
             step # "complete_bill"
      PROVE  pc[h] # "complete_bill" /\ pc'[h] # "complete_bill" /\ RoomOnlyOf(h)
  BY <1>1, <1>2 DEF Room!Begin, RoomOnlyOf
<1>3. ASSUME NEW step, Room!Goto(h, step), step # "complete_bill"
      PROVE  pc'[h] # "complete_bill" /\ RoomOnlyOf(h)
  BY <1>1, <1>3 DEF Room!Goto, RoomOnlyOf
<1>4. ASSUME Room!Return(h) PROVE pc'[h] # "complete_bill" /\ RoomOnlyOf(h)
  BY <1>1, <1>4 DEF Room!Return, RoomOnlyOf
<1>5. CASE Room!CreateRoom(h)
  <2>1. PICK r \in Rooms, u \in Users, n \in SeatCounts :
          ~Room!Exists(r) /\ Room!Insert(r, n) /\ Room!Begin(h, "create_member", r, u, 0, n)
    BY <1>5 DEF Room!CreateRoom, Room!Failing
  <2>2. \A q \in Rooms : \/ fare'[q] = fare[q]
                         \/ fare'[q].share = 0 /\ status[q] = "ABSENT"
    BY <1>1, <2>1 DEF Room!Insert, Room!Exists
  <2> QED BY <1>2, <2>1, <2>2
<1>6. CASE Room!CreateMember(h)
  BY <1>4, <1>6 DEF Room!CreateMember, Room!AddMember, Room!FailUnapplied, Room!tables
<1>7. CASE Room!JoinRoom(h)
  BY <1>2, <1>7 DEF Room!JoinRoom, Room!tables
<1>8. CASE Room!JoinMembers(h)
  <2>1. PICK step \in {"join_full", "join_add"} : Room!Goto(h, step)
    BY <1>8 DEF Room!JoinMembers, Room!Failing
  <2> QED BY <1>3, <1>8, <2>1 DEF Room!JoinMembers, Room!tables
<1>9. CASE Room!JoinFull(h)
  BY <1>4, <1>9 DEF Room!JoinFull, Room!UpdateRoomStatus, Room!FailUnapplied, Room!tables
<1>10. CASE Room!JoinAdd(h)
  BY <1>4, <1>10 DEF Room!JoinAdd, Room!AddMember, Room!FailUnapplied, Room!tables
<1>11. CASE Room!CompleteMembers(h)
  <2>1. CASE Room!Return(h)
    BY <1>4, <1>11, <2>1 DEF Room!CompleteMembers, Room!tables
  <2>2. ASSUME NEW rows0, pc' = [pc EXCEPT ![h] = "complete_room"],
               view' = [view EXCEPT ![h].seen = rows0], UNCHANGED req
        PROVE  pc'[h] # "complete_bill" /\ RoomOnlyOf(h)
    BY <1>1, <2>2 DEF RoomOnlyOf
  <2>3. pc[h] = "complete_members" /\ UNCHANGED fare
    BY <1>11 DEF Room!CompleteMembers, Room!tables
  <2> QED BY <1>11, <2>1, <2>2, <2>3 DEF Room!CompleteMembers, Room!Failing
<1>12. CASE CompleteRide(h)
  BY <1>2, <1>12 DEF CompleteRide, Room!CompleteRide, Room!tables
<1> QED
  BY <1>5, <1>6, <1>7, <1>8, <1>9, <1>10, <1>11, <1>12 DEF OfRoom

\* A room without a row has not been completed.
LEMMA AbsentIsNew ==
  ASSUME RoomP!Inv, NEW r \in Rooms, status[r] = "ABSENT"
  PROVE  Completions(r) = {}
BY DEF RoomP!Inv, RoomP!CompletedBeforeBilled, RoomP!Exists, Completions

LEMMA HandlersCall ==
  /\ Handlers \subseteq Calls /\ Callers \subseteq Calls
  /\ \A h \in Handlers : h \notin Callers
  /\ \A g \in Callers : g \notin Handlers
  /\ \A c \in Calls : c \in Handlers \/ c \in Callers
BY CallersAssumption DEF Calls

\* They keep the invariant.
LEMMA RoomBetween ==
  ASSUME BetweenInv, RoomP!Inv, NEW h \in Handlers, OfRoom(h) \/ CompleteRide(h)
  PROVE  BetweenInv'
<1>1. UNCHANGED <<payVars, userVars, between>>
  BY DEF OfRoom, CompleteRide
<1>2. UNCHANGED <<asked, prices, charges, charged, outside, direct, sent,
                  payPc, payCall, payTodo, payResult>>
  BY <1>1 DEF payVars, userVars, between
<1>3. /\ pc[h] # "complete_bill" /\ pc'[h] # "complete_bill" /\ RoomOnlyOf(h)
      /\ \A r \in Rooms : \/ fare'[r] = fare[r]
                          \/ fare'[r].share = 0 /\ Completions(r) = {}
  BY RoomFacts, AbsentIsNew
<1>4. CallIsOwn(h)' /\ h \in Calls /\ h \notin Callers
  BY <1>2, <1>3, HandlersCall DEF BetweenInv, CallIsOwn
<1>5. /\ \A r, u : Owes(h, r, u) => Owes(h, r, u)'
      /\ \A r : ~Billing(h, r)'
  BY <1>2, <1>3 DEF Owes, Billing
<1>6. /\ PayOnlyOf(h) /\ DOMAIN sent' = Calls
      /\ direct' \in Seq(Directs) /\ DirectKept
  BY <1>2 DEF PayOnlyOf, BetweenInv, DirectKept
<1> QED BY <1>2, <1>3, <1>4, <1>5, <1>6, QuietStep

\* A handler that answers has nobody left to charge.
LEMMA BilledBetween ==
  ASSUME BetweenInv, RoomP!Inv, NEW h \in Handlers, Billed(h)
  PROVE  BetweenInv'
<1>1. /\ DOMAIN pc = Handlers /\ DOMAIN req = Handlers /\ DOMAIN view = Handlers
      /\ DOMAIN sent = Calls /\ h \in Calls /\ h \notin Callers
  BY HandlersCall DEF BetweenInv, RoomP!Inv, RoomP!TypeOK, RoomP!LocalTypeOK
<1>2. /\ UNCHANGED <<asked, prices, charges, charged, outside, direct,
                     payPc, payCall, payTodo, payResult, fare>>
      /\ sent' = [sent EXCEPT ![h] = -1]
      /\ sent[h] # -1 \/ ~(req[h].total > 0)
      /\ payPc[h] = "idle" /\ Room!Return(h)
  <2>1. req[h].total <= 0 => ~(req[h].total > 0)
    <3>1. req[h].total \in Int
      BY DEF RoomP!Inv, RoomP!TypeOK, RoomP!LocalTypeOK, RoomP!Requests
    <3> QED BY <3>1
  <2> QED BY <2>1
  DEF Billed, payVars, userVars, Room!ProcessPayment, Room!tables
<1>3. pc'[h] = "idle" /\ RoomOnlyOf(h) /\ sent'[h] = -1
  BY <1>1, <1>2 DEF Room!Return, RoomOnlyOf
<1>4. CallIsOwn(h)'
  BY <1>2, <1>3 DEF CallIsOwn
<1>5. /\ \A r, u : ~Owes(h, r, u)
      /\ \A r : ~Billing(h, r)'
  BY <1>2, <1>3 DEF Owes, Billing
<1>6. /\ PayOnlyOf(h) /\ DOMAIN sent' = Calls
      /\ \A g \in Calls \ {h} : sent'[g] = sent[g]
      /\ direct' \in Seq(Directs) /\ DirectKept
  BY <1>1, <1>2 DEF PayOnlyOf, BetweenInv, DirectKept
<1> QED BY <1>1, <1>2, <1>3, <1>4, <1>5, <1>6, QuietStep

\* A call that begins has the users of its list ahead.
LEMMA CallBegins ==
  ASSUME BetweenInv, PayP!RecordInv, NEW c \in Calls, Payment!ProcessPayment(c)
  PROVE  /\ payPc[c] = "idle" /\ payPc'[c] = "charge" /\ PayOnlyOf(c)
         /\ payCall'[c].room \in Rooms /\ payCall'[c].users \subseteq Users
         /\ \A k \in DOMAIN payTodo'[c] : payTodo'[c][k] \in payCall'[c].users
         /\ \A u \in payCall'[c].users : \E k \in DOMAIN payTodo'[c] : payTodo'[c][k] = u
         /\ UNCHANGED charges
<1>1. /\ DOMAIN payPc = Calls /\ DOMAIN payCall = Calls
      /\ DOMAIN payTodo = Calls /\ DOMAIN payResult = Calls
  BY DEF PayP!RecordInv
<1>2. PICK r0 \in Rooms, list \in UserLists :
        /\ Payment!Loop(c, list, "charge", "charged")
        /\ payCall' = [payCall EXCEPT ![c] = [room |-> r0, users |-> Payment!Elements(list)]]
  BY DEF Payment!ProcessPayment
<1>3. payPc'[c] = "charge" /\ payTodo'[c] = list /\ PayOnlyOf(c)
  BY <1>1, <1>2, ListsAssumption DEF Payment!Loop, PayOnlyOf
<1>4. payCall'[c].room = r0 /\ payCall'[c].users = {list[k] : k \in DOMAIN list}
  BY <1>1, <1>2 DEF Payment!Elements
<1>5. \A k \in DOMAIN list : list[k] \in Users
  <2>1. list \in Seq(Users)
    BY ListsAssumption
  <2> QED BY <2>1, ElementOfSeq
<1> QED BY <1>3, <1>4, <1>5 DEF Payment!ProcessPayment, Payment!gateway

\* The call has all the members ahead that the handler has read, whatever their
\* order.
LEMMA BillBetween ==
  ASSUME BetweenInv, PayP!RecordInv, NEW h \in Handlers, Bill(h)
  PROVE  BetweenInv'
<1>1. /\ DOMAIN sent = Calls /\ h \in Calls /\ h \notin Callers /\ CallIsOwn(h)
  BY HandlersCall DEF BetweenInv
<1>2. /\ UNCHANGED <<roomVars, asked, prices, charges, charged, outside, direct>>
      /\ pc[h] = "complete_bill" /\ sent[h] = -1 /\ req[h].total > 0
      /\ Payment!ProcessPayment(h)
      /\ payCall'[h] = [room |-> req[h].room, users |-> view[h].seen]
  BY DEF Bill, userVars, Payment!ProcessPayment, Payment!gateway
<1>3. PICK amount \in Amounts(h) : sent' = [sent EXCEPT ![h] = amount]
  BY DEF Bill
<1>4. sent'[h] = amount /\ amount # -1 /\ Amounts(h)' = Amounts(h)
  <2>1. amount \in 0 .. req[h].total
    BY DEF Amounts, Shares
  <2> QED BY <1>1, <1>2, <1>3, <2>1 DEF Amounts, roomVars
<1>5. UNCHANGED <<pc, req, view, fare>>
  BY <1>2 DEF roomVars
<1>6. payCall'[h].room = req[h].room /\ payCall'[h].users = view[h].seen
  BY <1>2
<1>7. /\ payPc'[h] = "charge" /\ PayOnlyOf(h)
      /\ \A k \in DOMAIN payTodo'[h] : payTodo'[h][k] \in view[h].seen
      /\ \A u \in view[h].seen : \E k \in DOMAIN payTodo'[h] : payTodo'[h][k] = u
  BY <1>1, <1>2, <1>6, CallBegins
<1>8. CallIsOwn(h)'
  BY <1>1, <1>2, <1>4, <1>5, <1>7 DEF CallIsOwn
<1>9. ASSUME NEW r, NEW u, Owes(h, r, u) PROVE Owes(h, r, u)'
  <2>1. payPc[h] = "idle"
    BY <1>1, <1>2, CallBegins
  <2>2. u \in view[h].seen /\ r = req[h].room
    BY <1>9, <2>1 DEF Owes
  <2> QED BY <1>6, <1>7, <2>2 DEF Owes
<1>10. \A r : Billing(h, r)' => Billing(h, r) /\ sent[h] = -1
  BY <1>2, <1>5 DEF Billing
<1>11. /\ RoomOnlyOf(h) /\ DOMAIN sent' = Calls
       /\ \A g \in Calls \ {h} : sent'[g] = sent[g]
       /\ direct' \in Seq(Directs) /\ DirectKept
  BY <1>1, <1>2, <1>3, <1>5 DEF RoomOnlyOf, BetweenInv, DirectKept
<1> QED BY <1>1, <1>2, <1>5, <1>7, <1>8, <1>9, <1>10, <1>11, QuietStep

\* So has a direct call, which is noted.
LEMMA DirectBetween ==
  ASSUME BetweenInv, PayP!RecordInv, NEW g \in Callers, DirectPayment(g)
  PROVE  BetweenInv'
<1>1. /\ DOMAIN sent = Calls /\ g \in Calls /\ g \notin Handlers /\ direct \in Seq(Directs)
  BY HandlersCall DEF BetweenInv
<1>2. /\ UNCHANGED <<roomVars, asked, prices, charges, charged, outside>>
      /\ Payment!ProcessPayment(g)
  BY DEF DirectPayment, userVars, Payment!ProcessPayment, Payment!gateway
<1>3. PICK amount \in DirectAmounts :
        /\ sent' = [sent EXCEPT ![g] = amount]
        /\ direct' = Append(direct, [room |-> payCall'[g].room, users |-> payCall'[g].users,
                                     amount |-> amount])
  BY DEF DirectPayment
<1> DEFINE new == [room |-> payCall'[g].room, users |-> payCall'[g].users, amount |-> amount]
<1>4. /\ payPc[g] = "idle" /\ payPc'[g] = "charge" /\ PayOnlyOf(g)
      /\ payCall'[g].room \in Rooms /\ payCall'[g].users \subseteq Users
      /\ \A k \in DOMAIN payTodo'[g] : payTodo'[g][k] \in payCall'[g].users
      /\ \A u \in payCall'[g].users : \E k \in DOMAIN payTodo'[g] : payTodo'[g][k] = u
  BY <1>1, <1>2, CallBegins
<1>5. new \in Directs
  BY <1>4 DEF Directs
<1>6. sent'[g] = amount
  BY <1>1, <1>3
<1>7. new.room = payCall'[g].room /\ new.users = payCall'[g].users
      /\ new = [room |-> payCall'[g].room, users |-> payCall'[g].users, amount |-> sent'[g]]
  BY <1>6
<1>8. direct' = Append(direct, new)
  BY <1>3
<1> HIDE DEF new
<1>9. /\ direct' \in Seq(Directs) /\ Len(direct) \in Nat
      /\ DOMAIN direct = 1 .. Len(direct) /\ DOMAIN direct' = 1 .. Len(direct) + 1
      /\ \A i \in 1 .. Len(direct) : direct'[i] = direct[i]
      /\ direct'[Len(direct) + 1] = new
  BY <1>1, <1>5, <1>8, AppendProperties, LenProperties
<1>10. DirectKept
  BY <1>9 DEF DirectKept
<1>11. DirectIsOwn(g)'
  <2>1. \E i \in DOMAIN direct' : direct'[i] = new
    BY <1>9
  <2> QED BY <1>4, <1>7, <2>1 DEF DirectIsOwn
<1>12. ASSUME NEW i \in DOMAIN direct', i \notin DOMAIN direct, NEW u \in direct'[i].users
       PROVE  Owes(g, direct[i].room, u)'
  <2>1. direct'[i] = new
    BY <1>9, <1>12
  <2>2. direct'[i].room = payCall'[g].room /\ u \in payCall'[g].users
    BY <1>7, <1>12, <2>1
  <2> QED BY <1>4, <2>2 DEF Owes
<1>13. \A r, u : ~Owes(g, r, u)
  BY <1>1, <1>4 DEF Owes
<1>14. /\ RoomOnlyOf(g) /\ UNCHANGED fare /\ DOMAIN sent' = Calls
       /\ \A c \in Calls \ {g} : sent'[c] = sent[c]
  BY <1>1, <1>2, <1>3 DEF RoomOnlyOf, roomVars
<1> QED BY <1>1, <1>2, <1>4, <1>9, <1>10, <1>11, <1>12, <1>13, <1>14, QuietStep

\* A payment that has been recorded is taken off the list of the call, which ends
\* when the list is empty.
LEMMA PaymentBetween ==
  ASSUME BetweenInv, PayP!RecordInv, NEW c \in Calls, OfPayment(c)
  PROVE  BetweenInv'
<1>1. /\ DOMAIN payPc = Calls /\ DOMAIN payCall = Calls
      /\ DOMAIN payTodo = Calls /\ DOMAIN payResult = Calls
      /\ DOMAIN sent = Calls
  BY DEF BetweenInv, PayP!RecordInv
<1>2. UNCHANGED <<roomVars, asked, prices, charged, outside, direct, sent>>
  BY DEF OfPayment, userVars, between
<1>3. UNCHANGED <<charges, pc, req, view, fare>>
  BY <1>2 DEF OfPayment, Payment!SavePayment, Payment!Answer, Payment!gateway, roomVars
<1>4. /\ c \in Handlers => CallIsOwn(c) /\ Amounts(c)' = Amounts(c)
      /\ c \in Callers => DirectIsOwn(c)
  BY <1>3 DEF BetweenInv, Amounts
<1>5. \A r : Billing(c, r)' => Billing(c, r)
  BY <1>3 DEF Billing
<1>6. /\ RoomOnlyOf(c) /\ DOMAIN sent' = Calls
      /\ direct' \in Seq(Directs) /\ DirectKept
  BY <1>1, <1>2, <1>3 DEF RoomOnlyOf, BetweenInv, DirectKept
<1>7. payPc[c] = "save" => payResult[c].status # "failed"
  BY <1>4, HandlersCall DEF CallIsOwn, DirectIsOwn
<1>8. CASE Payment!SavePayment(c)
  <2> DEFINE list == payTodo[c]
  <2>1. payPc[c] = "save" /\ payResult[c].status # "failed"
    BY <1>7, <1>8 DEF Payment!SavePayment
  <2>2. Payment!Loop(c, Tail(list), "charge", "charged") /\ UNCHANGED payCall
    BY <1>8, <2>1 DEF Payment!SavePayment
  <2>3. list \in Seq(Users) /\ list # <<>>
    BY <2>1 DEF PayP!RecordInv, PayP!CallInv
  <2>4. /\ Tail(list) \in Seq(Users) /\ Len(Tail(list)) = Len(list) - 1
        /\ DOMAIN Tail(list) = 1 .. Len(list) - 1 /\ DOMAIN list = 1 .. Len(list)
        /\ Len(list) \in Nat
        /\ \A k \in 1 .. Len(list) - 1 : Tail(list)[k] = list[k + 1]
    BY <2>3, HeadTailProperties, LenProperties
  <2>5. /\ payTodo'[c] = Tail(list) /\ PayOnlyOf(c)
        /\ payPc'[c] = IF Tail(list) = <<>> THEN "charged" ELSE "charge"
        /\ payCall'[c] = payCall[c]
    BY <1>1, <2>2 DEF Payment!Loop, PayOnlyOf
  <2>6. \A k \in DOMAIN Tail(list) : \E j \in DOMAIN list : Tail(list)[k] = list[j]
    BY <2>4
  <2>7. payPc'[c] # "save" /\ payPc'[c] \in {"charge", "save", "charged"}
    BY <2>5
  <2>8. ASSUME c \in Handlers PROVE CallIsOwn(c)'
    <3>1. \A k \in DOMAIN payTodo'[c] : payTodo'[c][k] \in view[c].seen
      BY <1>4, <2>1, <2>5, <2>6, <2>8 DEF CallIsOwn
    <3> QED BY <1>2, <1>3, <1>4, <2>1, <2>5, <2>7, <2>8, <3>1 DEF CallIsOwn
  <2>9. ASSUME c \in Callers PROVE DirectIsOwn(c)'
    <3>1. \A k \in DOMAIN payTodo'[c] : payTodo'[c][k] \in payCall[c].users
      BY <1>4, <2>1, <2>5, <2>6, <2>9 DEF DirectIsOwn
    <3> QED BY <1>2, <1>4, <2>1, <2>5, <2>7, <2>9, <3>1 DEF DirectIsOwn
  <2>10. ASSUME NEW r, NEW u, Owes(c, r, u) PROVE Owes(c, r, u)'
    <3>1. CASE c \in Handlers /\ pc[c] = "complete_bill" /\ sent[c] = -1
               /\ req[c].room = r /\ req[c].total > 0 /\ u \in view[c].seen
      BY <1>2, <1>3, <3>1 DEF Owes
    <3>2. CASE payCall[c].room = r /\ \E k \in DOMAIN list : k > 1 /\ list[k] = u
      <4>1. PICK k \in DOMAIN list : k > 1 /\ list[k] = u
        BY <3>2
      <4>2. k - 1 \in DOMAIN Tail(list) /\ Tail(list)[k - 1] = u
        BY <2>4, <4>1
      <4>3. Tail(list) # <<>>
        BY <2>4, <4>2
      <4> QED BY <2>5, <3>2, <4>2, <4>3 DEF Owes
    <3> QED BY <2>1, <2>10, <3>1, <3>2 DEF Owes
  <2> QED BY <1>2, <1>3, <1>5, <1>6, <2>5, <2>8, <2>9, <2>10, QuietStep
<1>9. CASE Payment!Answer(c)
  <2>1. payPc[c] = "charged"
    BY <1>4, <1>9, HandlersCall DEF Payment!Answer, CallIsOwn, DirectIsOwn
  <2>2. payPc'[c] = "idle" /\ PayOnlyOf(c)
    BY <1>1, <1>9 DEF Payment!Answer, Payment!Return, PayOnlyOf
  <2>3. /\ c \in Handlers => CallIsOwn(c)'
        /\ c \in Callers => DirectIsOwn(c)'
    BY <1>2, <1>3, <1>4, <2>2 DEF CallIsOwn, DirectIsOwn
  <2>4. \A r, u : Owes(c, r, u) => Owes(c, r, u)'
    BY <1>2, <1>3, <2>1 DEF Owes
  <2> QED BY <1>2, <1>3, <1>5, <1>6, <2>2, <2>3, <2>4, QuietStep
<1> QED BY <1>8, <1>9 DEF OfPayment

\* The gateway creates a payment for the next user of a call, or has one already.
LEMMA ChargeFacts ==
  ASSUME BetweenInv, PayP!KeysIdentify, PayP!RecordInv, PayP!TypeOK,
         NEW c \in Calls, Charge(c)
  PROVE  \E r, u :
         /\ r = payCall[c].room /\ u = Head(payTodo[c]) /\ payPc[c] = "charge"
         /\ r \in Rooms /\ u \in Users /\ \E k \in DOMAIN payTodo[c] : payTodo[c][k] = u
         /\ payPc'[c] = "save" /\ payResult'[c].status # "failed"
         /\ PayOnlyOf(c) /\ UNCHANGED <<payCall, payTodo>>
         /\ \A k \in DOMAIN payTodo[c] : k > 1 \/ payTodo[c][k] = u
         /\ \/ UNCHANGED <<charges, charged, outside>> /\ u \in ChargedUsers(r)
            \/ /\ u \notin ChargedUsers(r)
               /\ \E d : d.room = r /\ d.user = u /\ charges' = charges \cup {d}
               /\ charged' = [charged EXCEPT ![r][u] = sent[c]]
               /\ outside' = IF c \in Callers THEN outside \cup {<<r, u>>} ELSE outside
<1>0. PICK r, u : r = payCall[c].room /\ u = Head(payTodo[c])
  OBVIOUS
<1>1. payPc[c] = "charge"
  BY DEF Charge, Payment!Charge
<1>2. r \in Rooms /\ payTodo[c] \in Seq(Users) /\ payTodo[c] # <<>>
  BY <1>0, <1>1 DEF PayP!RecordInv, PayP!CallInv
<1>3. u \in Users /\ 1 \in DOMAIN payTodo[c] /\ u = payTodo[c][1]
      /\ DOMAIN payTodo[c] \subseteq Nat \ {0}
  BY <1>0, <1>2, HeadTailProperties, LenProperties
<1>4. /\ \E k \in DOMAIN payTodo[c] : payTodo[c][k] = u
      /\ \A k \in DOMAIN payTodo[c] : k > 1 \/ payTodo[c][k] = u
  BY <1>3
<1>5. PICK answer : /\ Payment!CreatePayment(<<r, u>>, r, u, answer)
                    /\ payPc' = [payPc EXCEPT ![c] = "save"]
                    /\ \E paid : payResult' = [payResult EXCEPT ![c] =
                                   [id |-> nextId, status |-> answer, paid |-> paid]]
                    /\ UNCHANGED <<payCall, payTodo>>
  <2>1. client = "configured"
    BY DEF PayP!TypeOK
  <2> QED BY <1>0, <2>1 DEF Charge, Payment!Charge, Payment!IdempotencyKey
<1>6. /\ payPc'[c] = "save" /\ payResult'[c].status = answer /\ PayOnlyOf(c)
  BY <1>5 DEF PayP!RecordInv, PayOnlyOf
<1>7. /\ \A d \in charges' : d.status = "pending"
      /\ charged' = IF charges' # charges THEN [charged EXCEPT ![r][u] = sent[c]] ELSE charged
      /\ outside' = IF charges' # charges /\ c \in Callers
                    THEN outside \cup {<<r, u>>} ELSE outside
  BY <1>0 DEF Charge
<1>8. CASE \E d \in charges : d.key = <<r, u>> /\ answer = d.status /\ UNCHANGED charges
  <2>1. PICK d \in charges : d.key = <<r, u>> /\ answer = d.status /\ UNCHANGED charges
    BY <1>8
  <2>2. d.room = r /\ d.user = u
    BY <2>1 DEF PayP!KeysIdentify
  <2>3. u \in ChargedUsers(r) /\ UNCHANGED <<charged, outside>> /\ answer # "failed"
    BY <1>7, <2>1, <2>2 DEF ChargedUsers
  <2> QED BY <1>0, <1>1, <1>2, <1>3, <1>4, <1>5, <1>6, <2>1, <2>3
<1>9. CASE /\ \A d \in charges : d.key # <<r, u>>
           /\ \E s \in {"pending", "succeeded"} :
                /\ charges' = charges \cup {[key |-> <<r, u>>, room |-> r, user |-> u,
                                             status |-> s]}
                /\ answer = s
  <2>1. PICK s \in {"pending", "succeeded"} :
          /\ charges' = charges \cup {[key |-> <<r, u>>, room |-> r, user |-> u, status |-> s]}
          /\ answer = s
    BY <1>9
  <2> DEFINE d == [key |-> <<r, u>>, room |-> r, user |-> u, status |-> s]
  <2>2. d.room = r /\ d.user = u /\ d.key = <<r, u>>
    OBVIOUS
  <2>3. charges' # charges
    BY <1>9, <2>1, <2>2
  <2>4. /\ charged' = [charged EXCEPT ![r][u] = sent[c]] /\ answer # "failed"
        /\ outside' = IF c \in Callers THEN outside \cup {<<r, u>>} ELSE outside
    BY <1>7, <2>1, <2>3
  <2>5. u \notin ChargedUsers(r)
    BY <1>9 DEF PayP!KeysIdentify, ChargedUsers
  <2> HIDE DEF d
  <2>6. d.room = r /\ d.user = u /\ charges' = charges \cup {d}
    BY <2>1, <2>2 DEF d
  <2> QED BY <1>0, <1>1, <1>2, <1>3, <1>4, <1>5, <1>6, <2>4, <2>5, <2>6
<1> QED
  BY <1>5, <1>8, <1>9 DEF Payment!CreatePayment, Payment!Failing

\* A ride that is being billed has the price and the shares of its one completion,
\* and an amount that is in flight for it is one of the shares.
LEMMA AmountIsShare ==
  ASSUME BetweenInv, RoomP!Inv, NEW h \in Handlers, NEW r \in Rooms,
         Once(r), Billing(h, r), sent[h] # -1
  PROVE  sent[h] \in Shares(fare[r].total, fare[r].share)
<1>1. CallIsOwn(h) /\ FareIsOfCompletion
  BY DEF BetweenInv
<1>2. pc[h] = "complete_bill" /\ req[h].room = r
  BY DEF Billing
<1>3. fare[r].share > 0
  BY <1>2 DEF RoomP!Inv, RoomP!CompletionsAreSound
<1>4. PICK i \in DOMAIN asked : /\ asked[i] = [room |-> req[h].room, users |-> view[h].seen]
                                /\ prices[i] = req[h].total
  BY <1>1, <1>2 DEF CallIsOwn
<1>5. asked[i].room = r /\ asked[i].users = view[h].seen
  BY <1>2, <1>4
<1>6. Completions(r) = {i}
  BY <1>5 DEF Once, Completions
<1>7. fare[r] = [total |-> prices[i], share |-> Cardinality(asked[i].users)]
  BY <1>1, <1>3, <1>6 DEF FareIsOfCompletion
<1>8. fare[r].total = req[h].total /\ fare[r].share = Cardinality(view[h].seen)
  BY <1>4, <1>5, <1>7
<1>9. sent[h] \in Amounts(h)
  BY <1>1 DEF CallIsOwn
<1> QED BY <1>8, <1>9 DEF Amounts

\* A charge is of a rider or of a user a direct call names, is no longer owed, and of
\* riders has the amount of the others when the ride has been completed once.
LEMMA ChargeBetween ==
  ASSUME BetweenInv, RoomP!Inv, PayP!KeysIdentify, PayP!RecordInv, PayP!TypeOK,
         NEW c \in Calls, Charge(c)
  PROVE  BetweenInv'
<1>1. PICK r, u :
      /\ r = payCall[c].room /\ u = Head(payTodo[c]) /\ payPc[c] = "charge"
      /\ r \in Rooms /\ u \in Users /\ \E k \in DOMAIN payTodo[c] : payTodo[c][k] = u
      /\ payPc'[c] = "save" /\ payResult'[c].status # "failed"
      /\ PayOnlyOf(c) /\ UNCHANGED <<payCall, payTodo>>
      /\ \A k \in DOMAIN payTodo[c] : k > 1 \/ payTodo[c][k] = u
      /\ \/ UNCHANGED <<charges, charged, outside>> /\ u \in ChargedUsers(r)
         \/ /\ u \notin ChargedUsers(r)
            /\ \E d : d.room = r /\ d.user = u /\ charges' = charges \cup {d}
            /\ charged' = [charged EXCEPT ![r][u] = sent[c]]
            /\ outside' = IF c \in Callers THEN outside \cup {<<r, u>>} ELSE outside
  BY ChargeFacts
<1>2. UNCHANGED <<pc, req, view, fare, sent, direct, asked, prices>>
  BY DEF Charge, roomVars, userVars
<1>3. /\ c \in Handlers => CallIsOwn(c) /\ Amounts(c)' = Amounts(c)
      /\ c \in Callers => DirectIsOwn(c)
      /\ RoomOnlyOf(c)
  BY <1>2 DEF BetweenInv, Amounts, RoomOnlyOf
<1>4. ASSUME c \in Handlers
      PROVE  /\ pc[c] = "complete_bill" /\ sent[c] # -1 /\ req[c].total > 0
             /\ r = req[c].room /\ u \in view[c].seen /\ sent[c] \in Amounts(c)
             /\ CallIsOwn(c)'
  <2>1. CallIsOwn(c) /\ payPc[c] # "idle"
    BY <1>1, <1>3, <1>4
  <2>2. /\ sent[c] # -1
        /\ payCall[c] = [room |-> req[c].room, users |-> view[c].seen]
        /\ \A k \in DOMAIN payTodo[c] : payTodo[c][k] \in view[c].seen
    BY <2>1, Zenon DEF CallIsOwn
  <2>3. pc[c] = "complete_bill" /\ req[c].total > 0 /\ sent[c] \in Amounts(c)
    BY <2>1, <2>2, Zenon DEF CallIsOwn
  <2>4. payCall[c].room = req[c].room
    BY <2>2
  <2>5. payPc'[c] \in {"charge", "save", "charged"}
    BY <1>1
  <2>6. \A k \in DOMAIN payTodo'[c] : payTodo'[c][k] \in view'[c].seen
    BY <1>1, <1>2, <2>2
  <2>7. CallIsOwn(c)'
    BY <1>1, <1>2, <1>3, <1>4, <2>1, <2>2, <2>5, <2>6 DEF CallIsOwn
  <2> QED BY <1>1, <2>2, <2>3, <2>4, <2>7
<1>5. ASSUME c \in Callers
      PROVE  /\ \E i \in DOMAIN direct :
                  direct[i].room = r /\ u \in direct[i].users /\ sent[c] = direct[i].amount
             /\ DirectIsOwn(c)'
  <2>1. DirectIsOwn(c) /\ payPc[c] # "idle"
    BY <1>1, <1>3, <1>5
  <2>2. PICK i \in DOMAIN direct :
          direct[i] = [room |-> payCall[c].room, users |-> payCall[c].users, amount |-> sent[c]]
    BY <2>1 DEF DirectIsOwn
  <2>3. direct[i].room = r /\ direct[i].users = payCall[c].users /\ direct[i].amount = sent[c]
    BY <1>1, <2>2
  <2>4. u \in payCall[c].users
    BY <1>1, <2>1 DEF DirectIsOwn
  <2>5. DirectIsOwn(c)'
    BY <1>1, <1>2, <2>1 DEF DirectIsOwn
  <2> QED BY <2>3, <2>4, <2>5
<1>6. ASSUME NEW q, NEW v, Owes(c, q, v)
      PROVE  Owes(c, q, v)' \/ (q = r /\ v = u)
  <2>1. CASE c \in Handlers /\ sent[c] = -1
    BY <1>4, <2>1
  <2>2. CASE ~(c \in Handlers /\ sent[c] = -1)
    <3>1. q = r
      BY <1>1, <1>6, <2>2 DEF Owes
    <3>2. PICK k \in DOMAIN payTodo[c] : payTodo[c][k] = v
      BY <1>1, <1>6, <2>2 DEF Owes
    <3>3. CASE k > 1
      BY <1>1, <3>1, <3>2, <3>3 DEF Owes
    <3>4. CASE payTodo[c][k] = u
      BY <3>1, <3>2, <3>4
    <3> QED BY <1>1, <3>2, <3>3, <3>4
  <2> QED BY <2>1, <2>2
<1>7. /\ DOMAIN sent' = Calls /\ \A g \in Calls \ {c} : sent'[g] = sent[g]
      /\ direct' \in Seq(Directs) /\ DirectKept
  BY <1>2 DEF BetweenInv, DirectKept
<1>8. \A g, q : Billing(g, q)' <=> Billing(g, q)
  BY <1>2 DEF Billing
<1>9. CASE UNCHANGED <<charges, charged, outside>> /\ u \in ChargedUsers(r)
  <2>1. \A q, v : Owes(c, q, v) => Owes(c, q, v)' \/ v \in ChargedUsers(q)
    BY <1>6, <1>9
  <2> QED BY <1>1, <1>2, <1>3, <1>4, <1>5, <1>7, <1>8, <1>9, <2>1, QuietStep
<1>10. ASSUME u \notin ChargedUsers(r),
              NEW d, d.room = r, d.user = u, charges' = charges \cup {d},
              charged' = [charged EXCEPT ![r][u] = sent[c]],
              outside' = IF c \in Callers THEN outside \cup {<<r, u>>} ELSE outside
       PROVE  BetweenInv'
  <2>1. \A q : /\ q = r => ChargedUsers(q)' = ChargedUsers(q) \cup {u}
               /\ q # r => ChargedUsers(q)' = ChargedUsers(q)
    BY <1>10 DEF ChargedUsers
  <2>2. /\ charged \in [Rooms -> [Users -> Int]]
        /\ \A q \in Rooms, v \in Users : <<q, v>> \in outside => v \in ChargedUsers(q)
        /\ \A q \in Rooms : Once(q) => OneAmount(q)
    BY DEF BetweenInv, AmountsInv
  <2>3. \A q : ChargedUsers(q) \subseteq Users
    BY DEF PayP!TypeOK, ChargedUsers
  <2>4. <<r, u>> \in outside' <=> c \in Callers
    BY <1>1, <1>10, <2>2
  <2>5. \A q, v : ~(q = r /\ v = u) => (<<q, v>> \in outside' <=> <<q, v>> \in outside)
    BY <1>10
  <2>6. ASSUME NEW g \in Handlers PROVE CallIsOwn(g)'
    <3>1. CASE g = c
      BY <1>4, <3>1
    <3>2. CASE g # c
      <4>1. CallIsOwn(g) /\ g \in Calls
        BY HandlersCall DEF BetweenInv
      <4>2. /\ payPc'[g] = payPc[g] /\ payCall'[g] = payCall[g]
            /\ payTodo'[g] = payTodo[g] /\ payResult'[g] = payResult[g]
        BY <1>1, <3>2, <4>1 DEF PayOnlyOf
      <4> QED BY <1>2, <4>1, <4>2, CallStays
    <3> QED BY <3>1, <3>2
  <2>7. ASSUME NEW g \in Callers PROVE DirectIsOwn(g)'
    <3>1. CASE g = c
      BY <1>5, <3>1
    <3>2. CASE g # c
      <4>1. DirectIsOwn(g) /\ g \in Calls
        BY HandlersCall DEF BetweenInv
      <4>2. /\ payPc'[g] = payPc[g] /\ payCall'[g] = payCall[g]
            /\ payTodo'[g] = payTodo[g] /\ payResult'[g] = payResult[g]
        BY <1>1, <3>2, <4>1 DEF PayOnlyOf
      <4> QED BY <1>2, <1>7, <4>1, <4>2, DirectStays
    <3> QED BY <3>1, <3>2
  <2>8. EverybodyPays'
    <3>1. ASSUME NEW g \in Calls, NEW q, NEW v, Owes(g, q, v)
          PROVE  Owes(g, q, v)' \/ v \in ChargedUsers(q)'
      <4>1. CASE g = c
        BY <1>6, <2>1, <3>1, <4>1
      <4>2. CASE g # c
        BY <1>1, <1>2, <3>1, <4>2 DEF Owes, PayOnlyOf
      <4> QED BY <4>1, <4>2
    <3>2. \A q, v : /\ Settled(Handlers, q, v) => Settled(Handlers, q, v)'
                    /\ Settled(Callers, q, v) => Settled(Callers, q, v)'
      BY <2>1, <3>1, HandlersCall DEF Settled
    <3> QED BY <1>2, <3>2 DEF BetweenInv, EverybodyPays
  <2>9. \A q : Completions(q)' = Completions(q)
    BY <1>2 DEF Completions
  <2>10. FareIsOfCompletion'
    BY <1>2, <2>9 DEF BetweenInv, FareIsOfCompletion
  <2>11. sent[c] \in Int
    <3>1. CASE c \in Handlers
      BY <1>4, <3>1 DEF Amounts, Shares
    <3>2. CASE c \in Callers
      <4>1. PICK i \in DOMAIN direct : sent[c] = direct[i].amount
        BY <1>5, <3>2
      <4>2. direct[i] \in Directs
        BY ElementOfSeq DEF BetweenInv
      <4>3. direct[i].amount \in DirectAmounts
        BY <4>2 DEF Directs
      <4>4. \A x \in DirectAmounts : x \in Int
        BY AmountsAssumption
      <4> QED BY <4>1, <4>3, <4>4
    <3> QED BY <3>1, <3>2, HandlersCall
  <2>12. charged' \in [Rooms -> [Users -> Int]]
    BY <1>1, <1>10, <2>2, <2>11
  <2>13. ASSUME NEW q \in Rooms, NEW v \in Users
         PROVE  charged'[q][v] = IF q = r /\ v = u THEN sent[c] ELSE charged[q][v]
    BY <1>1, <1>10, <2>2
  <2>14. AmountsAreAsked'
    <3> SUFFICES ASSUME NEW q \in Rooms, NEW v \in ChargedUsers(q)'
                 PROVE  \/ /\ <<q, v>> \in outside'
                           /\ \E i \in DOMAIN direct :
                                /\ direct[i].room = q /\ v \in direct[i].users
                                /\ charged'[q][v] = direct[i].amount
                        \/ /\ <<q, v>> \notin outside'
                           /\ \E i \in Completions(q) :
                                /\ v \in asked[i].users /\ prices[i] > 0
                                /\ charged'[q][v] \in
                                     Shares(prices[i], Cardinality(asked[i].users))
      BY <1>2, <2>9 DEF AmountsAreAsked
    <3>1. CASE q = r /\ v = u
      <4>1. charged'[q][v] = sent[c]
        BY <1>1, <2>13, <3>1
      <4>2. CASE c \in Callers
        BY <1>5, <2>4, <3>1, <4>1, <4>2
      <4>3. CASE c \in Handlers
        <5>1. CallIsOwn(c) /\ pc[c] = "complete_bill"
          BY <1>3, <1>4, <4>3
        <5>2. PICK i \in DOMAIN asked :
                /\ asked[i] = [room |-> req[c].room, users |-> view[c].seen]
                /\ prices[i] = req[c].total
          BY <5>1 DEF CallIsOwn
        <5>3. asked[i].room = q /\ asked[i].users = view[c].seen
          BY <1>4, <3>1, <4>3, <5>2
        <5>4. sent[c] \in Shares(prices[i], Cardinality(asked[i].users))
          BY <1>4, <4>3, <5>2, <5>3 DEF Amounts
        <5>5. i \in Completions(q) /\ v \in asked[i].users /\ prices[i] > 0
          BY <1>4, <3>1, <4>3, <5>2, <5>3 DEF Completions
        <5>6. <<q, v>> \notin outside'
          BY <2>4, <3>1, <4>3, HandlersCall
        <5> QED BY <4>1, <5>4, <5>5, <5>6
      <4> QED BY <4>2, <4>3, HandlersCall
    <3>2. CASE ~(q = r /\ v = u)
      <4>1. v \in ChargedUsers(q) /\ v \in Users
        BY <2>1, <2>3, <3>2
      <4>2. charged'[q][v] = charged[q][v]
        BY <2>13, <3>2, <4>1
      <4>3. <<q, v>> \in outside' <=> <<q, v>> \in outside
        BY <2>5, <3>2
      <4>4. AmountsAreAsked
        BY DEF BetweenInv
      <4> QED BY <4>1, <4>2, <4>3, <4>4 DEF AmountsAreAsked
    <3> QED BY <3>1, <3>2
  <2>15. AmountsInv'
    <3>1. ASSUME NEW q \in Rooms, NEW v \in Users, <<q, v>> \in outside'
          PROVE  v \in ChargedUsers(q)'
      <4>1. CASE q = r /\ v = u
        BY <2>1, <4>1
      <4>2. CASE ~(q = r /\ v = u)
        BY <2>1, <2>2, <2>5, <3>1, <4>2
      <4> QED BY <4>1, <4>2
    <3>2. ASSUME NEW q, q # r \/ c \in Callers PROVE RideCharges(q)' = RideCharges(q)
      <4>1. CASE q # r
        BY <2>1, <2>5, <4>1 DEF RideCharges
      <4>2. CASE q = r /\ c \in Callers
        BY <1>10, <2>1, <2>4, <2>5, <4>2 DEF RideCharges
      <4> QED BY <3>2, <4>1, <4>2
    <3>3. ASSUME NEW q \in Rooms, Once(q)' PROVE OneAmount(q)'
      <4>1. Once(q) /\ OneAmount(q)
        BY <1>2, <2>2, <2>9, <3>3 DEF Once
      <4>2. \A v : v \in RideCharges(q) => v \in Users /\ ~(q = r /\ v = u)
        BY <1>10, <2>3 DEF RideCharges
      <4>3. \A v \in RideCharges(q) : charged'[q][v] = charged[q][v]
        BY <2>13, <4>2
      <4>4. CASE q # r \/ c \in Callers
        <5>1. RideCharges(q)' = RideCharges(q)
          BY <3>2, <4>4
        <5> QED BY <1>2, <1>8, <4>1, <4>3, <5>1 DEF OneAmount
      <4>5. CASE q = r /\ c \in Handlers
        <5>1. Billing(c, r)
          BY <1>4, <4>5 DEF Billing
        <5>2. \A g \in Handlers : Billing(g, r) => g = c
          BY <4>1, <4>5, <5>1 DEF OneAmount
        <5>3. \A v \in RideCharges(r) : charged[r][v] = sent[c]
          BY <4>1, <4>5, <5>1 DEF OneAmount
        <5>4. RideCharges(q)' \subseteq RideCharges(r) \cup {u}
          BY <2>1, <2>5, <4>5 DEF RideCharges
        <5>5. \A v \in RideCharges(q)' : charged'[q][v] = sent[c]
          BY <1>1, <2>13, <4>3, <4>5, <5>3, <5>4
        <5>6. sent[c] \in Shares(fare[r].total, fare[r].share)
          BY <1>1, <1>4, <4>1, <4>5, <5>1, AmountIsShare
        <5>7. \A f, g \in Handlers : Billing(f, q)' /\ Billing(g, q)' => f = g
          BY <1>8, <4>5, <5>2
        <5>8. \A g \in Handlers : Billing(g, q)' =>
                \A v \in RideCharges(q)' : sent'[g] # -1 /\ charged'[q][v] = sent'[g]
          BY <1>2, <1>4, <1>8, <4>5, <5>2, <5>5
        <5>9. \A v, w \in RideCharges(q)' : charged'[q][v] = charged'[q][w]
          BY <5>5
        <5>10. \A v \in RideCharges(q)' :
                 charged'[q][v] \in Shares(fare'[q].total, fare'[q].share)
          BY <1>2, <4>5, <5>5, <5>6
        <5> QED BY <5>7, <5>8, <5>9, <5>10 DEF OneAmount
      <4> QED BY <4>4, <4>5, HandlersCall
    <3> QED BY <2>12, <3>1, <3>3 DEF AmountsInv
  <2>16. /\ DOMAIN sent' = Calls /\ direct' \in Seq(Directs)
         /\ Len(prices') = Len(asked') /\ prices' \in Seq(Int)
    BY <1>2 DEF BetweenInv
  <2> QED BY <2>6, <2>7, <2>8, <2>10, <2>14, <2>15, <2>16 DEF BetweenInv
<1> QED BY <1>1, <1>9, <1>10

\* A completion adds a request and a price, and its handler owes for all of its
\* members; the ride has charged nobody when it is the first one of its room.
LEMMA CompleteBetween ==
  ASSUME BetweenInv, UserP!Inv, RoomP!Inv, NEW h \in Handlers, CompleteRoom(h)
  PROVE  BetweenInv'
<1> DEFINE n == Len(asked) + 1
           r0 == req[h].room
<1>1. /\ r0 \in Rooms /\ view[h].seen \subseteq Users
      /\ DOMAIN asked = 1 .. Len(asked) /\ Len(asked) \in Nat
      /\ DOMAIN asked' = DOMAIN asked \cup {n} /\ Len(asked') = n
      /\ \A i \in DOMAIN asked : asked'[i] = asked[i] /\ i # n
      /\ asked'[n] = [room |-> r0, users |-> view[h].seen]
  BY NewRequest
<1>2. /\ Len(prices') = n /\ prices' \in Seq(Int)
      /\ \A i \in DOMAIN asked : prices'[i] = prices[i]
      /\ prices'[n] = req[h].total
  <2>1. req[h].total \in Int
    BY DEF RoomP!Inv, RoomP!TypeOK, RoomP!LocalTypeOK, RoomP!Requests
  <2>2. prices \in Seq(Int) /\ prices' = Append(prices, req[h].total) /\ Len(prices) = Len(asked)
    BY DEF BetweenInv, CompleteRoom
  <2> QED BY <1>1, <2>1, <2>2, AppendProperties, LenProperties
<1>3. /\ DOMAIN pc = Handlers /\ DOMAIN req = Handlers /\ DOMAIN view = Handlers
      /\ DOMAIN fare = Rooms
  BY DEF RoomP!Inv, RoomP!TypeOK, RoomP!LocalTypeOK, RoomP!TablesTypeOK
<1>4. /\ pc[h] = "complete_room" /\ UNCHANGED <<payVars, sent, charged, outside, direct>>
      /\ Room!SetCompleted(r0, req[h].total, Cardinality(view[h].seen))
      /\ Room!Goto(h, "complete_bill")
  BY DEF CompleteRoom, Room!CompleteRoom, Room!FailUnapplied, Room!Failing, Room!Cardinality,
         Room!IsFiniteSet, Cardinality, IsFiniteSet
<1>5. UNCHANGED <<charges, payPc, payCall, payTodo, payResult, sent, charged, outside,
                  direct, req, view>>
  BY <1>4 DEF payVars, Room!Goto
<1>6. pc'[h] = "complete_bill" /\ RoomOnlyOf(h)
  BY <1>3, <1>4 DEF Room!Goto, RoomOnlyOf
<1>7. /\ fare'[r0] = [total |-> req[h].total, share |-> Cardinality(view[h].seen)]
      /\ \A r \in Rooms \ {r0} : fare'[r] = fare[r]
  BY <1>1, <1>3, <1>4 DEF Room!SetCompleted
<1>8. sent[h] = -1 /\ payPc[h] = "idle"
  <2>1. CallIsOwn(h)
    BY DEF BetweenInv
  <2>2. sent[h] = -1
    BY <1>4, <2>1, Zenon DEF CallIsOwn
  <2> QED BY <2>1, <2>2, Zenon DEF CallIsOwn
<1> HIDE DEF n, r0
<1>9. \A r : /\ Completions(r) \subseteq DOMAIN asked
             /\ r = r0 => Completions(r)' = Completions(r) \cup {n}
             /\ r # r0 => Completions(r)' = Completions(r)
  <2>1. asked'[n].room = r0
    BY <1>1
  <2>2. \A i \in DOMAIN asked : asked'[i].room = asked[i].room
    BY <1>1
  <2> QED BY <1>1, <2>1, <2>2 DEF Completions
<1>10. \A r : ChargedUsers(r)' = ChargedUsers(r) /\ RideCharges(r)' = RideCharges(r)
  BY <1>5 DEF ChargedUsers, RideCharges
<1>11. ASSUME NEW g \in Handlers PROVE CallIsOwn(g)'
  <2>1. CASE g = h
    <3>1. asked'[n] = [room |-> req'[h].room, users |-> view'[h].seen]
      BY <1>1, <1>5 DEF r0
    <3>2. n \in DOMAIN asked' /\ prices'[n] = req'[h].total
      BY <1>1, <1>2, <1>5
    <3> QED BY <1>5, <1>8, <2>1, <3>1, <3>2 DEF CallIsOwn
  <2>2. CASE g # h
    <3>1. CallIsOwn(g)
      BY DEF BetweenInv
    <3>2. pc'[g] = pc[g] /\ Amounts(g)' = Amounts(g)
      BY <1>5, <1>6, <2>2 DEF RoomOnlyOf, Amounts
    <3>3. pc'[g] = "complete_bill" =>
            \E i \in DOMAIN asked' :
              /\ asked'[i] = [room |-> req'[g].room, users |-> view'[g].seen]
              /\ prices'[i] = req'[g].total
      BY <1>1, <1>2, <1>5, <3>1, <3>2 DEF CallIsOwn
    <3> QED BY <1>5, <3>1, <3>2, <3>3 DEF CallIsOwn
  <2> QED BY <2>1, <2>2
<1>12. EverybodyPays'
  <2>1. ASSUME NEW c \in Calls, NEW r, NEW u, Owes(c, r, u) PROVE Owes(c, r, u)'
    <3>1. CASE c = h
      <4>1. pc[c] = "complete_room"
        BY <1>4, <3>1
      <4> QED BY <1>5, <2>1, <4>1 DEF Owes
    <3>2. CASE c # h
      BY <1>5, <1>6, <2>1, <3>2 DEF Owes, RoomOnlyOf
    <3> QED BY <3>1, <3>2
  <2>2. \A r, u : /\ Settled(Handlers, r, u) => Settled(Handlers, r, u)'
                  /\ Settled(Callers, r, u) => Settled(Callers, r, u)'
    BY <1>10, <2>1, HandlersCall DEF Settled
  <2>3. EverybodyPays
    BY DEF BetweenInv
  <2>4. ASSUME NEW i \in DOMAIN asked', prices'[i] > 0, NEW u \in asked'[i].users,
               NEW r, r = asked'[i].room
        PROVE  Settled(Handlers, r, u)'
    <3>1. CASE i = n
      <4>1. u \in view'[h].seen /\ req'[h].total > 0 /\ req'[h].room = r
        BY <1>1, <1>2, <1>5, <2>4, <3>1 DEF r0
      <4>2. Owes(h, r, u)'
        BY <1>5, <1>6, <1>8, <4>1 DEF Owes
      <4> QED BY <4>2, HandlersCall DEF Settled
    <3>2. CASE i \in DOMAIN asked
      <4>1. asked'[i] = asked[i] /\ prices'[i] = prices[i]
        BY <1>1, <1>2, <3>2
      <4>2. Settled(Handlers, r, u)
        BY <2>3, <2>4, <3>2, <4>1 DEF EverybodyPays
      <4> QED BY <2>2, <4>2
    <3> QED BY <1>1, <3>1, <3>2
  <2>5. ASSUME NEW i \in DOMAIN asked', prices'[i] > 0, NEW u \in asked'[i].users
        PROVE  Settled(Handlers, asked[i].room, u)'
    BY <2>4, <2>5, Zenon
  <2>6. ASSUME NEW i \in DOMAIN direct', NEW u \in direct'[i].users
        PROVE  Settled(Callers, direct[i].room, u)'
    BY <1>5, <2>2, <2>3, <2>6 DEF EverybodyPays
  <2> QED BY <2>5, <2>6, Zenon DEF EverybodyPays
<1>13. AmountsAreAsked'
  <2> SUFFICES ASSUME NEW r \in Rooms, NEW u \in ChargedUsers(r)
               PROVE  \/ /\ <<r, u>> \in outside
                         /\ \E i \in DOMAIN direct :
                              /\ direct[i].room = r /\ u \in direct[i].users
                              /\ charged[r][u] = direct[i].amount
                      \/ /\ <<r, u>> \notin outside
                         /\ \E i \in Completions(r)' :
                              /\ u \in asked'[i].users /\ prices'[i] > 0
                              /\ charged[r][u] \in
                                   Shares(prices'[i], Cardinality(asked'[i].users))
    BY <1>5, <1>10 DEF AmountsAreAsked
  <2>1. \A i \in Completions(r) : /\ i \in Completions(r)'
                                  /\ asked'[i] = asked[i] /\ prices'[i] = prices[i]
    BY <1>1, <1>2, <1>9
  <2>2. AmountsAreAsked
    BY DEF BetweenInv
  <2> QED BY <2>1, <2>2 DEF AmountsAreAsked
<1>14. FareIsOfCompletion'
  <2>1. ASSUME NEW r \in Rooms, fare'[r].share > 0
        PROVE  \E i \in Completions(r)' :
                 fare'[r] = [total |-> prices'[i], share |-> Cardinality(asked'[i].users)]
    <3>1. CASE r = r0
      <4>1. asked'[n].users = view[h].seen
        BY <1>1
      <4>2. n \in Completions(r)'
        BY <1>9, <3>1
      <4> QED BY <1>2, <1>7, <3>1, <4>1, <4>2
    <3>2. CASE r # r0
      <4>1. fare'[r] = fare[r] /\ Completions(r)' = Completions(r)
        BY <1>7, <1>9, <3>2
      <4>2. PICK i \in Completions(r) :
              fare[r] = [total |-> prices[i], share |-> Cardinality(asked[i].users)]
        BY <2>1, <4>1 DEF BetweenInv, FareIsOfCompletion
      <4>3. asked'[i] = asked[i] /\ prices'[i] = prices[i]
        BY <1>1, <1>2, <1>9
      <4> QED BY <4>1, <4>2, <4>3
    <3> QED BY <3>1, <3>2
  <2> QED BY <2>1 DEF FareIsOfCompletion
<1>15. AmountsInv'
  <2>1. /\ charged' \in [Rooms -> [Users -> Int]]
        /\ \A r \in Rooms, u \in Users : <<r, u>> \in outside' => u \in ChargedUsers(r)'
    BY <1>5, <1>10 DEF BetweenInv, AmountsInv
  <2>2. ASSUME NEW r \in Rooms, Once(r)' PROVE OneAmount(r)'
    <3>1. CASE r # r0
      <4>1. Once(r)
        BY <1>1, <1>9, <2>2, <3>1 DEF Once, Completions
      <4>2. OneAmount(r)
        BY <4>1 DEF BetweenInv, AmountsInv
      <4>3. \A g \in Handlers : Billing(g, r)' => Billing(g, r)
        BY <1>5, <1>6, <3>1 DEF Billing, RoomOnlyOf, r0
      <4>4. fare'[r] = fare[r]
        BY <1>7, <3>1
      <4> QED BY <1>5, <1>10, <4>2, <4>3, <4>4 DEF OneAmount
    <3>2. CASE r = r0
      <4>1. Completions(r) = {}
        <5>1. \A i \in DOMAIN asked : i # n
          BY <1>1
        <5> QED BY <1>9, <2>2, <3>2, <5>1 DEF Once
      <4>2. RideCharges(r) = {}
        BY <4>1 DEF BetweenInv, AmountsAreAsked, RideCharges
      <4>3. \A g \in Handlers : Billing(g, r)' => g = h
        <5>1. ASSUME NEW g \in Handlers, g # h, Billing(g, r)' PROVE FALSE
          <6>1. Billing(g, r) /\ CallIsOwn(g)
            BY <1>5, <1>6, <5>1 DEF Billing, RoomOnlyOf, BetweenInv
          <6>2. PICK i \in DOMAIN asked :
                  asked[i] = [room |-> req[g].room, users |-> view[g].seen]
            BY <6>1 DEF CallIsOwn, Billing
          <6>3. asked[i].room = r
            BY <6>1, <6>2 DEF Billing
          <6> QED BY <4>1, <6>3 DEF Completions
        <5> QED BY <5>1
      <4>4. RideCharges(r)' = {}
        BY <1>10, <4>2
      <4> QED BY <4>3, <4>4 DEF OneAmount
    <3> QED BY <3>1, <3>2
  <2> QED BY <2>1, <2>2 DEF AmountsInv
<1>16. /\ DOMAIN sent' = Calls /\ direct' \in Seq(Directs)
       /\ Len(prices') = Len(asked')
  BY <1>1, <1>2, <1>5 DEF BetweenInv
<1>17. ASSUME NEW g \in Callers PROVE DirectIsOwn(g)'
  BY <1>5 DEF BetweenInv, DirectIsOwn
<1> QED BY <1>2, <1>11, <1>12, <1>13, <1>14, <1>15, <1>16, <1>17
    DEF BetweenInv

\* At first nobody is charged and nobody owes.
LEMMA InitBetween == Init => BetweenInv
<1> SUFFICES ASSUME Init PROVE BetweenInv
  OBVIOUS
<1>1. /\ asked = <<>> /\ prices = <<>> /\ direct = <<>> /\ charges = {} /\ outside = {}
      /\ payPc = [c \in Calls |-> "idle"] /\ pc = [h \in Handlers |-> "idle"]
      /\ sent = [c \in Calls |-> -1] /\ charged = [r \in Rooms |-> [u \in Users |-> 0]]
      /\ \A r \in Rooms : fare[r].share = 0
  BY DEF Init, User!Init, Payment!Init, Room!Init
<1>2. /\ DOMAIN asked = {} /\ Len(prices) = Len(asked) /\ prices \in Seq(Int)
      /\ DOMAIN direct = {} /\ direct \in Seq(Directs)
  BY <1>1, EmptySeq
<1>3. /\ \A h \in Handlers : CallIsOwn(h)
      /\ \A g \in Callers : DirectIsOwn(g)
  BY <1>1, HandlersCall DEF CallIsOwn, DirectIsOwn
<1>4. EverybodyPays /\ AmountsAreAsked /\ FareIsOfCompletion
  BY <1>1, <1>2 DEF EverybodyPays, AmountsAreAsked, ChargedUsers, FareIsOfCompletion
<1>5. AmountsInv
  BY <1>1, <1>2 DEF AmountsInv, Once
<1> QED BY <1>1, <1>2, <1>3, <1>4, <1>5 DEF BetweenInv

\* Every step keeps the invariant, given those of the services.
LEMMA BetweenStep ==
  ASSUME BetweenInv, UserP!Inv, RoomP!Inv, PayP!KeysIdentify, PayP!RecordInv, PayP!TypeOK,
         [Next]_vars
  PROVE  BetweenInv'
<1>1. ASSUME NEW h \in Handlers, OfUser(h) PROVE BetweenInv'
  <2>1. UNCHANGED asked
    BY <1>1 DEF OfUser, User!Continue, User!InsertRoute, User!InsertPassenger, User!Commit
  <2> QED BY <1>1, <2>1, Untouched DEF OfUser, roomVars, payVars, between
<1>2. ASSUME NEW r \in Rooms, NEW u \in Users, ExitRoom(r, u) PROVE BetweenInv'
  BY <1>2, Untouched
  DEF ExitRoom, Room!ExitRoom, Room!RemoveMember, Room!local, payVars, userVars, between
<1>3. CASE UNCHANGED vars
  BY <1>3, Untouched DEF vars, roomVars, payVars, userVars, between
<1> QED
  BY <1>1, <1>2, <1>3, RoomBetween, CompleteBetween, BillBetween, BilledBetween, DirectBetween,
     ChargeBetween, PaymentBetween
  DEF Next

\* The invariant of the composition.
LEMMA BetweenHolds == Spec => []BetweenInv
BY InitBetween, BetweenStep, UserInv, RoomInv, PaymentInv, PTL DEF Spec

-----------------------------------------------------------------------------
(* The theorems.                                                            *)

\* When everything is over, exactly those have been charged who were members at a
\* completion with a price or whom a direct call named, for any number of concurrent
\* completions, direct calls, joins and exits: whoever was read or named is owed for
\* until the gateway has the payment.
THEOREM EverybodyIsCharged == Spec => []RidersAreCharged
<1>1. ASSUME BetweenInv PROVE RidersAreCharged
  <2> SUFFICES ASSUME AtRest, NEW r \in Rooms
               PROVE  ChargedUsers(r) =
                        UNION ({asked[i].users  : i \in {j \in Completions(r) : prices[j] > 0}} \cup
                               {direct[i].users : i \in {j \in DOMAIN direct : direct[j].room = r}})
    BY DEF RidersAreCharged
  <2>1. \A c \in Calls : \A q, u : ~Owes(c, q, u)
    BY DEF AtRest, Owes
  <2>2. \A q, u : Settled(Handlers, q, u) \/ Settled(Callers, q, u) => u \in ChargedUsers(q)
    BY <2>1, HandlersCall DEF Settled
  <2>3. ASSUME NEW i \in Completions(r), prices[i] > 0, NEW u \in asked[i].users
        PROVE  u \in ChargedUsers(r)
    BY <1>1, <2>2, <2>3 DEF BetweenInv, EverybodyPays, Completions
  <2>4. ASSUME NEW i \in DOMAIN direct, direct[i].room = r, NEW u \in direct[i].users
        PROVE  u \in ChargedUsers(r)
    BY <1>1, <2>2, <2>4 DEF BetweenInv, EverybodyPays
  <2>5. ASSUME NEW u \in ChargedUsers(r)
        PROVE  \/ \E i \in Completions(r) : prices[i] > 0 /\ u \in asked[i].users
               \/ \E i \in DOMAIN direct : direct[i].room = r /\ u \in direct[i].users
    BY <1>1 DEF BetweenInv, AmountsAreAsked
  <2> QED BY <2>3, <2>4, <2>5
<1> QED BY <1>1, BetweenHolds, PTL

\* No charge is of an amount nobody asked for: whichever of a completion and a direct
\* call is first at the gateway, the payment of a room and a user has the amount of
\* one request that was about them, and is marked as of that kind.
THEOREM NoOtherAmount == Spec => []AmountsAreAsked
BY BetweenHolds, PTL DEF BetweenInv

\* The route of every completion is saved or being saved.
LEMMA UserThrough == Spec => []UserP!RequestsComeThrough
<1>1. UserP!Spec => []UserP!RequestsComeThrough
  BY UserAssumptions, UserP!NoRideIsLost
<1> QED BY <1>1, UserSpec, PTL

\* When everything is over, a completed ride is in the history of exactly the
\* members of one of its completions: some save has committed, and a route is whole.
THEOREM EveryRideIsInHistory == Spec => []RideIsInHistory
<1>1. ASSUME BetweenInv, RoomP!Inv, UserP!Inv, UserP!RequestsComeThrough
      PROVE  RideIsInHistory
  <2> SUFFICES ASSUME AtRest, NEW r \in Rooms, status[r] = "COMPLETED"
               PROVE  \E i \in Completions(r) :
                        {u \in Users : r \in User!GetUserRoutes(u)} = asked[i].users
    BY DEF RideIsInHistory
  <2>1. fare[r].share > 0
    BY <1>1 DEF RoomP!Inv, RoomP!RoomsAreSound
  <2>2. PICK i \in Completions(r) : TRUE
    BY <1>1, <2>1 DEF BetweenInv, FareIsOfCompletion
  <2>3. routes[r] # 0
    <3>1. i \in DOMAIN asked /\ asked[i].room = r
      BY <2>2 DEF Completions
    <3>2. UserP!SavedOrBeingSaved(r)
      BY <1>1, <3>1 DEF UserP!RequestsComeThrough
    <3> QED BY <3>2 DEF UserP!SavedOrBeingSaved, AtRest
  <2>4. /\ asked[routes[r]].room = r
        /\ {u \in Users : <<routes[r], u>> \in passengers} = asked[routes[r]].users
    BY <1>1, <2>3 DEF UserP!Inv, UserP!CommittedIsDone, UserP!RouteIsWhole
  <2>5. routes[r] \in DOMAIN asked
    <3>1. routes[r] \in 0 .. Len(asked)
      BY <1>1 DEF UserP!Inv, UserP!CommittedIsDone
    <3>2. DOMAIN asked = 1 .. Len(asked) /\ Len(asked) \in Nat
      BY <1>1, LenProperties DEF UserP!Inv, UserP!CallsAreDistinct
    <3> QED BY <2>3, <3>1, <3>2
  <2>6. \A u : r \in User!GetUserRoutes(u) <=> <<routes[r], u>> \in passengers
    BY DEF User!GetUserRoutes
  <2> QED BY <2>4, <2>5, <2>6 DEF Completions
<1> QED BY <1>1, BetweenHolds, RoomInv, UserInv, UserThrough, PTL

\* One completion is the only one.
LEMMA OneCompletion ==
  ASSUME UserP!Inv, NEW r \in Rooms, Cardinality(Completions(r)) = 1
  PROVE  Once(r)
<1>1. Completions(r) \subseteq 1 .. Len(asked) /\ Len(asked) \in Nat
  BY LenProperties DEF UserP!Inv, UserP!CallsAreDistinct, Completions
<1>2. IsFiniteSet(Completions(r))
  <2>1. IsFiniteSet(1 .. Len(asked))
    BY <1>1, FS_Interval
  <2> DEFINE S == 1 .. Len(asked)
             T == Completions(r)
  <2>2. T \in SUBSET S
    BY <1>1
  <2> HIDE DEF S, T
  <2>3. IsFiniteSet(S) => IsFiniteSet(T)
    BY <2>2, FS_Subset
  <2> QED BY <2>1, <2>3 DEF S, T
<1>3. PICK i : Completions(r) = {i}
  BY <1>2, FS_Singleton
<1> QED BY <1>3 DEF Once, Completions

\* When a ride has been completed once and billed, its riders are as many as its price
\* was divided by, all of them have been charged and, by the ride, nobody else and all
\* the same share; and unless a direct call was faster their payments add up to the
\* price but for the rounding, for any price, any number of users and any order of
\* reading the members.
THEOREM PriceIsPaid == Spec => []PriceIsCharged
<1>1. ASSUME BetweenInv, RoomP!Inv, UserP!Inv, PayP!TypeOK, NEW r \in Rooms,
             Cardinality(Completions(r)) = 1, fare[r].total > 0,
             \A h \in Handlers : pc[h] = "complete_bill" => req[h].room # r
      PROVE  /\ Cardinality(Riders(r)) = fare[r].share
             /\ Riders(r) \subseteq ChargedUsers(r)
             /\ RideCharges(r) \subseteq Riders(r)
             /\ \E share \in Shares(fare[r].total, fare[r].share) :
                  \A u \in RideCharges(r) : charged[r][u] = share
             /\ Riders(r) = RideCharges(r) =>
                  SplitsInto(fare[r].total, fare[r].share,
                             MapThenSumSet(LAMBDA u : charged[r][u], Riders(r)))
  <2>1. PICK i \in DOMAIN asked : Completions(r) = {i}
    BY <1>1, OneCompletion DEF Once
  <2>2. asked[i].room = r
    BY <2>1 DEF Completions
  <2>3. fare[r].share > 0
    BY <1>1, <2>2 DEF RoomP!Inv, RoomP!CompletedBeforeBilled
  <2>4. fare[r] = [total |-> prices[i], share |-> Cardinality(asked[i].users)]
    BY <1>1, <2>1, <2>3 DEF BetweenInv, FareIsOfCompletion
  <2>5. prices[i] > 0 /\ fare[r].share = Cardinality(asked[i].users) /\ fare[r].total = prices[i]
    BY <1>1, <2>4
  <2>6. Riders(r) = asked[i].users
    BY <2>1 DEF Riders
  <2>7. Riders(r) \subseteq ChargedUsers(r)
    <3>1. \A h \in Handlers, u \in asked[i].users : ~Owes(h, r, u)
      <4>1. ASSUME NEW h \in Handlers, NEW u, Owes(h, r, u) PROVE pc[h] = "complete_bill" /\ req[h].room = r
        <5>1. CASE payPc[h] # "idle"
          <6>1. payCall[h] = [room |-> req[h].room, users |-> view[h].seen] /\ sent[h] # -1
            BY <1>1, <5>1 DEF BetweenInv, CallIsOwn
          <6>2. pc[h] = "complete_bill"
            BY <1>1, <6>1, Zenon DEF BetweenInv, CallIsOwn
          <6>3. payCall[h].room = r
            BY <4>1, <6>1 DEF Owes
          <6> QED BY <6>1, <6>2, <6>3
        <5>2. CASE payPc[h] = "idle"
          BY <4>1, <5>2 DEF Owes
        <5> QED BY <5>1, <5>2
      <4> QED BY <1>1, <4>1
    <3>2. \A u \in asked[i].users : Settled(Handlers, r, u)
      BY <1>1, <2>2, <2>5 DEF BetweenInv, EverybodyPays
    <3> QED BY <2>6, <3>1, <3>2 DEF Settled
  <2>8. RideCharges(r) \subseteq Riders(r)
    <3>1. AmountsAreAsked
      BY <1>1 DEF BetweenInv
    <3> QED BY <2>1, <2>6, <3>1 DEF AmountsAreAsked, RideCharges
  <2>9. Riders(r) \subseteq Users /\ IsFiniteSet(Riders(r)) /\ Riders(r) # {}
    <3>1. Riders(r) \subseteq Users
      BY <1>1, <2>7 DEF PayP!TypeOK, ChargedUsers
    <3>2. IsFiniteSet(Riders(r))
      BY <3>1, UsersAssumption, FS_Subset
    <3> QED BY <2>3, <2>5, <2>6, <3>1, <3>2, FS_EmptySet
  <2>10. OneAmount(r) /\ charged \in [Rooms -> [Users -> Int]]
    BY <1>1, <2>1 DEF BetweenInv, AmountsInv, Once
  <2>11. PICK share \in Shares(fare[r].total, fare[r].share) :
           \A u \in RideCharges(r) : charged[r][u] = share
    <3>1. CASE RideCharges(r) = {}
      <4>1. Cardinality(asked[i].users) \in Nat
        BY <2>6, <2>9, FS_CardinalityType
      <4>2. fare[r].total \in Nat /\ fare[r].share \in Nat \ {0}
        <5>1. prices[i] \in Int
          <6>1. DOMAIN asked = 1 .. Len(asked) /\ DOMAIN prices = 1 .. Len(prices)
            BY <1>1, LenProperties DEF BetweenInv, UserP!Inv, UserP!CallsAreDistinct
          <6>2. i \in DOMAIN prices
            BY <1>1, <6>1 DEF BetweenInv
          <6> QED BY <1>1, <6>2, ElementOfSeq DEF BetweenInv
        <5> QED BY <2>3, <2>5, <4>1, <5>1
      <4> QED BY <3>1, <4>2, EveryPriceHasAShare
    <3>2. CASE RideCharges(r) # {}
      BY <2>10, <3>2 DEF OneAmount
    <3> QED BY <3>1, <3>2
  <2>12. ASSUME Riders(r) = RideCharges(r)
         PROVE  SplitsInto(fare[r].total, fare[r].share,
                           MapThenSumSet(LAMBDA u : charged[r][u], Riders(r)))
    <3>1. share \in Int /\ IsShare(share, fare[r].total, fare[r].share)
      BY DEF Shares
    <3>2. PICK a : a = charged[r]
      OBVIOUS
    <3>3. \A u \in Riders(r) : a[u] = IF u \in Riders(r) THEN share ELSE 0
      BY <2>11, <2>12, <3>2
    <3>4. Total(a, Riders(r)) = Cardinality(Riders(r)) * share
      BY <2>9, <3>1, <3>3, TotalOfEqualShares
    <3>5. MapThenSumSet(LAMBDA u : charged[r][u], Riders(r)) = Total(charged[r], Riders(r))
      BY DEF MapThenSumSet, MapThenFoldSet, Total, Summing, Chosen
    <3>6. MapThenSumSet(LAMBDA u : charged[r][u], Riders(r)) = fare[r].share * share
      BY <2>5, <2>6, <3>2, <3>4, <3>5
    <3> QED BY <3>1, <3>6 DEF IsShare, SplitsInto
  <2> QED BY <2>5, <2>6, <2>7, <2>8, <2>11, <2>12
<1>2. ASSUME BetweenInv, RoomP!Inv, UserP!Inv, PayP!TypeOK PROVE PriceIsCharged
  BY <1>1, <1>2 DEF PriceIsCharged
<1> QED BY <1>2, BetweenHolds, RoomInv, UserInv, PaymentInv, PTL

-----------------------------------------------------------------------------
(* The refinement: the ledger's charges are the payments made for a ride.   *)

\* The room service keeps the ledger's promises whatever becomes of the bills.
LEMMA TablesStep ==
  ASSUME UserP!Inv, RoomP!Inv, [Next]_vars, UNCHANGED <<charges, outside>>
  PROVE  [Ledger!Next]_(Ledger!ledger)
<1>1. [RoomP!Ledger!Next]_(RoomP!Ledger!ledger)
  <2>1. [RoomP!Next]_(RoomP!vars)
    BY RoomStep
  <2>2. "rows" \notin {"rpc"}
    OBVIOUS
  <2> QED BY <2>1, <2>2, RoomAssumptions, RoomP!LedgerStep
<1> DEFINE B == [r \in Rooms |-> RideCharges(r)]
<1>2. [r \in Rooms |-> RideCharges(r)]' = B
  BY DEF ChargedUsers, RideCharges
<1>3. \A S : RoomP!Ledger!Cardinality(S) = Cardinality(S)
  BY DEF RoomP!Ledger!Cardinality, Cardinality
<1>4. \A S : Ledger!Cardinality(S) = Cardinality(S)
  BY DEF Ledger!Cardinality, Cardinality
<1>5. \A S : RoomP!Cardinality(S) = Cardinality(S)
  BY DEF RoomP!Cardinality, Cardinality
<1>6. ASSUME UNCHANGED RoomP!Ledger!ledger PROVE UNCHANGED Ledger!ledger
  BY <1>2, <1>6 DEF RoomP!Ledger!ledger, Ledger!ledger
<1>7. ASSUME NEW r \in Rooms, RoomP!Ledger!Open(r) PROVE Ledger!Open(r)
  BY <1>2, <1>7 DEF RoomP!Ledger!Open, Ledger!Open
<1>8. ASSUME NEW r \in Rooms, RoomP!Ledger!MarkFull(r) PROVE Ledger!MarkFull(r)
  BY <1>2, <1>8 DEF RoomP!Ledger!MarkFull, Ledger!MarkFull
<1>9. ASSUME NEW r \in Rooms, RoomP!Ledger!Finish(r) PROVE Ledger!Finish(r)
  BY <1>2, <1>5, <1>9 DEF RoomP!Ledger!Finish, Ledger!Finish
<1>10. ASSUME NEW r \in Rooms, RoomP!Ledger!Charge(r) PROVE UNCHANGED Ledger!ledger
  BY <1>2, <1>10 DEF RoomP!Ledger!Charge, Ledger!ledger
<1>11. ASSUME NEW r \in Rooms, NEW u \in Users, RoomP!Ledger!Take(r, u) PROVE Ledger!Take(r, u)
  BY <1>2, <1>3, <1>4, <1>5, <1>11 DEF RoomP!Ledger!Take, Ledger!Take
<1>12. ASSUME NEW r \in Rooms, NEW u \in Users, RoomP!Ledger!Leave(r, u) PROVE Ledger!Leave(r, u)
  BY <1>2, <1>12 DEF RoomP!Ledger!Leave, Ledger!Leave
<1> QED
  BY <1>1, <1>6, <1>7, <1>8, <1>9, <1>10, <1>11, <1>12
  DEF RoomP!Ledger!Next, Ledger!Next

\* A ride has a payment created only when it has its price; what a direct call has
\* created is no charge of the ride, and no charge of the ride becomes one of its own.
LEMMA GatewayStep ==
  ASSUME BetweenInv, RoomP!Inv, PayP!KeysIdentify, PayP!RecordInv, PayP!TypeOK,
         NEW c \in Calls, Charge(c)
  PROVE  [Ledger!Next]_(Ledger!ledger)
<1>1. PICK r, u : /\ r = payCall[c].room /\ payPc[c] = "charge"
                  /\ r \in Rooms /\ u \in Users
                  /\ \/ UNCHANGED <<charges, outside>>
                     \/ /\ u \notin ChargedUsers(r)
                        /\ \E d : d.room = r /\ d.user = u /\ charges' = charges \cup {d}
                        /\ outside' = IF c \in Callers THEN outside \cup {<<r, u>>} ELSE outside
  BY ChargeFacts
<1>2. UNCHANGED <<status, seats, fare, members>>
  BY DEF Charge, roomVars
<1> DEFINE B == [q \in Rooms |-> RideCharges(q)]
<1>3. CASE UNCHANGED <<charges, outside>>
  <2>1. [q \in Rooms |-> RideCharges(q)]' = B
    BY <1>3 DEF ChargedUsers, RideCharges
  <2> QED BY <1>2, <2>1 DEF Ledger!ledger
<1>4. ASSUME u \notin ChargedUsers(r), NEW d, d.room = r, d.user = u,
             charges' = charges \cup {d},
             outside' = IF c \in Callers THEN outside \cup {<<r, u>>} ELSE outside
      PROVE  [Ledger!Next]_(Ledger!ledger)
  <2>1. \A q : /\ q = r => ChargedUsers(q)' = ChargedUsers(q) \cup {u}
               /\ q # r => ChargedUsers(q)' = ChargedUsers(q)
    BY <1>4 DEF ChargedUsers
  <2>2. \A q, v : ~(q = r /\ v = u) => (<<q, v>> \in outside' <=> <<q, v>> \in outside)
    BY <1>4
  <2>3. CASE c \in Callers
    <3>1. \A q \in Rooms : RideCharges(q)' = RideCharges(q)
      <4>1. <<r, u>> \in outside'
        BY <1>4, <2>3
      <4> QED BY <1>4, <2>1, <2>2, <4>1 DEF RideCharges
    <3>2. [q \in Rooms |-> RideCharges(q)]' = B
      BY <3>1
    <3> QED BY <1>2, <3>2 DEF Ledger!ledger
  <2>4. CASE c \in Handlers
    <3>1. fare[r].share > 0
      <4>1. CallIsOwn(c) /\ payPc[c] # "idle"
        BY <1>1, <2>4 DEF BetweenInv
      <4>2. sent[c] # -1 /\ payCall[c] = [room |-> req[c].room, users |-> view[c].seen]
        BY <4>1, Zenon DEF CallIsOwn
      <4>3. pc[c] = "complete_bill"
        BY <4>1, <4>2, Zenon DEF CallIsOwn
      <4>4. req[c].room = r
        BY <1>1, <4>2
      <4> QED BY <2>4, <4>3, <4>4 DEF RoomP!Inv, RoomP!CompletionsAreSound
    <3>2. <<r, u>> \notin outside
      BY <1>1, <1>4 DEF BetweenInv, AmountsInv
    <3>3. outside' = outside
      BY <1>4, <2>4, HandlersCall
    <3>4. \A q : /\ q = r => RideCharges(q)' = RideCharges(q) \cup {u}
                 /\ q # r => RideCharges(q)' = RideCharges(q)
      BY <2>1, <3>2, <3>3 DEF RideCharges
    <3>5. [q \in Rooms |-> RideCharges(q)]' = [B EXCEPT ![r] = @ \cup {u}]
      BY <1>1, <3>4
    <3>6. {u} \in SUBSET Users
      BY <1>1
    <3>7. Ledger!Charge(r)
      BY <1>2, <3>1, <3>5, <3>6 DEF Ledger!Charge
    <3> QED BY <1>1, <3>7 DEF Ledger!Next
  <2> QED BY <2>3, <2>4, HandlersCall
<1> QED BY <1>1, <1>3, <1>4

\* The tables and the gateway together keep the promises of the ledger: nobody is
\* charged by a ride before it has its price, whatever direct calls charge meanwhile,
\* and a room is oversold by a seat for every other call at most.
THEOREM LedgerIsImplemented == Spec => ImplementsLedger
<1>1. Init => Ledger!Init
  <2> SUFFICES ASSUME Init PROVE Ledger!Init
    OBVIOUS
  <2>1. [r \in Rooms |-> RideCharges(r)] = [r \in Rooms |-> {}]
    BY DEF Init, Payment!Init, ChargedUsers, RideCharges
  <2> QED BY <2>1 DEF Init, Room!Init, Ledger!Init
<1>2. ASSUME BetweenInv, UserP!Inv, RoomP!Inv,
             PayP!KeysIdentify, PayP!RecordInv, PayP!TypeOK, [Next]_vars
      PROVE  [Ledger!Next]_(Ledger!ledger)
  <2>1. CASE \E c \in Calls : Charge(c)
    BY <1>2, <2>1, GatewayStep
  <2>2. CASE ~\E c \in Calls : Charge(c)
    <3>1. UNCHANGED <<charges, outside>>
      BY <1>2, <2>2
      DEF Next, OfRoom, CompleteRide, CompleteRoom, Bill, Billed, DirectPayment, OfPayment,
          OfUser, ExitRoom, vars, payVars, between, Payment!ProcessPayment, Payment!SavePayment, Payment!Answer,
          Payment!gateway
    <3> QED BY <1>2, <3>1, TablesStep
  <2> QED BY <2>1, <2>2
<1> QED
  BY <1>1, <1>2, BetweenHolds, RoomInv, UserInv, PaymentInv, PTL
  DEF Spec, ImplementsLedger, Ledger!Spec
=============================================================================
