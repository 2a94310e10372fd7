-------------------------- MODULE UserServiceProofs --------------------------
(***************************************************************************)
(* Theorems about UserService, for any rooms, users, addresses, number of  *)
(* concurrent SaveRoute calls and faults.  The inductive invariant Inv has *)
(* a part for the calls in flight, one for the uncommitted routes, one for *)
(* what has been committed and answered, and one for the accounts.  There  *)
(* is one lemma for each step of the transaction.                          *)
(***************************************************************************)
EXTENDS UserService, SequenceTheorems, TLAPS

\* The routes' half of the invariant, and of the variables.
RoutesInv  == CallsAreDistinct /\ PendingIsOwned /\ CommittedIsDone
routesVars == <<tables, pending, asked, local, answered>>

\* The elements of a list of users are users.
LEMMA ElementsAreUsers ==
  ASSUME NEW list \in Seq(Users) PROVE Elements(list) \subseteq Users
BY DEF Elements

\* The requests so far are of a room and of users.
LEMMA RequestTypes ==
  ASSUME CallsAreDistinct, NEW i \in 1 .. Len(asked)
  PROVE  asked[i].room \in Rooms /\ asked[i].users \subseteq Users
<1>1. asked[i] \in [room : Rooms, users : SUBSET Users]
  BY ElementOfSeq DEF CallsAreDistinct
<1> QED BY <1>1

\* A call in flight has a request, of a room.
LEMMA OwnRequest ==
  ASSUME CallsAreDistinct, NEW h \in Handlers, pc[h] # "idle"
  PROVE  id[h] \in 1 .. Len(asked) /\ RoomOf(h) \in Rooms
<1>1. Len(asked) \in Nat
  BY LenProperties DEF CallsAreDistinct
<1>2. id[h] \in 1 .. Len(asked)
  BY <1>1 DEF CallsAreDistinct
<1> QED BY <1>2, RequestTypes DEF RoomOf

\* A step that leaves the routes' variables alone keeps their invariant.
LEMMA RoutesUntouched == RoutesInv /\ UNCHANGED routesVars => RoutesInv'
BY DEF RoutesInv, routesVars, CallsAreDistinct, PendingIsOwned, CommittedIsDone,
       RouteIsWhole, RoomOf, tables, local

\* A new request is appended, under an id nothing has used before.
LEMMA SaveRouteStep ==
  ASSUME RoutesInv, NEW h \in Handlers, SaveRoute(h) PROVE RoutesInv'
<1> USE DEF RoutesInv
<1>1. PICK r \in Rooms, list \in UserLists : list # <<>> /\ Begin(h, r, list)
  BY DEF SaveRoute
<1> DEFINE new == [room |-> r, users |-> Elements(list)]
<1>2. list \in Seq(Users) /\ new \in [room : Rooms, users : SUBSET Users]
  BY ListsAssumption, ElementsAreUsers
<1>3. /\ asked \in Seq([room : Rooms, users : SUBSET Users])
      /\ asked' = Append(asked, new) /\ Len(asked) \in Nat
  BY <1>1, LenProperties DEF Begin, CallsAreDistinct
<1>4. /\ asked' \in Seq([room : Rooms, users : SUBSET Users])
      /\ Len(asked') = Len(asked) + 1
      /\ \A i \in 1 .. Len(asked) : asked'[i] = asked[i]
  BY <1>2, <1>3, AppendProperties
<1>5. /\ pc' = [pc EXCEPT ![h] = "insert_route"]
      /\ id' = [id EXCEPT ![h] = Len(asked) + 1]
      /\ todo' = [todo EXCEPT ![h] = list]
      /\ pc[h] = "idle"
      /\ UNCHANGED <<routes, passengers, pending, answered>>
  BY <1>1, <1>4 DEF Begin, tables
<1>6. \A g \in Handlers : id[g] # Len(asked) + 1
  BY <1>3 DEF CallsAreDistinct
<1>7. CallsAreDistinct'
  BY <1>1, <1>2, <1>3, <1>4, <1>5, <1>6 DEF CallsAreDistinct, Steps
<1>8. \A g \in Handlers : id[g] # 0 => g # h /\ id'[g] = id[g] /\ RoomOf(g)' = RoomOf(g)
  BY <1>3, <1>4, <1>5 DEF CallsAreDistinct, RoomOf
<1>9. PendingIsOwned'
  BY <1>5, <1>8 DEF PendingIsOwned, CallsAreDistinct
<1>10. CommittedIsDone'
  BY <1>3, <1>4, <1>5 DEF CommittedIsDone, RouteIsWhole, CallsAreDistinct
<1> QED BY <1>7, <1>9, <1>10

\* The route is inserted unless the room has one.
LEMMA InsertRouteStep ==
  ASSUME RoutesInv, NEW h \in Handlers, InsertRoute(h) PROVE RoutesInv'
<1> USE DEF RoutesInv
<1>1. /\ pc[h] = "insert_route" /\ pending[RoomOf(h)] = 0
      /\ pending' = IF routes[RoomOf(h)] = 0
                    THEN [pending EXCEPT ![RoomOf(h)] = id[h]] ELSE pending
      /\ pc' = [pc EXCEPT ![h] = "insert_passenger"]
      /\ todo' = [todo EXCEPT ![h] = todo[h]]
      /\ UNCHANGED <<id, routes, passengers, asked, answered>>
  BY DEF InsertRoute, Loop, CallsAreDistinct, tables
<1>2. id[h] \in 1 .. Len(asked) /\ RoomOf(h) \in Rooms
  BY <1>1, OwnRequest
<1>3. CallsAreDistinct'
  BY <1>1 DEF CallsAreDistinct, Steps
<1>4. PendingIsOwned'
  <2>1. \A g \in Handlers : RoomOf(g)' = RoomOf(g)
    BY <1>1 DEF RoomOf
  <2>2. CASE routes[RoomOf(h)] # 0
    BY <1>1, <2>1, <2>2 DEF PendingIsOwned, CallsAreDistinct
  <2>3. CASE routes[RoomOf(h)] = 0
    <3>1. pending' = [pending EXCEPT ![RoomOf(h)] = id[h]]
      BY <1>1, <2>3
    <3>2. pending' \in [Rooms -> Nat]
      BY <3>1, <1>2 DEF PendingIsOwned
    <3>3. ASSUME NEW r \in Rooms, pending'[r] # 0
          PROVE  routes[r] = 0 /\ \E g \in Handlers : id[g] = pending'[r] /\ RoomOf(g) = r
      BY <3>1, <3>3, <1>2, <2>3 DEF PendingIsOwned
    <3>4. ASSUME NEW g \in Handlers, pc'[g] = "commit"
          PROVE  pending'[RoomOf(g)] = id[g]
      <4>1. pc[g] = "commit" /\ pending[RoomOf(g)] = id[g] /\ id[g] # 0
        BY <3>4, <1>1 DEF PendingIsOwned, CallsAreDistinct
      <4> QED BY <4>1, <1>1, <3>1 DEF PendingIsOwned
    <3> QED BY <3>2, <3>3, <3>4, <1>1, <2>1 DEF PendingIsOwned
  <2> QED BY <2>2, <2>3
<1>5. CommittedIsDone'
  BY <1>1 DEF CommittedIsDone, RouteIsWhole
<1> QED BY <1>3, <1>4, <1>5

\* A handler that rolls back takes only its own uncommitted route with it.
LEMMA RollbackStep ==
  ASSUME RoutesInv, NEW h \in Handlers, pc[h] # "idle", Rollback(h), UNCHANGED asked
  PROVE  RoutesInv'
<1> USE DEF RoutesInv
<1>1. /\ pending' = [r \in Rooms |-> IF pending[r] = id[h] THEN 0 ELSE pending[r]]
      /\ pc' = [pc EXCEPT ![h] = "idle"] /\ id' = [id EXCEPT ![h] = 0]
      /\ todo' = [todo EXCEPT ![h] = <<>>]
      /\ UNCHANGED <<routes, passengers, answered, asked>>
  BY DEF Rollback, Return, tables
<1>2. CallsAreDistinct'
  BY <1>1 DEF CallsAreDistinct, Steps
<1>3. \A g \in Handlers : g # h /\ id[g] # 0 => id[g] # id[h] /\ RoomOf(g)' = RoomOf(g)
  BY <1>1 DEF CallsAreDistinct, RoomOf
<1>4. PendingIsOwned'
  <2>1. pending' \in [Rooms -> Nat]
    BY <1>1 DEF PendingIsOwned
  <2>2. ASSUME NEW r \in Rooms, pending'[r] # 0
        PROVE  routes'[r] = 0 /\ \E g \in Handlers : id'[g] = pending'[r] /\ RoomOf(g)' = r
    <3>1. pending'[r] = pending[r] /\ pending[r] # id[h] /\ pending[r] # 0
      BY <1>1, <2>2
    <3>2. PICK g \in Handlers : id[g] = pending[r] /\ RoomOf(g) = r
      BY <3>1 DEF PendingIsOwned
    <3>3. g # h /\ id'[g] = id[g] /\ RoomOf(g)' = r
      BY <1>1, <1>3, <3>1, <3>2 DEF CallsAreDistinct
    <3> QED BY <1>1, <3>1, <3>2, <3>3 DEF PendingIsOwned
  <2>3. ASSUME NEW g \in Handlers, pc'[g] = "commit"
        PROVE  pending'[RoomOf(g)'] = id'[g]
    <3>1. g # h /\ pc[g] = "commit" /\ id[g] # 0 /\ id'[g] = id[g]
      BY <1>1, <2>3 DEF CallsAreDistinct
    <3>2. RoomOf(g) \in Rooms /\ RoomOf(g)' = RoomOf(g) /\ pending[RoomOf(g)] = id[g]
      BY <1>3, <3>1, OwnRequest DEF PendingIsOwned
    <3> QED BY <1>1, <1>3, <3>1, <3>2
  <2> QED BY <2>1, <2>2, <2>3 DEF PendingIsOwned
<1>5. CommittedIsDone'
  BY <1>1 DEF CommittedIsDone, RouteIsWhole, CallsAreDistinct
<1> QED BY <1>2, <1>4, <1>5

\* A passenger is only inserted for a route that is there, and the last one
\* leaves a call whose route is pending.
LEMMA InsertPassengerStep ==
  ASSUME RoutesInv, NEW h \in Handlers, InsertPassenger(h) PROVE RoutesInv'
<1> USE DEF RoutesInv
<1>1. pc[h] = "insert_passenger" /\ UNCHANGED asked /\ id[h] # 0
  BY DEF InsertPassenger, CallsAreDistinct
<1>2. CASE Rollback(h)
  BY <1>1, <1>2, RollbackStep
<1>3. CASE /\ id[h] \in {pending[RoomOf(h)], routes[RoomOf(h)]}
           /\ Loop(h, Tail(todo[h])) /\ UNCHANGED <<tables, pending, answered>>
  <2>1. /\ pc' = [pc EXCEPT ![h] = IF Tail(todo[h]) = <<>> THEN "commit" ELSE "insert_passenger"]
        /\ todo' = [todo EXCEPT ![h] = Tail(todo[h])]
        /\ UNCHANGED <<id, asked, routes, passengers, pending, answered>>
    BY <1>1, <1>3 DEF Loop, tables
  <2>2. RoomOf(h) \in Rooms /\ Tail(todo[h]) \in Seq(Users)
    <3>1. todo[h] \in Seq(Users) /\ todo[h] # <<>>
      BY <1>1 DEF CallsAreDistinct
    <3> QED BY <1>1, <3>1, OwnRequest, HeadTailProperties
  <2>3. pending[RoomOf(h)] = id[h]
    BY <1>1, <1>3, <2>2 DEF CommittedIsDone
  <2>4. CallsAreDistinct'
    BY <1>1, <2>1, <2>2 DEF CallsAreDistinct, Steps
  <2>5. PendingIsOwned'
    BY <1>1, <2>1, <2>3 DEF PendingIsOwned, CallsAreDistinct, RoomOf
  <2>6. CommittedIsDone'
    BY <2>1 DEF CommittedIsDone, RouteIsWhole
  <2> QED BY <2>4, <2>5, <2>6
<1> QED BY <1>2, <1>3 DEF InsertPassenger

\* The room gets the route with all its passengers, once.
LEMMA CommitStep ==
  ASSUME RoutesInv, NEW h \in Handlers, Commit(h) PROVE RoutesInv'
<1> USE DEF RoutesInv
<1> DEFINE q == RoomOf(h)
           n == id[h]
<1>1. /\ pc[h] = "commit"
      /\ routes' = [r \in Rooms |-> IF pending[r] = n THEN n ELSE routes[r]]
      /\ passengers' = passengers \cup ({n} \X asked[n].users)
      /\ pending' = [r \in Rooms |-> IF pending[r] = n THEN 0 ELSE pending[r]]
      /\ answered' = answered \cup {n} \/ answered' = answered
      /\ pc' = [pc EXCEPT ![h] = "idle"] /\ id' = [id EXCEPT ![h] = 0]
      /\ todo' = [todo EXCEPT ![h] = <<>>]
      /\ UNCHANGED asked
  BY DEF Commit, Return
<1>2. /\ n \in 1 .. Len(asked) /\ q \in Rooms /\ asked[n].room = q
      /\ asked[n].users \subseteq Users
  BY <1>1, OwnRequest, RequestTypes DEF RoomOf
<1>3. pending[q] = n /\ routes[q] = 0
  BY <1>1, <1>2 DEF PendingIsOwned
<1>4. ASSUME NEW r \in Rooms, pending[r] = n PROVE r = q
  <2>1. PICK g \in Handlers : id[g] = n /\ RoomOf(g) = r
    BY <1>2, <1>4 DEF PendingIsOwned
  <2> QED BY <1>2, <2>1 DEF CallsAreDistinct
<1>5. CallsAreDistinct'
  BY <1>1 DEF CallsAreDistinct, Steps
<1>6. \A g \in Handlers : g # h /\ id[g] # 0 =>
        id[g] # n /\ id'[g] = id[g] /\ RoomOf(g)' = RoomOf(g)
  BY <1>1 DEF CallsAreDistinct, RoomOf
<1>7. PendingIsOwned'
  <2>1. pending' \in [Rooms -> Nat]
    BY <1>1 DEF PendingIsOwned
  <2>2. ASSUME NEW r \in Rooms, pending'[r] # 0
        PROVE  routes'[r] = 0 /\ \E g \in Handlers : id'[g] = pending'[r] /\ RoomOf(g)' = r
    <3>1. pending'[r] = pending[r] /\ pending[r] # n /\ pending[r] # 0
      BY <1>1, <2>2
    <3>2. PICK g \in Handlers : id[g] = pending[r] /\ RoomOf(g) = r
      BY <3>1 DEF PendingIsOwned
    <3> QED BY <1>1, <1>6, <3>1, <3>2 DEF PendingIsOwned
  <2>3. ASSUME NEW g \in Handlers, pc'[g] = "commit"
        PROVE  pending'[RoomOf(g)'] = id'[g]
    <3>1. g # h /\ pc[g] = "commit" /\ id[g] # 0
      BY <1>1, <2>3 DEF CallsAreDistinct
    <3>2. RoomOf(g) \in Rooms /\ pending[RoomOf(g)] = id[g]
      BY <3>1, OwnRequest DEF PendingIsOwned
    <3> QED BY <1>1, <1>6, <3>1, <3>2
  <2> QED BY <2>1, <2>2, <2>3 DEF PendingIsOwned
<1>8. CommittedIsDone'
  <2>1. routes' \in [Rooms -> 0 .. Len(asked')]
    BY <1>1, <1>2 DEF CommittedIsDone
  <2>2. passengers' \subseteq (1 .. Len(asked')) \X Users
    BY <1>1, <1>2 DEF CommittedIsDone
  <2>3. ASSUME NEW r \in Rooms, routes'[r] # 0
        PROVE  /\ asked'[routes'[r]].room = r
               /\ {u \in Users : <<routes'[r], u>> \in passengers'} = asked'[routes'[r]].users
    <3>1. CASE r = q
      <4>1. routes'[r] = n
        BY <1>1, <1>3, <3>1
      <4>2. \A u \in Users : <<n, u>> \notin passengers
        BY <1>2 DEF CommittedIsDone
      <4>3. \A u \in Users : <<n, u>> \in passengers' <=> u \in asked[n].users
        BY <1>1, <4>2
      <4> QED BY <1>1, <1>2, <3>1, <4>1, <4>3
    <3>2. CASE r # q
      <4>1. routes'[r] = routes[r] /\ routes[r] # 0 /\ routes[r] # n
        BY <1>1, <1>4, <2>3, <3>2 DEF CommittedIsDone
      <4>2. \A u \in Users : <<routes[r], u>> \in passengers' <=> <<routes[r], u>> \in passengers
        BY <1>1, <4>1
      <4> QED BY <1>1, <4>1, <4>2 DEF CommittedIsDone, RouteIsWhole
    <3> QED BY <3>1, <3>2
  <2>4. ASSUME NEW r \in Rooms, NEW g \in Handlers, routes'[r] # 0
        PROVE  id'[g] # routes'[r]
    BY <1>1, <1>2, <1>6, <2>4 DEF CommittedIsDone, CallsAreDistinct
  <2>5. ASSUME NEW p \in passengers', NEW g \in Handlers
        PROVE  id'[g] # p[1]
    <3>1. p[1] # 0 /\ (p \in passengers \/ p[1] = n)
      BY <1>1, <1>2 DEF CommittedIsDone
    <3> QED BY <1>1, <1>6, <3>1 DEF CommittedIsDone, CallsAreDistinct
  <2>6. answered' \subseteq 1 .. Len(asked')
    BY <1>1, <1>2 DEF CommittedIsDone
  <2>7. ASSUME NEW i \in answered' PROVE routes'[asked'[i].room] = i
    <3>1. CASE i = n
      BY <1>1, <1>2, <1>3, <3>1
    <3>2. CASE i # n
      <4>1. i \in answered /\ i \in 1 .. Len(asked) /\ routes[asked[i].room] = i
        BY <1>1, <3>2 DEF CommittedIsDone
      <4>2. asked[i].room \in Rooms /\ asked[i].room # q
        BY <1>3, <4>1, RequestTypes
      <4> QED BY <1>1, <1>4, <4>1, <4>2
    <3> QED BY <3>1, <3>2
  <2> QED
    BY <2>1, <2>2, <2>3, <2>4, <2>5, <2>6, <2>7 DEF CommittedIsDone, RouteIsWhole
<1> QED BY <1>5, <1>7, <1>8

\* A stop takes every call and every uncommitted route with it.
LEMMA CrashStep ==
  ASSUME RoutesInv, Crash PROVE RoutesInv'
<1> USE DEF RoutesInv
<1>1. /\ pc' = [h \in Handlers |-> "idle"] /\ id' = [h \in Handlers |-> 0]
      /\ todo' = [h \in Handlers |-> <<>>] /\ pending' = [r \in Rooms |-> 0]
      /\ UNCHANGED <<routes, passengers, asked, answered>>
  BY DEF Crash, tables
<1>2. CallsAreDistinct'
  BY <1>1, LenProperties DEF CallsAreDistinct, Steps
<1>3. PendingIsOwned'
  BY <1>1 DEF PendingIsOwned
<1>4. CommittedIsDone'
  BY <1>1 DEF CommittedIsDone, RouteIsWhole
<1> QED BY <1>2, <1>3, <1>4

-----------------------------------------------------------------------------
\* The invariant holds in every reachable state.
LEMMA InvHolds == Spec => []Inv
<1>1. Init => Inv
  <2> SUFFICES ASSUME Init PROVE Inv
    OBVIOUS
  <2>1. asked = <<>> /\ Len(asked) = 0
    BY EmptySeq DEF Init
  <2>2. CallsAreDistinct /\ PendingIsOwned /\ AccountsStand
    BY <2>1, EmptySeq
    DEF Init, CallsAreDistinct, PendingIsOwned, AccountsStand, CredentialsWork, Steps
  <2>3. CommittedIsDone
    BY <2>1 DEF Init, CommittedIsDone, RouteIsWhole
  <2> QED BY <2>2, <2>3 DEF Inv
<1>2. Inv /\ [Next]_vars => Inv'
  <2> SUFFICES ASSUME Inv, [Next]_vars PROVE Inv'
    OBVIOUS
  <2>1. RoutesInv
    BY DEF Inv, RoutesInv
  <2>2. ASSUME NEW e \in Emails, NEW p \in Passwords, Register(e, p) PROVE Inv'
    <3>1. RoutesInv'
      BY <2>1, <2>2, RoutesUntouched DEF Register, routesVars, tables, local
    <3>2. AccountsStand'
      BY <2>2, NobodyAssumption
      DEF Inv, AccountsStand, CredentialsWork, LoginSucceeds, Register, SaveUser
    <3> QED BY <3>1, <3>2 DEF Inv, RoutesInv
  <2>3. ASSUME UNCHANGED <<accounts, told>>, RoutesInv' PROVE Inv'
    BY <2>3 DEF Inv, RoutesInv, AccountsStand, CredentialsWork, LoginSucceeds
  <2>4. ASSUME NEW h \in Handlers, SaveRoute(h) PROVE Inv'
    BY <2>1, <2>3, <2>4, SaveRouteStep DEF SaveRoute, Begin
  <2>5. ASSUME NEW h \in Handlers, Continue(h) PROVE Inv'
    <3>1. CASE InsertRoute(h)
      BY <2>1, <2>3, <3>1, InsertRouteStep DEF InsertRoute
    <3>2. CASE InsertPassenger(h)
      BY <2>1, <2>3, <3>2, InsertPassengerStep DEF InsertPassenger
    <3>3. CASE Commit(h)
      BY <2>1, <2>3, <3>3, CommitStep DEF Commit
    <3> QED BY <2>5, <3>1, <3>2, <3>3 DEF Continue
  <2>6. ASSUME NEW h \in Handlers, Fail(h) PROVE Inv'
    BY <2>1, <2>3, <2>6, RollbackStep DEF Fail
  <2>7. CASE Crash
    BY <2>1, <2>3, <2>7, CrashStep DEF Crash
  <2>8. CASE UNCHANGED vars
    BY <2>1, <2>3, <2>8, RoutesUntouched DEF vars, routesVars
  <2> QED BY <2>2, <2>4, <2>5, <2>6, <2>7, <2>8 DEF Next
<1> QED BY <1>1, <1>2, PTL DEF Spec

\* The variables keep their types, and an uncommitted route is always that of a
\* transaction in progress.
THEOREM TypeCorrect == Spec => []TypeOK
<1>1. Inv => TypeOK
  BY DEF Inv, CallsAreDistinct, PendingIsOwned, CommittedIsDone, AccountsStand, TypeOK
<1> QED BY <1>1, InvHolds, PTL

\* A route is committed with all the passengers of its request or not at all,
\* for any number of concurrent and repeated saves and under every fault.
THEOREM RoutesAreWhole == Spec => []RouteIsWhole
<1>1. Inv => RouteIsWhole
  BY DEF Inv, CommittedIsDone
<1> QED BY <1>1, InvHolds, PTL

\* A route that SaveRoute has answered is the room's for good, and in the
\* history of every passenger.
THEOREM AnswersAreKept == Spec => []AnsweredIsSaved
<1>1. Inv => AnsweredIsSaved
  <2> SUFFICES ASSUME Inv, NEW i \in answered
               PROVE  /\ routes[asked[i].room] = i
                      /\ \A u \in asked[i].users : asked[i].room \in GetUserRoutes(u)
    BY DEF AnsweredIsSaved
  <2>1. /\ i \in 1 .. Len(asked) /\ routes[asked[i].room] = i
        /\ asked[i].room \in Rooms /\ asked[i].users \subseteq Users
    BY RequestTypes DEF Inv, CommittedIsDone
  <2>2. {u \in Users : <<i, u>> \in passengers} = asked[i].users
    BY <2>1 DEF Inv, CommittedIsDone, RouteIsWhole
  <2> QED BY <2>1, <2>2 DEF GetUserRoutes
<1> QED BY <1>1, InvHolds, PTL

\* Whoever was told of a successful registration can log in, for any number of
\* attempts on the same address.
THEOREM AccountsAreKept == Spec => []CredentialsWork
<1>1. Inv => CredentialsWork
  BY DEF Inv, AccountsStand
<1> QED BY <1>1, InvHolds, PTL
-----------------------------------------------------------------------------
(* No ride is lost.  A save whose insert does nothing ends with an error of *)
(* the foreign key, and without having written anything; another one has    *)
(* committed the route of the room by then, as the insert has waited for it.*)

SavedOrBeingSaved(r) ==
  routes[r] # 0 \/ \E h \in Handlers : pc[h] # "idle" /\ RoomOf(h) = r

\* A route that has been asked for is there, or a call for its room is in flight.
RequestsComeThrough == \A i \in DOMAIN asked : SavedOrBeingSaved(asked[i].room)

\* The inductive form: a call that inserts passengers has inserted its route, or
\* the room has one.
ThroughInv ==
  /\ RequestsComeThrough
  /\ \A h \in Handlers :
       pc[h] = "insert_passenger" =>
         pending[RoomOf(h)] = id[h] \/ routes[RoomOf(h)] # 0

\* A step of a call h: it stays in flight for its room, or the room has a route.
LEMMA ThroughStep ==
  ASSUME RoutesInv, ThroughInv, NEW h \in Handlers, UNCHANGED asked, pc[h] # "idle",
         \A g \in Handlers \ {h} : pc'[g] = pc[g] /\ id'[g] = id[g],
         \A r \in Rooms : routes[r] # 0 => routes'[r] # 0,
         \A r \in Rooms : pending[r] = pending'[r] \/ routes'[r] # 0 \/ pending[r] = 0,
         pc'[h] # "idle" => id'[h] = id[h],
         pc'[h] # "idle" \/ routes'[RoomOf(h)] # 0,
         pc'[h] = "insert_passenger" =>
           pending'[RoomOf(h)] = id[h] \/ routes'[RoomOf(h)] # 0
  PROVE  ThroughInv'
<1>1. \A g \in Handlers : pc[g] # "idle" => RoomOf(g) \in Rooms /\ id[g] # 0
  BY OwnRequest DEF RoutesInv, CallsAreDistinct
<1>2. \A g \in Handlers \ {h} : RoomOf(g)' = RoomOf(g)
  BY DEF RoomOf
<1>3. id'[h] = id[h] => RoomOf(h)' = RoomOf(h)
  BY DEF RoomOf
<1>4. ASSUME NEW i \in DOMAIN asked PROVE SavedOrBeingSaved(asked[i].room)'
  <2> DEFINE r == asked[i].room
  <2>1. r \in Rooms
    <3>1. DOMAIN asked = 1 .. Len(asked)
      BY LenProperties DEF RoutesInv, CallsAreDistinct
    <3> QED BY <3>1, RequestTypes DEF RoutesInv
  <2>2. CASE routes[r] # 0
    BY <2>1, <2>2 DEF SavedOrBeingSaved
  <2>3. ASSUME NEW g \in Handlers, pc[g] # "idle", RoomOf(g) = r
        PROVE  SavedOrBeingSaved(r)'
    BY <2>3, <1>2, <1>3 DEF SavedOrBeingSaved
  <2> QED BY <2>2, <2>3 DEF ThroughInv, RequestsComeThrough, SavedOrBeingSaved
<1>5. ASSUME NEW g \in Handlers, pc'[g] = "insert_passenger"
      PROVE  pending'[RoomOf(g)'] = id'[g] \/ routes'[RoomOf(g)'] # 0
  <2>1. CASE g = h
    <3>1. id'[g] = id[h] /\ RoomOf(g)' = RoomOf(h)
      BY <1>3, <1>5, <2>1
    <3> QED BY <1>5, <2>1, <3>1
  <2>2. CASE g # h
    <3>1. pc[g] = "insert_passenger" /\ id'[g] = id[g] /\ RoomOf(g)' = RoomOf(g)
      BY <1>2, <1>5, <2>2
    <3>2. RoomOf(g) \in Rooms /\ id[g] # 0
      BY <1>1, <3>1
    <3> QED BY <3>1, <3>2 DEF ThroughInv
  <2> QED BY <2>1, <2>2
<1> QED BY <1>4, <1>5 DEF ThroughInv, RequestsComeThrough

\* When nothing fails and the service does not stop, the ride of every request
\* that has been made is in the history, or about to be: a repeated completion,
\* whose insert does nothing and whose call ends with an error, loses nothing.
THEOREM NoRideIsLost ==
  ASSUME Faults = {}
  PROVE  Spec => []RequestsComeThrough
<1>1. Init => ThroughInv
  BY EmptySeq DEF Init, ThroughInv, RequestsComeThrough
<1>2. ASSUME Inv, ThroughInv, [Next]_vars PROVE ThroughInv'
  <2> RoutesInv
    BY <1>2 DEF Inv, RoutesInv
  <2> /\ pc \in [Handlers -> Steps] /\ id \in [Handlers -> 0 .. Len(asked)]
      /\ routes \in [Rooms -> 0 .. Len(asked)] /\ pending \in [Rooms -> Nat]
    BY <1>2 DEF Inv, CallsAreDistinct, PendingIsOwned, CommittedIsDone
  <2>1. ASSUME UNCHANGED <<tables, pending, asked, local>> PROVE ThroughInv'
    BY <1>2, <2>1 DEF tables, local, ThroughInv, RequestsComeThrough, SavedOrBeingSaved, RoomOf
  <2>2. ASSUME NEW h \in Handlers, SaveRoute(h) PROVE ThroughInv'
    <3>1. PICK r \in Rooms, list \in UserLists : Begin(h, r, list)
      BY <2>2 DEF SaveRoute
    <3> DEFINE new == [room |-> r, users |-> Elements(list)]
    <3>2. new \in [room : Rooms, users : SUBSET Users]
      BY ListsAssumption, ElementsAreUsers
    <3>3. /\ asked \in Seq([room : Rooms, users : SUBSET Users])
          /\ asked' = Append(asked, new) /\ Len(asked) \in Nat
      BY <3>1, LenProperties DEF Begin, RoutesInv, CallsAreDistinct
    <3>4. /\ DOMAIN asked = 1 .. Len(asked) /\ DOMAIN asked' = 1 .. Len(asked) + 1
          /\ Len(asked') = Len(asked) + 1
          /\ \A i \in 1 .. Len(asked) : asked'[i] = asked[i]
          /\ asked'[Len(asked) + 1] = new
      BY <3>2, <3>3, AppendProperties, LenProperties
    <3>5. /\ pc[h] = "idle" /\ pc' = [pc EXCEPT ![h] = "insert_route"]
          /\ id' = [id EXCEPT ![h] = Len(asked) + 1]
          /\ UNCHANGED <<routes, passengers, pending>>
      BY <3>1, <3>4 DEF Begin, tables
    <3>6. \A g \in Handlers : pc[g] # "idle" =>
            /\ g # h /\ pc'[g] = pc[g] /\ id'[g] = id[g] /\ RoomOf(g)' = RoomOf(g)
      BY <3>4, <3>5, OwnRequest DEF RoomOf, RoutesInv
    <3>7. pc'[h] = "insert_route" /\ RoomOf(h)' = r
      BY <3>4, <3>5 DEF RoomOf
    <3>8. ASSUME NEW i \in 1 .. Len(asked) + 1 PROVE SavedOrBeingSaved(asked[i].room)'
      <4>1. CASE i = Len(asked) + 1
        BY <4>1, <3>4, <3>7 DEF SavedOrBeingSaved
      <4>2. CASE i \in 1 .. Len(asked)
        <5>1. SavedOrBeingSaved(asked[i].room)
          BY <4>2, <3>4, <1>2 DEF ThroughInv, RequestsComeThrough
        <5> QED BY <5>1, <4>2, <3>4, <3>5, <3>6 DEF SavedOrBeingSaved
      <4> QED BY <3>3, <4>1, <4>2
    <3>9. ASSUME NEW g \in Handlers, pc'[g] = "insert_passenger"
          PROVE  pending'[RoomOf(g)'] = id'[g] \/ routes'[RoomOf(g)'] # 0
      <4>1. pc[g] = "insert_passenger"
        BY <3>5, <3>9
      <4> QED BY <4>1, <3>5, <3>6, <1>2 DEF ThroughInv
    <3> QED BY <3>4, <3>8, <3>9 DEF ThroughInv, RequestsComeThrough
  <2>3. ASSUME NEW h \in Handlers, InsertRoute(h) PROVE ThroughInv'
    <3>1. /\ pc[h] = "insert_route" /\ pending[RoomOf(h)] = 0
          /\ pending' = IF routes[RoomOf(h)] = 0
                        THEN [pending EXCEPT ![RoomOf(h)] = id[h]] ELSE pending
          /\ pc' = [pc EXCEPT ![h] = "insert_passenger"]
          /\ UNCHANGED <<id, routes, asked>>
      BY <2>3 DEF InsertRoute, Loop, RoutesInv, CallsAreDistinct, tables
    <3>2. RoomOf(h) \in Rooms
      BY <3>1, OwnRequest DEF RoutesInv
    <3>3. pending'[RoomOf(h)] = id[h] \/ routes'[RoomOf(h)] # 0
      BY <3>1, <3>2
    <3>4. \A r \in Rooms : pending[r] = pending'[r] \/ pending[r] = 0
      BY <3>1, <3>2
    <3> QED BY <1>2, <3>1, <3>3, <3>4, ThroughStep
  <2>4. ASSUME NEW h \in Handlers, InsertPassenger(h) PROVE ThroughInv'
    <3>1. pc[h] = "insert_passenger" /\ RoomOf(h) \in Rooms
      BY <2>4, OwnRequest DEF InsertPassenger, RoutesInv
    <3>2. CASE /\ id[h] \in {pending[RoomOf(h)], routes[RoomOf(h)]}
               /\ Loop(h, Tail(todo[h])) /\ UNCHANGED <<tables, pending, answered>>
      <4>1. /\ pc' = [pc EXCEPT ![h] = IF Tail(todo[h]) = <<>> THEN "commit" ELSE "insert_passenger"]
            /\ UNCHANGED <<id, asked, routes, pending>>
        BY <2>4, <3>2 DEF Loop, tables, InsertPassenger
      <4>2. pending[RoomOf(h)] = id[h] \/ routes[RoomOf(h)] # 0
        BY <1>2, <3>1 DEF ThroughInv
      <4> QED BY <1>2, <3>1, <4>1, <4>2, ThroughStep
    <3>3. CASE /\ id[h] \notin {pending[RoomOf(h)], routes[RoomOf(h)]}
               /\ Rollback(h)
      <4>1. /\ pending' = [r \in Rooms |-> IF pending[r] = id[h] THEN 0 ELSE pending[r]]
            /\ pc' = [pc EXCEPT ![h] = "idle"] /\ id' = [id EXCEPT ![h] = 0]
            /\ UNCHANGED <<routes, asked>>
        BY <2>4, <3>3 DEF Rollback, Return, tables, InsertPassenger
      <4>2. routes[RoomOf(h)] # 0
        BY <1>2, <3>1, <3>3 DEF ThroughInv
      <4>3. ASSUME NEW r \in Rooms PROVE pending[r] = pending'[r] \/ pending[r] = 0
        <5> SUFFICES ASSUME pending[r] = id[h], pending[r] # 0 PROVE FALSE
          BY <4>1
        <5>1. PICK g \in Handlers : id[g] = pending[r] /\ RoomOf(g) = r
          BY DEF RoutesInv, PendingIsOwned
        <5>2. g = h
          BY <5>1 DEF RoutesInv, CallsAreDistinct
        <5> QED BY <5>1, <5>2, <3>3
      <4> QED BY <1>2, <3>1, <4>1, <4>2, <4>3, ThroughStep
    <3> QED BY <2>4, <3>2, <3>3 DEF InsertPassenger
  <2>5. ASSUME NEW h \in Handlers, Commit(h) PROVE ThroughInv'
    <3>1. /\ pc[h] = "commit" /\ UNCHANGED asked
          /\ routes' = [r \in Rooms |-> IF pending[r] = id[h] THEN id[h] ELSE routes[r]]
          /\ pending' = [r \in Rooms |-> IF pending[r] = id[h] THEN 0 ELSE pending[r]]
          /\ pc' = [pc EXCEPT ![h] = "idle"] /\ id' = [id EXCEPT ![h] = 0]
      BY <2>5 DEF Commit, Return
    <3>2. RoomOf(h) \in Rooms /\ id[h] # 0 /\ pending[RoomOf(h)] = id[h]
      BY <3>1, OwnRequest DEF RoutesInv, CallsAreDistinct, PendingIsOwned
    <3>3. /\ \A r \in Rooms : routes[r] # 0 => routes'[r] # 0
          /\ \A r \in Rooms : pending[r] = pending'[r] \/ routes'[r] # 0
          /\ routes'[RoomOf(h)] # 0
      BY <3>1, <3>2
    <3> QED BY <1>2, <3>1, <3>3, ThroughStep
  <2>6. ~Crash /\ \A h \in Handlers : ~Fail(h)
    BY DEF Crash, Fail
  <2>7. ASSUME NEW e \in Emails, NEW p \in Passwords, Register(e, p) PROVE ThroughInv'
    BY <2>1, <2>7 DEF Register
  <2> QED BY <1>2, <2>1, <2>2, <2>3, <2>4, <2>5, <2>6, <2>7 DEF Next, Continue, vars
<1>3. ThroughInv => RequestsComeThrough
  BY DEF ThroughInv
<1> QED BY <1>1, <1>2, <1>3, InvHolds, PTL DEF Spec
=============================================================================
