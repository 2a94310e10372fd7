----------------------------- MODULE UserService -----------------------------
(***************************************************************************)
(* The user service: accounts, and the routes of completed rides with      *)
(* their passengers.  SaveRoute is the one transaction of the system; it   *)
(* runs statement by statement at the isolation level the database starts  *)
(* with (read committed), so that what it has written is not visible, but  *)
(* an uncommitted route keeps other transactions from inserting one of the *)
(* same room until its fate is known.                                      *)
(*                                                                         *)
(* A request that validation turns away, a second account with an address  *)
(* that is taken, and the read-only Login and HistoryOfRoutes leave no     *)
(* trace and are not actions.                                              *)
(***************************************************************************)
EXTENDS Naturals, Sequences, FiniteSets

CONSTANTS
  Rooms,      \* room_id of a SaveRoute request
  Users,
  UserLists,  \* passenger_ids of a SaveRoute request
  Emails,
  Passwords,
  Nobody,     \* what an address without an account has for a password
  Handlers,   \* SaveRoute calls in flight at once
  Faults,     \* the kinds of failure that may happen
  MaxSaves    \* bound: SaveRoute calls in a behaviour

\* "statement": a statement reports an error; "crash": the process stops and is
\* started again, and the database rolls its transactions back.
FaultKinds == {"statement", "crash"}

ASSUME ListsAssumption  == UserLists \subseteq Seq(Users)
ASSUME NobodyAssumption == Nobody \notin Passwords
ASSUME FaultsAssumption == Faults \subseteq FaultKinds
ASSUME SavesAssumption  == MaxSaves \in Nat

VARIABLES
  accounts,    \* users: the password of an address
  routes,      \* routes: the route_id of a room, 0 when there is none
  passengers,  \* room_passengers: pairs of a route_id and a user
  pending,     \* the route inserted for a room and not yet committed, or 0
  asked,       \* the SaveRoute requests so far; the route_id is the position
  pc,          \* the statement each handler is about to issue
  id,          \* the route_id each handler has drawn
  todo,        \* the passengers it still has to insert
  told,        \* addresses and passwords for which Register answered success
  answered     \* route_ids that SaveRoute has answered

tables == <<routes, passengers>>
local  == <<pc, id, todo>>
vars   == <<accounts, tables, pending, asked, local, told, answered>>

Steps == {"idle", "insert_route", "insert_passenger", "commit"}

Elements(s) == {s[i] : i \in DOMAIN s}
RoomOf(h)   == asked[id[h]].room

-----------------------------------------------------------------------------
(* Accounts.                                                                *)

\* Mutation: the insert replaces the account on a conflict.
SaveUserUpsert(e, p) == accounts' = [accounts EXCEPT ![e] = p]

\* The address is UNIQUE: the insert of a second account fails.
SaveUser(e, p) ==
  /\ accounts[e] = Nobody
  /\ accounts' = [accounts EXCEPT ![e] = p]

\* A success, or an error though the account is there.
Register(e, p) ==
  /\ SaveUser(e, p)
  /\ \/ told' = told \cup {<<e, p>>}
     \/ "statement" \in Faults /\ UNCHANGED told
  /\ UNCHANGED <<tables, pending, asked, local, answered>>

LoginSucceeds(e, p) == accounts[e] = p

-----------------------------------------------------------------------------
(* Routes.                                                                  *)

GetUserRoutes(u) == {r \in Rooms : <<routes[r], u>> \in passengers}

Return(h) ==
  /\ pc'   = [pc EXCEPT ![h] = "idle"]
  /\ id'   = [id EXCEPT ![h] = 0]
  /\ todo' = [todo EXCEPT ![h] = <<>>]

\* Mutation: the transaction is left open.
RollbackMissing(h) == UNCHANGED <<tables, pending, answered>> /\ Return(h)

\* The deferred tx.Rollback of a handler that returns an error.
Rollback(h) ==
  /\ pending' = [r \in Rooms |-> IF pending[r] = id[h] THEN 0 ELSE pending[r]]
  /\ Return(h)
  /\ UNCHANGED <<tables, answered>>

Begin(h, r, list) ==
  /\ pc[h] = "idle"
  /\ Len(asked) < MaxSaves
  /\ asked' = Append(asked, [room |-> r, users |-> Elements(list)])
  /\ pc'    = [pc EXCEPT ![h] = "insert_route"]
  /\ id'    = [id EXCEPT ![h] = Len(asked')]
  /\ todo'  = [todo EXCEPT ![h] = list]
  /\ UNCHANGED <<accounts, tables, pending, told, answered>>

\* Mutation: passenger_ids may be empty.
SaveRouteUnchecked(h) ==
  \E r \in Rooms, list \in UserLists : Begin(h, r, list)

SaveRoute(h) ==
  \E r \in Rooms, list \in UserLists : list # <<>> /\ Begin(h, r, list)

\* The loop over the passengers goes on, or the transaction is committed.
Loop(h, rest) ==
  /\ pc'   = [pc EXCEPT ![h] = IF rest = <<>> THEN "commit" ELSE "insert_passenger"]
  /\ todo' = [todo EXCEPT ![h] = rest]
  /\ UNCHANGED id

\* Mutation: the route is inserted outside the transaction.
InsertRouteDirectly(h) ==
  /\ pc[h] = "insert_route"
  /\ pending[RoomOf(h)] = 0
  /\ routes' = IF routes[RoomOf(h)] = 0
               THEN [routes EXCEPT ![RoomOf(h)] = id[h]] ELSE routes
  /\ Loop(h, todo[h])
  /\ UNCHANGED <<accounts, passengers, pending, asked, told, answered>>

\* ON CONFLICT (room_id) DO NOTHING: nothing is inserted when the room has a
\* route; an uncommitted one is waited for.
InsertRoute(h) ==
  /\ pc[h] = "insert_route"
  /\ pending[RoomOf(h)] = 0
  /\ pending' = IF routes[RoomOf(h)] = 0
                THEN [pending EXCEPT ![RoomOf(h)] = id[h]] ELSE pending
  /\ Loop(h, todo[h])
  /\ UNCHANGED <<accounts, tables, asked, told, answered>>

\* The foreign key: a passenger of a route that was not inserted is an error.
InsertPassenger(h) ==
  /\ pc[h] = "insert_passenger"
  /\ IF id[h] \in {pending[RoomOf(h)], routes[RoomOf(h)]}
     THEN Loop(h, Tail(todo[h])) /\ UNCHANGED <<tables, pending, answered>>
     ELSE Rollback(h)
  /\ UNCHANGED <<accounts, asked, told>>

\* The writes become visible together; the answer may be an error all the same.
Commit(h) ==
  /\ pc[h] = "commit"
  /\ routes' = [r \in Rooms |-> IF pending[r] = id[h] THEN id[h] ELSE routes[r]]
  /\ passengers' = passengers \cup ({id[h]} \X asked[id[h]].users)
  /\ pending' = [r \in Rooms |-> IF pending[r] = id[h] THEN 0 ELSE pending[r]]
  /\ \/ answered' = answered \cup {id[h]}
     \/ "statement" \in Faults /\ UNCHANGED answered
  /\ Return(h)
  /\ UNCHANGED <<accounts, asked, told>>

\* A statement of the transaction reports an error, also while it waits.
Fail(h) ==
  /\ "statement" \in Faults
  /\ pc[h] # "idle"
  /\ Rollback(h)
  /\ UNCHANGED <<accounts, asked, told>>

Crash ==
  /\ "crash" \in Faults
  /\ pc'      = [h \in Handlers |-> "idle"]
  /\ id'      = [h \in Handlers |-> 0]
  /\ todo'    = [h \in Handlers |-> <<>>]
  /\ pending' = [r \in Rooms |-> 0]
  /\ UNCHANGED <<accounts, tables, asked, told, answered>>

-----------------------------------------------------------------------------
Init ==
  /\ accounts = [e \in Emails |-> Nobody]
  /\ routes   = [r \in Rooms |-> 0]
  /\ passengers = {}
  /\ pending  = [r \in Rooms |-> 0]
  /\ asked    = <<>>
  /\ pc       = [h \in Handlers |-> "idle"]
  /\ id       = [h \in Handlers |-> 0]
  /\ todo     = [h \in Handlers |-> <<>>]
  /\ told = {} /\ answered = {}

Continue(h) == InsertRoute(h) \/ InsertPassenger(h) \/ Commit(h)

Next ==
  \/ \E e \in Emails, p \in Passwords : Register(e, p)
  \/ \E h \in Handlers : SaveRoute(h) \/ Continue(h) \/ Fail(h)
  \/ Crash

Spec == Init /\ [][Next]_vars

\* A transaction that has begun goes on; it need not fail, and an insert that
\* waits goes on when the route it waits for is committed or rolled back.
FairSpec == Spec /\ \A h \in Handlers : WF_vars(Continue(h))

-----------------------------------------------------------------------------
(* Properties.                                                              *)

\* The variables keep their types, and an uncommitted route is always that of a
\* transaction in progress.
TypeOK ==
  /\ accounts \in [Emails -> Passwords \cup {Nobody}]
  /\ routes   \in [Rooms -> 0 .. Len(asked)]
  /\ passengers \subseteq (1 .. Len(asked)) \X Users
  /\ pc \in [Handlers -> Steps]
  /\ \A h \in Handlers :
       IF pc[h] = "idle" THEN id[h] = 0 ELSE id[h] \in 1 .. Len(asked)
  /\ \A r \in Rooms :
       pending[r] # 0 => \E h \in Handlers : id[h] = pending[r] /\ RoomOf(h) = r

\* A route is there with exactly the passengers of the request that saved it, or
\* not at all, whatever fails or stops between the statements and however
\* often room_service saves the same room.
RouteIsWhole ==
  \A r \in Rooms :
    routes[r] # 0 =>
      /\ asked[routes[r]].room = r
      /\ {u \in Users : <<routes[r], u>> \in passengers} = asked[routes[r]].users

\* A route_id that SaveRoute has answered is that of the room's route, and the
\* ride is in the history of every passenger: a repeated save, whose insert
\* does nothing, never answers an id that does not exist.
AnsweredIsSaved ==
  \A i \in answered :
    LET r == asked[i].room
    IN  routes[r] = i /\ \A u \in asked[i].users : r \in GetUserRoutes(u)

\* Whoever was told that the registration succeeded can log in, also after
\* others have tried to register the same address.
CredentialsWork == \A c \in told : LoginSucceeds(c[1], c[2])

\* No SaveRoute waits for ever for a route that another one has inserted and
\* neither committed nor rolled back.
SavesEnd == \A h \in Handlers : pc[h] # "idle" ~> pc[h] = "idle"

-----------------------------------------------------------------------------
(* The inductive invariant behind the safety properties.                    *)

\* Every SaveRoute in flight has drawn an id of its own and has a passenger to
\* insert until it commits.
CallsAreDistinct ==
  /\ asked \in Seq([room : Rooms, users : SUBSET Users])
  /\ pc   \in [Handlers -> Steps]
  /\ id   \in [Handlers -> 0 .. Len(asked)]
  /\ todo \in [Handlers -> Seq(Users)]
  /\ \A h \in Handlers : pc[h] = "idle" <=> id[h] = 0
  /\ \A g, h \in Handlers : id[g] = id[h] /\ id[g] # 0 => g = h
  /\ \A h \in Handlers :
       pc[h] \in {"insert_route", "insert_passenger"} => todo[h] # <<>>

\* An uncommitted route is of a room that has none, and of a call in flight for
\* that room; a call about to commit has inserted its route.
PendingIsOwned ==
  /\ pending \in [Rooms -> Nat]
  /\ \A r \in Rooms :
       pending[r] # 0 => /\ routes[r] = 0
                         /\ \E h \in Handlers : id[h] = pending[r] /\ RoomOf(h) = r
  /\ \A h \in Handlers : pc[h] = "commit" => pending[RoomOf(h)] = id[h]

\* Nothing in flight touches what has been committed, and what was answered has
\* been committed.
CommittedIsDone ==
  /\ routes \in [Rooms -> 0 .. Len(asked)]
  /\ passengers \subseteq (1 .. Len(asked)) \X Users
  /\ RouteIsWhole
  /\ \A r \in Rooms, h \in Handlers : routes[r] # 0 => id[h] # routes[r]
  /\ \A p \in passengers, h \in Handlers : id[h] # p[1]
  /\ answered \subseteq 1 .. Len(asked)
  /\ \A i \in answered : routes[asked[i].room] = i

\* Accounts are never replaced.
AccountsStand ==
  /\ accounts \in [Emails -> Passwords \cup {Nobody}]
  /\ told \subseteq Emails \X Passwords
  /\ CredentialsWork

Inv == CallsAreDistinct /\ PendingIsOwned /\ CommittedIsDone /\ AccountsStand
=============================================================================
