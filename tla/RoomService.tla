---------------------------- MODULE RoomService ----------------------------
(***************************************************************************)
(* The room service: the rooms and room_members tables, the gRPC handlers  *)
(* that read and write them one SQL statement at a time (no handler opens  *)
(* a transaction), and the two calls a completed ride makes to the other   *)
(* services.  Between two statements of a handler any other handler may    *)
(* run, a statement may fail, and the process may stop.                    *)
(*                                                                         *)
(* A call is merged with its first statement: before it a handler only     *)
(* validates the request, and a call that validation, a missing room or a  *)
(* failed first read turns away leaves no trace.                           *)
(***************************************************************************)
EXTENDS Integers, FiniteSets

CONSTANTS
  Rooms,       \* room ids uuid.New can still produce
  Users,       \* user ids
  Handlers,    \* calls of several statements that can be in flight at once
  SeatCounts,  \* values of max_members in a CreateRoom request
  Prices,      \* values of total_price in a CompleteRide request
  Faults,      \* the kinds of failure that may happen
  Nil          \* the field of a request the call does not have

\* "statement": an SQL statement or query reports an error, applied or not;
\* "rows": a result set ends early; "rpc": a call to another service fails;
\* "crash": the process stops and is started again.
FaultKinds == {"statement", "rows", "rpc", "crash"}

ASSUME HandlersAssumption == IsFiniteSet(Handlers) /\ Handlers # {}
ASSUME NumbersAssumption == SeatCounts \subseteq Int /\ Prices \subseteq Int
ASSUME FaultsAssumption == Faults \subseteq FaultKinds
ASSUME NilAssumption == Nil \notin Rooms \cup Users

VARIABLES
  status,   \* rooms.status, "ABSENT" when there is no row
  seats,    \* rooms.available_seats
  fare,     \* rooms.total_price, and the number of shares it was divided into
  members,  \* room_members
  pc,       \* the statement each handler is about to issue
  req,      \* the request each handler serves
  view,     \* what each handler has read: the seats, the member ids
  billed,   \* the users the payment service was made to charge, by room
  saving,   \* whether a saveRoute goroutine of the room is still running
  saved     \* whether user_service has recorded the route of the room

tables   == <<status, seats, fare, members>>
local    == <<pc, req, view>>
outbound == <<billed, saving, saved>>
vars     == <<tables, local, outbound>>

Statuses == {"ABSENT", "WAITING", "FULL", "COMPLETED"}
Fares    == [total : Int, share : Nat]
Requests == [room : Rooms \cup {Nil}, user : Users \cup {Nil}, total : Int]
Views    == [seats : Int, seen : SUBSET Users]

Steps == {"idle", "create_member", "join_members", "join_full", "join_add",
          "complete_members", "complete_room", "complete_bill"}

NoRequest == [room |-> Nil, user |-> Nil, total |-> 0]
NoView    == [seats |-> 0, seen |-> {}]

Exists(r) == status[r] # "ABSENT"

-----------------------------------------------------------------------------
(* The repository: one operator per method.  A statement that reports an    *)
(* error has either been applied or never will be.                          *)

Failing == "statement" \in Faults

Insert(r, n) ==                                     \* CreateRoom
  /\ status'  = [status EXCEPT ![r] = "WAITING"]
  /\ seats'   = [seats EXCEPT ![r] = n]
  /\ fare'    = [fare EXCEPT ![r] = [total |-> 0, share |-> 0]]
  /\ UNCHANGED members

AddMember(r, u) ==                                  \* ON CONFLICT DO NOTHING
  /\ members' = [members EXCEPT ![r] = @ \cup {u}]
  /\ UNCHANGED <<status, seats, fare>>

RemoveMember(r, u) ==
  /\ members' = [members EXCEPT ![r] = @ \ {u}]
  /\ UNCHANGED <<status, seats, fare>>

UpdateRoomStatus(r, s) ==                           \* whatever the status was
  /\ status' = [status EXCEPT ![r] = s]
  /\ UNCHANGED <<seats, fare, members>>

SetCompleted(r, total, share) ==                    \* CompleteRoom
  /\ status' = [status EXCEPT ![r] = "COMPLETED"]
  /\ fare'   = [fare EXCEPT ![r] = [total |-> total, share |-> share]]
  /\ UNCHANGED <<seats, members>>

\* rows.Err() is never consulted, so a result set that breaks off is
\* returned as if it were complete.
GetRoomMembers(r) ==
  IF "rows" \in Faults THEN SUBSET members[r] ELSE {members[r]}

ListAvailableRooms == {r \in Rooms : status[r] = "WAITING"}

-----------------------------------------------------------------------------
(* The handlers.                                                            *)

Begin(h, step, r, u, t, n) ==
  /\ pc[h] = "idle"
  /\ pc'   = [pc EXCEPT ![h] = step]
  /\ req'  = [req EXCEPT ![h] = [room |-> r, user |-> u, total |-> t]]
  /\ view' = [view EXCEPT ![h] = [seats |-> n, seen |-> {}]]

Goto(h, step) ==
  /\ pc' = [pc EXCEPT ![h] = step]
  /\ UNCHANGED <<req, view>>

Return(h) ==
  /\ pc'   = [pc EXCEPT ![h] = "idle"]
  /\ req'  = [req EXCEPT ![h] = NoRequest]
  /\ view' = [view EXCEPT ![h] = NoView]

\* The handler gives up on an error: of a statement that changed nothing.
FailUnapplied(h) == Failing /\ Return(h) /\ UNCHANGED tables

\* Mutation: max_members is not checked.
CreateRoomUnchecked(h) ==
  \E r \in Rooms, u \in Users, n \in SeatCounts :
    /\ ~Exists(r)
    /\ Insert(r, n)
    /\ Begin(h, "create_member", r, u, 0, n)
    /\ UNCHANGED outbound

\* CreateRoom: INSERT INTO rooms; only a success goes on to add the creator.
CreateRoom(h) ==
  \E r \in Rooms, u \in Users, n \in SeatCounts :
    /\ n > 0
    /\ ~Exists(r)
    /\ Insert(r, n)
    /\ \/ Begin(h, "create_member", r, u, 0, n)
       \/ Failing /\ pc[h] = "idle" /\ UNCHANGED local
    /\ UNCHANGED outbound

CreateMember(h) ==
  /\ pc[h] = "create_member"
  /\ \/ AddMember(req[h].room, req[h].user) /\ Return(h)
     \/ FailUnapplied(h)
  /\ UNCHANGED outbound

\* JoinRoom: the room is read for its seats; its status is not looked at.
JoinRoom(h) ==
  \E r \in Rooms, u \in Users :
    /\ Exists(r)
    /\ Begin(h, "join_members", r, u, 0, seats[r])
    /\ UNCHANGED <<tables, outbound>>

\* Mutation: the check is off by one.
JoinMembersOffByOne(h) ==
  /\ pc[h] = "join_members"
  /\ \E rows \in GetRoomMembers(req[h].room) :
       Goto(h, IF Cardinality(rows) > view[h].seats THEN "join_full" ELSE "join_add")
  /\ UNCHANGED <<tables, outbound>>

JoinMembers(h) ==
  /\ pc[h] = "join_members"
  /\ \/ \E rows \in GetRoomMembers(req[h].room) :
          Goto(h, IF Cardinality(rows) >= view[h].seats
                  THEN "join_full" ELSE "join_add")
     \/ Failing /\ Return(h)
  /\ UNCHANGED <<tables, outbound>>

\* Mutation: the status constant is that of a ride in progress.
JoinFullOnRide(h) ==
  /\ pc[h] = "join_full"
  /\ UpdateRoomStatus(req[h].room, "ON_RIDE")
  /\ Return(h)
  /\ UNCHANGED outbound

JoinFull(h) ==
  /\ pc[h] = "join_full"
  /\ \/ UpdateRoomStatus(req[h].room, "FULL") /\ Return(h)
     \/ FailUnapplied(h)
  /\ UNCHANGED outbound

JoinAdd(h) ==
  /\ pc[h] = "join_add"
  /\ \/ AddMember(req[h].room, req[h].user) /\ Return(h)
     \/ FailUnapplied(h)
  /\ UNCHANGED outbound

\* Mutation: a seat that becomes free puts the room back on the list.
ExitRoomReopens(r, u) ==
  /\ u \in members[r]
  /\ members' = [members EXCEPT ![r] = @ \ {u}]
  /\ status'  = [status EXCEPT ![r] = "WAITING"]
  /\ UNCHANGED <<seats, fare, local, outbound>>

\* ExitRoom is a single statement: nothing of it is ever in flight.
ExitRoom(r, u) ==
  /\ RemoveMember(r, u)
  /\ UNCHANGED <<local, outbound>>

\* CompleteRide: the room is read for its status.
CompleteRide(h) ==
  \E r \in Rooms, t \in Prices :
    /\ Exists(r)
    /\ status[r] # "COMPLETED"
    /\ Begin(h, "complete_members", r, Nil, t, 0)
    /\ UNCHANGED <<tables, outbound>>

\* Mutation: the empty member list is not turned away.
CompleteMembersUnchecked(h) ==
  /\ pc[h] = "complete_members"
  /\ \E rows \in GetRoomMembers(req[h].room) :
       /\ pc'   = [pc EXCEPT ![h] = "complete_room"]
       /\ view' = [view EXCEPT ![h].seen = rows]
       /\ UNCHANGED req
  /\ UNCHANGED <<tables, outbound>>

CompleteMembers(h) ==
  /\ pc[h] = "complete_members"
  /\ \/ \E rows \in GetRoomMembers(req[h].room) :
          IF rows = {}
          THEN Return(h)
          ELSE /\ pc'   = [pc EXCEPT ![h] = "complete_room"]
               /\ view' = [view EXCEPT ![h].seen = rows]
               /\ UNCHANGED req
     \/ Failing /\ Return(h)
  /\ UNCHANGED <<tables, outbound>>

\* Mutation: an error of the update is overlooked.
CompleteRoomUnchecked(h) ==
  /\ pc[h] = "complete_room"
  /\ \/ SetCompleted(req[h].room, req[h].total, Cardinality(view[h].seen))
     \/ Failing /\ UNCHANGED tables
  /\ Goto(h, "complete_bill")
  /\ saving' = [saving EXCEPT ![req[h].room] = TRUE]
  /\ UNCHANGED <<billed, saved>>

\* Mutation: the route of a free ride is not saved.
CompleteRoomPaidOnly(h) ==
  /\ pc[h] = "complete_room"
  /\ SetCompleted(req[h].room, req[h].total, Cardinality(view[h].seen))
  /\ Goto(h, "complete_bill")
  /\ saving' = [saving EXCEPT ![req[h].room] = req[h].total > 0]
  /\ UNCHANGED <<billed, saved>>

\* CompleteRoom succeeds and the saveRoute goroutine starts, or an error ends
\* the handler after the update took effect, or before.
CompleteRoom(h) ==
  /\ pc[h] = "complete_room"
  /\ \/ /\ SetCompleted(req[h].room, req[h].total, Cardinality(view[h].seen))
        /\ \/ /\ Goto(h, "complete_bill")
              /\ saving' = [saving EXCEPT ![req[h].room] = TRUE]
           \/ Failing /\ Return(h) /\ UNCHANGED saving
     \/ FailUnapplied(h) /\ UNCHANGED saving
  /\ UNCHANGED <<billed, saved>>

\* Mutation: a passenger who is alone is not charged.
ProcessPaymentSharedOnly(h) ==
  /\ pc[h] = "complete_bill"
  /\ billed' = IF req[h].total > 0 /\ Cardinality(view[h].seen) > 1
               THEN [billed EXCEPT ![req[h].room] = @ \cup view[h].seen]
               ELSE billed
  /\ Return(h)
  /\ UNCHANGED <<tables, saving, saved>>

\* The ProcessPayment call for the members read before: the payment service
\* refuses an amount that is not positive and otherwise charges one user
\* after the other; when the call fails it may have got to none or to some.
ProcessPayment(h) ==
  /\ pc[h] = "complete_bill"
  /\ \E paid \in SUBSET view[h].seen :
       /\ paid = view[h].seen \/ "rpc" \in Faults
       /\ billed' = IF req[h].total > 0
                    THEN [billed EXCEPT ![req[h].room] = @ \cup paid]
                    ELSE billed
  /\ Return(h)
  /\ UNCHANGED <<tables, saving, saved>>

-----------------------------------------------------------------------------
\* A saveRoute goroutine ends: user_service has the route, or the call failed
\* and its error was dropped.  Routes are unique by room, so goroutines of the
\* same room need not be told apart.
SaveRoute(r) ==
  /\ saving[r]
  /\ saving' = [saving EXCEPT ![r] = FALSE]
  /\ \/ saved' = [saved EXCEPT ![r] = TRUE]
     \/ "rpc" \in Faults /\ UNCHANGED saved
  /\ UNCHANGED <<tables, local, billed>>

\* The process stops, with every handler and goroutine in it, and starts again
\* with what the database holds.
Crash ==
  /\ "crash" \in Faults
  /\ pc'     = [h \in Handlers |-> "idle"]
  /\ req'    = [h \in Handlers |-> NoRequest]
  /\ view'   = [h \in Handlers |-> NoView]
  /\ saving' = [r \in Rooms |-> FALSE]
  /\ UNCHANGED <<tables, billed, saved>>

-----------------------------------------------------------------------------
Init ==
  /\ status  = [r \in Rooms |-> "ABSENT"]
  /\ seats   = [r \in Rooms |-> 0]
  /\ fare    = [r \in Rooms |-> [total |-> 0, share |-> 0]]
  /\ members = [r \in Rooms |-> {}]
  /\ pc      = [h \in Handlers |-> "idle"]
  /\ req     = [h \in Handlers |-> NoRequest]
  /\ view    = [h \in Handlers |-> NoView]
  /\ billed  = [r \in Rooms |-> {}]
  /\ saving  = [r \in Rooms |-> FALSE]
  /\ saved   = [r \in Rooms |-> FALSE]

Call(h) == CreateRoom(h) \/ JoinRoom(h) \/ CompleteRide(h)

Continue(h) ==
  \/ CreateMember(h)
  \/ JoinMembers(h) \/ JoinFull(h) \/ JoinAdd(h)
  \/ CompleteMembers(h) \/ CompleteRoom(h) \/ ProcessPayment(h)

Next ==
  \/ \E h \in Handlers : Call(h) \/ Continue(h)
  \/ \E r \in Rooms, u \in Users : ExitRoom(r, u)
  \/ \E r \in Rooms : SaveRoute(r)
  \/ Crash

Spec == Init /\ [][Next]_vars

\* A handler that has begun is run by its goroutine until it returns, and so
\* is a saveRoute goroutine; no call is ever obliged to arrive.
Fairness ==
  /\ \A h \in Handlers : WF_vars(Continue(h))
  /\ \A r \in Rooms : WF_vars(SaveRoute(r))

FairSpec == Spec /\ Fairness

-----------------------------------------------------------------------------
(* Properties.                                                              *)

\* The calls that are past their checks and only have to insert a member.
Pending(r) ==
  {h \in Handlers : pc[h] \in {"create_member", "join_add"} /\ req[h].room = r}

TablesTypeOK ==
  /\ status  \in [Rooms -> Statuses]
  /\ seats   \in [Rooms -> Int]
  /\ fare    \in [Rooms -> Fares]
  /\ members \in [Rooms -> SUBSET Users]

LocalTypeOK ==
  /\ pc   \in [Handlers -> Steps]
  /\ req  \in [Handlers -> Requests]
  /\ view \in [Handlers -> Views]

OutboundTypeOK ==
  /\ billed \in [Rooms -> SUBSET Users]
  /\ saving \in [Rooms -> BOOLEAN]
  /\ saved  \in [Rooms -> BOOLEAN]

\* The tables, the handlers' variables and the outgoing calls keep their types:
\* the only statuses written are WAITING, FULL and COMPLETED.
TypeOK == TablesTypeOK /\ LocalTypeOK /\ OutboundTypeOK

\* A room is never oversold by more than one seat for every other call in
\* flight: JoinRoom counts the members and inserts in two statements, so each
\* concurrent call can slip in one passenger, but what earlier calls oversold
\* is seen by later ones and does not add up.
OverbookingBounded ==
  \A r \in Rooms :
    Exists(r) => Cardinality(members[r]) <= seats[r] + Cardinality(Handlers) - 1

\* A room never holds more members than available_seats, the maximal number of
\* participants.  JoinRoom's check of len(memberIDs) is there for that.
SeatLimit ==
  \A r \in Rooms : Exists(r) => Cardinality(members[r]) <= seats[r]

\* A completed ride was divided among at least one passenger (CompleteRide's
\* division is never by zero) and among no more than the room can have held,
\* whatever joins, exits and completions came between reading the list and
\* using it.
ShareWithinRoom ==
  \A r \in Rooms :
    status[r] = "COMPLETED" =>
      fare[r].share \in 1 .. (seats[r] + Cardinality(Handlers) - 1)

\* Nobody is charged for a ride and no route is recorded before the room has
\* been given its price, also when the completing call fails or crashes half
\* way and whatever becomes of the status afterwards.
CompletedBeforeBilled ==
  \A r \in Rooms :
    billed[r] # {} \/ saving[r] \/ saved[r] => Exists(r) /\ fare[r].share > 0

\* Through all interleavings and faults the tables behave as the ledger says,
\* with a slack of one seat for every call but one.
Ledger == INSTANCE RoomLedger WITH Slack <- Cardinality(Handlers) - 1
ImplementsLedger == Ledger!Spec

\* The ride of a room that FindRoom lists is not over, nor is any call finishing it:
\* the room has no price, nobody is or is about to be charged for it, and its route is
\* neither saved nor being saved; whoever joins and leaves, and whatever call fails,
\* crashes or goes on with what it read before.  (It need not have a free seat: FULL
\* is written by the next join only, and is never taken back.)
ListedRidesAreNotOver ==
  \A r \in ListAvailableRooms :
    /\ fare[r].share = 0 /\ billed[r] = {} /\ ~saving[r] /\ ~saved[r]
    /\ \A h \in Handlers : pc[h] = "complete_bill" => req[h].room # r

\* Once a ride with a price is completed, somebody is charged for it.
CompletedRideIsBilled ==
  \A r \in Rooms :
    status[r] = "COMPLETED" /\ fare[r].total > 0 ~> billed[r] # {}

\* Once a ride is completed, its route is recorded by user_service.
CompletedRideIsSaved ==
  \A r \in Rooms : status[r] = "COMPLETED" ~> saved[r]

\* "ride already completed": once the passengers have been charged, no second
\* call gets as far as charging them.
RideBilledOnce ==
  \A h \in Handlers : pc[h] = "complete_bill" => billed[req[h].room] = {}

-----------------------------------------------------------------------------
(* The inductive invariant behind the safety properties.                    *)

\* A call in flight is about a room that exists, inserts a user and not Nil,
\* and remembers the seats the room has.
CallsMatchTables ==
  \A h \in Handlers :
    /\ pc[h] # "idle" => req[h].room \in Rooms /\ Exists(req[h].room)
    /\ pc[h] \in {"create_member", "join_members", "join_full", "join_add"} =>
         req[h].user \in Users
    /\ pc[h] = "join_members" => view[h].seats = seats[req[h].room]

\* A room without a row has no members (the foreign key), a completed one has
\* its price, and member lists are finite.
RoomsAreSound ==
  /\ \A r \in Rooms :
       /\ IsFiniteSet(members[r])
       /\ ~Exists(r) => members[r] = {}
       /\ status[r] = "COMPLETED" => fare[r].share > 0
  /\ \A h \in Handlers : IsFiniteSet(view[h].seen)

\* The list a completing call has read is not empty, and by the time it bills
\* the room has its price.
CompletionsAreSound ==
  \A h \in Handlers :
    /\ pc[h] = "complete_room" => view[h].seen # {}
    /\ pc[h] = "complete_bill" => fare[req[h].room].share > 0

\* Every call past its check holds a claim on a seat: members and claims
\* together stay within the bound, which is what makes it inductive; and so do
\* the lists read and the shares computed from members that were within it.
SeatsAreAccounted ==
  "rows" \notin Faults =>
    /\ \A r \in Rooms :
         Exists(r) => /\ Cardinality(members[r]) + Cardinality(Pending(r))
                           <= seats[r] + Cardinality(Handlers) - 1
                      /\ fare[r].share <= seats[r] + Cardinality(Handlers) - 1
    /\ \A h \in Handlers :
         pc[h] = "complete_room" =>
           Cardinality(view[h].seen)
             <= seats[req[h].room] + Cardinality(Handlers) - 1

Inv == /\ TypeOK
       /\ CallsMatchTables
       /\ RoomsAreSound
       /\ CompletionsAreSound
       /\ CompletedBeforeBilled
       /\ SeatsAreAccounted
=============================================================================
