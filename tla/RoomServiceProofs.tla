------------------------- MODULE RoomServiceProofs -------------------------
(***************************************************************************)
(* Theorems about the room service and their proofs, for any sets of rooms *)
(* and users and any finite number of handlers.  The inductive invariant   *)
(* Inv is a conjunction of named parts, and there is one lemma for each    *)
(* part.  The parts need not look at the actions one by one: TypeStep,     *)
(* HandlerStep, RoomStep and OutboundStep say once what any action does to *)
(* the types, to one handler, to one room and to the calls that leave the  *)
(* service.                                                                *)
(***************************************************************************)
EXTENDS RoomService, FiniteSetTheorems, TLAPS

\* What the three ways a handler moves on do to the variables of the handlers.
LEMMA BeginTypes ==
  ASSUME LocalTypeOK, NEW h \in Handlers, NEW step \in Steps,
         NEW r \in Rooms, NEW u \in Users \cup {Nil}, NEW t \in Int, NEW n \in Int,
         Begin(h, step, r, u, t, n)
  PROVE  LocalTypeOK'
BY DEF LocalTypeOK, Begin, Requests, Views

\* A handler that goes on to another statement keeps its request and its view.
LEMMA GotoTypes ==
  ASSUME LocalTypeOK, NEW h \in Handlers, NEW step \in Steps, Goto(h, step)
  PROVE  LocalTypeOK'
BY DEF LocalTypeOK, Goto

\* A handler that returns clears its variables to values of their types.
LEMMA ReturnTypes ==
  ASSUME LocalTypeOK, NEW h \in Handlers, Return(h)
  PROVE  LocalTypeOK'
<1>1. NoRequest \in Requests /\ NoView \in Views /\ "idle" \in Steps
  BY DEF NoRequest, NoView, Requests, Views, Steps
<1>   QED
  BY <1>1 DEF LocalTypeOK, Return

\* The same for the statements of the repository.
LEMMA TableTypes ==
  ASSUME TablesTypeOK, NEW r \in Rooms
  PROVE  /\ \A n \in Int : Insert(r, n) => TablesTypeOK'
         /\ \A u \in Users : AddMember(r, u) => TablesTypeOK'
         /\ \A u \in Users : RemoveMember(r, u) => TablesTypeOK'
         /\ \A s \in Statuses : UpdateRoomStatus(r, s) => TablesTypeOK'
         /\ \A t \in Int, n \in Nat : SetCompleted(r, t, n) => TablesTypeOK'
<1>1. \A n \in Int : Insert(r, n) => TablesTypeOK'
  BY DEF Insert, TablesTypeOK, Statuses, Fares
<1>2. \A u \in Users : AddMember(r, u) => TablesTypeOK'
  BY DEF AddMember, TablesTypeOK
<1>3. \A u \in Users : RemoveMember(r, u) => TablesTypeOK'
  BY DEF RemoveMember, TablesTypeOK
<1>4. \A s \in Statuses : UpdateRoomStatus(r, s) => TablesTypeOK'
  BY DEF UpdateRoomStatus, TablesTypeOK
<1>5. \A t \in Int, n \in Nat : SetCompleted(r, t, n) => TablesTypeOK'
  BY DEF SetCompleted, TablesTypeOK, Statuses, Fares
<1>   QED
  BY <1>1, <1>2, <1>3, <1>4, <1>5

-----------------------------------------------------------------------------
\* Every step keeps the types.  Beyond the types it needs that the request in
\* flight names a room and a user, and that the list read is finite (the number
\* of shares is its length).
LEMMA TypeStep ==
  ASSUME TypeOK, CallsMatchTables, RoomsAreSound, [Next]_vars
  PROVE  TypeOK'
<1> USE DEF TypeOK
<1>1. ASSUME NEW h \in Handlers, Call(h)
      PROVE  TypeOK'
  <2>1. CASE CreateRoom(h)
    <3>1. PICK r \in Rooms, u \in Users, n \in SeatCounts :
            /\ Insert(r, n)
            /\ \/ Begin(h, "create_member", r, u, 0, n)
               \/ UNCHANGED local
            /\ UNCHANGED outbound
      BY <2>1 DEF CreateRoom
    <3>2. n \in Int /\ "create_member" \in Steps
      BY NumbersAssumption DEF Steps
    <3>3. TablesTypeOK'
      BY <3>1, <3>2, TableTypes
    <3>4. LocalTypeOK'
      BY <3>1, <3>2, BeginTypes DEF local, LocalTypeOK
    <3>   QED
      BY <3>1, <3>3, <3>4 DEF outbound, OutboundTypeOK
  <2>2. CASE JoinRoom(h)
    <3>1. PICK r \in Rooms, u \in Users :
            /\ Begin(h, "join_members", r, u, 0, seats[r])
            /\ UNCHANGED <<tables, outbound>>
      BY <2>2 DEF JoinRoom
    <3>2. seats[r] \in Int /\ "join_members" \in Steps
      BY DEF Steps, TablesTypeOK
    <3>3. LocalTypeOK'
      BY <3>1, <3>2, BeginTypes
    <3>   QED
      BY <3>1, <3>3 DEF tables, outbound, TablesTypeOK, OutboundTypeOK
  <2>3. CASE CompleteRide(h)
    <3>1. PICK r \in Rooms, t \in Prices :
            /\ Begin(h, "complete_members", r, Nil, t, 0)
            /\ UNCHANGED <<tables, outbound>>
      BY <2>3 DEF CompleteRide
    <3>2. t \in Int /\ "complete_members" \in Steps
      BY NumbersAssumption DEF Steps
    <3>3. LocalTypeOK'
      BY <3>1, <3>2, BeginTypes
    <3>   QED
      BY <3>1, <3>3 DEF tables, outbound, TablesTypeOK, OutboundTypeOK
  <2>   QED
    BY <1>1, <2>1, <2>2, <2>3 DEF Call
<1>2. ASSUME NEW h \in Handlers, Continue(h)
      PROVE  TypeOK'
  <2> DEFINE room == req[h].room
  <2>1. CASE CreateMember(h) \/ JoinAdd(h)
    <3>1. room \in Rooms /\ req[h].user \in Users
      BY <2>1 DEF CreateMember, JoinAdd, CallsMatchTables
    <3>2. Return(h) /\ UNCHANGED outbound
      BY <2>1 DEF CreateMember, JoinAdd, FailUnapplied
    <3>3. AddMember(room, req[h].user) \/ UNCHANGED tables
      BY <2>1 DEF CreateMember, JoinAdd, FailUnapplied
    <3>4. TablesTypeOK'
      BY <3>1, <3>3, TableTypes DEF tables, TablesTypeOK
    <3>   QED
      BY <3>2, <3>4, ReturnTypes DEF outbound, OutboundTypeOK
  <2>2. CASE JoinMembers(h)
    <3>1. {"join_full", "join_add"} \subseteq Steps
      BY DEF Steps
    <3>2. LocalTypeOK'
      BY <2>2, <3>1, GotoTypes, ReturnTypes DEF JoinMembers
    <3>   QED
      BY <2>2, <3>2 DEF JoinMembers, tables, outbound, TablesTypeOK, OutboundTypeOK
  <2>3. CASE JoinFull(h)
    <3>1. room \in Rooms /\ "FULL" \in Statuses
      BY <2>3 DEF JoinFull, CallsMatchTables, Statuses
    <3>2. TablesTypeOK'
      BY <2>3, <3>1, TableTypes DEF JoinFull, FailUnapplied, tables, TablesTypeOK
    <3>   QED
      BY <2>3, <3>2, ReturnTypes
      DEF JoinFull, FailUnapplied, outbound, OutboundTypeOK
  <2>4. CASE CompleteMembers(h)
    <3>1. CASE Return(h)
      BY <2>4, <3>1, ReturnTypes
      DEF CompleteMembers, tables, outbound, TablesTypeOK, OutboundTypeOK
    <3>2. CASE ~Return(h)
      <4>1. PICK rows \in GetRoomMembers(room) :
              /\ pc'   = [pc EXCEPT ![h] = "complete_room"]
              /\ view' = [view EXCEPT ![h].seen = rows]
              /\ UNCHANGED req
        BY <2>4, <3>2 DEF CompleteMembers
      <4>2. rows \subseteq Users
        BY <2>4 DEF CompleteMembers, CallsMatchTables, GetRoomMembers, TablesTypeOK
      <4>3. LocalTypeOK'
        BY <4>1, <4>2 DEF LocalTypeOK, Views, Steps
      <4>   QED
        BY <2>4, <4>3
        DEF CompleteMembers, tables, outbound, TablesTypeOK, OutboundTypeOK
    <3>   QED
      BY <3>1, <3>2
  <2>5. CASE CompleteRoom(h)
    <3>1. room \in Rooms /\ req[h].total \in Int /\ "complete_bill" \in Steps
      BY <2>5 DEF CompleteRoom, CallsMatchTables, LocalTypeOK, Requests, Steps
    <3>2. Cardinality(view[h].seen) \in Nat
      BY FS_CardinalityType DEF RoomsAreSound
    <3>3. TablesTypeOK'
      BY <2>5, <3>1, <3>2, TableTypes
      DEF CompleteRoom, FailUnapplied, tables, TablesTypeOK
    <3>4. LocalTypeOK'
      BY <2>5, <3>1, GotoTypes, ReturnTypes DEF CompleteRoom, FailUnapplied
    <3>5. OutboundTypeOK'
      BY <2>5 DEF CompleteRoom, OutboundTypeOK
    <3>   QED
      BY <3>3, <3>4, <3>5
  <2>6. CASE ProcessPayment(h)
    <3>1. room \in Rooms /\ view[h].seen \subseteq Users
      BY <2>6 DEF ProcessPayment, CallsMatchTables, LocalTypeOK, Views
    <3>2. OutboundTypeOK'
      BY <2>6, <3>1 DEF ProcessPayment, OutboundTypeOK
    <3>   QED
      BY <2>6, <3>2, ReturnTypes DEF ProcessPayment, tables, TablesTypeOK
  <2>   QED
    BY <1>2, <2>1, <2>2, <2>3, <2>4, <2>5, <2>6 DEF Continue
<1>3. ASSUME NEW r \in Rooms, NEW u \in Users, ExitRoom(r, u)
      PROVE  TypeOK'
  BY <1>3, TableTypes DEF ExitRoom, local, outbound, LocalTypeOK, OutboundTypeOK
<1>4. ASSUME NEW r \in Rooms, SaveRoute(r)
      PROVE  TypeOK'
  BY <1>4 DEF SaveRoute, tables, local, TablesTypeOK, LocalTypeOK, OutboundTypeOK
<1>5. CASE Crash
  <2>1. NoRequest \in Requests /\ NoView \in Views /\ "idle" \in Steps
    BY DEF NoRequest, NoView, Requests, Views, Steps
  <2>   QED
    BY <1>5, <2>1 DEF Crash, tables, TablesTypeOK, LocalTypeOK, OutboundTypeOK
<1>6. CASE UNCHANGED vars
  BY <1>6 DEF vars, tables, local, outbound,
              TablesTypeOK, LocalTypeOK, OutboundTypeOK
<1>   QED
  BY <1>1, <1>2, <1>3, <1>4, <1>5, <1>6 DEF Next

-----------------------------------------------------------------------------
(* What one step can do to one handler, and to one room.  The invariants    *)
(* below follow from these two descriptions without going through the       *)
(* actions again.                                                           *)

Stays(g) == pc'[g] = pc[g] /\ req'[g] = req[g] /\ view'[g] = view[g]

Ends(g) == pc'[g] = "idle" /\ view'[g].seen = {}

Begins(g) ==
  \E r \in Rooms :
    /\ status'[r] # "ABSENT"
    /\ req'[g].room = r
    /\ view'[g].seen = {}
    /\ \/ pc'[g] = "create_member" /\ ~Exists(r) /\ req'[g].user \in Users
       \/ /\ pc'[g] = "join_members" /\ Exists(r) /\ req'[g].user \in Users
          /\ view'[g].seats = seats[r]
       \/ pc'[g] = "complete_members" /\ Exists(r)

Advances(g) ==
  /\ pc[g] # "idle"
  /\ req'[g] = req[g]
  /\ UNCHANGED seats
  /\ \/ pc[g] = "join_members" /\ pc'[g] = "join_full" /\ view'[g] = view[g]
     \/ /\ pc[g] = "join_members" /\ pc'[g] = "join_add" /\ view'[g] = view[g]
        /\ \E rows \in GetRoomMembers(req[g].room) :
             ~(Cardinality(rows) >= view[g].seats)
        /\ UNCHANGED members
     \/ /\ pc[g] = "complete_members" /\ pc'[g] = "complete_room"
        /\ view'[g].seen \in GetRoomMembers(req[g].room) /\ view'[g].seen # {}
     \/ /\ pc[g] = "complete_room" /\ pc'[g] = "complete_bill"
        /\ view'[g] = view[g]
        /\ SetCompleted(req[g].room, req[g].total, Cardinality(view[g].seen))

HandlerMoves(g) == Stays(g) \/ Ends(g) \/ Begins(g) \/ Advances(g)

\* Seen from one handler g, every step leaves it alone, ends its call, begins a
\* call of it or advances it by one statement: the proofs of the invariants
\* split on these four and not on the actions.
LEMMA HandlerStep ==
  ASSUME TypeOK, CallsMatchTables, [Next]_vars, NEW g \in Handlers
  PROVE  HandlerMoves(g)
<1> USE DEF TypeOK, LocalTypeOK, HandlerMoves
<1>1. ASSUME NEW h \in Handlers, Return(h)
      PROVE  HandlerMoves(g)
  <2>1. g = h => Ends(g)
    BY <1>1 DEF Return, Ends, NoView
  <2>2. g # h => Stays(g)
    BY <1>1 DEF Return, Stays
  <2>   QED
    BY <2>1, <2>2
<1>2. ASSUME UNCHANGED local
      PROVE  HandlerMoves(g)
  BY <1>2 DEF local, Stays
<1>3. ASSUME NEW h \in Handlers, Call(h)
      PROVE  HandlerMoves(g)
  <2>1. CASE CreateRoom(h)
    <3>1. PICK r \in Rooms, u \in Users, n \in SeatCounts :
            /\ ~Exists(r)
            /\ Insert(r, n)
            /\ Begin(h, "create_member", r, u, 0, n) \/ UNCHANGED local
      BY <2>1 DEF CreateRoom
    <3>2. status'[r] # "ABSENT"
      BY <3>1 DEF Insert, TablesTypeOK
    <3>3. CASE Begin(h, "create_member", r, u, 0, n)
      <4>1. g = h => Begins(g)
        BY <3>1, <3>2, <3>3 DEF Begin, Begins
      <4>2. g # h => Stays(g)
        BY <3>3 DEF Begin, Stays
      <4>   QED
        BY <4>1, <4>2
    <3>   QED
      BY <1>2, <3>1, <3>3
  <2>2. CASE JoinRoom(h)
    <3>1. PICK r \in Rooms, u \in Users :
            /\ Exists(r)
            /\ Begin(h, "join_members", r, u, 0, seats[r])
            /\ UNCHANGED tables
      BY <2>2 DEF JoinRoom
    <3>2. g = h => Begins(g)
      BY <3>1 DEF Begin, Begins, tables, Exists
    <3>3. g # h => Stays(g)
      BY <3>1 DEF Begin, Stays
    <3>   QED
      BY <3>2, <3>3
  <2>3. CASE CompleteRide(h)
    <3>1. PICK r \in Rooms, t \in Prices :
            /\ Exists(r)
            /\ Begin(h, "complete_members", r, Nil, t, 0)
            /\ UNCHANGED tables
      BY <2>3 DEF CompleteRide
    <3>2. g = h => Begins(g)
      BY <3>1 DEF Begin, Begins, tables, Exists
    <3>3. g # h => Stays(g)
      BY <3>1 DEF Begin, Stays
    <3>   QED
      BY <3>2, <3>3
  <2>   QED
    BY <1>3, <2>1, <2>2, <2>3 DEF Call
<1>4. ASSUME NEW h \in Handlers, Continue(h)
      PROVE  HandlerMoves(g)
  <2>1. CASE Return(h)
    BY <1>1, <2>1
  <2>2. CASE JoinMembers(h) /\ ~Return(h)
    <3>1. PICK rows \in GetRoomMembers(req[h].room) :
            Goto(h, IF Cardinality(rows) >= view[h].seats
                    THEN "join_full" ELSE "join_add")
      BY <2>2 DEF JoinMembers
    <3>2. pc[h] = "join_members" /\ UNCHANGED tables
      BY <2>2 DEF JoinMembers
    <3>3. g = h => Advances(g)
      BY <3>1, <3>2 DEF Goto, Advances, tables
    <3>4. g # h => Stays(g)
      BY <3>1 DEF Goto, Stays
    <3>   QED
      BY <3>3, <3>4
  <2>3. CASE CompleteMembers(h) /\ ~Return(h)
    <3>1. PICK rows \in GetRoomMembers(req[h].room) :
            /\ rows # {}
            /\ pc'   = [pc EXCEPT ![h] = "complete_room"]
            /\ view' = [view EXCEPT ![h].seen = rows]
            /\ UNCHANGED req
      BY <2>3 DEF CompleteMembers
    <3>2. pc[h] = "complete_members" /\ UNCHANGED tables
      BY <2>3 DEF CompleteMembers
    <3>3. g = h => Advances(g)
      BY <3>1, <3>2 DEF Advances, tables, Views
    <3>4. g # h => Stays(g)
      BY <3>1 DEF Stays
    <3>   QED
      BY <3>3, <3>4
  <2>4. CASE CompleteRoom(h) /\ ~Return(h)
    <3>1. /\ pc[h] = "complete_room"
          /\ Goto(h, "complete_bill")
          /\ SetCompleted(req[h].room, req[h].total, Cardinality(view[h].seen))
      BY <2>4 DEF CompleteRoom, FailUnapplied
    <3>2. g = h => Advances(g)
      BY <3>1 DEF Goto, Advances, SetCompleted
    <3>3. g # h => Stays(g)
      BY <3>1 DEF Goto, Stays
    <3>   QED
      BY <3>2, <3>3
  <2>   QED
    BY <1>4, <2>1, <2>2, <2>3, <2>4
    DEF Continue, CreateMember, JoinFull, JoinAdd, ProcessPayment, FailUnapplied
<1>5. ASSUME NEW r \in Rooms, NEW u \in Users, ExitRoom(r, u)
      PROVE  HandlerMoves(g)
  BY <1>2, <1>5 DEF ExitRoom
<1>6. ASSUME NEW r \in Rooms, SaveRoute(r)
      PROVE  HandlerMoves(g)
  BY <1>2, <1>6 DEF SaveRoute
<1>7. CASE Crash
  BY <1>7 DEF Crash, Ends, NoView
<1>8. CASE UNCHANGED vars
  BY <1>2, <1>8 DEF vars
<1>   QED
  BY <1>3, <1>4, <1>5, <1>6, <1>7, <1>8 DEF Next

\* The row and the members of room r stay; r is opened; a call past its check
\* inserts a member; a member leaves; r is marked full; r is completed.
RowStays(r) == status'[r] = status[r] /\ seats'[r] = seats[r] /\ fare'[r] = fare[r]

Untouched(r) == RowStays(r) /\ members'[r] = members[r]

Opens(r) ==
  /\ ~Exists(r)
  /\ status'[r] = "WAITING" /\ seats'[r] > 0 /\ fare'[r].share = 0
  /\ members'[r] = members[r]

SeatTaken(r) ==
  /\ RowStays(r)
  /\ \E h \in Pending(r) : /\ members'[r] = members[r] \cup {req[h].user}
                           /\ pc'[h] = "idle"

SeatLeft(r) ==
  /\ RowStays(r)
  /\ \E u \in Users : members'[r] = members[r] \ {u}

Marked(r) ==
  /\ status'[r] = "FULL"
  /\ seats'[r] = seats[r] /\ fare'[r] = fare[r] /\ members'[r] = members[r]
  /\ \E h \in Handlers : req[h].room = r /\ pc[h] = "join_full"

Completed(r) ==
  /\ status'[r] = "COMPLETED"
  /\ seats'[r] = seats[r] /\ members'[r] = members[r]
  /\ \E h \in Handlers :
       /\ req[h].room = r /\ pc[h] = "complete_room"
       /\ fare'[r].share = Cardinality(view[h].seen)

RoomMoves(r) ==
  \/ Untouched(r) \/ Opens(r) \/ SeatTaken(r) \/ SeatLeft(r)
  \/ Marked(r) \/ Completed(r)

\* Seen from one room r, every step leaves its rows alone, opens it, adds or
\* removes a member, marks it full or completes it.
LEMMA RoomStep ==
  ASSUME TypeOK, CallsMatchTables, [Next]_vars, NEW q \in Rooms
  PROVE  RoomMoves(q)
<1> USE DEF TypeOK, TablesTypeOK, LocalTypeOK, RoomMoves
<1>1. ASSUME UNCHANGED tables
      PROVE  RoomMoves(q)
  BY <1>1 DEF tables, Untouched, RowStays
<1>2. ASSUME NEW h \in Handlers, CreateRoom(h)
      PROVE  RoomMoves(q)
  <2>1. PICK r \in Rooms, u \in Users, n \in SeatCounts :
          /\ n > 0
          /\ ~Exists(r)
          /\ Insert(r, n)
    BY <1>2 DEF CreateRoom
  <2>2. q = r => Opens(q)
    BY <2>1 DEF Insert, Opens
  <2>3. q # r => Untouched(q)
    BY <2>1 DEF Insert, Untouched, RowStays
  <2>   QED
    BY <2>2, <2>3
<1>3. ASSUME NEW h \in Handlers, CreateMember(h) \/ JoinAdd(h)
      PROVE  RoomMoves(q)
  <2>1. Return(h) /\ h \in Pending(req[h].room)
    BY <1>3 DEF CreateMember, JoinAdd, FailUnapplied, Pending
  <2>2. pc'[h] = "idle"
    BY <2>1 DEF Return
  <2>3. CASE AddMember(req[h].room, req[h].user)
    <3>1. q = req[h].room => SeatTaken(q)
      BY <2>1, <2>2, <2>3 DEF AddMember, SeatTaken, RowStays
    <3>2. q # req[h].room => Untouched(q)
      BY <2>3 DEF AddMember, Untouched, RowStays
    <3>   QED
      BY <3>1, <3>2
  <2>   QED
    BY <1>1, <1>3, <2>3 DEF CreateMember, JoinAdd, FailUnapplied
<1>4. ASSUME NEW h \in Handlers, JoinFull(h)
      PROVE  RoomMoves(q)
  <2>1. CASE UpdateRoomStatus(req[h].room, "FULL")
    <3>1. q = req[h].room => Marked(q)
      BY <1>4, <2>1 DEF JoinFull, UpdateRoomStatus, Marked
    <3>2. q # req[h].room => Untouched(q)
      BY <2>1 DEF UpdateRoomStatus, Untouched, RowStays
    <3>   QED
      BY <3>1, <3>2
  <2>   QED
    BY <1>1, <1>4, <2>1 DEF JoinFull, FailUnapplied
<1>5. ASSUME NEW h \in Handlers, CompleteRoom(h)
      PROVE  RoomMoves(q)
  <2>1. CASE SetCompleted(req[h].room, req[h].total, Cardinality(view[h].seen))
    <3>1. q = req[h].room => Completed(q)
      BY <1>5, <2>1 DEF CompleteRoom, SetCompleted, Completed
    <3>2. q # req[h].room => Untouched(q)
      BY <2>1 DEF SetCompleted, Untouched, RowStays
    <3>   QED
      BY <3>1, <3>2
  <2>   QED
    BY <1>1, <1>5, <2>1 DEF CompleteRoom, FailUnapplied
<1>6. ASSUME NEW r \in Rooms, NEW u \in Users, ExitRoom(r, u)
      PROVE  RoomMoves(q)
  <2>1. q = r => SeatLeft(q)
    BY <1>6 DEF ExitRoom, RemoveMember, SeatLeft, RowStays
  <2>2. q # r => Untouched(q)
    BY <1>6 DEF ExitRoom, RemoveMember, Untouched, RowStays
  <2>   QED
    BY <2>1, <2>2
<1>7. ASSUME NEW h \in Handlers,
             \/ JoinRoom(h) \/ CompleteRide(h) \/ JoinMembers(h)
             \/ CompleteMembers(h) \/ ProcessPayment(h)
      PROVE  RoomMoves(q)
  <2>1. UNCHANGED tables
    BY <1>7 DEF JoinRoom, CompleteRide, JoinMembers, CompleteMembers, ProcessPayment
  <2>   QED
    BY <1>1, <2>1
<1>8. CASE Crash \/ (\E r \in Rooms : SaveRoute(r)) \/ UNCHANGED vars
  BY <1>1, <1>8 DEF Crash, SaveRoute, vars
<1>   QED
  BY <1>2, <1>3, <1>4, <1>5, <1>6, <1>7, <1>8 DEF Next, Call, Continue

\* What leaves the service leaves it for a ride being completed.
Effects(r) == billed[r] # {} \/ saving[r] \/ saved[r]

\* A bill or a ride to save appears in a step of CompleteRoom, or after one: the
\* room is completed, or its handler is still at work.
LEMMA OutboundStep ==
  ASSUME TypeOK, CallsMatchTables, [Next]_vars, NEW q \in Rooms, Effects(q)'
  PROVE  \/ Effects(q)
         \/ \E h \in Handlers : req[h].room = q /\ pc[h] = "complete_bill"
         \/ Completed(q)
<1> USE DEF TypeOK, OutboundTypeOK, Effects
<1>1. CASE UNCHANGED outbound
  BY <1>1 DEF outbound
<1>2. ASSUME NEW h \in Handlers, CompleteRoom(h)
      PROVE  Effects(q) \/ Completed(q)
  <2>1. CASE UNCHANGED saving
    BY <1>2, <2>1 DEF CompleteRoom
  <2>2. CASE SetCompleted(req[h].room, req[h].total, Cardinality(view[h].seen))
    <3>1. q = req[h].room => Completed(q)
      BY <1>2, <2>2 DEF CompleteRoom, SetCompleted, Completed, TablesTypeOK
    <3>2. q # req[h].room => Effects(q)
      BY <1>2 DEF CompleteRoom
    <3>   QED
      BY <3>1, <3>2
  <2>   QED
    BY <1>2, <2>1, <2>2 DEF CompleteRoom
<1>3. ASSUME NEW h \in Handlers, ProcessPayment(h)
      PROVE  Effects(q) \/ (req[h].room = q /\ pc[h] = "complete_bill")
  BY <1>3 DEF ProcessPayment
<1>4. ASSUME NEW r \in Rooms, SaveRoute(r)
      PROVE  Effects(q)
  BY <1>4 DEF SaveRoute
<1>5. CASE Crash
  BY <1>5 DEF Crash
<1>   QED
  BY <1>1, <1>2, <1>3, <1>4, <1>5
  DEF Next, Call, Continue, CreateRoom, CreateMember, JoinRoom, JoinMembers,
      JoinFull, JoinAdd, CompleteRide, CompleteMembers, ExitRoom, vars

-----------------------------------------------------------------------------
\* No step takes a room's row away, changes its seats or clears its price.
LEMMA RoomsPersist ==
  ASSUME TypeOK, CallsMatchTables, RoomsAreSound, CompletionsAreSound,
         [Next]_vars, NEW r \in Rooms, Exists(r)
  PROVE  /\ Exists(r)' /\ seats'[r] = seats[r]
         /\ fare[r].share > 0 => fare'[r].share > 0
<1>1. RoomMoves(r)
  BY RoomStep
<1>2. Completed(r) => fare'[r].share > 0
  <2>1. ASSUME NEW h \in Handlers, pc[h] = "complete_room"
        PROVE  Cardinality(view[h].seen) > 0
    BY <2>1, FS_CardinalityType, FS_EmptySet DEF RoomsAreSound, CompletionsAreSound
  <2>   QED
    BY <2>1 DEF Completed
<1>   QED
  BY <1>1, <1>2
  DEF RoomMoves, Untouched, RowStays, Opens, SeatTaken, SeatLeft, Marked,
      Completed, Exists

\* CallsMatchTables is inductive: a call in flight stays about an existing room,
\* because no step of another handler takes the room or its seats away.
LEMMA CallsMatchTablesStep ==
  ASSUME TypeOK, CallsMatchTables, RoomsAreSound, CompletionsAreSound, [Next]_vars
  PROVE  CallsMatchTables'
<1> SUFFICES ASSUME NEW g \in Handlers
             PROVE  /\ pc'[g] # "idle" => /\ req'[g].room \in Rooms
                                          /\ status'[req'[g].room] # "ABSENT"
                    /\ pc'[g] \in {"create_member", "join_members", "join_full",
                                   "join_add"} => req'[g].user \in Users
                    /\ pc'[g] = "join_members" =>
                         view'[g].seats = seats'[req'[g].room]
  BY DEF CallsMatchTables, Exists
<1>1. HandlerMoves(g)
  BY HandlerStep
<1>2. \A r \in Rooms : Exists(r) => status'[r] # "ABSENT" /\ seats'[r] = seats[r]
  BY RoomsPersist DEF Exists
<1>3. Stays(g) \/ Advances(g) \/ Ends(g) \/ Begins(g)
  BY <1>1 DEF HandlerMoves
<1>4. CASE Stays(g)
  BY <1>2, <1>4 DEF Stays, CallsMatchTables
<1>5. CASE Advances(g)
  BY <1>2, <1>5 DEF Advances, CallsMatchTables
<1>6. CASE Ends(g)
  BY <1>6 DEF Ends
<1>7. CASE Begins(g)
  BY <1>2, <1>7 DEF Begins
<1>   QED
  BY <1>3, <1>4, <1>5, <1>6, <1>7

\* RoomsAreSound is inductive: only rooms that exist get members, and only a
\* list that is not empty becomes a price.
LEMMA RoomsAreSoundStep ==
  ASSUME TypeOK, CallsMatchTables, RoomsAreSound, CompletionsAreSound, [Next]_vars
  PROVE  RoomsAreSound'
<1>1. ASSUME NEW r \in Rooms
      PROVE  /\ IsFiniteSet(members'[r])
             /\ status'[r] = "ABSENT" => members'[r] = {}
             /\ status'[r] = "COMPLETED" => fare'[r].share > 0
  <2>1. RoomMoves(r)
    BY RoomStep
  <2>2. IsFiniteSet(members[r]) /\ (~Exists(r) => members[r] = {})
        /\ (status[r] = "COMPLETED" => fare[r].share > 0)
    BY DEF RoomsAreSound
  <2>3. IsFiniteSet(members'[r])
    BY <2>1, <2>2, FS_AddElement, FS_RemoveElement
    DEF RoomMoves, Untouched, Opens, SeatTaken, SeatLeft, Marked, Completed
  <2>4. Exists(r) => status'[r] # "ABSENT"
    BY RoomsPersist DEF Exists
  <2>5. status'[r] = "ABSENT" => members'[r] = {}
    BY <2>1, <2>2, <2>4
    DEF RoomMoves, Untouched, RowStays, Opens, SeatTaken, SeatLeft, Marked,
        Completed, Exists, Pending, CallsMatchTables
  <2>6. Completed(r) => fare'[r].share > 0
    BY FS_CardinalityType, FS_EmptySet DEF Completed, RoomsAreSound, CompletionsAreSound
  <2>7. status'[r] = "COMPLETED" => fare'[r].share > 0
    BY <2>1, <2>2, <2>6
    DEF RoomMoves, Untouched, RowStays, Opens, SeatTaken, SeatLeft, Marked
  <2>   QED
    BY <2>3, <2>5, <2>7
<1>2. ASSUME NEW g \in Handlers
      PROVE  IsFiniteSet(view'[g].seen)
  <2>1. HandlerMoves(g) /\ IsFiniteSet(view[g].seen)
    BY HandlerStep DEF RoomsAreSound
  <2>2. CASE pc[g] # "idle" /\ view'[g].seen \in GetRoomMembers(req[g].room)
    <3>1. IsFiniteSet(members[req[g].room])
      BY <2>2 DEF CallsMatchTables, RoomsAreSound
    <3>2. view'[g].seen \subseteq members[req[g].room]
      BY <2>2 DEF GetRoomMembers
    <3>   QED
      BY <3>1, <3>2, FS_Subset
  <2>   QED
    BY <2>1, <2>2, FS_EmptySet DEF HandlerMoves, Stays, Ends, Begins, Advances
<1>   QED
  BY <1>1, <1>2 DEF RoomsAreSound, Exists

\* CompletionsAreSound is inductive: CompleteMembers turns an empty list away,
\* and CompleteRoom writes the price before the handler goes on to bill.
LEMMA CompletionsAreSoundStep ==
  ASSUME TypeOK, CallsMatchTables, RoomsAreSound, CompletionsAreSound, [Next]_vars
  PROVE  CompletionsAreSound'
<1> SUFFICES ASSUME NEW g \in Handlers
             PROVE  /\ pc'[g] = "complete_room" => view'[g].seen # {}
                    /\ pc'[g] = "complete_bill" => fare'[req'[g].room].share > 0
  BY DEF CompletionsAreSound
<1>1. HandlerMoves(g)
  BY HandlerStep
<1>2. \A r \in Rooms : Exists(r) /\ fare[r].share > 0 => fare'[r].share > 0
  BY RoomsPersist
<1>3. CASE Stays(g)
  BY <1>2, <1>3 DEF Stays, CompletionsAreSound, CallsMatchTables
<1>4. CASE Advances(g)
  <2>1. CASE pc'[g] = "complete_bill"
    <3>1. /\ pc[g] = "complete_room" /\ req'[g] = req[g]
          /\ SetCompleted(req[g].room, req[g].total, Cardinality(view[g].seen))
      BY <1>4, <2>1 DEF Advances
    <3>2. req[g].room \in Rooms /\ Cardinality(view[g].seen) > 0
      BY <3>1, FS_CardinalityType, FS_EmptySet
      DEF CallsMatchTables, CompletionsAreSound, RoomsAreSound
    <3>   QED
      BY <2>1, <3>1, <3>2 DEF SetCompleted, TypeOK, TablesTypeOK
  <2>   QED
    BY <1>4, <2>1 DEF Advances
<1>5. CASE Ends(g) \/ Begins(g)
  BY <1>5 DEF Ends, Begins
<1>   QED
  BY <1>1, <1>3, <1>4, <1>5 DEF HandlerMoves

\* CompletedBeforeBilled is inductive: the effects outside the service start in
\* a handler whose room has its price, and a price is never cleared.
LEMMA CompletedBeforeBilledStep ==
  ASSUME TypeOK, CallsMatchTables, RoomsAreSound, CompletionsAreSound,
         CompletedBeforeBilled, [Next]_vars
  PROVE  CompletedBeforeBilled'
<1> SUFFICES ASSUME NEW r \in Rooms, Effects(r)'
             PROVE  status'[r] # "ABSENT" /\ fare'[r].share > 0
  BY DEF CompletedBeforeBilled, Effects, Exists
<1>1. CASE Completed(r)
  BY <1>1, RoomsAreSoundStep DEF Completed, RoomsAreSound
<1>2. CASE Exists(r) /\ fare[r].share > 0
  BY <1>2, RoomsPersist DEF Exists
<1>3. Effects(r) => Exists(r) /\ fare[r].share > 0
  BY DEF Effects, CompletedBeforeBilled
<1>4. (\E h \in Handlers : req[h].room = r /\ pc[h] = "complete_bill")
        => Exists(r) /\ fare[r].share > 0
  BY DEF CallsMatchTables, CompletionsAreSound
<1>   QED
  BY <1>1, <1>2, <1>3, <1>4, OutboundStep

-----------------------------------------------------------------------------
\* The heart of the bound.  A call that has just passed its check read fewer
\* members than seats, and all calls together are no more than the handlers;
\* otherwise no claim is new, and a call that inserts gives its claim up.
LEMMA SeatsAreAccountedStep ==
  ASSUME "rows" \notin Faults,
         TypeOK, CallsMatchTables, RoomsAreSound, CompletionsAreSound,
         SeatsAreAccounted, [Next]_vars
  PROVE  SeatsAreAccounted'
<1> DEFINE N == Cardinality(Handlers)
           Claims(r) == {h \in Handlers :
                           /\ pc'[h] \in {"create_member", "join_add"}
                           /\ req'[h].room = r}
<1>1. N \in Nat /\ N > 0
  BY HandlersAssumption, FS_CardinalityType, FS_EmptySet
<1>2. \A S \in SUBSET Handlers :
        IsFiniteSet(S) /\ Cardinality(S) \in Nat /\ Cardinality(S) <= N
  BY HandlersAssumption, FS_Subset, FS_CardinalityType
<1>3. \A r \in Rooms : GetRoomMembers(r) = {members[r]}
  BY DEF GetRoomMembers
<1>4. \A r \in Rooms : /\ IsFiniteSet(members[r]) /\ Cardinality(members[r]) \in Nat
                       /\ seats[r] \in Int /\ fare[r].share \in Nat
  BY FS_CardinalityType DEF RoomsAreSound, TypeOK, TablesTypeOK, Fares
<1>5. \A r \in Rooms :
        Exists(r) => /\ Cardinality(members[r]) + Cardinality(Pending(r))
                          <= seats[r] + N - 1
                     /\ fare[r].share <= seats[r] + N - 1
  BY DEF SeatsAreAccounted
<1>6. \A h \in Handlers :
        pc[h] = "complete_room" =>
          Cardinality(view[h].seen) <= seats[req[h].room] + N - 1
  BY DEF SeatsAreAccounted
<1>7. \A r \in Rooms : Exists(r) => seats'[r] = seats[r]
  BY RoomsPersist
<1>8. ASSUME NEW r \in Rooms, status'[r] # "ABSENT"
      PROVE  /\ Cardinality(members'[r]) + Cardinality(Claims(r)) <= seats'[r] + N - 1
             /\ fare'[r].share <= seats'[r] + N - 1
  <2>1. RoomMoves(r)
    BY RoomStep
  <2>2. CASE Opens(r)
    <3>1. members'[r] = {} /\ seats'[r] > 0 /\ fare'[r].share = 0
      BY <2>2 DEF Opens, RoomsAreSound
    <3>2. Cardinality(members'[r]) = 0
      BY <3>1, FS_EmptySet
    <3>3. seats'[r] \in Int
      BY TypeStep DEF TypeOK, TablesTypeOK
    <3>   QED
      BY <1>1, <1>2, <3>1, <3>2, <3>3
  <2>3. CASE Exists(r) /\ ~Opens(r)
    <3>1. fare'[r].share <= seats'[r] + N - 1
      <4>1. ~Completed(r) => fare'[r] = fare[r]
        BY <2>1, <2>3
        DEF RoomMoves, Untouched, RowStays, SeatTaken, SeatLeft, Marked
      <4>2. Completed(r) => fare'[r].share <= seats[r] + N - 1
        BY <1>6 DEF Completed
      <4>   QED
        BY <1>5, <1>7, <2>3, <4>1, <4>2
    <3>2. CASE \E g \in Claims(r) : g \notin Pending(r)
      <4>1. PICK g \in Claims(r) : g \notin Pending(r)
        BY <3>2
      <4>2. Advances(g)
        BY <2>3, <4>1, HandlerStep DEF HandlerMoves, Stays, Ends, Begins, Pending
      <4>3. /\ pc[g] = "join_members" /\ req[g].room = r
            /\ ~(Cardinality(members[r]) >= view[g].seats)
            /\ UNCHANGED members
        BY <1>3, <4>1, <4>2 DEF Advances
      <4>4. Cardinality(members'[r]) < seats[r]
        BY <1>4, <4>3 DEF CallsMatchTables
      <4>   QED
        BY <1>1, <1>2, <1>4, <1>7, <2>3, <3>1, <4>3, <4>4
    <3>3. CASE Claims(r) \subseteq Pending(r) /\ SeatTaken(r)
      <4>1. PICK h \in Pending(r) :
              members'[r] = members[r] \cup {req[h].user} /\ pc'[h] = "idle"
        BY <3>3 DEF SeatTaken
      <4>2. /\ Cardinality(members'[r]) \in Nat
            /\ Cardinality(members'[r]) <= Cardinality(members[r]) + 1
        <5> DEFINE M == members[r]
                   u == req[h].user
        <5>1. /\ IsFiniteSet(M \cup {u})
              /\ \/ Cardinality(M \cup {u}) = Cardinality(M)
                 \/ Cardinality(M \cup {u}) = Cardinality(M) + 1
          <6>1. IsFiniteSet(M)
            BY <1>4
          <6> HIDE DEF M, u
          <6>   QED
            BY <6>1, FS_AddElement
        <5>2. Cardinality(M) \in Nat
          BY <1>4
        <5>   QED
          BY <4>1, <5>1, <5>2
      <4>3. Claims(r) \subseteq Pending(r) \ {h}
        BY <3>3, <4>1
      <4>4. /\ IsFiniteSet(Pending(r) \ {h})
            /\ Cardinality(Pending(r) \ {h}) = Cardinality(Pending(r)) - 1
        BY <1>2, <4>1, FS_RemoveElement DEF Pending
      <4>5. /\ Cardinality(Claims(r)) \in Nat
            /\ Cardinality(Claims(r)) <= Cardinality(Pending(r)) - 1
        BY <1>2, <4>3, <4>4, FS_Subset
      <4>6. Cardinality(Pending(r)) \in Nat
        BY <1>2 DEF Pending
      <4>   QED
        BY <1>1, <1>4, <1>5, <1>7, <2>3, <3>1, <4>2, <4>5, <4>6
    <3>4. CASE Claims(r) \subseteq Pending(r) /\ ~SeatTaken(r)
      <4>1. members'[r] \subseteq members[r]
        BY <2>1, <2>3, <3>4
        DEF RoomMoves, Untouched, SeatLeft, Marked, Completed
      <4>2. /\ Cardinality(members'[r]) \in Nat
            /\ Cardinality(members'[r]) <= Cardinality(members[r])
        BY <1>4, <4>1, FS_Subset, FS_CardinalityType
      <4>3. /\ Cardinality(Claims(r)) \in Nat
            /\ Cardinality(Pending(r)) \in Nat
            /\ Cardinality(Claims(r)) <= Cardinality(Pending(r))
        BY <1>2, <3>4, FS_Subset DEF Pending
      <4>   QED
        BY <1>1, <1>4, <1>5, <1>7, <2>3, <3>1, <4>2, <4>3
    <3>   QED
      BY <3>2, <3>3, <3>4
  <2>4. Exists(r) \/ Opens(r)
    BY <1>8, <2>1
    DEF RoomMoves, Untouched, RowStays, SeatTaken, SeatLeft, Marked, Completed,
        Exists, Pending, CallsMatchTables
  <2>   QED
    BY <2>2, <2>3, <2>4
<1>9. ASSUME NEW g \in Handlers, pc'[g] = "complete_room"
      PROVE  Cardinality(view'[g].seen) <= seats'[req'[g].room] + N - 1
  <2>1. CASE Stays(g)
    BY <1>6, <1>7, <1>9, <2>1 DEF Stays, CallsMatchTables
  <2>2. CASE Advances(g)
    <3>1. /\ pc[g] = "complete_members" /\ req'[g] = req[g]
          /\ view'[g].seen = members[req[g].room]
          /\ req[g].room \in Rooms /\ Exists(req[g].room)
      BY <1>3, <1>9, <2>2 DEF Advances, CallsMatchTables
    <3>2. Cardinality(Pending(req[g].room)) \in Nat
      BY <1>2 DEF Pending
    <3>   QED
      BY <1>1, <1>4, <1>5, <1>7, <3>1, <3>2
  <2>   QED
    BY <1>9, <2>1, <2>2, HandlerStep DEF HandlerMoves, Ends, Begins
<1>   QED
  BY <1>8, <1>9 DEF SeatsAreAccounted, Exists, Pending

-----------------------------------------------------------------------------
\* The invariant holds of the empty tables and idle handlers.
LEMMA InitInv == Init => Inv
<1> SUFFICES ASSUME Init PROVE Inv
  OBVIOUS
<1>1. TypeOK
  BY DEF Init, TypeOK, TablesTypeOK, LocalTypeOK, OutboundTypeOK, Statuses, Fares,
         Requests, Views, Steps, NoRequest, NoView
<1>2. CallsMatchTables /\ CompletionsAreSound /\ CompletedBeforeBilled
  BY DEF Init, CallsMatchTables, CompletionsAreSound, CompletedBeforeBilled
<1>3. RoomsAreSound
  BY FS_EmptySet DEF Init, RoomsAreSound, NoView
<1>4. SeatsAreAccounted
  BY DEF Init, SeatsAreAccounted, Exists
<1>   QED
  BY <1>1, <1>2, <1>3, <1>4 DEF Inv

\* Every step preserves the invariant.
LEMMA InvStep == Inv /\ [Next]_vars => Inv'
<1> SUFFICES ASSUME Inv, [Next]_vars PROVE Inv'
  OBVIOUS
<1> USE DEF Inv
<1>1. TypeOK' /\ CallsMatchTables' /\ RoomsAreSound'
  BY TypeStep, CallsMatchTablesStep, RoomsAreSoundStep
<1>2. CompletionsAreSound' /\ CompletedBeforeBilled'
  BY CompletionsAreSoundStep, CompletedBeforeBilledStep
<1>3. SeatsAreAccounted'
  <2>1. CASE "rows" \in Faults
    BY <2>1 DEF SeatsAreAccounted
  <2>   QED
    BY <2>1, SeatsAreAccountedStep
<1>   QED
  BY <1>1, <1>2, <1>3

\* The inductive invariant holds in every reachable state.
LEMMA InvHolds == Spec => []Inv
BY InitInv, InvStep, PTL DEF Spec

\* The variables keep their types, for any rooms, users and number of handlers
\* and under every kind of fault.
THEOREM TypeCorrect == Spec => []TypeOK
<1>1. Inv => TypeOK
  BY DEF Inv
<1>   QED
  BY <1>1, InvHolds, PTL

\* Nothing is billed or recorded for a ride that has not been given its price,
\* for any number of handlers and under every kind of fault.
THEOREM BillingFollowsCompletion == Spec => []CompletedBeforeBilled
<1>1. Inv => CompletedBeforeBilled
  BY DEF Inv
<1>   QED
  BY <1>1, InvHolds, PTL

\* A room becomes WAITING only when it is opened, and its price is written together
\* with COMPLETED.
ListedWithoutPrice == \A r \in ListAvailableRooms : fare[r].share = 0

LEMMA ListedWithoutPriceHolds == Spec => []ListedWithoutPrice
<1>1. Init => ListedWithoutPrice
  BY DEF Init, ListedWithoutPrice, ListAvailableRooms
<1>2. Inv /\ ListedWithoutPrice /\ [Next]_vars => ListedWithoutPrice'
  <2> SUFFICES ASSUME Inv, ListedWithoutPrice, [Next]_vars,
                      NEW r \in Rooms, status'[r] = "WAITING"
               PROVE  fare'[r].share = 0
    BY DEF ListedWithoutPrice, ListAvailableRooms
  <2>1. RoomMoves(r)
    BY RoomStep DEF Inv
  <2>   QED
    BY <2>1 DEF RoomMoves, Untouched, RowStays, Opens, SeatTaken, SeatLeft, Marked,
                Completed, ListedWithoutPrice, ListAvailableRooms
<1>   QED
  BY <1>1, <1>2, InvHolds, PTL DEF Spec

\* The ride of a listed room is not over and no call is finishing it: whoever bills,
\* charges or saves does so for a room that has its price, and a listed one has none.
THEOREM ListedRidesGoOn == Spec => []ListedRidesAreNotOver
<1>1. Inv /\ ListedWithoutPrice => ListedRidesAreNotOver
  <2> SUFFICES ASSUME Inv, ListedWithoutPrice, NEW r \in ListAvailableRooms
               PROVE  /\ fare[r].share = 0 /\ billed[r] = {} /\ ~saving[r] /\ ~saved[r]
                      /\ \A h \in Handlers : pc[h] = "complete_bill" => req[h].room # r
    BY DEF ListedRidesAreNotOver
  <2>1. r \in Rooms /\ fare[r].share = 0
    BY DEF ListedWithoutPrice, ListAvailableRooms
  <2>2. billed[r] = {} /\ ~saving[r] /\ ~saved[r]
    BY <2>1 DEF Inv, CompletedBeforeBilled
  <2>3. ASSUME NEW h \in Handlers, pc[h] = "complete_bill" PROVE req[h].room # r
    BY <2>1, <2>3 DEF Inv, CompletionsAreSound
  <2>   QED
    BY <2>1, <2>2, <2>3
<1>   QED
  BY <1>1, InvHolds, ListedWithoutPriceHolds, PTL

\* As long as result sets arrive whole, a room holds at most one member more
\* than its seats for each concurrent call but one.
THEOREM OverbookingIsBounded ==
  ASSUME "rows" \notin Faults
  PROVE  Spec => []OverbookingBounded
<1>1. Inv => OverbookingBounded
  <2> SUFFICES ASSUME Inv, NEW r \in Rooms, Exists(r)
               PROVE  Cardinality(members[r]) <= seats[r] + Cardinality(Handlers) - 1
    BY DEF OverbookingBounded
  <2>1. /\ Cardinality(Handlers) \in Nat
        /\ Cardinality(Pending(r)) \in Nat
    BY HandlersAssumption, FS_Subset, FS_CardinalityType DEF Pending
  <2>2. Cardinality(members[r]) \in Nat /\ seats[r] \in Int
    BY FS_CardinalityType DEF Inv, RoomsAreSound, TypeOK, TablesTypeOK
  <2>3. Cardinality(members[r]) + Cardinality(Pending(r))
          <= seats[r] + Cardinality(Handlers) - 1
    BY DEF Inv, SeatsAreAccounted
  <2>   QED
    BY <2>1, <2>2, <2>3
<1>   QED
  BY <1>1, InvHolds, PTL

\* With a single handler the seats are a hard limit.
THEOREM SerialSeatLimit ==
  ASSUME "rows" \notin Faults, Cardinality(Handlers) = 1
  PROVE  Spec => []SeatLimit
<1>1. TypeOK /\ OverbookingBounded => SeatLimit
  <2> SUFFICES ASSUME TypeOK, OverbookingBounded, NEW r \in Rooms, Exists(r)
               PROVE  Cardinality(members[r]) <= seats[r]
    BY DEF SeatLimit
  <2>1. Cardinality(members[r]) <= seats[r] + 1 - 1 /\ seats[r] \in Int
    BY DEF OverbookingBounded, TypeOK, TablesTypeOK
  <2>   QED
    BY <2>1
<1>   QED
  BY <1>1, TypeCorrect, OverbookingIsBounded, PTL

\* A completed ride is divided among at least one passenger and no more than
\* the bound on members.
THEOREM SharesAreWithinRoom ==
  ASSUME "rows" \notin Faults
  PROVE  Spec => []ShareWithinRoom
<1>1. Inv => ShareWithinRoom
  <2> SUFFICES ASSUME Inv, NEW r \in Rooms, status[r] = "COMPLETED"
               PROVE  fare[r].share \in 1 .. (seats[r] + Cardinality(Handlers) - 1)
    BY DEF ShareWithinRoom
  <2>1. fare[r].share \in Nat /\ seats[r] \in Int /\ Cardinality(Handlers) \in Nat
    BY HandlersAssumption, FS_CardinalityType DEF Inv, TypeOK, TablesTypeOK, Fares
  <2>2. /\ fare[r].share > 0
        /\ fare[r].share <= seats[r] + Cardinality(Handlers) - 1
    BY DEF Inv, RoomsAreSound, SeatsAreAccounted, Exists
  <2>   QED
    BY <2>1, <2>2
<1>   QED
  BY <1>1, InvHolds, PTL

-----------------------------------------------------------------------------
(* The refinement: every step is a step of the ledger or leaves it as it is. *)

\* The ledger counts with the same cardinality.
LEMMA LedgerCardinality == \A S : Ledger!Cardinality(S) = Cardinality(S)
BY DEF Ledger!Cardinality, Cardinality

\* Under the invariant every step of the service is a step of the ledger, or
\* leaves the ledger alone.
LEMMA LedgerStep ==
  ASSUME "rows" \notin Faults, Inv, [Next]_vars
  PROVE  [Ledger!Next]_(Ledger!ledger)
<1> DEFINE Same == UNCHANGED <<tables, billed>>
           N == Cardinality(Handlers)
<1>1. Same => UNCHANGED Ledger!ledger
  BY DEF tables, Ledger!ledger
<1>2. N \in Nat
  BY HandlersAssumption, FS_CardinalityType
<1>3. \A r \in Rooms : /\ Cardinality(members[r]) \in Nat
                       /\ Cardinality(Pending(r)) \in Nat
                       /\ seats[r] \in Int
  BY HandlersAssumption, FS_Subset, FS_CardinalityType
  DEF Inv, RoomsAreSound, TypeOK, TablesTypeOK, Pending
<1>4. ASSUME NEW h \in Handlers, CreateRoom(h)
      PROVE  \E r \in Rooms : Ledger!Open(r)
  <2>1. PICK r \in Rooms, n \in SeatCounts :
          n > 0 /\ ~Exists(r) /\ Insert(r, n) /\ UNCHANGED billed
    BY <1>4 DEF CreateRoom, outbound
  <2>2. seats'[r] = n /\ n \in Int
    BY <2>1, NumbersAssumption DEF Insert, Inv, TypeOK, TablesTypeOK
  <2>3. Ledger!Open(r)
    BY <2>1, <2>2 DEF Insert, Exists, Ledger!Open
  <2>   QED
    BY <2>3
<1>5. ASSUME NEW h \in Handlers, CreateMember(h) \/ JoinAdd(h), ~Same
      PROVE  \E r \in Rooms, u \in Users : Ledger!Take(r, u)
  <2> DEFINE r == req[h].room
             u == req[h].user
  <2>1. /\ r \in Rooms /\ u \in Users /\ Exists(r)
        /\ h \in Pending(r)
        /\ AddMember(r, u) /\ UNCHANGED billed
    BY <1>5 DEF CreateMember, JoinAdd, FailUnapplied, outbound, Inv,
                CallsMatchTables, Pending
  <2>2. Cardinality(Pending(r)) # 0
    BY <2>1, HandlersAssumption, FS_Subset, FS_EmptySet DEF Pending
  <2>3. Cardinality(members[r]) + Cardinality(Pending(r)) <= seats[r] + N - 1
    BY <2>1 DEF Inv, SeatsAreAccounted
  <2>4. Cardinality(members[r]) < seats[r] + (N - 1)
    BY <1>2, <1>3, <2>1, <2>2, <2>3
  <2>5. Ledger!Take(r, u)
    BY <2>1, <2>4, LedgerCardinality DEF AddMember, Exists, Ledger!Take
  <2>   QED
    BY <2>1, <2>5
<1>6. ASSUME NEW h \in Handlers, JoinFull(h), ~Same
      PROVE  \E r \in Rooms : Ledger!MarkFull(r)
  <2>1. /\ req[h].room \in Rooms /\ Exists(req[h].room)
        /\ UpdateRoomStatus(req[h].room, "FULL") /\ UNCHANGED billed
    BY <1>6 DEF JoinFull, FailUnapplied, outbound, Inv, CallsMatchTables
  <2>2. Ledger!MarkFull(req[h].room)
    BY <2>1 DEF UpdateRoomStatus, Exists, Ledger!MarkFull
  <2>   QED
    BY <2>1, <2>2
<1>7. ASSUME NEW h \in Handlers, CompleteRoom(h), ~Same
      PROVE  \E r \in Rooms : Ledger!Finish(r)
  <2> DEFINE r == req[h].room
             n == Cardinality(view[h].seen)
  <2>1. /\ r \in Rooms /\ Exists(r) /\ req[h].total \in Int
        /\ SetCompleted(r, req[h].total, n) /\ UNCHANGED billed
    BY <1>7 DEF CompleteRoom, FailUnapplied, Inv, CallsMatchTables, TypeOK,
                LocalTypeOK, Requests
  <2>2. n \in Nat /\ n # 0 /\ n <= seats[r] + N - 1
    BY <1>7, FS_CardinalityType, FS_EmptySet
    DEF CompleteRoom, Inv, RoomsAreSound, CompletionsAreSound, SeatsAreAccounted
  <2>3. n \in 1 .. (seats[r] + (N - 1))
    BY <1>2, <1>3, <2>1, <2>2
  <2>4. fare'[r] = [total |-> req[h].total, share |-> n]
    BY <2>1 DEF SetCompleted, Inv, TypeOK, TablesTypeOK
  <2>5. fare' = [fare EXCEPT ![r] = fare'[r]]
    BY <2>1, <2>4 DEF SetCompleted
  <2>6. fare'[r].total \in Int /\ fare'[r].share \in 1 .. (seats[r] + (N - 1))
    BY <2>1, <2>3, <2>4
  <2>7. Ledger!Finish(r)
    BY <2>1, <2>5, <2>6 DEF SetCompleted, Exists, Ledger!Finish
  <2>   QED
    BY <2>1, <2>7
<1>8. ASSUME NEW h \in Handlers, ProcessPayment(h), ~Same
      PROVE  \E r \in Rooms : Ledger!Charge(r)
  <2>1. req[h].room \in Rooms /\ fare[req[h].room].share > 0
    BY <1>8 DEF ProcessPayment, Inv, CallsMatchTables, CompletionsAreSound
  <2>2. PICK paid \in SUBSET view[h].seen :
          billed' = [billed EXCEPT ![req[h].room] = @ \cup paid]
    BY <1>8 DEF ProcessPayment
  <2>3. paid \in SUBSET Users
    BY DEF Inv, TypeOK, LocalTypeOK, Views
  <2>4. Ledger!Charge(req[h].room)
    BY <1>8, <2>1, <2>2, <2>3 DEF ProcessPayment, tables, Ledger!Charge
  <2>   QED
    BY <2>1, <2>4
<1>9. ASSUME NEW r \in Rooms, NEW u \in Users, ExitRoom(r, u)
      PROVE  Ledger!Leave(r, u)
  BY <1>9 DEF ExitRoom, RemoveMember, outbound, Ledger!Leave
<1>10. ASSUME NEW h \in Handlers,
              \/ JoinRoom(h) \/ CompleteRide(h)
              \/ JoinMembers(h) \/ CompleteMembers(h)
       PROVE  Same
  BY <1>10 DEF JoinRoom, CompleteRide, JoinMembers, CompleteMembers, outbound
<1>11. ASSUME (\E r \in Rooms : SaveRoute(r)) \/ Crash \/ UNCHANGED vars
       PROVE  Same
  BY <1>11 DEF SaveRoute, Crash, vars, outbound
<1>12. CASE Same
  BY <1>1, <1>12
<1>13. CASE ~Same
  <2>1. Ledger!Next
    BY <1>4, <1>5, <1>6, <1>7, <1>8, <1>9, <1>10, <1>11, <1>13
    DEF Next, Call, Continue, Ledger!Next
  <2>   QED
    BY <2>1
<1>   QED
  BY <1>12, <1>13

\* For any number of handlers, whatever fails except a result set that ends
\* early, the service keeps the promises of the ledger.
THEOREM LedgerIsImplemented ==
  ASSUME "rows" \notin Faults
  PROVE  Spec => ImplementsLedger
<1>1. Init => Ledger!Init
  BY DEF Init, Ledger!Init
<1>2. Inv /\ [Next]_vars => [Ledger!Next]_(Ledger!ledger)
  BY LedgerStep
<1>   QED
  BY <1>1, <1>2, InvHolds, PTL DEF Spec, ImplementsLedger, Ledger!Spec
=============================================================================
