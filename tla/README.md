# A verification development for weRide

weRide is a ride-sharing backend in Go: a driver opens a *room*, passengers join
it, and when the driver completes the ride its route is recorded and every
passenger is charged through the YooKassa payment gateway. Three gRPC services
(`room_service`, `payment_service`, `user_service`), each with a PostgreSQL
database of its own, stand behind an HTTP gateway.

The code takes no lock and opens a transaction in one place only
(`user_service`'s `SaveRoute`). Everything else is a sequence of single SQL
statements and remote calls, and what is hard about the system is what happens
*between* them. That is what the modules here are about.

Paths below are relative to the repository; `S/` stands for
`src/internal/services/`.

## 1. Inventory

| component | state | operations that change it | interacts with |
|---|---|---|---|
| `room_service` (`S/room_service/internal`) | tables `rooms`, `room_members` | `CreateRoom`, `JoinRoom`, `ExitRoom`, `CompleteRide`, the `saveRoute` goroutine | calls `payment_service.ProcessPayment` synchronously and `user_service.SaveRoute` in the background |
| `payment_service` (`S/payment_service/internal`) | table `payments` | `ProcessPayment`, `RefundPayment` | calls the gateway through `yookassa/client.go` |
| YooKassa (external) | payments and refunds by idempotency key | `CreatePayment`, `CreateRefund`, the passenger's confirmation | answers, or fails with or without effect |
| `user_service` (`S/user_service/internal`) | tables `users`, `routes`, `room_passengers` | `Register`, `SaveRoute` (a transaction) | called by `room_service` and the gateway |
| API gateway (`src/api`) | the requests under way | twelve routes, the JWT middleware, shutdown | one gRPC call for each request |
| tokens (`S/user_service/internal/jwt`, the gateway's middleware) | the tokens clients hold | `Login` makes one, the gateway checks it | agree on `JWT_SECRET` |
| the processes of the three services (`cmd/main.go`, `database`, `db/postgres`) | `schema_migrations`, the pool, the handlers that run | start, migrations, serving, graceful stop | PostgreSQL; the restart policy of docker compose |
| configuration, logging, generated messages, `S/room_service/transport` | none at run time | none | |

Read-only operations: `FindRoom`, `GetRoomDetails`, `GetPaymentHistory`,
`HistoryOfRoutes`, `Login`. `StreamRoomUpdates` answers `Unimplemented`.

What makes each component correct:

* **room_service**: a room holds no more members than seats; what is full,
  listed or completed is so in every table row that says so; a ride is completed
  once, divided among the people who were there, billed once and recorded once,
  and not billed unless it is completed.
* **payment_service**: nobody is charged twice for a ride; the table records
  what happened at the gateway; `Success` means that all users were dealt with;
  a refund reaches everybody and is not undone.
* **the three together**: who is charged for a ride, and how much, who finds it in
  the history, and what the room's row says of it belong together.
* **the gateway**: an answer says what happened; nothing is run twice; a service
  acts for the user of the token; every request is answered.
* **the processes**: a handler only runs on a complete schema and an open pool; a
  stop loses no call; what can start serves again.
* **user_service**: an e-mail address belongs to one account; a room has one
  route, saved with its passengers or not at all.

What is hard: unsynchronised read-then-write sequences, several statements
without a transaction, errors and stops half way, calls whose effect and answer
come apart, retries, stale lists, result sets that break off. `PROJECT.json`
lists each place under `hazards`.

Two facts about this commit shape the models:

* `CompleteRide` and `saveRoute` in `S/room_service/internal/service/service.go`
  hold both sides of an unresolved merge (lines 170-190 and 215-256), and the
  file does not parse. Both sides do the same: `SaveRoute` in a goroutine with
  `context.Background()` and a discarded error, and then a synchronous
  `ProcessPayment` with the caller's context. The model is of that common
  behaviour, which the package's tests assume too.
* `S/room_service/pb/complete_ride_grpc.go` registers a service description
  under a name that is already taken, which gRPC refuses at startup; and the images
  of the Dockerfiles do not hold the migrations where the binaries look for
  them (`S/room_service/database/migrate.go:17`). As built, then, the services do
  not come up, where `src/README.md:30-33` says that the API is available after
  `docker compose up`. `ServiceProcess` has both as constants (`Extended`,
  `Bundled`); the models of the handlers are as if they were reachable.

## 2. Modules

| module | what it is |
|---|---|
| `RoomService` | `room_service`, one action per SQL statement or remote call |
| `RoomLedger` | what the rooms tables promise, with no handlers and no failures |
| `PaymentService` | `payment_service` with the YooKassa gateway |
| `PaymentLedger` | what a passenger is promised: what becomes of the money, and that records are true |
| `UserService` | `user_service`: accounts, and the transaction that saves a route |
| `FareSplit` | the division of a price into rounded shares |
| `RideSystem` | the three services composed, with amounts (`INSTANCE` of the three, `EXTENDS FareSplit`) |
| `ServiceProcess` | the processes of the services from start to stop |
| `ApiGateway` | the HTTP gateway in front of the processes (`INSTANCE ServiceProcess`) |
| `MC...` | small sets and symmetry for TLC, one for each module that is run |
| `...Proofs` | theorems about `RoomService`, `PaymentService`, `UserService`, `FareSplit`, `RideSystem`, `ServiceProcess`, `ApiGateway`; `PaymentLedgerProofs` is the refinement of `PaymentLedger` |

The `.cfg` files are named after their runs.

### RoomService

| variable | in the code |
|---|---|
| `status`, `seats`, `fare` | `rooms.status`, `available_seats`, and `total_price` with `cost_per_member`; the latter is kept as the number of shares the price was divided into |
| `members` | `room_members` (its primary key makes it a set) |
| `pc`, `req`, `view` | for each call in flight, the statement it issues next, its request, and what it has read (seats, member ids) |
| `saving` | whether a `saveRoute` goroutine of the room runs |
| `billed`, `saved` | the effects outside: the users charged, the route recorded |

`Insert`, `AddMember`, `RemoveMember`, `UpdateRoomStatus`, `SetCompleted`,
`GetRoomMembers` and `ListAvailableRooms` are the methods of the repository.
The actions of a handler carry its name and that of the statement:
`JoinRoom` reads the room, `JoinMembers` the members, and then `JoinFull` or
`JoinAdd` writes. A call is merged with its first statement, as before it a
handler only validates the request; a call that is turned away without a trace
(validation, no such room, a failed first read) is no step at all. `ExitRoom`
is one statement and therefore one action.

Faults are a constant, and a run or a theorem says which it allows:

* `"statement"`: a statement reports an error, having been applied or not (a
  cancelled context or a lost connection can do either). A statement that
  reported an error is not applied later.
* `"rows"`: a result set breaks off. `rows.Err()` is not consulted, so the
  handler goes on with the part it got.
* `"rpc"`: a call to another service fails. `ProcessPayment` may then have
  charged some of the users.
* `"crash"`: the process stops, with handlers and goroutines, and is started
  again on what the database holds (`restart: unless-stopped` in
  `src/docker/docker-compose.yaml`).

Abstractions: users, rooms and prices are small sets; locations, times and
addresses are left out (nothing depends on them); `ProcessPayment` is one step
here and is taken apart in `PaymentService`; goroutines saving the same room are
one flag, since routes are unique by room and it makes no difference which of
them gets there first.

### RoomLedger

The promise: rooms open once with a positive number of seats; users take seats
while fewer than `seats + Slack` are taken; a ride is completed with a price
divided by a number of shares between one and `seats + Slack`; users are charged
only for a ride with a price. `RoomService` implements it with
`Slack = Cardinality(Handlers) - 1` and the variables of the same names
(`Ledger == INSTANCE RoomLedger WITH ...`). The ledger does not promise that a
completed room stays completed: the code does not keep that (below).

### PaymentService

| variable | in the code |
|---|---|
| `client` | the gateway client given to `New`: with credentials, the nil pointer `main.go` passes without them, or the nil interface the tests pass |
| `rows` | `payments`; `paid` stands for `yookassa_payment_id`, as the idempotency key the gateway keeps that payment under |
| `charges`, `refunds` | what the gateway has done |
| `pc`, `call`, `todo`, `result` | for each call in flight, its place in the loop, its request, the elements left, the outcome of the last gateway call |
| `nextId` | the ids `uuid.New` returns |

`Charge`/`SavePayment` are the two halves of `ProcessPayment`'s loop and
`Refund`/`SaveRefund` those of `RefundPayment`'s; `Answer` is the response with
`Success: true`. The gateway is modelled from the way `client.go` uses it: it
answers a repeated idempotency key with the payment it made before
(`CreatePayment`), and lets a passenger confirm or abandon a pending payment
(`Confirm`). A succeeded payment is refunded in full, and again only if the refund
before was canceled (`CreateRefund`). A refund has a status of its own, like a
payment (`RefundResponse` in `client.go:77-83`): it may be pending or canceled in a
200 as well, and a pending one is settled later (`SettleRefund`). The code discards
that response (`service.go:159`), so that `refunded` in the table says that the
gateway has accepted a refund, and not that the money is back.

Its faults are `"gateway"` (a call fails, with or without effect), `"replay"` (a key
seen before is rejected, as the metadata of the request differ) and `"refund"` (a
refund it had accepted as pending is canceled after all); `"statement"`, `"rows"` and
`"crash"` are as above. Two things are assumed of keys: the gateway remembers them for
ever, with what it first made under them; and `room-user`, which the code makes of
two strings, is different for different pairs, as it is for UUIDs (it is not for
any two strings: `a-b` and `c`, `a` and `b-c`).

A restart looks at the credentials again.
Through the nil pointer the call is a nil dereference, nothing recovers from the
panic, and the process is started again. `GetPaymentsByRoom` returns places in the
table and not rows, so that the list of a refund is stated as an order on them
(`NewestFirst`) and not computed by a recursion, which a proof could not open.

### PaymentLedger

The promise to a payer (a room and a user): the account is charged once, in
whatever state that payment ends; an open payment is made or canceled; only what
was made is given back, and again only if the refund before came to nothing. A record
is true of the account when it is written, and from then on, where `refunded` is true
once a refund has been made, whatever became of it; only a record of a payment that was made is ever
changed, to the outcome of its refund. `PaymentService` implements it as long as it
is not in mock mode, in which records are of no payment: `account` is read off
`charges` and `refunds`, and `claims` off `rows`. What it does not promise is as
telling: a record of a pending payment stays pending, since nothing asks the gateway
again, and a payer whose payment was canceled is not charged anew, as long as the
gateway remembers the key.

### UserService

| variable | in the code |
|---|---|
| `accounts` | `users`: the password of an address |
| `routes`, `passengers` | the committed rows of `routes` (unique by room) and `room_passengers` |
| `pending` | the rows of `routes` that a transaction has inserted and not committed |
| `pc`, `id`, `todo` | for each `SaveRoute` in flight, its next statement, the `route_id` it has drawn, the passengers left to insert |
| `asked` | the requests so far; a `route_id` is a position in it |
| `told`, `answered` | what callers were told: registrations and saves that succeeded |

`InsertRoute`, `InsertPassenger` and `Commit` are the statements of the
transaction. An insert for a room that has a route does nothing (`ON CONFLICT
(room_id) DO NOTHING`), one for a room with an uncommitted route waits for it, and
a passenger of a route that was not inserted violates the foreign key and ends
the transaction. `Fail` is an error of any statement; both end in the deferred
`Rollback`. `Register` is one statement; a taken address leaves no trace.

### RideSystem

One behaviour of the three modules together. `status`, `seats`, `fare`, `members`,
`pc`, `req`, `view` are those of `RoomService`; `client`, `rows`, `charges`,
`refunds`, `nextId`, `named` and the variables with `pay` are those of
`PaymentService`; the others up to `answered` those of `UserService`. New are: `sent`,
the `AmountPerUser` in the `ProcessPayment` call a handler waits for or a client has
made; `charged`, the amount of a payment at the gateway; `outside`, the payments a
client's call has created and not a ride; `direct`, the calls of clients; and `prices`,
the `total_price` of each completion. What `RoomService` keeps of the outside
(`billed`, `saving`, `saved`) is *derived* here, from the payments at the gateway,
the `SaveRoute` calls in flight and the routes in the database, so that its own
actions say the same as in their module and have to fit what the others do.

| action | is |
|---|---|
| `OfRoom`, `ExitRoom`, `CompleteRide`, `OfPayment`, `OfUser` | a step of one service |
| `CompleteRoom` | the update of the room and the arrival of the goroutine's `SaveRoute`, with the members the handler read |
| `Bill`, `Billed` | the arrival of the `ProcessPayment` call with those members and their share; its end and the handler's answer |
| `DirectPayment` | a client's `POST /payments/process`, for any room, any users and any amount, with or without a ride |
| `Charge` | a charge at the gateway, with its amount if the key is new |

`Handlers` are the calls in flight in each service; `Callers` are the direct calls of
`ProcessPayment` in flight beside them, which go through the same loop. The comment on
the route has it called after a completed ride (`src/api/internal/handlers/user.go:160`);
nothing checks that, and neither does the model: it may come before the room has a
ride, name users who were never in it, and be faster than the ride's own bill. The key
is the same then, so that the ride does not charge that user again, and the payment keeps
the amount of the direct call.

Abstractions: calls do not fail and nothing crashes (the three modules have the
failures); the arrival of `SaveRoute` is one step with the statement that precedes
the goroutine; nobody confirms payments and nobody asks for refunds: the direct
`RefundPayment` of a client is in `PaymentService` only.

### FareSplit

Prices are in kopecks. A share is a whole number of kopecks nearest to
`price / n` (`IsShare`); `"%.2f"` of a `float32` and `NUMERIC(10,2)` both give
such a number and differ on ties only, as long as the `float32` is precise enough:
for prices below 8000 roubles and up to ten passengers. What a `float32` does
beyond that is not modelled.

### ServiceProcess

| variable | in the code |
|---|---|
| `db` | whether PostgreSQL accepts connections |
| `schema`, `applied` | `schema_migrations` of each database (version, dirty), and the scripts that have run to their end |
| `phase` | the step of `main` each process is at |
| `pool`, `signalled` | the connection pool; whether the context of `main` is cancelled |
| `running`, `answered` | the calls whose handler runs, the calls answered |
| `faults`, `kills` | how often the bounded faults have happened |

`UserMain`, `RoomMain` and `PaymentMain` are the orders of the three `main`
functions: `user_service` migrates after its pool is open, the others before.
`MarkDirty` and `RunScript` are the two halves of a migration as golang-migrate
runs it (external: modelled from what `Up` is used for); the end of a script and the
mark that the version is clean are one step, as a process that ends between the two
leaves what one that ends within the script does, a version every later start
refuses; `MigrateFatal`, `Connect`
and `Listen` end the process where the code calls `Fatal` (`os.Exit(1)`, which
skips deferred calls); `Start` is `restart: unless-stopped`. `GracefulStop` and
`Drained` are the two halves of `grpcServer.GracefulStop()`. `Kill`, `Outage` and
`Signal` may come at any step. The `saveRoute` goroutines are not calls and are
not waited for; a stop with one running is a crash in `RoomService`.

### ApiGateway

| variable | in the code |
|---|---|
| `pc`, `req`, `code` | a request on its way: its method, token and body, and the status of its answer |
| `rpc` | the message its handler sends: service, method, user |
| `runs`, `done` | how often a service has begun to run it, and has done its work |
| `issued` | the token a `Login` has made: user, expiry, secret |
| `clock` | the time tokens expire by |

and the variables of `ServiceProcess`, in the states in which every start is over
(`P!Serving`). Each handler of `handlers/user.go` is an operator from a request to
a message (`Register` ... `GetPaymentHistory`); `JWT` is the middleware and, if it
lets the request pass, `Handle`; `CallUser`, `CallRoom` and `CallPayment` are the
wrappers of `src/api/internal/clients` around the generated clients: the method
has to be in the service description, the message encodable and the service
serving. `Execute` and `Return` are the handler in the service, `ConnectionLost`
what its client sees when the service ends, `Reply` the status the gateway
answers. `Disconnect` is a client that goes away, and `Shutdown` the gateway's
own: it closes the listener, `Start` returns `ErrServerClosed`, and the goroutine
answers that with `Fatal`. What a body contains is reduced to whether it can be
bound, whether its required parts are there, and which user it names.

## 3. Properties and runs

Passing runs:

| run | constants | shows |
|---|---|---|
| `RoomConcurrent` | one room, 3 users, 2 handlers, seats 0-2, prices 0 and 6, faults `statement`, `rpc`, `crash` | `TypeOK`; `OverbookingBounded`: never more than one seat oversold per concurrent call but one; `ShareWithinRoom`: no division by zero and no price divided among more people than can have been there; `CompletedBeforeBilled`; `ListedRidesAreNotOver`: the ride of a room `FindRoom` lists has no price, is not being billed, and is neither charged for nor saved; `ImplementsLedger` |
| `RoomLive` | one room, 2 users, 2 handlers, fault `rows`, fairness | `CompletedRideIsBilled`, `CompletedRideIsSaved` |
| `PaymentConcurrent` | one room, 2 users, 2 handlers, 3 users named in requests, every fault but `rows`, with and without credentials | `TypeOK`; `NoDoubleCharge`; `RecordsAreTrue`; `SuccessIsRecorded`; `ImplementsLedger`: nobody is charged or given back money twice, and no record is written that is not true of its payer |
| `PaymentRefunds` | the same with duplicate users in a request, the mock, faults `statement`, `rows` and `crash` | `RefundedIsFinal` |
| `UserSaves` | 2 rooms, 2 users, 2 handlers, 3 saves, every fault, fairness | `TypeOK`; `RouteIsWhole`; `AnsweredIsSaved`; `CredentialsWork`; `SavesEnd` |
| `RideEndToEnd` | one room of 2 seats, 2 users, 2 handlers in each service, one client, prices 0 and 1.01, direct amount 0.30, 2 completions or direct calls together | `PriceIsCharged`: after the one completion of a ride all its riders have been charged, by the ride everybody the same share and nobody else, and if no direct call was faster it adds up to the price but for the rounding; `RidersAreCharged`: in the end exactly the members of the paid completions and those whom direct calls named; `AmountsAreAsked`: no payment has an amount that nobody asked of that user for that room; `RideIsInHistory`: and the ride is in the history of the members of one completion; `ImplementsLedger`, with the payments made for the ride for the ledger's charges |
| `ServicesRun` | the 3 services, 2 calls, 3 faults of every kind, fairness | `TypeOK`; `HandlersAreBacked`; `StopsLoseNoCall`; `ServesAgain` |
| `GatewayRequests` | 2 requests of any kind, 2 users, one kill, one tick, fairness | `TypeOK`; `OkIsDone`; `RefusedIsUntouched`; `ActsForCaller` (of every call but `ProcessPayment` and `RefundPayment`, which act for whom their bodies name, whoever asks); `RunsOnce`; `TokensAreAccepted`; `EveryRequestIsAnswered` |

Runs that find the code at odds with what it says of itself (`findings` in
`PROJECT.json` quotes the lines):

| run | property | what happens |
|---|---|---|
| `RoomOverbooked` | `SeatLimit` | two concurrent calls take the last seat |
| `RoomBilledTwice` | `RideBilledOnce` | one call at a time: a refused join turns `COMPLETED` into `FULL`, and the ride is completed and billed again |
| `PaymentPending` | `RefundReachesEveryone` | a payment recorded as pending is not refunded |
| `RideCompletion` | `RidesCanBeCompleted` | with everything serving, `POST /rooms/:id/complete` is answered 500: its message is a plain struct and its method is not in the service description |

The two lists belong together. `SeatLimit` fails with two handlers, and
`OverbookingBounded` (with one handler the same property, and proved) shows
how far the race can go. `RideBilledOnce` fails, and `NoDoubleCharge` shows why
passengers are not charged twice all the same: the idempotency key is made of
the room and the user only. The same second completion saves the route again,
and `AnsweredIsSaved` shows that it is the foreign key that keeps
`user_service` from answering with a route that does not exist.

`RidersAreCharged` and `RideIsInHistory` say what a second completion with other
members comes to: the passengers of both are charged, once each, and the history
is that of one of them, of whichever goroutine came first. The price in the
room's row is then that of the later completion; `PriceIsCharged` is
therefore stated for rides completed once.

`POST /payments/process` is open to every client that is logged in, so that of the
payments of a room not all are of its rides. `RidersAreCharged` therefore counts those
whom direct calls named, and `PriceIsCharged` promises the sum only for a ride none of
whose riders had been charged directly before. What remains in every case is
`AmountsAreAsked`.

No property says that the money of a `refunded` payment is back; as the status of the
refund is not looked at, none could. `RefundedIsFinal` leaves out refunds that are
canceled after they were accepted, and failing calls of the gateway: with either, one
of two concurrent refunds of a payment can fail and be recorded after, and over, the
`refunded` of the other.

Other consequences of the same mechanisms: a room that was `FULL` is not listed
again when somebody leaves; a passenger who joins after the completion is not
charged; a stop before `ProcessPayment` leaves a ride that nothing bills; without
credentials the gateway client is a nil pointer and not the mock mode of
`src/README.md:29` (`S/payment_service/cmd/main.go:49`), and the process ends at
the first charge; a failed `SaveRoute` is never repeated (with the fault `rpc` added,
`CompletedRideIsSaved` does not hold); a failed refund is recorded as
`refund_failed` and skipped ever after, with `Success`, and one that the gateway
answers as pending or canceled is recorded as `refunded`; a member list that breaks off lets
`JoinRoom` oversell a room without any concurrency, which is why the theorems
on seats assume that it does not.

Each property of a passing run comes with a mutated definition (the operators
commented *Mutation*, next to the definitions they change), under which TLC
finds the property violated; they are listed under `mutants`.

### Bounds

The number of handlers is the number of calls in flight at once, not of calls:
in `RoomService` handlers are reused without limit, every behaviour runs on for
ever and the state space is finite by itself. Two handlers are enough for every
pairwise race; that more of them only add to the bound on seats is proved. Three
users fill a room of two seats and oversell it by one. Seat counts include 0,
which `CreateRoom` must refuse, and prices include 0, which completes a ride and
then fails to bill. In `PaymentService` `rows` grows with each call, so that
`MaxNamed` bounds the users named by the `ProcessPayment` calls of a behaviour: three
are a call for two users and one that repeats one of them, or three calls for the same
user (concurrent, or one after the other with a restart in between); a key collision
takes two. `RefundPayment` calls are unbounded. `PaymentConcurrent` leaves out result
sets that break off, which only `RefundPayment` reads and `PaymentRefunds` has. Symmetry
is used in runs of safety properties only.

In `RideSystem` `MaxCalls` bounds the completions and direct payments together: two
are a ride completed by two calls at once or again after passengers have come and gone,
a ride and a direct call that race for the same payments, or two direct calls. `MaxNamed`
is four there, two calls for two users, and never stops one. The direct amount 0.30 is
no share of the price, so that the two kinds of payment are told apart. The run has a
`VIEW`: without refunds the payments table, its ids and the bound on users are only
written, no step of the composition reads them and no property speaks of them (how the
table and the gateway belong together is the subject of `PaymentService`), so that
states that differ in them only are taken for one. The price 1.01
divided by two is a tie, which rounds either way. Members are read in a fixed order:
in another order the same payments are made in another order.

In `ServiceProcess` the faults of a behaviour are bounded by `MaxFaults`: three are
a signal, a kill and an outage on top of each other. A repeated kind of fault
beyond that finds a process in a state it has been in before. In `ApiGateway` two
requests are a login and one that uses its token, or two that fall into the same
stop; one kill ends any service at any step, and one tick makes a token expire.

In `UserService` `MaxSaves` bounds the `SaveRoute` calls: three are a save, a
concurrent one of the same room, and a repeated one.

### Fairness

`FairSpec` asks that a call in flight goes on (`WF_vars(Continue(h))`), as a
goroutine the Go runtime schedules does when the statement or call it waits for
returns, and that a `saveRoute` goroutine does. In `ServiceProcess` it asks that processes go on and are restarted, that
handlers return and that an outage ends, and in `ApiGateway` that the gateway goes
on with a request (gRPC fails a call of a lost connection by itself) and that
handlers of the services return. `RideSystem` states what holds when nothing is under
way, without fairness. It does not ask that calls
arrive, that they are retried, that passengers confirm, or that faults happen
or stop. Weak fairness of an insert that waits for another transaction is enough
in `UserService` since the saves are bounded; without the bound PostgreSQL's lock
queue, which serves waiters in order, would have to be modelled.

## 4. Proofs

`RoomServiceProofs` proves, for any sets of rooms and users and any finite set
of handlers, using the named assumptions of `RoomService` and no others:

| theorem | statement | assumes |
|---|---|---|
| `TypeCorrect` | `Spec => []TypeOK` | any faults |
| `BillingFollowsCompletion` | `Spec => []CompletedBeforeBilled` | any faults |
| `ListedRidesGoOn` | `Spec => []ListedRidesAreNotOver` | any faults |
| `OverbookingIsBounded` | `Spec => []OverbookingBounded` | no broken result sets |
| `SerialSeatLimit` | `Spec => []SeatLimit` | no broken result sets, one handler |
| `SharesAreWithinRoom` | `Spec => []ShareWithinRoom` | no broken result sets |
| `LedgerIsImplemented` | `Spec => ImplementsLedger` | no broken result sets |

The last four cannot do without their assumptions: `RoomOverbooked` is a
counterexample with two handlers, and with the fault `rows` every join may see
an empty room.

`PaymentServiceProofs` and `PaymentLedgerProofs` prove, for any sets, lists of any
length, and every fault but what the last column excludes:

| theorem | statement | assumes |
|---|---|---|
| `NobodyIsChargedTwice` | `Spec => []NoDoubleCharge` | |
| `SuccessMeansRecorded` | `Spec => []SuccessIsRecorded` | |
| `TypeCorrect` | `Spec => []TypeOK` | |
| `TableIsTrue` | `Spec => []RecordsAreTrue` | no mock mode |
| `RefundsAreFinal` | `Spec => RefundedIsFinal` | no failures of the gateway, no refund canceled later |
| `LedgerIsImplemented` | `Spec => ImplementsLedger` | no mock mode |

`main.go` never passes the nil interface that is the mock mode. In it a refund is
recorded that the gateway has not made, also of a payment it has, so that
`TableIsTrue` and the ledger cannot do without the assumption. `RefundsAreFinal`
allows restarts with and without a gateway in any order. With failures of the gateway
it does not hold: a refund whose call is lost after another handler's has gone through
is recorded as `refund_failed`. `TableIsTrue` and the ledger say of `refunded` that the
gateway has accepted a refund of that payment.

The argument for the payments. The gateway refuses a second payment for a key, and
not for a room and user, so the inductive invariant (`KeysIdentify`) adds that
the key of a payment is that of its room and user. `RecordInv`
says of every call in flight that each of its users is on record or still on its
list; other handlers only add rows or change a status to one of a refund
(`RowsKept`), so that one lemma (`OneHandler`) covers them all. `TruthInv` says
what a handler carries over from a gateway call to the statement that records it:
that the charge or refund has happened (`HandlerTrue`), and that an id is of one
row or of one handler about to insert it (`IdsUnique`), so that an update by id means
the row that was read. Nothing at the gateway is undone (`GatewayKept`), so what one
handler knows outlives the steps of the others. In a process that may be given no gateway
(`Mocking`) the identities stay, and the claims about the gateway lapse. For
`RefundsAreFinal` the point is that a refund can only fail because the key has been
refunded for another row, or because the row is the mock's and the gateway has never
had it (`HandlerFinal`). A row that was read as succeeded and says refunded by now has
got there in this very process, so that the gateway has refunded it under its own id
(`Fresh`), which excludes both. For the ledger every
action moves the money of one payer (`MoneyStep`) or changes the records of one
(`RecordStep`).

`UserServiceProofs` proves, for any sets and under every fault:

| theorem | statement |
|---|---|
| `TypeCorrect` | `Spec => []TypeOK` |
| `RoutesAreWhole` | `Spec => []RouteIsWhole` |
| `AnswersAreKept` | `Spec => []AnsweredIsSaved` |
| `AccountsAreKept` | `Spec => []CredentialsWork` |
| `NoRideIsLost` | without faults, `Spec => []RequestsComeThrough`: the ride of every request is in the history, or a call in flight is about to put it there |

`ServiceProcessProofs` proves, for any calls, faults and bound, and whichever
services can start, `TypeCorrect == Spec => []TypeOK`,
`HandlersHaveTheirDatabase == Spec => []HandlersAreBacked` and
`NoCallIsLost == Spec => StopsLoseNoCall`. `ApiGatewayProofs` proves, for any number
of requests and whatever happens to the processes,
`TypeCorrect`, `EveryRequestRunsOnce == Spec => []RunsOnce`,
`OkMeansDone == Spec => []OkIsDone`, `RefusalReachesNobody == Spec =>
[]RefusedIsUntouched`, `ServicesActForCaller == Spec => []ActsForCaller` and, assuming
that `JWT_SECRET` is set, `TokensLast == Spec => []TokensAreAccepted`.

`FareSplitProofs` proves of the rounded shares, for every price and number of
passengers: `RoundingsAgree` (the amount sent and the amount on record differ by
one kopeck at most), `EveryPriceHasAShare` (there is a share between nothing and the
price, which a definition by "nearest" does not say by itself), `CompanyIsNotDearer`
(more passengers never make a share larger, though both may be ties that are rounded
differently) and `EqualSharesAddUp` (what all of them pay
adds up to the price, to half a kopeck for each). The last one is about
`MapThenSumSet` over a set of any finite size. The provers have no induction over
data; `TotalOfEqualShares` makes do with the least element of a set of natural
numbers (`Minimum`): a smallest subset on which the recursive sum came to something
else could neither be empty nor have an element to take away.

`RideSystemProofs` proves of the three services together, for any rooms, any finite
set of users, any orders of reading the members, prices that are whole numbers of
kopecks, direct calls of any amount, and any finite number of calls in flight:

| theorem | statement |
|---|---|
| `ServicesAreThemselves` | the composition implements the specification of each of the three services |
| `EverybodyIsCharged` | `Spec => []RidersAreCharged` |
| `EveryRideIsInHistory` | `Spec => []RideIsInHistory` |
| `PriceIsPaid` | `Spec => []PriceIsCharged` |
| `NoOtherAmount` | `Spec => []AmountsAreAsked` |
| `LedgerIsImplemented` | `Spec => ImplementsLedger` |

`RideSystem` has no faults, and neither have these theorems. They rest on its named
assumptions; that `Nil` is no room or user and that users are finitely many is what
the request of an idle handler and the sum over the users ask for.

The argument for the rooms. `OverbookingBounded` is not inductive: a state within
the bound
may have handlers that are past their check and about to insert. The inductive
invariant `Inv` therefore counts them as well (`SeatsAreAccounted`): members and
*pending* calls together stay within `seats + Cardinality(Handlers) - 1`. A
call becomes pending only if it has seen fewer members than seats, so there are
at most `seats - 1` members at that moment, and at most `Cardinality(Handlers)`
pending calls; every other step trades a pending call for a member or reduces
one of the two. The other parts of `Inv` say what a handler may rely on when it
resumes: its request is of an existing room and the seats it read are still the
room's (`CallsMatchTables`), rooms without a row have no members and completed
ones have a price (`RoomsAreSound`), the list a completing call divides by is
not empty and the room it bills has its price (`CompletionsAreSound`).

The proof does not go through the actions for each part again. `TypeStep`,
`HandlerStep`, `RoomStep` and `OutboundStep` say once what any action can do to
the types, to one handler, to one room, and to the effects outside; one lemma
for each part of `Inv` then splits on those few cases; `InvStep` puts them
together. `LedgerStep` maps each action to a step of the ledger or a stutter.

The argument for the users. That a route is whole is not inductive either: it
has to be known that no call in flight can still touch a committed route. `Inv`
of `UserService` says that calls in flight have ids of their own
(`CallsAreDistinct`), that an uncommitted route belongs to a call for its room and
that room has no other (`PendingIsOwned`), and that committed ids and their
passengers belong to no call in flight (`CommittedIsDone`). A repeated save draws a
fresh id; either its insert goes through, or the foreign key stops it at its first
passenger, before it can answer: the request is never empty, and that is where
the proof uses it.

The argument for the processes. `PhaseInv` says which steps lie behind a process at
each step of its `main`, and `SchemaInv` that a clean version stands for scripts
that have run, so that a process past its migrations has a complete schema however
often earlier ones were cut off. The argument for the gateway: `Progress` ties the
place of a request to how often it has run, and `Calling` says that nothing runs
that was not called; whatever the processes do only takes calls away
(`ProcessesShrink`). For tokens `TInv` adds that what was sent to a service is
the message of a request that passed the middleware (`Passed`), that a token is of
the user of a login that ran (`Signed`), and that clients send tokens of answered
logins only (`Carried`).

The argument for the three services together. Each step of the composition is a step
of one or two services and leaves the others alone, so that each service keeps its own
specification and its theorems can be taken over (`UserP`, `PayP`, `RoomP`). For the
room service the view is coarser than in `RideSystem`: `RoomP` keeps that a route has
been asked for and nothing of what comes of it, or of the bill, so that the steps of the others
are stutters for it. What is left is what the services know of each other:

* `CallIsOwn`: the `ProcessPayment` call in flight is that of the handler that waits
  for it, about the room it has completed and members it has read; `DirectIsOwn`: that
  of a client is one of `direct`, with its amount;
* `EverybodyPays`: whoever took part in a completion with a price or was named by a
  direct call has been charged, or is *owed for* by a call that has not begun or has
  the user ahead of it (`Owes`); when everything is over nobody is owed for.
  `AmountsAreAsked` is the converse, with the amounts;
* `FareIsOfCompletion`: the room's row has the price of one of its completions;
* `AmountsInv`: what is marked as `outside` has been charged, and (`OneAmount`) a ride
  that has been completed once is billed by one handler, so that all whom the ride has
  charged pay the amount it has sent. `PriceIsPaid` then counts the riders and takes
  the sum, where the ride has charged all of them, from `EqualSharesAddUp`.

`BetweenInv` is their conjunction; no part is inductive without `CallIsOwn`.
For `EveryRideIsInHistory` the user service contributes that the insert of a repeated
completion only does nothing when another route of the room is committed
(`NoRideIsLost`). The refinement of the ledger goes over the actions twice: a step of
the room service is a step of the ledger whatever becomes of the bill (`TablesStep`),
and a charge at the gateway is the ledger's `Charge` if a ride has sent it, since its
handler has completed the room, and a stutter if a client has (`GatewayStep`).

Only model-checked is liveness, which is out of the prover's reach: `RoomLive`,
`SavesEnd`, `ServesAgain` and `EveryRequestIsAnswered`. Every safety invariant and
action property of a passing run is stated by a theorem.

## 5. Not modelled

* `float32` arithmetic outside the range in which it does not matter (see
  `FareSplit`).
* Configuration beyond `JWT_SECRET` and the gateway's credentials: addresses and
  ports. Deployment beyond the restart policy and what the images contain.
* Logging: the interceptor passes every call on.
* The generated messages (`*.pb.go` without the service descriptions): accessors.
* `S/room_service/transport`: a server whose methods return nothing, and a
  router for it, which no program uses.
* The contents of requests that play no part in the state: locations, times,
  descriptions, names.

## 6. Plan

Done: rooms with their ledger and its proof; payments with theirs; users and
routes with their proofs; the division of a price; the three services composed,
with the proofs; the processes; the gateway. Left, in this order:

1. Failures and refunds in `RideSystem`, as far as its state space allows, and which
   of its theorems then remain.
2. The mock mode in `PaymentLedger`: a ledger of what the records say when there is
   no gateway to compare them with.
