--------------------------- MODULE PaymentService ---------------------------
(***************************************************************************)
(* The payment service: the payments table, the handlers of ProcessPayment *)
(* and RefundPayment, and, modelled from the way client.go uses it, the    *)
(* YooKassa gateway.  A handler works through a list, and for each element *)
(* first calls the gateway and then issues one SQL statement; other        *)
(* handlers may run, and the process may stop, between any two of these.   *)
(*                                                                         *)
(* A request that validation turns away (no room, no users, an amount that *)
(* is not positive) leaves no trace and is not modelled.  Amounts are not  *)
(* either: all payments of a call have the same one.                       *)
(***************************************************************************)
EXTENDS Naturals, Sequences, FiniteSets

CONSTANTS
  Rooms,      \* room_id of a request
  Users,
  UserLists,  \* user_ids of a ProcessPayment request
  Handlers,   \* calls in flight at once
  Clients,    \* what New may be given for the gateway client at a start
  Faults,     \* the kinds of failure that may happen
  MaxNamed    \* bound: users named by the ProcessPayment requests of a behaviour

\* "statement": an SQL statement reports an error, applied or not; "gateway":
\* a call to the gateway fails, with or without effect; "replay": the gateway
\* rejects the key of a payment it has seen; "refund": a refund it had accepted is
\* canceled after all; "rows": a result set ends early; "crash": the process stops
\* and is started again.
FaultKinds == {"statement", "gateway", "replay", "refund", "rows", "crash"}

\* A client with credentials; the nil pointer main.go passes when there are
\* none, which is not a nil interface; a nil interface.
ClientKinds == {"configured", "nil_pointer", "nil_interface"}

ASSUME ListsAssumption   == UserLists \subseteq Seq(Users) \ {<<>>}
ASSUME ClientsAssumption == Clients \subseteq ClientKinds /\ Clients # {}
ASSUME FaultsAssumption  == Faults \subseteq FaultKinds
ASSUME NamedAssumption   == MaxNamed \in Nat
ASSUME HandlersAssumption == IsFiniteSet(Handlers)

VARIABLES
  client,   \* the gateway client the running process has
  rows,     \* the payments table, oldest first
  charges,  \* the payments the gateway has created
  refunds,  \* the refunds the gateway has accepted
  pc,       \* what each handler does next
  call,     \* the room and the users of its request
  todo,     \* the users, or the payments, it still has to go through
  result,   \* the outcome of its last gateway call
  nextId,   \* the next payment id uuid.New returns
  named     \* users named by ProcessPayment requests so far

gateway == <<charges, refunds>>
local   == <<pc, call, todo, result>>
bounds  == <<nextId, named>>
vars    == <<client, rows, gateway, local, bounds>>

Steps == {"idle", "charge", "save", "charged", "refund", "refund_save", "refunded"}

ChargeStatuses == {"pending", "succeeded", "canceled"}
RefundStatuses == {"pending", "succeeded", "canceled"}
RowStatuses    == ChargeStatuses \cup {"failed", "refunded", "refund_failed"}

NoCall   == [room |-> "none", users |-> {}]
NoResult == [id |-> 0, status |-> "none", paid |-> <<>>]

-----------------------------------------------------------------------------
(* The gateway (external).  It remembers the Idempotence-Key of a request    *)
(* and answers a repeated one with the payment it created before.            *)

\* Mutation: the key is made of the fresh payment id.
KeyOfPayment(r, u, id) == <<r, u, id>>

IdempotencyKey(r, u, id) == <<r, u>>

Failing == "gateway" \in Faults

\* Mutation: the request asks for an authorization, without Capture: true.
CreateUncaptured(key, r, u, answer) ==
  /\ \A c \in charges : c.key # key
  /\ charges' = charges \cup {[key |-> key, room |-> r, user |-> u,
                               status |-> "waiting_for_capture"]}
  /\ answer = "pending"

\* CreatePayment answers a status, or "failed" for every error of the client.
CreatePayment(key, r, u, answer) ==
  \/ /\ Failing /\ answer = "failed" /\ UNCHANGED charges
  \/ \E c \in charges :
       /\ c.key = key
       /\ answer = c.status \/ (answer = "failed" /\ "replay" \in Faults)
       /\ UNCHANGED charges
  \/ /\ \A c \in charges : c.key # key
     /\ \E s \in {"pending", "succeeded"} :
          /\ charges' = charges \cup {[key |-> key, room |-> r, user |-> u,
                                       status |-> s]}
          /\ answer = s \/ (answer = "failed" /\ Failing)

\* A payment is refunded once, in full, unless the refund came to nothing.
Refundable(key, id) ==
  /\ \E c \in charges : c.key = key /\ c.status = "succeeded"
  /\ \A f \in refunds : f.id # id /\ (f.paid = key => f.status = "canceled")

Accepted(key, id) == \E f \in refunds : f.id = id /\ f.paid = key

\* The gateway answers with a refund, which may be pending or canceled: it is ok
\* whatever its status, which nobody reads.  Under the key of an earlier refund the
\* answer is that refund.
CreateRefund(key, id, ok) ==
  \/ /\ Accepted(key, id)
     /\ ok \/ Failing
     /\ UNCHANGED refunds
  \/ /\ Refundable(key, id)
     /\ \E s \in RefundStatuses :
          refunds' = refunds \cup {[id |-> id, paid |-> key, status |-> s]}
     /\ ok \/ Failing
  \/ /\ ~ok
     /\ ~(Accepted(key, id) \/ Refundable(key, id)) \/ Failing
     /\ UNCHANGED refunds

\* The passenger confirms a pending payment on the gateway's page, or not.
Confirm(c) ==
  /\ c.status = "pending"
  /\ \E s \in {"succeeded", "canceled"} :
       charges' = (charges \ {c}) \cup {[c EXCEPT !.status = s]}
  /\ UNCHANGED <<client, rows, refunds, local, bounds>>

\* A pending refund is carried out, or, as a fault of the gateway, not.
SettleRefund(f) ==
  /\ f.status = "pending"
  /\ \E s \in {"succeeded"} \cup (IF "refund" \in Faults THEN {"canceled"} ELSE {}) :
       refunds' = (refunds \ {f}) \cup {[f EXCEPT !.status = s]}
  /\ UNCHANGED <<client, rows, charges, local, bounds>>

-----------------------------------------------------------------------------
(* The handlers.                                                            *)

Return(h) ==
  /\ pc'     = [pc EXCEPT ![h] = "idle"]
  /\ call'   = [call EXCEPT ![h] = NoCall]
  /\ todo'   = [todo EXCEPT ![h] = <<>>]
  /\ result' = [result EXCEPT ![h] = NoResult]

\* The for loop goes on with the next element, or is over.
Loop(h, rest, again, over) ==
  /\ pc'     = [pc EXCEPT ![h] = IF rest = <<>> THEN over ELSE again]
  /\ todo'   = [todo EXCEPT ![h] = rest]
  /\ result' = [result EXCEPT ![h] = NoResult]

Elements(s) == {s[i] : i \in DOMAIN s}

ProcessPayment(h) ==
  /\ pc[h] = "idle"
  /\ \E r \in Rooms, list \in UserLists :
       /\ named + Len(list) <= MaxNamed /\ named' = named + Len(list)
       /\ Loop(h, list, "charge", "charged")
       /\ call' = [call EXCEPT ![h] = [room |-> r, users |-> Elements(list)]]
  /\ UNCHANGED <<client, rows, gateway, nextId>>

\* With the process every handler is gone; the tables and the gateway stay.
\* The next start looks at the credentials again.
Restart ==
  /\ client' \in Clients
  /\ pc'     = [h \in Handlers |-> "idle"]
  /\ call'   = [h \in Handlers |-> NoCall]
  /\ todo'   = [h \in Handlers |-> <<>>]
  /\ result' = [h \in Handlers |-> NoResult]

\* A payment id is drawn and, unless the client is a nil interface, the gateway
\* is called; through a nil pointer the call is a nil dereference, and nothing
\* recovers the panic.
Charge(h) ==
  /\ pc[h] = "charge"
  /\ nextId' = nextId + 1
  /\ LET r   == call[h].room
         u   == Head(todo[h])
         key == IdempotencyKey(r, u, nextId)
         Got(status, paid) ==
           /\ pc'     = [pc EXCEPT ![h] = "save"]
           /\ result' = [result EXCEPT ![h] =
                           [id |-> nextId, status |-> status, paid |-> paid]]
           /\ UNCHANGED <<client, call, todo>>
     IN \/ /\ client = "configured"
           /\ \E answer \in ChargeStatuses \cup {"failed"} :
                /\ CreatePayment(key, r, u, answer)
                /\ Got(answer, IF answer = "failed" THEN <<>> ELSE key)
        \/ /\ client = "nil_interface"
           /\ Got("succeeded", <<"mock">>)
           /\ UNCHANGED charges
        \/ client = "nil_pointer" /\ Restart /\ UNCHANGED charges
  /\ UNCHANGED <<rows, refunds, named>>

\* Mutation: what the gateway did not refuse is recorded as paid.
InsertSucceeded(h) ==
  rows' = Append(rows, [id     |-> result[h].id,     room |-> call[h].room,
                        user   |-> Head(todo[h]),    paid |-> result[h].paid,
                        status |-> IF result[h].status = "failed"
                                   THEN "failed" ELSE "succeeded"])

InsertPayment(h) ==
  rows' = Append(rows, [id     |-> result[h].id,     room |-> call[h].room,
                        user   |-> Head(todo[h]),    paid |-> result[h].paid,
                        status |-> result[h].status])

\* Mutation: an error of the insert is overlooked.
SavePaymentUnchecked(h) ==
  /\ pc[h] = "save"
  /\ InsertPayment(h) \/ ("statement" \in Faults /\ UNCHANGED rows)
  /\ \/ /\ result[h].status # "failed"
        /\ Loop(h, Tail(todo[h]), "charge", "charged")
        /\ UNCHANGED call
     \/ result[h].status = "failed" /\ Return(h)
  /\ UNCHANGED <<client, gateway, bounds>>

\* The payment is recorded whatever the gateway said; an error of the insert
\* and then an error of the gateway end the call.
SavePayment(h) ==
  /\ pc[h] = "save"
  /\ \/ /\ InsertPayment(h)
        /\ \/ /\ result[h].status # "failed"
              /\ Loop(h, Tail(todo[h]), "charge", "charged")
              /\ UNCHANGED call
           \/ /\ result[h].status = "failed" \/ "statement" \in Faults
              /\ Return(h)
     \/ "statement" \in Faults /\ UNCHANGED rows /\ Return(h)
  /\ UNCHANGED <<client, gateway, bounds>>

\* rows.Err() is not consulted: a result set that breaks off, and lacks the oldest
\* payments then, passes for whole.
scanPayments(found) ==
  IF "rows" \in Faults
  THEN {{i \in found : i > k} : k \in 0 .. Len(rows)} ELSE {found}

\* The places of the payments of a room in the table.
GetPaymentsByRoom(r) == scanPayments({i \in DOMAIN rows : rows[i].room = r})

\* ORDER BY created_at DESC
NewestFirst(found) ==
  {f \in [1 .. Cardinality(found) -> found] : \A i, j \in DOMAIN f : i < j => f[i] > f[j]}

\* The loop takes up the payments that are "succeeded" as of this reading.
RefundPayment(h) ==
  /\ pc[h] = "idle"
  /\ \E r \in Rooms : \E found \in GetPaymentsByRoom(r) :
     \E order \in NewestFirst({i \in found : rows[i].status = "succeeded"}) :
       /\ Loop(h, [k \in DOMAIN order |-> rows[order[k]]], "refund", "refunded")
       /\ call' = [call EXCEPT ![h] = [room |-> r, users |-> {}]]
  /\ UNCHANGED <<client, rows, gateway, bounds>>

\* Mutation: an error of the gateway is overlooked.
AlwaysRefunded(ok) == "refunded"

NewStatus(ok) == IF ok THEN "refunded" ELSE "refund_failed"

Refund(h) ==
  /\ pc[h] = "refund"
  /\ LET p == Head(todo[h])
         Got(status) ==
           /\ pc'     = [pc EXCEPT ![h] = "refund_save"]
           /\ result' = [result EXCEPT ![h] =
                           [id |-> p.id, status |-> status, paid |-> p.paid]]
           /\ UNCHANGED <<client, call, todo>>
     IN \/ /\ client = "configured"
           /\ \E ok \in BOOLEAN :
                /\ CreateRefund(p.paid, p.id, ok)
                /\ Got(NewStatus(ok))
        \/ client = "nil_interface" /\ Got(NewStatus(TRUE)) /\ UNCHANGED refunds
        \/ client = "nil_pointer" /\ Restart /\ UNCHANGED refunds
  /\ UNCHANGED <<rows, charges, bounds>>

\* Mutation: the payments of the whole room are updated.
UpdateRoomPayments(id, s) ==
  LET rooms == {rows[i].room : i \in {j \in DOMAIN rows : rows[j].id = id}}
  IN  rows' = [i \in DOMAIN rows |->
                 IF rows[i].room \in rooms THEN [rows[i] EXCEPT !.status = s]
                                           ELSE rows[i]]

UpdatePaymentStatus(id, s) ==
  rows' = [i \in DOMAIN rows |->
             IF rows[i].id = id THEN [rows[i] EXCEPT !.status = s] ELSE rows[i]]

\* The status is updated either way; an error of the update and then an error
\* of the gateway end the call, the remaining payments untouched.
SaveRefund(h) ==
  /\ pc[h] = "refund_save"
  /\ \/ /\ UpdatePaymentStatus(result[h].id, result[h].status)
        /\ \/ /\ result[h].status = "refunded"
              /\ Loop(h, Tail(todo[h]), "refund", "refunded")
              /\ UNCHANGED call
           \/ /\ result[h].status = "refund_failed" \/ "statement" \in Faults
              /\ Return(h)
     \/ "statement" \in Faults /\ UNCHANGED rows /\ Return(h)
  /\ UNCHANGED <<client, gateway, bounds>>

\* The response with Success: true.
Answer(h) ==
  /\ pc[h] \in {"charged", "refunded"}
  /\ Return(h)
  /\ UNCHANGED <<client, rows, gateway, bounds>>

Crash ==
  /\ "crash" \in Faults
  /\ Restart
  /\ UNCHANGED <<rows, gateway, bounds>>

-----------------------------------------------------------------------------
Init ==
  /\ client \in Clients
  /\ rows = <<>>
  /\ charges = {} /\ refunds = {}
  /\ pc     = [h \in Handlers |-> "idle"]
  /\ call   = [h \in Handlers |-> NoCall]
  /\ todo   = [h \in Handlers |-> <<>>]
  /\ result = [h \in Handlers |-> NoResult]
  /\ nextId = 1 /\ named = 0

Continue(h) ==
  Charge(h) \/ SavePayment(h) \/ Refund(h) \/ SaveRefund(h) \/ Answer(h)

Next ==
  \/ \E h \in Handlers : ProcessPayment(h) \/ RefundPayment(h) \/ Continue(h)
  \/ \E c \in charges : Confirm(c)
  \/ \E f \in refunds : SettleRefund(f)
  \/ Crash

Spec == Init /\ [][Next]_vars

\* A call that has begun is run by its goroutine to its end; no call need
\* arrive, no passenger need confirm, and no pending refund need be carried out.
FairSpec == Spec /\ \A h \in Handlers : WF_vars(Continue(h))

-----------------------------------------------------------------------------
(* Properties.                                                              *)

IsPayment(p) ==
  p.id \in Nat /\ p.room \in Rooms /\ p.user \in Users /\ p.status \in RowStatuses

\* The variables keep their types; in particular the gateway never has, and the
\* table never records, a status that the code does not know.
TypeOK ==
  /\ client \in Clients
  /\ \A i \in DOMAIN rows : IsPayment(rows[i])
  /\ \A c \in charges :
       c.room \in Rooms /\ c.user \in Users /\ c.status \in ChargeStatuses
  /\ \A f \in refunds : f.id \in Nat /\ f.status \in RefundStatuses
  /\ pc \in [Handlers -> Steps]
  /\ \A h \in Handlers :
       /\ pc[h] \in {"charge", "save"} =>
            Head(todo[h]) \in Users /\ call[h].room \in Rooms
       /\ pc[h] \in {"refund", "refund_save"} => IsPayment(Head(todo[h]))

\* No passenger is charged twice for a room, however often and concurrently the
\* ride is billed, answers are lost and the service restarts: the idempotency
\* key is made of the room and the user.
NoDoubleCharge ==
  \A c, d \in charges : c.room = d.room /\ c.user = d.user => c = d

\* What the table says happened at the gateway did happen there: a payment with
\* a gateway id is of a charge of its own room and user, and for a refunded one the
\* gateway has accepted a refund, whatever the interleaving of refunds.  (Not that
\* the money is back: the refund may be pending, or canceled, and is recorded so.)
RecordsAreTrue ==
  \A i \in DOMAIN rows :
    LET p == rows[i]
    IN  p.paid # <<"mock">> =>
          /\ p.status # "failed" =>
               \E c \in charges : c.key = p.paid /\ c.room = p.room /\ c.user = p.user
          /\ p.status = "refunded" => \E f \in refunds : f.paid = p.paid

\* When ProcessPayment answers Success, every user of the request has a payment
\* on record that did not fail, also when other calls run meanwhile.
SuccessIsRecorded ==
  \A h \in Handlers :
    pc[h] = "charged" =>
      \A u \in call[h].users : \E i \in DOMAIN rows :
        /\ rows[i].room = call[h].room /\ rows[i].user = u
        /\ rows[i].status # "failed"

\* A payment once recorded as refunded stays so: a concurrent refund that has
\* read the payment before repeats the request under the same key and succeeds
\* as well (as long as the gateway can be reached and keeps the refunds it took).
RefundedIsFinal ==
  [][\A i \in DOMAIN rows :
       rows[i].status = "refunded" => rows'[i].status = "refunded"]_vars

\* When RefundPayment answers Success, the money of every passenger of the room
\* has been given back: a refund of it has succeeded.
RefundReachesEveryone ==
  \A h \in Handlers :
    pc[h] = "refunded" =>
      \A c \in charges :
        c.room = call[h].room /\ c.status = "succeeded" =>
          \E f \in refunds : f.paid = c.key /\ f.status = "succeeded"

\* What has become of a payment, by the refunds R.  A refund counts unless it was
\* canceled.
Fate(c, R) ==
  LET made   == {f \in R : f.paid = c.key}
      counts == {f \in made : f.status # "canceled"}
  IN  CASE made = {} -> c.status
        [] made # {} /\ counts = {} -> "refund_canceled"
        [] \E f, g \in counts : f # g -> "refunded twice"
        [] \E f \in counts : counts = {f} /\ f.status = "pending" -> "refunding"
        [] OTHER -> "refunded"

\* What has become of the money of a payer, a pair of room and user.
AccountOf(p) ==
  LET mine == {c \in charges : <<c.room, c.user>> = p}
  IN  CASE mine = {} -> "unpaid"
        [] \E c, d \in mine : c # d -> "charged twice"
        [] OTHER -> Fate(CHOOSE c \in mine : TRUE, refunds)

Claims == ChargeStatuses \cup {"refunded"}

ClaimsOf(p) ==
  {rows[i].status : i \in {j \in DOMAIN rows : /\ <<rows[j].room, rows[j].user>> = p
                                               /\ rows[j].status \in Claims}}

\* Through all interleavings and faults the gateway's payments and the records
\* behave as the ledger says: nobody is charged or given back money twice, and a
\* record is true when it is written, of the user it is written for.
Ledger == INSTANCE PaymentLedger
            WITH Payers  <- Rooms \X Users,
                 account <- [p \in Rooms \X Users |-> AccountOf(p)],
                 claims  <- [p \in Rooms \X Users |-> ClaimsOf(p)]
ImplementsLedger == Ledger!Spec
=============================================================================
