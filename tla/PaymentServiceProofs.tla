------------------------ MODULE PaymentServiceProofs ------------------------
(***************************************************************************)
(* Theorems about the payment service and their proofs, for any sets of    *)
(* rooms, users and handlers, under every kind of fault.  In order: a user *)
(* is charged once for a room; Success means that everybody's payment is   *)
(* on record; what the table says happened at the gateway; the types; a    *)
(* payment recorded as refunded stays so.                                  *)
(***************************************************************************)
EXTENDS PaymentService, SequenceTheorems, FiniteSetTheorems, TLAPS

\* The gateway has at most one payment for a key, and the key of a payment is
\* that of its room and user: together they are inductive, NoDoubleCharge alone
\* is not, as a charge is refused for its key and not for its room and user.
\* (That a payment is a record of four fields is for what EXCEPT leaves alone.)
KeysIdentify ==
  /\ \A c \in charges :
       /\ c = [key |-> c.key, room |-> c.room, user |-> c.user, status |-> c.status]
       /\ c.key = <<c.room, c.user>>
  /\ \A c, d \in charges : c.key = d.key => c = d

\* A call of the gateway keeps the keys identifying, whatever it answers.
LEMMA CreatePaymentStep ==
  ASSUME KeysIdentify, NEW r, NEW u, NEW i, NEW answer,
         CreatePayment(IdempotencyKey(r, u, i), r, u, answer)
  PROVE  KeysIdentify'
<1>1. CASE UNCHANGED charges
  BY <1>1 DEF KeysIdentify
<1>2. CASE /\ \A c \in charges : c.key # <<r, u>>
           /\ \E s \in {"pending", "succeeded"} :
                charges' = charges \cup {[key |-> <<r, u>>, room |-> r, user |-> u,
                                          status |-> s]}
  BY <1>2 DEF KeysIdentify
<1>   QED
  BY <1>1, <1>2 DEF CreatePayment, IdempotencyKey

\* A confirmation changes nothing of a payment but its status.
LEMMA ConfirmStep ==
  ASSUME KeysIdentify, NEW c \in charges, Confirm(c)
  PROVE  KeysIdentify'
<1>1. PICK s \in {"succeeded", "canceled"} :
        charges' = (charges \ {c}) \cup {[c EXCEPT !.status = s]}
  BY DEF Confirm
<1>2. [c EXCEPT !.status = s]
        = [key |-> c.key, room |-> c.room, user |-> c.user, status |-> s]
  <2>1. c = [key |-> c.key, room |-> c.room, user |-> c.user, status |-> c.status]
    BY DEF KeysIdentify
  <2>   QED
    BY <2>1
<1>   QED
  BY <1>1, <1>2 DEF KeysIdentify

\* Every step keeps the keys identifying: only these two change the payments.
LEMMA KeysIdentifyStep ==
  ASSUME KeysIdentify, [Next]_vars
  PROVE  KeysIdentify'
<1>1. ASSUME NEW h \in Handlers, Charge(h)
      PROVE  KeysIdentify'
  <2>1. CASE UNCHANGED charges
    BY <2>1 DEF KeysIdentify
  <2>2. ASSUME NEW answer,
               CreatePayment(IdempotencyKey(call[h].room, Head(todo[h]), nextId),
                             call[h].room, Head(todo[h]), answer)
        PROVE  KeysIdentify'
    BY <2>2, CreatePaymentStep
  <2>   QED
    BY <1>1, <2>1, <2>2 DEF Charge
<1>2. ASSUME NEW c \in charges, Confirm(c)
      PROVE  KeysIdentify'
  BY <1>2, ConfirmStep
<1>3. CASE UNCHANGED charges
  BY <1>3 DEF KeysIdentify
<1>4. ASSUME NEW h \in Handlers,
             ProcessPayment(h) \/ RefundPayment(h) \/ SavePayment(h)
               \/ Refund(h) \/ SaveRefund(h) \/ Answer(h)
      PROVE  UNCHANGED charges
  BY <1>4 DEF ProcessPayment, RefundPayment, SavePayment, Refund, SaveRefund,
              Answer, gateway
<1>5. CASE Crash
  BY <1>3, <1>5 DEF Crash, gateway
<1>6. CASE UNCHANGED vars
  BY <1>3, <1>6 DEF vars, gateway
<1>7. ASSUME NEW f \in refunds, SettleRefund(f)
      PROVE  KeysIdentify'
  BY <1>3, <1>7 DEF SettleRefund
<1>   QED
  BY <1>1, <1>2, <1>3, <1>4, <1>5, <1>6, <1>7 DEF Next, Continue

\* The keys identify the payments in every reachable state.
LEMMA KeysIdentifyHolds == Spec => []KeysIdentify
<1>1. Init => KeysIdentify
  BY DEF Init, KeysIdentify
<1>   QED
  BY <1>1, KeysIdentifyStep, PTL DEF Spec

\* No passenger is charged twice for a room, for any number of concurrent and
\* repeated calls, whatever is lost, fails or stops.
THEOREM NobodyIsChargedTwice == Spec => []NoDoubleCharge
<1>1. KeysIdentify => NoDoubleCharge
  BY DEF KeysIdentify, NoDoubleCharge
<1>   QED
  BY <1>1, KeysIdentifyHolds, PTL
-----------------------------------------------------------------------------
(* What Success means.                                                      *)

Payments == [id : Nat, room : Rooms, user : Users, status : RowStatuses,
             paid : (Rooms \X Users) \cup {<<>>, <<"mock">>}]
Results  == [id : Nat, status : ChargeStatuses \cup {"failed"},
             paid : (Rooms \X Users) \cup {<<>>, <<"mock">>}]

\* A user has a payment on record that did not fail.
Recorded(r, u) ==
  \E i \in DOMAIN rows : rows[i].room = r /\ rows[i].user = u /\ rows[i].status # "failed"

\* Each user of a ProcessPayment in flight is on record or still to be gone
\* through, and what is about to be recorded is a payment; a refund records no
\* failure of a charge.
CallInv(h) ==
  /\ pc[h] \in {"charge", "save", "charged"} =>
       /\ call[h].room \in Rooms /\ todo[h] \in Seq(Users)
       /\ \A u \in call[h].users : Recorded(call[h].room, u) \/ u \in Elements(todo[h])
  /\ pc[h] \in {"charge", "save"} => todo[h] # <<>>
  /\ pc[h] = "charged" => todo[h] = <<>>
  /\ pc[h] = "save" => result[h] \in Results
  /\ pc[h] = "refund_save" => result[h].status \in {"refunded", "refund_failed"}

RecordInv ==
  /\ rows \in Seq(Payments) /\ nextId \in Nat
  /\ DOMAIN pc = Handlers /\ DOMAIN call = Handlers
  /\ DOMAIN todo = Handlers /\ DOMAIN result = Handlers
  /\ \A h \in Handlers : CallInv(h)

\* The statuses of a payment a refund may have been read for.
Settled == {"succeeded", "refunded", "refund_failed"}

\* Rows stay; one that did not fail does not become one that did, and one that was
\* paid is from then on only refunded or not.
RowsKept ==
  \A i \in DOMAIN rows :
    /\ i \in DOMAIN rows'
    /\ rows'[i].room = rows[i].room /\ rows'[i].user = rows[i].user
    /\ rows'[i].id = rows[i].id     /\ rows'[i].paid = rows[i].paid
    /\ rows[i].status # "failed" => rows'[i].status # "failed"
    /\ rows[i].status \in Settled => rows'[i].status \in Settled

\* What a step of one handler leaves alone.
OnlyOf(h) ==
  /\ DOMAIN pc' = Handlers /\ DOMAIN call' = Handlers
  /\ DOMAIN todo' = Handlers /\ DOMAIN result' = Handlers
  /\ \A g \in Handlers \ {h} : /\ pc'[g] = pc[g] /\ call'[g] = call[g]
                               /\ todo'[g] = todo[g] /\ result'[g] = result[g]

\* A step of one handler that keeps the rows is no concern of the others.
LEMMA OneHandler ==
  ASSUME RecordInv, NEW h \in Handlers, RowsKept, OnlyOf(h),
         rows' \in Seq(Payments), nextId' \in Nat, CallInv(h)'
  PROVE  RecordInv'
<1>1. ASSUME NEW g \in Handlers, g # h PROVE CallInv(g)'
  <2>1. /\ pc'[g] = pc[g] /\ call'[g] = call[g]
        /\ todo'[g] = todo[g] /\ result'[g] = result[g]
    BY <1>1 DEF OnlyOf
  <2>2. ASSUME NEW r, NEW u, Recorded(r, u) PROVE Recorded(r, u)'
    BY <2>2 DEF Recorded, RowsKept
  <2>3. CallInv(g)
    BY DEF RecordInv
  <2> QED BY <2>1, <2>2, <2>3 DEF CallInv, Elements
<1> QED BY <1>1 DEF RecordInv, OnlyOf

\* The loop goes on with what is left of its list.
LEMMA TailElements ==
  ASSUME NEW list \in Seq(Users), list # <<>>
  PROVE  /\ Head(list) \in Users /\ Tail(list) \in Seq(Users)
         /\ Elements(list) \subseteq {Head(list)} \cup Elements(Tail(list))
<1>1. /\ Head(list) \in Users /\ Tail(list) \in Seq(Users)
      /\ Len(Tail(list)) = Len(list) - 1
      /\ \A i \in 1 .. Len(Tail(list)) : Tail(list)[i] = list[i + 1]
  BY HeadTailProperties
<1>2. /\ DOMAIN list = 1 .. Len(list) /\ Len(list) \in Nat
      /\ DOMAIN Tail(list) = 1 .. Len(Tail(list))
  BY <1>1, LenProperties
<1>3. ASSUME NEW i \in DOMAIN list, i # 1 PROVE list[i] \in Elements(Tail(list))
  <2>1. i - 1 \in 1 .. Len(Tail(list)) /\ (i - 1) + 1 = i
    BY <1>1, <1>2, <1>3
  <2>2. Tail(list)[i - 1] = list[i]
    BY <1>1, <2>1
  <2> QED BY <1>2, <2>1, <2>2 DEF Elements
<1>4. Head(list) = list[1]
  OBVIOUS
<1> QED BY <1>1, <1>3, <1>4 DEF Elements

\* Nothing is in flight after a restart.
LEMMA RestartStep ==
  ASSUME RecordInv, Restart, UNCHANGED rows, nextId' \in Nat
  PROVE  RecordInv'
BY DEF RecordInv, Restart, CallInv

\* All users of a new call are still to be gone through.
LEMMA ProcessPaymentStep ==
  ASSUME RecordInv, NEW h \in Handlers, ProcessPayment(h)
  PROVE  RecordInv'
<1>1. PICK r \in Rooms, list \in UserLists :
        /\ Loop(h, list, "charge", "charged")
        /\ call' = [call EXCEPT ![h] = [room |-> r, users |-> Elements(list)]]
  BY DEF ProcessPayment
<1>2. list \in Seq(Users) /\ list # <<>>
  BY ListsAssumption
<1>3. /\ pc' = [pc EXCEPT ![h] = "charge"] /\ todo' = [todo EXCEPT ![h] = list]
      /\ result' = [result EXCEPT ![h] = NoResult]
      /\ UNCHANGED <<rows, nextId>>
  BY <1>1, <1>2 DEF Loop, ProcessPayment
<1>4. /\ pc'[h] = "charge" /\ todo'[h] = list
      /\ call'[h] = [room |-> r, users |-> Elements(list)]
  BY <1>1, <1>3 DEF RecordInv
<1>5. CallInv(h)'
  BY <1>2, <1>4 DEF CallInv, Elements
<1>6. RowsKept
  BY <1>3 DEF RowsKept
<1>7. OnlyOf(h)
  BY <1>1, <1>3 DEF OnlyOf, RecordInv
<1> QED BY <1>3, <1>5, <1>6, <1>7, OneHandler DEF RecordInv

\* A refund that begins reads the table and changes no row of it.
LEMMA RefundPaymentStep ==
  ASSUME RecordInv, NEW h \in Handlers, RefundPayment(h)
  PROVE  RecordInv'
<1>1. PICK r, rest :
        /\ Loop(h, rest, "refund", "refunded")
        /\ call' = [call EXCEPT ![h] = [room |-> r, users |-> {}]]
  BY DEF RefundPayment
<1>2. PICK p \in {"refund", "refunded"} : pc' = [pc EXCEPT ![h] = p]
  BY <1>1 DEF Loop
<1>3. /\ todo' = [todo EXCEPT ![h] = rest] /\ result' = [result EXCEPT ![h] = NoResult]
      /\ UNCHANGED <<rows, nextId>>
  BY <1>1 DEF Loop, RefundPayment, bounds
<1>4. CallInv(h)'
  BY <1>2 DEF CallInv, RecordInv
<1>5. RowsKept
  BY <1>3 DEF RowsKept
<1>7. OnlyOf(h)
  BY <1>1, <1>3, <1>2 DEF OnlyOf, RecordInv
<1> QED BY <1>3, <1>4, <1>5, <1>7, OneHandler DEF RecordInv

\* The answer of the gateway is kept with the handler, the records are as before.
LEMMA ChargeStep ==
  ASSUME RecordInv, NEW h \in Handlers, Charge(h)
  PROVE  RecordInv'
<1>1. nextId' \in Nat /\ UNCHANGED rows /\ nextId \in Nat
  BY DEF Charge, RecordInv
<1>2. CASE Restart
  BY <1>1, <1>2, RestartStep
<1>3. ASSUME NEW status \in ChargeStatuses \cup {"failed"},
             NEW paid \in (Rooms \X Users) \cup {<<>>, <<"mock">>},
             pc' = [pc EXCEPT ![h] = "save"],
             result' = [result EXCEPT ![h] =
                          [id |-> nextId, status |-> status, paid |-> paid]],
             UNCHANGED <<call, todo>>
      PROVE  RecordInv'
  <2>1. pc'[h] = "save" /\ result'[h] \in Results
    BY <1>1, <1>3 DEF RecordInv, Results
  <2>2. CallInv(h) /\ pc[h] = "charge"
    BY DEF RecordInv, Charge
  <2>3. CallInv(h)'
    BY <1>1, <1>3, <2>1, <2>2 DEF CallInv, Recorded, Elements
  <2>4. RowsKept
    BY <1>1 DEF RowsKept
  <2>5. OnlyOf(h)
    BY <1>3 DEF OnlyOf, RecordInv
  <2> QED BY <1>1, <2>3, <2>4, <2>5, OneHandler DEF RecordInv
<1>4. IdempotencyKey(call[h].room, Head(todo[h]), nextId) \in Rooms \X Users
  <2>1. call[h].room \in Rooms /\ todo[h] \in Seq(Users) /\ todo[h] # <<>>
    BY DEF RecordInv, CallInv, Charge
  <2> QED BY <2>1, TailElements DEF IdempotencyKey
<1> QED BY <1>2, <1>3, <1>4 DEF Charge, ChargeStatuses

\* A payment that did not fail puts its user on record.
LEMMA InsertStep ==
  ASSUME RecordInv, NEW h \in Handlers, pc[h] = "save", InsertPayment(h),
         NEW r, NEW u, r = call[h].room, u = Head(todo[h])
  PROVE  /\ rows' \in Seq(Payments) /\ RowsKept
         /\ result[h].status # "failed" => Recorded(r, u)'
<1> DEFINE new == [id |-> result[h].id, room |-> call[h].room, user |-> Head(todo[h]),
                   paid |-> result[h].paid, status |-> result[h].status]
<1>1. /\ call[h].room \in Rooms /\ todo[h] \in Seq(Users) /\ todo[h] # <<>>
      /\ result[h] \in Results
  BY DEF RecordInv, CallInv
<1>2. Head(todo[h]) \in Users
  BY <1>1, TailElements
<1>3. new \in Payments
  BY <1>1, <1>2 DEF Payments, Results, RowStatuses
<1>4. rows' = Append(rows, new)
  BY DEF InsertPayment
<1>5. new.room = call[h].room /\ new.user = Head(todo[h]) /\ new.status = result[h].status
  OBVIOUS
<1> HIDE DEF new
<1>6. rows \in Seq(Payments)
  BY DEF RecordInv
<1>7. /\ rows' \in Seq(Payments) /\ Len(rows') = Len(rows) + 1
      /\ \A i \in 1 .. Len(rows) : rows'[i] = rows[i]
      /\ rows'[Len(rows) + 1] = new
  BY <1>3, <1>4, <1>6, AppendProperties
<1>8. /\ Len(rows) \in Nat /\ DOMAIN rows = 1 .. Len(rows)
      /\ DOMAIN rows' = 1 .. (Len(rows) + 1)
  BY <1>6, <1>7, LenProperties
<1>9. RowsKept
  BY <1>7, <1>8 DEF RowsKept
<1>10. Len(rows) + 1 \in DOMAIN rows'
  BY <1>8
<1>11. result[h].status # "failed" => Recorded(r, u)'
  BY <1>5, <1>7, <1>10 DEF Recorded
<1> QED BY <1>7, <1>9, <1>11

\* A return leaves nothing in flight of a handler.
LEMMA ReturnStep ==
  ASSUME RecordInv, NEW h \in Handlers, Return(h), RowsKept,
         rows' \in Seq(Payments), UNCHANGED nextId
  PROVE  RecordInv'
<1>1. CallInv(h)' /\ OnlyOf(h)
  BY DEF Return, CallInv, OnlyOf, RecordInv
<1> QED BY <1>1, OneHandler DEF RecordInv

\* The user whose payment is written, or fails to be, is done with: the ones
\* still to come are the rest of the list.
LEMMA SavePaymentStep ==
  ASSUME RecordInv, NEW h \in Handlers, SavePayment(h)
  PROVE  RecordInv'
<1>1. pc[h] = "save" /\ UNCHANGED nextId
  BY DEF SavePayment, bounds
<1>2. CASE UNCHANGED rows /\ Return(h)
  BY <1>1, <1>2, ReturnStep DEF RowsKept, RecordInv
<1>3. CASE InsertPayment(h) /\ Return(h)
  BY <1>1, <1>3, InsertStep, ReturnStep
<1>4. CASE /\ InsertPayment(h) /\ result[h].status # "failed"
           /\ Loop(h, Tail(todo[h]), "charge", "charged") /\ UNCHANGED call
  <2>1. /\ call[h].room \in Rooms /\ todo[h] \in Seq(Users) /\ todo[h] # <<>>
        /\ \A u \in call[h].users : Recorded(call[h].room, u) \/ u \in Elements(todo[h])
    BY <1>1 DEF RecordInv, CallInv
  <2>2. /\ Tail(todo[h]) \in Seq(Users)
        /\ Elements(todo[h]) \subseteq {Head(todo[h])} \cup Elements(Tail(todo[h]))
    BY <2>1, TailElements
  <2>3. /\ pc'[h] = IF Tail(todo[h]) = <<>> THEN "charged" ELSE "charge"
        /\ todo'[h] = Tail(todo[h]) /\ OnlyOf(h)
    BY <1>4 DEF Loop, RecordInv, OnlyOf
  <2>4. RowsKept /\ rows' \in Seq(Payments)
    BY <1>1, <1>4, InsertStep
  <2>5. ASSUME NEW r, NEW u, r = call[h].room, u = Head(todo[h])
        PROVE  Recorded(r, u)'
    BY <1>1, <1>4, <2>5, InsertStep
  <2>6. ASSUME NEW r, NEW u, Recorded(r, u) PROVE Recorded(r, u)'
    BY <2>4, <2>6 DEF Recorded, RowsKept
  <2>7. ASSUME NEW r, r = call[h].room, NEW u \in call[h].users
        PROVE  Recorded(r, u)' \/ u \in Elements(Tail(todo[h]))
    BY <2>1, <2>2, <2>5, <2>6, <2>7
  <2>8. \A u \in call'[h].users : Recorded(call[h].room, u)' \/ u \in Elements(todo[h])'
    <3>1. call' = call
      BY <1>4
    <3>2. ASSUME NEW r, r = call[h].room
          PROVE  \A u \in call'[h].users : Recorded(r, u)' \/ u \in Elements(todo'[h])
      BY <2>3, <2>7, <3>1, <3>2
    <3> QED BY <3>1, <3>2 DEF Elements, Recorded
  <2>9. CallInv(h)'
    <3>1. call'[h] = call[h]
      BY <1>4
    <3> QED BY <2>1, <2>2, <2>3, <2>8, <3>1 DEF CallInv
  <2> QED BY <1>1, <2>3, <2>4, <2>9, OneHandler DEF RecordInv
<1> QED BY <1>2, <1>3, <1>4 DEF SavePayment

\* A refund at the gateway changes no record.
LEMMA RefundStep ==
  ASSUME RecordInv, NEW h \in Handlers, Refund(h)
  PROVE  RecordInv'
<1>1. UNCHANGED <<rows, nextId>> /\ RowsKept /\ rows' \in Seq(Payments)
  BY DEF Refund, bounds, RowsKept, RecordInv
<1>2. CASE Restart
  BY <1>1, <1>2, RestartStep DEF RecordInv
<1>3. ASSUME NEW status \in {"refunded", "refund_failed"}, NEW i, NEW p,
             pc' = [pc EXCEPT ![h] = "refund_save"],
             result' = [result EXCEPT ![h] = [id |-> i, status |-> status, paid |-> p]],
             UNCHANGED <<call, todo>>
      PROVE  RecordInv'
  <2>1. CallInv(h)' /\ OnlyOf(h)
    BY <1>3 DEF CallInv, OnlyOf, RecordInv
  <2> QED BY <1>1, <2>1, OneHandler DEF RecordInv
<1> QED BY <1>2, <1>3 DEF Refund, NewStatus

\* Updating a status keeps the rows, and records no charge as failed.
LEMMA UpdateStep ==
  ASSUME RecordInv, NEW i, NEW s \in {"refunded", "refund_failed"},
         UpdatePaymentStatus(i, s)
  PROVE  rows' \in Seq(Payments) /\ RowsKept
<1>1. rows \in [1 .. Len(rows) -> Payments] /\ Len(rows) \in Nat
  BY LenProperties DEF RecordInv
<1>2. rows' = [k \in 1 .. Len(rows) |->
                 IF rows[k].id = i THEN [rows[k] EXCEPT !.status = s] ELSE rows[k]]
  BY <1>1 DEF UpdatePaymentStatus
<1>3. ASSUME NEW p \in Payments
      PROVE  /\ [p EXCEPT !.status = s] \in Payments
             /\ [p EXCEPT !.status = s].room = p.room
             /\ [p EXCEPT !.status = s].user = p.user
             /\ [p EXCEPT !.status = s].id = p.id
             /\ [p EXCEPT !.status = s].paid = p.paid
             /\ [p EXCEPT !.status = s].status = s
  BY DEF Payments, RowStatuses
<1>4. rows' \in [1 .. Len(rows) -> Payments]
  BY <1>1, <1>2, <1>3
<1>5. rows' \in Seq(Payments)
  BY <1>1, <1>4, SeqDef
<1>6. ASSUME NEW k \in 1 .. Len(rows)
      PROVE  /\ rows'[k].room = rows[k].room /\ rows'[k].user = rows[k].user
             /\ rows'[k].id = rows[k].id     /\ rows'[k].paid = rows[k].paid
             /\ rows[k].status # "failed" => rows'[k].status # "failed"
             /\ rows[k].status \in Settled => rows'[k].status \in Settled
  <2>1. rows[k] \in Payments
    BY <1>1
  <2>2. CASE rows[k].id = i
    BY <1>2, <1>3, <2>1, <2>2 DEF Settled
  <2>3. CASE rows[k].id # i
    BY <1>2, <2>3
  <2> QED BY <2>2, <2>3
<1> QED BY <1>1, <1>4, <1>5, <1>6 DEF RowsKept

\* A row changes its status only, so the payments on record are the same.
LEMMA SaveRefundStep ==
  ASSUME RecordInv, NEW h \in Handlers, SaveRefund(h)
  PROVE  RecordInv'
<1>1. pc[h] = "refund_save" /\ UNCHANGED nextId
  BY DEF SaveRefund, bounds
<1>2. result[h].status \in {"refunded", "refund_failed"}
  BY <1>1 DEF RecordInv, CallInv
<1>3. rows' \in Seq(Payments) /\ RowsKept
  <2>1. CASE UNCHANGED rows
    BY <2>1 DEF RowsKept, RecordInv
  <2>2. CASE UpdatePaymentStatus(result[h].id, result[h].status)
    BY <1>2, <2>2, UpdateStep
  <2> QED BY <2>1, <2>2 DEF SaveRefund
<1>4. CASE Return(h)
  BY <1>1, <1>3, <1>4, ReturnStep
<1>5. CASE Loop(h, Tail(todo[h]), "refund", "refunded") /\ UNCHANGED call
  <2>1. CallInv(h)' /\ OnlyOf(h)
    BY <1>5 DEF Loop, CallInv, OnlyOf, RecordInv
  <2> QED BY <1>1, <1>3, <2>1, OneHandler DEF RecordInv
<1> QED BY <1>4, <1>5 DEF SaveRefund

\* Every step keeps RecordInv, one lemma for each step of a handler.
LEMMA RecordInvStep ==
  ASSUME RecordInv, [Next]_vars
  PROVE  RecordInv'
<1>1. ASSUME UNCHANGED <<rows, nextId, local>> PROVE RecordInv'
  BY <1>1 DEF RecordInv, CallInv, Recorded, Elements, local
<1>2. ASSUME NEW c \in charges, Confirm(c) PROVE RecordInv'
  BY <1>1, <1>2 DEF Confirm, bounds
<1>3. CASE Crash
  BY <1>3, RestartStep DEF Crash, bounds, RecordInv
<1>4. ASSUME NEW h \in Handlers, Answer(h) PROVE RecordInv'
  BY <1>4, ReturnStep DEF Answer, bounds, RowsKept, RecordInv
<1>5. CASE UNCHANGED vars
  BY <1>1, <1>5 DEF vars, bounds
<1>6. ASSUME NEW f \in refunds, SettleRefund(f) PROVE RecordInv'
  BY <1>1, <1>6 DEF SettleRefund, bounds
<1> QED
  BY <1>2, <1>3, <1>4, <1>5, <1>6, ProcessPaymentStep, RefundPaymentStep, ChargeStep,
     SavePaymentStep, RefundStep, SaveRefundStep DEF Next, Continue

\* RecordInv holds in every reachable state.
LEMMA RecordInvHolds == Spec => []RecordInv
<1>1. Init => RecordInv
  BY EmptySeq DEF Init, RecordInv, CallInv
<1> QED
  BY <1>1, RecordInvStep, PTL DEF Spec

\* When ProcessPayment answers Success, every user of its request has a payment on
\* record that did not fail, for any number of concurrent calls and refunds, lists
\* of any length, failed statements and restarts.
THEOREM SuccessMeansRecorded == Spec => []SuccessIsRecorded
<1>1. RecordInv => SuccessIsRecorded
  BY DEF RecordInv, CallInv, SuccessIsRecorded, Recorded, Elements
<1> QED
  BY <1>1, RecordInvHolds, PTL
-----------------------------------------------------------------------------
(* What the payments table says is what happened at the gateway.  A record  *)
(* is written after the gateway has answered, and a refund works on records *)
(* read some time ago, so the argument is about what the handlers carry     *)
(* from one statement to the next.                                          *)

\* What happened at the gateway, and what the table still has to offer of a
\* payment that was read from it.
Charged(key, r, u) == \E c \in charges : c.key = key /\ c.room = r /\ c.user = u

GivenBack(key) == \E f \in refunds : f.paid = key

OnRecord(id, key) ==
  \E i \in DOMAIN rows : rows[i].id = id /\ rows[i].paid = key /\ rows[i].status \in Settled

\* A payment answered as made or as canceled is that.
Answered(key, s) ==
  s # "pending" => \E c \in charges : c.key = key /\ c.status = s

\* In a process that may be given no gateway a record need not be of any payment.
Mocking == "nil_interface" \in Clients

RowsTrue ==
  \A i \in DOMAIN rows :
    /\ rows[i].status # "failed" =>
         Mocking \/ Charged(rows[i].paid, rows[i].room, rows[i].user)
    /\ rows[i].status = "refunded" => Mocking \/ GivenBack(rows[i].paid)

\* A payment id is that of one row, or of one about to be inserted by one handler:
\* an update by id changes the row it means and no other.
IdsUnique ==
  /\ \A i \in DOMAIN rows : rows[i].id < nextId
  /\ \A i, j \in DOMAIN rows : rows[i].id = rows[j].id => i = j
  /\ \A h \in Handlers : pc[h] = "save" =>
       /\ result[h].id < nextId
       /\ \A i \in DOMAIN rows : rows[i].id # result[h].id
  /\ \A g, h \in Handlers :
       pc[g] = "save" /\ pc[h] = "save" /\ result[g].id = result[h].id => g = h

\* What a handler is about to write is true, and what it has read is still on
\* record, whoever has updated it meanwhile.
HandlerTrue(h) ==
  /\ pc[h] = "save" /\ result[h].status # "failed" =>
       \/ Mocking
       \/ /\ Charged(result[h].paid, call[h].room, Head(todo[h]))
          /\ Answered(result[h].paid, result[h].status)
  /\ pc[h] \in {"refund", "refund_save"} =>
       /\ todo[h] \in Seq(Payments) /\ todo[h] # <<>>
       /\ \A k \in DOMAIN todo[h] : OnRecord(todo[h][k].id, todo[h][k].paid)
  /\ pc[h] = "refund_save" =>
       /\ OnRecord(result[h].id, result[h].paid)
       /\ result[h].status = "refunded" => Mocking \/ GivenBack(result[h].paid)

\* The refunds of the gateway are of payments the table has, or has had read from it.
Refunds == [id : Nat, paid : (Rooms \X Users) \cup {<<>>, <<"mock">>},
            status : RefundStatuses]

TruthInv ==
  /\ client \in Clients
  /\ refunds \subseteq Refunds
  /\ RowsTrue
  /\ IdsUnique
  /\ \A h \in Handlers : HandlerTrue(h)

\* No charge is undone, and no refund forgotten, whatever comes of it.
GatewayKept ==
  /\ \A c \in charges : \E d \in charges' :
       /\ d.key = c.key /\ d.room = c.room /\ d.user = c.user
       /\ c.status # "pending" => d.status = c.status
  /\ \A f \in refunds : \E g \in refunds' : g.id = f.id /\ g.paid = f.paid
  /\ refunds' \subseteq Refunds

\* A step of one handler that undoes nothing leaves what the others know true.
LEMMA OthersStayTrue ==
  ASSUME TruthInv, NEW h \in Handlers, RowsKept, GatewayKept, OnlyOf(h),
         client' \in Clients, RowsTrue', IdsUnique', HandlerTrue(h)'
  PROVE  TruthInv'
<1>1. ASSUME NEW g \in Handlers, g # h PROVE HandlerTrue(g)'
  <2>1. /\ pc'[g] = pc[g] /\ call'[g] = call[g]
        /\ todo'[g] = todo[g] /\ result'[g] = result[g]
    BY <1>1 DEF OnlyOf
  <2>2. HandlerTrue(g)
    BY DEF TruthInv
  <2>3. pc'[g] = "save" /\ result'[g].status # "failed" =>
          \/ Mocking
          \/ /\ (Charged(result[g].paid, call[g].room, Head(todo[g])))'
             /\ Answered(result[g].paid, result[g].status)'
    BY <2>1, <2>2 DEF HandlerTrue, Charged, Answered, GatewayKept
  <2>4. ASSUME pc'[g] \in {"refund", "refund_save"}
        PROVE  /\ todo'[g] \in Seq(Payments) /\ todo'[g] # <<>>
               /\ \A k \in DOMAIN todo'[g] : OnRecord(todo[g][k].id, todo[g][k].paid)'
    BY <2>1, <2>2, <2>4 DEF HandlerTrue, OnRecord, RowsKept
  <2>5. pc'[g] = "refund_save" =>
          /\ OnRecord(result[g].id, result[g].paid)'
          /\ result'[g].status = "refunded" => Mocking \/ GivenBack(result[g].paid)'
    BY <2>1, <2>2 DEF HandlerTrue, OnRecord, RowsKept, GivenBack, GatewayKept
  <2> QED BY <2>3, <2>4, <2>5 DEF HandlerTrue, Payments
<1> QED BY <1>1 DEF TruthInv, GatewayKept, Refunds

\* Rows that stay as they are stay true.
LEMMA SameRowsTrue ==
  ASSUME RowsTrue, UNCHANGED rows, GatewayKept
  PROVE  RowsTrue' /\ RowsKept
BY DEF RowsTrue, RowsKept, Charged, GivenBack, GatewayKept

\* The identities of the rows stay unique when no handler comes to hold a new one.
LEMMA SameIdsUnique ==
  ASSUME IdsUnique, NEW h \in Handlers, OnlyOf(h), pc'[h] # "save", UNCHANGED nextId,
         DOMAIN rows' = DOMAIN rows, \A i \in DOMAIN rows : rows'[i].id = rows[i].id
  PROVE  IdsUnique'
BY DEF IdsUnique, OnlyOf

\* A restart loses what the handlers carry; what the table says is still true.
LEMMA RestartTrue ==
  ASSUME TruthInv, RecordInv, Restart, UNCHANGED <<rows, charges, refunds>>,
         nextId' \in {nextId, nextId + 1}
  PROVE  TruthInv'
<1>1. GatewayKept
  BY DEF GatewayKept, TruthInv
<1>2. RowsTrue' /\ client' \in Clients
  BY <1>1, SameRowsTrue DEF TruthInv, Restart
<1>3. \A h \in Handlers : pc'[h] = "idle"
  BY DEF Restart
<1>4. ASSUME NEW i \in DOMAIN rows PROVE rows[i].id < nextId'
  <2>1. rows[i].id < nextId /\ rows[i] \in Payments /\ nextId \in Nat
    BY LenProperties DEF TruthInv, IdsUnique, RecordInv
  <2> QED BY <2>1 DEF Payments
<1>5. IdsUnique'
  BY <1>3, <1>4 DEF IdsUnique, TruthInv
<1> QED BY <1>2, <1>3, <1>5 DEF TruthInv, HandlerTrue, Refunds

\* A step of one handler that only takes it out of a loop, or into ProcessPayment's.
LEMMA QuietStepTrue ==
  ASSUME TruthInv, NEW h \in Handlers, OnlyOf(h),
         pc'[h] \notin {"save", "refund", "refund_save"},
         UNCHANGED <<client, rows, charges, refunds, nextId>>
  PROVE  TruthInv'
<1>1. GatewayKept /\ client' \in Clients
  BY DEF GatewayKept, TruthInv
<1>2. RowsTrue' /\ RowsKept
  BY <1>1, SameRowsTrue DEF TruthInv
<1>3. IdsUnique'
  BY SameIdsUnique DEF TruthInv
<1>4. HandlerTrue(h)'
  BY DEF HandlerTrue
<1> QED BY <1>1, <1>2, <1>3, <1>4, OthersStayTrue

\* A call that returns changes the state of its own handler only.
LEMMA ReturnOnlyOf ==
  ASSUME RecordInv, NEW h \in Handlers, Return(h)
  PROVE  OnlyOf(h) /\ pc'[h] = "idle"
BY DEF Return, OnlyOf, RecordInv

\* So does the step to the next user or payment of the list, which also says
\* where the handler goes on.
LEMMA LoopOnlyOf ==
  ASSUME RecordInv, NEW h \in Handlers, NEW rest, NEW again, NEW over, NEW c,
         Loop(h, rest, again, over), call' = [call EXCEPT ![h] = c]
  PROVE  /\ OnlyOf(h) /\ todo'[h] = rest
         /\ pc'[h] = IF rest = <<>> THEN over ELSE again
BY DEF Loop, OnlyOf, RecordInv

\* A new call to charge carries nothing that could be untrue.
LEMMA ProcessPaymentTrue ==
  ASSUME TruthInv, RecordInv, NEW h \in Handlers, ProcessPayment(h)
  PROVE  TruthInv'
<1>1. PICK r \in Rooms, list \in UserLists :
        /\ Loop(h, list, "charge", "charged")
        /\ call' = [call EXCEPT ![h] = [room |-> r, users |-> Elements(list)]]
  BY DEF ProcessPayment
<1>2. OnlyOf(h) /\ pc'[h] \in {"charge", "charged"}
  BY <1>1, LoopOnlyOf
<1>3. UNCHANGED <<client, rows, charges, refunds, nextId>>
  BY DEF ProcessPayment, gateway
<1> QED BY <1>2, <1>3, QuietStepTrue

\* A call that is answered carries nothing any more.
LEMMA AnswerTrue ==
  ASSUME TruthInv, RecordInv, NEW h \in Handlers, Answer(h)
  PROVE  TruthInv'
BY ReturnOnlyOf, QuietStepTrue DEF Answer, gateway, bounds

\* The payments just read are on record.
LEMMA PaymentsRead ==
  ASSUME RecordInv, NEW h \in Handlers, RefundPayment(h)
  PROVE  \E list \in Seq(Payments), r \in Rooms :
           /\ Loop(h, list, "refund", "refunded")
           /\ call' = [call EXCEPT ![h] = [room |-> r, users |-> {}]]
           /\ \A k \in DOMAIN list : OnRecord(list[k].id, list[k].paid)
           /\ \A k \in DOMAIN list : \E i \in DOMAIN rows :
                list[k] = rows[i] /\ rows[i].status = "succeeded"
<1>1. PICK r \in Rooms : \E found \in GetPaymentsByRoom(r) :
        \E order \in NewestFirst({i \in found : rows[i].status = "succeeded"}) :
          /\ Loop(h, [k \in DOMAIN order |-> rows[order[k]]], "refund", "refunded")
          /\ call' = [call EXCEPT ![h] = [room |-> r, users |-> {}]]
  BY DEF RefundPayment
<1>2. PICK found \in GetPaymentsByRoom(r) :
        \E order \in NewestFirst({i \in found : rows[i].status = "succeeded"}) :
          /\ Loop(h, [k \in DOMAIN order |-> rows[order[k]]], "refund", "refunded")
          /\ call' = [call EXCEPT ![h] = [room |-> r, users |-> {}]]
  BY <1>1
<1>3. PICK order \in NewestFirst({i \in found : rows[i].status = "succeeded"}) :
        /\ Loop(h, [k \in DOMAIN order |-> rows[order[k]]], "refund", "refunded")
        /\ call' = [call EXCEPT ![h] = [room |-> r, users |-> {}]]
  BY <1>2
<1> DEFINE list == [k \in DOMAIN order |-> rows[order[k]]]
<1>4. found \subseteq DOMAIN rows
  BY DEF GetPaymentsByRoom, scanPayments
<1>5. \A k \in DOMAIN order : /\ order[k] \in DOMAIN rows
                               /\ rows[order[k]].status = "succeeded"
  BY <1>4 DEF NewestFirst
<1>6. list \in Seq(Payments)
  <2>1. \A i \in DOMAIN rows : rows[i] \in Payments
    BY LenProperties DEF RecordInv
  <2>2. Cardinality({i \in found : rows[i].status = "succeeded"}) \in Nat
    <3>1. IsFiniteSet(DOMAIN rows)
      <4>1. Len(rows) \in Int /\ DOMAIN rows = 1 .. Len(rows)
        BY LenProperties DEF RecordInv
      <4>2. IsFiniteSet(1 .. Len(rows))
        BY <4>1, FS_Interval
      <4> QED BY <4>1, <4>2
    <3> QED BY <1>4, <3>1, FS_Subset, FS_CardinalityType
  <2>3. PICK n \in Nat : DOMAIN order = 1 .. n
    BY <2>2 DEF NewestFirst
  <2> QED BY <1>5, <2>1, <2>3, SeqDef
<1>7. \A k \in DOMAIN list : OnRecord(list[k].id, list[k].paid)
  BY <1>5 DEF OnRecord, Settled
<1>8. \A k \in DOMAIN list : \E i \in DOMAIN rows :
        list[k] = rows[i] /\ rows[i].status = "succeeded"
  BY <1>5
<1> QED BY <1>3, <1>6, <1>7, <1>8

\* The payments a refund reads are rows, and what a row says is true.
LEMMA RefundPaymentTrue ==
  ASSUME TruthInv, RecordInv, NEW h \in Handlers, RefundPayment(h)
  PROVE  TruthInv'
<1>1. PICK list \in Seq(Payments), r \in Rooms :
        /\ Loop(h, list, "refund", "refunded")
        /\ call' = [call EXCEPT ![h] = [room |-> r, users |-> {}]]
        /\ \A k \in DOMAIN list : OnRecord(list[k].id, list[k].paid)
  BY PaymentsRead
<1>2. UNCHANGED <<client, rows, charges, refunds, nextId>>
  BY DEF RefundPayment, gateway, bounds
<1>3. /\ OnlyOf(h) /\ todo'[h] = list
      /\ pc'[h] = IF list = <<>> THEN "refunded" ELSE "refund"
  BY <1>1, LoopOnlyOf
<1>4. HandlerTrue(h)'
  <2>1. ASSUME pc'[h] \in {"refund", "refund_save"}
        PROVE  /\ todo'[h] \in Seq(Payments) /\ todo'[h] # <<>>
               /\ \A k \in DOMAIN todo'[h] : OnRecord(todo[h][k].id, todo[h][k].paid)'
    BY <1>1, <1>2, <1>3, <2>1 DEF OnRecord
  <2> QED BY <1>3, <2>1 DEF HandlerTrue, Payments
<1>5. GatewayKept /\ client' \in Clients
  BY <1>2 DEF GatewayKept, TruthInv
<1>6. RowsTrue' /\ RowsKept
  BY <1>2, <1>5, SameRowsTrue DEF TruthInv
<1>7. IdsUnique'
  BY <1>2, <1>3, SameIdsUnique DEF TruthInv
<1> QED BY <1>3, <1>4, <1>5, <1>6, <1>7, OthersStayTrue

\* What the gateway answered, it did: a payment that did not fail is there under the
\* key of its own room and user.
LEMMA CreatePaymentTrue ==
  ASSUME KeysIdentify, NEW r, NEW u, NEW answer, CreatePayment(<<r, u>>, r, u, answer)
  PROVE  /\ charges \subseteq charges'
         /\ answer # "failed" =>
              \E c \in charges' :
                c.key = <<r, u>> /\ c.room = r /\ c.user = u /\ c.status = answer
<1>1. CASE Failing /\ answer = "failed" /\ UNCHANGED charges
  BY <1>1
<1>2. CASE \E c \in charges :
             /\ c.key = <<r, u>> /\ UNCHANGED charges
             /\ answer = c.status \/ answer = "failed"
  BY <1>2 DEF KeysIdentify
<1>3. CASE \E s \in {"pending", "succeeded"} :
             /\ charges' = charges \cup {[key |-> <<r, u>>, room |-> r, user |-> u,
                                          status |-> s]}
             /\ answer = s \/ answer = "failed"
  <2>1. PICK s \in {"pending", "succeeded"} :
          /\ charges' = charges \cup {[key |-> <<r, u>>, room |-> r, user |-> u,
                                       status |-> s]}
          /\ answer = s \/ answer = "failed"
    BY <1>3
  <2> DEFINE c == [key |-> <<r, u>>, room |-> r, user |-> u, status |-> s]
  <2>2. c \in charges' /\ charges \subseteq charges'
    BY <2>1
  <2>3. c.key = <<r, u>> /\ c.room = r /\ c.user = u /\ c.status = s
    OBVIOUS
  <2> QED BY <2>1, <2>2, <2>3
<1> QED BY <1>1, <1>2, <1>3 DEF CreatePayment

\* A payment drawn by one handler has an id of its own, and its charge is made.
LEMMA ChargeTrue ==
  ASSUME TruthInv, RecordInv, KeysIdentify, NEW h \in Handlers, Charge(h)
  PROVE  TruthInv'
<1>1. /\ nextId \in Nat /\ nextId' = nextId + 1 /\ UNCHANGED <<rows, refunds>>
      /\ pc[h] = "charge"
  BY DEF Charge, RecordInv
<1>2. CASE Restart /\ UNCHANGED charges
  BY <1>1, <1>2, RestartTrue
<1>3. ASSUME NEW r, NEW u, r = call[h].room, u = Head(todo[h]), NEW answer, NEW key,
             charges \subseteq charges',
             answer # "failed" =>
               \/ Mocking
               \/ \E c \in charges' :
                    c.key = key /\ c.room = r /\ c.user = u /\ c.status = answer,
             pc' = [pc EXCEPT ![h] = "save"],
             result' = [result EXCEPT ![h] =
                          [id |-> nextId, status |-> answer, paid |-> key]],
             UNCHANGED <<client, call, todo>>
      PROVE  TruthInv'
  <2>2. GatewayKept /\ client' \in Clients
    BY <1>1, <1>3 DEF GatewayKept, TruthInv
  <2>3. RowsTrue' /\ RowsKept
    BY <1>1, <2>2, SameRowsTrue DEF TruthInv
  <2>4. /\ OnlyOf(h) /\ pc'[h] = "save"
        /\ result'[h] = [id |-> nextId, status |-> answer, paid |-> key]
    BY <1>3 DEF OnlyOf, RecordInv
  <2>5. IdsUnique'
    <3>1. IdsUnique /\ rows \in Seq(Payments)
      BY DEF TruthInv, RecordInv
    <3>2. ASSUME NEW i \in DOMAIN rows
          PROVE  rows[i].id \in Nat /\ rows[i].id < nextId
      <4>1. rows[i] \in Payments
        BY <3>1, LenProperties
      <4> QED BY <3>1, <4>1 DEF IdsUnique, Payments
    <3>3. ASSUME NEW g \in Handlers, pc[g] = "save"
          PROVE  result[g].id \in Nat /\ result[g].id < nextId
      BY <3>1, <3>3 DEF IdsUnique, RecordInv, CallInv, Results
    <3> QED BY <1>1, <2>4, <3>1, <3>2, <3>3 DEF IdsUnique, OnlyOf
  <2>6. HandlerTrue(h)'
    BY <1>3, <2>4 DEF HandlerTrue, Charged, Answered
  <2> QED BY <2>2, <2>3, <2>4, <2>5, <2>6, OthersStayTrue
<1>4. CASE client = "nil_interface"
  <2>1. /\ pc' = [pc EXCEPT ![h] = "save"]
        /\ result' = [result EXCEPT ![h] =
             [id |-> nextId, status |-> "succeeded", paid |-> <<"mock">>]]
        /\ UNCHANGED <<client, call, todo, charges>>
    BY <1>4 DEF Charge
  <2>2. Mocking
    BY <1>4 DEF TruthInv, Mocking
  <2> QED BY <1>3, <2>1, <2>2
<1>5. CASE client = "configured"
  <2>1. PICK answer \in ChargeStatuses \cup {"failed"} :
          /\ CreatePayment(<<call[h].room, Head(todo[h])>>,
                           call[h].room, Head(todo[h]), answer)
          /\ pc' = [pc EXCEPT ![h] = "save"]
          /\ result' = [result EXCEPT ![h] =
               [id |-> nextId, status |-> answer,
                paid |-> IF answer = "failed" THEN <<>>
                         ELSE <<call[h].room, Head(todo[h])>>]]
          /\ UNCHANGED <<client, call, todo>>
    BY <1>5 DEF Charge, IdempotencyKey
  <2>2. ASSUME NEW r, NEW u, r = call[h].room, u = Head(todo[h])
        PROVE  TruthInv'
    <3>1. CreatePayment(<<r, u>>, r, u, answer)
      BY <2>1, <2>2
    <3>2. /\ charges \subseteq charges'
          /\ answer # "failed" =>
                \E c \in charges' :
                  c.key = <<r, u>> /\ c.room = r /\ c.user = u /\ c.status = answer
      BY <3>1, CreatePaymentTrue
    <3>3. PICK key : key = IF answer = "failed" THEN <<>> ELSE <<r, u>>
      OBVIOUS
    <3>4. answer # "failed" =>
            \E c \in charges' :
              c.key = key /\ c.room = r /\ c.user = u /\ c.status = answer
      BY <3>2, <3>3
    <3>5. result' = [result EXCEPT ![h] = [id |-> nextId, status |-> answer, paid |-> key]]
      BY <2>1, <2>2, <3>3
    <3>6. pc' = [pc EXCEPT ![h] = "save"] /\ UNCHANGED <<client, call, todo>>
      BY <2>1
    <3>7. charges \subseteq charges'
      BY <3>2
    <3> QED BY <1>3, <2>2, <3>4, <3>5, <3>6, <3>7, Zenon
  <2> QED BY <2>2
<1> QED BY <1>2, <1>4, <1>5 DEF Charge

\* What is inserted is what the handler knows to be true.
LEMMA InsertTrue ==
  ASSUME TruthInv, RecordInv, NEW h \in Handlers, pc[h] = "save", InsertPayment(h),
         UNCHANGED <<client, charges, refunds, nextId>>, OnlyOf(h),
         pc'[h] \in {"charge", "charged", "idle"}
  PROVE  TruthInv'
<1> DEFINE new == [id |-> result[h].id, room |-> call[h].room, user |-> Head(todo[h]),
                   paid |-> result[h].paid, status |-> result[h].status]
<1>1. rows' \in Seq(Payments) /\ RowsKept
  BY InsertStep
<1>2. rows \in Seq(Payments) /\ result[h] \in Results
  BY DEF RecordInv, CallInv
<1>3. /\ new.id = result[h].id /\ new.room = call[h].room /\ new.user = Head(todo[h])
      /\ new.paid = result[h].paid /\ new.status = result[h].status
  OBVIOUS
<1>4. rows' = Append(rows, new)
  BY DEF InsertPayment
<1> HIDE DEF new
<1>5. /\ DOMAIN rows = 1 .. Len(rows) /\ Len(rows) \in Nat
      /\ DOMAIN rows' = 1 .. (Len(rows) + 1)
      /\ \A i \in DOMAIN rows : rows'[i] = rows[i]
      /\ rows'[Len(rows) + 1] = new
  BY <1>2, <1>4, LenProperties
<1>6. RowsTrue'
  <2>1. new.status # "failed" => Mocking \/ Charged(new.paid, new.room, new.user)
    BY <1>3 DEF TruthInv, HandlerTrue
  <2>2. new.status # "refunded"
    BY <1>2, <1>3 DEF Results, ChargeStatuses
  <2>3. RowsTrue
    BY DEF TruthInv
  <2> QED BY <1>5, <2>1, <2>2, <2>3 DEF RowsTrue, Charged, GivenBack
<1>7. IdsUnique'
  <2>1. IdsUnique
    BY DEF TruthInv
  <2>2. /\ new.id < nextId'
        /\ \A i \in DOMAIN rows : rows[i].id # new.id
        /\ \A g \in Handlers \ {h} : pc[g] = "save" => result[g].id # new.id
    BY <1>3, <2>1 DEF IdsUnique
  <2>3. \A g \in Handlers : pc'[g] = "save" =>
          /\ g # h /\ pc[g] = "save" /\ result'[g] = result[g]
    BY DEF OnlyOf
  <2> QED BY <1>5, <2>1, <2>2, <2>3 DEF IdsUnique
<1>8. GatewayKept /\ client' \in Clients
  BY DEF GatewayKept, TruthInv
<1>9. HandlerTrue(h)'
  BY DEF HandlerTrue
<1> QED BY <1>1, <1>6, <1>7, <1>8, <1>9, OthersStayTrue

\* The row written says what the handler carries, and that was true; a handler
\* that read the table earlier is not contradicted by a new row.
LEMMA SavePaymentTrue ==
  ASSUME TruthInv, RecordInv, NEW h \in Handlers, SavePayment(h)
  PROVE  TruthInv'
<1>1. pc[h] = "save" /\ UNCHANGED <<client, charges, refunds, nextId>>
  BY DEF SavePayment, gateway, bounds
<1>2. CASE UNCHANGED rows /\ Return(h)
  BY <1>1, <1>2, ReturnOnlyOf, QuietStepTrue
<1>3. CASE InsertPayment(h) /\ Return(h)
  BY <1>1, <1>3, ReturnOnlyOf, InsertTrue
<1>4. CASE /\ InsertPayment(h)
           /\ Loop(h, Tail(todo[h]), "charge", "charged") /\ UNCHANGED call
  <2>1. OnlyOf(h) /\ pc'[h] \in {"charge", "charged"}
    BY <1>4 DEF Loop, OnlyOf, RecordInv
  <2> QED BY <1>1, <1>4, <2>1, InsertTrue
<1> QED BY <1>2, <1>3, <1>4 DEF SavePayment

\* A refund that is answered is one the gateway has accepted.
LEMMA CreateRefundTrue ==
  ASSUME NEW key, NEW id, NEW ok, CreateRefund(key, id, ok)
  PROVE  /\ refunds \subseteq refunds' /\ (ok => \E f \in refunds' : f.paid = key)
         /\ refunds' \subseteq
              refunds \cup {[id |-> id, paid |-> key, status |-> s] : s \in RefundStatuses}
<1>1. ASSUME NEW s PROVE [id |-> id, paid |-> key, status |-> s].paid = key
  OBVIOUS
<1> QED BY <1>1 DEF CreateRefund, Accepted

\* The status a refund is about to be recorded with is what the gateway did.
LEMMA RefundTrue ==
  ASSUME TruthInv, RecordInv, NEW h \in Handlers, Refund(h)
  PROVE  TruthInv'
<1>1. pc[h] = "refund" /\ UNCHANGED <<rows, charges, nextId>>
  BY DEF Refund, bounds
<1>2. CASE Restart /\ UNCHANGED refunds
  BY <1>1, <1>2, RestartTrue DEF RecordInv
<1>3. ASSUME NEW ok \in BOOLEAN, refunds \subseteq refunds', refunds' \subseteq Refunds,
             UNCHANGED <<client, call, todo>>,
             ok => Mocking \/ \E f \in refunds' : f.paid = Head(todo[h]).paid,
             pc' = [pc EXCEPT ![h] = "refund_save"],
             result' = [result EXCEPT ![h] =
                          [id |-> Head(todo[h]).id, status |-> NewStatus(ok),
                           paid |-> Head(todo[h]).paid]]
      PROVE  TruthInv'
  <2>1. OnlyOf(h) /\ pc'[h] = "refund_save" /\ todo'[h] = todo[h]
        /\ result'[h] = [id |-> Head(todo[h]).id, status |-> NewStatus(ok),
                         paid |-> Head(todo[h]).paid]
    BY <1>3 DEF OnlyOf, RecordInv
  <2>2. /\ todo[h] \in Seq(Payments) /\ todo[h] # <<>>
        /\ \A k \in DOMAIN todo[h] : OnRecord(todo[h][k].id, todo[h][k].paid)
    BY <1>1 DEF TruthInv, HandlerTrue
  <2>3. OnRecord(Head(todo[h]).id, Head(todo[h]).paid)
    <3>1. 1 \in DOMAIN todo[h] /\ Head(todo[h]) = todo[h][1]
      BY <2>2, LenProperties, EmptySeq
    <3> QED BY <2>2, <3>1
  <2>4. HandlerTrue(h)'
    <3>1. result'[h].status = "refunded" => ok
      BY <2>1 DEF NewStatus
    <3>2. OnRecord(result[h].id, result[h].paid)'
      BY <1>1, <2>1, <2>3 DEF OnRecord
    <3>3. /\ todo'[h] \in Seq(Payments) /\ todo'[h] # <<>>
          /\ \A k \in DOMAIN todo'[h] : OnRecord(todo[h][k].id, todo[h][k].paid)'
      BY <1>1, <2>1, <2>2 DEF OnRecord
    <3>4. result'[h].status = "refunded" => Mocking \/ GivenBack(result[h].paid)'
      BY <1>3, <2>1, <3>1 DEF GivenBack
    <3> QED BY <2>1, <3>2, <3>3, <3>4 DEF HandlerTrue, Payments
  <2>5. GatewayKept /\ client' \in Clients
    BY <1>1, <1>3 DEF GatewayKept, TruthInv
  <2>6. RowsTrue' /\ RowsKept
    BY <1>1, <2>5, SameRowsTrue DEF TruthInv
  <2>7. IdsUnique'
    BY <1>1, <2>1, SameIdsUnique DEF TruthInv
  <2> QED BY <2>1, <2>4, <2>5, <2>6, <2>7, OthersStayTrue
<1>4. CASE client = "configured"
  <2>1. PICK ok \in BOOLEAN :
          /\ CreateRefund(Head(todo[h]).paid, Head(todo[h]).id, ok)
          /\ pc' = [pc EXCEPT ![h] = "refund_save"]
          /\ result' = [result EXCEPT ![h] =
                          [id |-> Head(todo[h]).id, status |-> NewStatus(ok),
                           paid |-> Head(todo[h]).paid]]
          /\ UNCHANGED <<client, call, todo>>
    BY <1>4 DEF Refund
  <2>2. PICK p : p = Head(todo[h])
    OBVIOUS
  <2>3. p \in Payments
    BY <1>1, <2>2, HeadTailProperties DEF TruthInv, HandlerTrue
  <2>4. /\ refunds \subseteq refunds'
        /\ ok => \E f \in refunds' : f.paid = p.paid
        /\ refunds' \subseteq
             refunds \cup {[id |-> p.id, paid |-> p.paid, status |-> s] : s \in RefundStatuses}
    <3>1. CreateRefund(p.paid, p.id, ok)
      BY <2>1, <2>2
    <3> QED BY <3>1, CreateRefundTrue
  <2>5. refunds' \subseteq Refunds
    BY <2>3, <2>4 DEF TruthInv, Payments, Refunds
  <2> QED BY <1>3, <2>1, <2>2, <2>4, <2>5
<1>5. CASE client = "nil_interface"
  <2>1. /\ pc' = [pc EXCEPT ![h] = "refund_save"]
        /\ result' = [result EXCEPT ![h] =
                        [id |-> Head(todo[h]).id, status |-> NewStatus(TRUE),
                         paid |-> Head(todo[h]).paid]]
        /\ UNCHANGED <<client, call, todo, refunds>>
    BY <1>5 DEF Refund
  <2>2. Mocking /\ refunds \subseteq Refunds
    BY <1>5 DEF TruthInv, Mocking
  <2> QED BY <1>3, <2>1, <2>2
<1> QED BY <1>2, <1>4, <1>5 DEF Refund

\* An update finds the payment that was refunded under its id, and no other.
LEMMA UpdateTrue ==
  ASSUME TruthInv, RecordInv, NEW i, NEW key, OnRecord(i, key),
         NEW s \in {"refunded", "refund_failed"}, s = "refunded" => Mocking \/ GivenBack(key),
         UpdatePaymentStatus(i, s), UNCHANGED <<charges, refunds>>
  PROVE  /\ RowsTrue'
         /\ DOMAIN rows' = DOMAIN rows /\ \A k \in DOMAIN rows : rows'[k].id = rows[k].id
<1>1. RowsTrue /\ IdsUnique /\ rows \in Seq(Payments)
  BY DEF TruthInv, RecordInv
<1>2. RowsKept
  BY UpdateStep
<1>3. rows' = [k \in DOMAIN rows |->
                 IF rows[k].id = i THEN [rows[k] EXCEPT !.status = s] ELSE rows[k]]
  BY DEF UpdatePaymentStatus
<1>4. ASSUME NEW k \in DOMAIN rows, rows[k].id = i
      PROVE  rows[k].paid = key /\ rows[k].status # "failed" /\ rows'[k].status = s
  <2>1. rows[k] \in Payments
    BY <1>1, LenProperties
  <2>2. rows'[k].status = s
    BY <1>3, <1>4, <2>1 DEF Payments
  <2> QED BY <1>1, <1>4, <2>2 DEF IdsUnique, OnRecord, Settled
<1>5. ASSUME NEW k \in DOMAIN rows, rows[k].id # i PROVE rows'[k] = rows[k]
  BY <1>3, <1>5
<1>6. ASSUME NEW k \in DOMAIN rows
      PROVE  /\ rows'[k].status # "failed" =>
                  Mocking \/ Charged(rows[k].paid, rows[k].room, rows[k].user)
             /\ rows'[k].status = "refunded" => Mocking \/ GivenBack(rows[k].paid)
  BY <1>1, <1>4, <1>5 DEF RowsTrue
<1>7. DOMAIN rows' = DOMAIN rows
  BY <1>3
<1>8. RowsTrue'
  BY <1>2, <1>6, <1>7 DEF RowsTrue, RowsKept, Charged, GivenBack
<1> QED BY <1>2, <1>7, <1>8 DEF RowsKept

\* A row becomes refunded only when its refund was made, and no handler that
\* carries this row says anything of it that is now wrong.
LEMMA SaveRefundTrue ==
  ASSUME TruthInv, RecordInv, NEW h \in Handlers, SaveRefund(h)
  PROVE  TruthInv'
<1>1. pc[h] = "refund_save" /\ UNCHANGED <<client, charges, refunds, nextId>>
  BY DEF SaveRefund, gateway, bounds
<1>2. /\ OnRecord(result[h].id, result[h].paid)
      /\ result[h].status = "refunded" => Mocking \/ GivenBack(result[h].paid)
      /\ result[h].status \in {"refunded", "refund_failed"}
      /\ todo[h] \in Seq(Payments) /\ todo[h] # <<>>
      /\ \A k \in DOMAIN todo[h] : OnRecord(todo[h][k].id, todo[h][k].paid)
  BY <1>1 DEF TruthInv, HandlerTrue, RecordInv, CallInv
<1>3. CASE UNCHANGED rows /\ Return(h)
  BY <1>1, <1>3, ReturnOnlyOf, QuietStepTrue
<1>4. ASSUME UpdatePaymentStatus(result[h].id, result[h].status),
             OnlyOf(h), pc'[h] # "save", HandlerTrue(h)'
      PROVE  TruthInv'
  <2>1. /\ RowsTrue'
        /\ DOMAIN rows' = DOMAIN rows /\ \A k \in DOMAIN rows : rows'[k].id = rows[k].id
    BY <1>1, <1>2, <1>4, UpdateTrue
  <2>2. RowsKept
    BY <1>2, <1>4, UpdateStep
  <2>3. IdsUnique'
    BY <1>1, <1>4, <2>1, SameIdsUnique DEF TruthInv
  <2>4. GatewayKept /\ client' \in Clients
    BY <1>1 DEF GatewayKept, TruthInv
  <2> QED BY <1>4, <2>1, <2>2, <2>3, <2>4, OthersStayTrue
<1>5. CASE UpdatePaymentStatus(result[h].id, result[h].status) /\ Return(h)
  <2>1. OnlyOf(h) /\ pc'[h] = "idle"
    BY <1>5, ReturnOnlyOf
  <2> QED BY <1>4, <1>5, <2>1 DEF HandlerTrue
<1>6. CASE /\ UpdatePaymentStatus(result[h].id, result[h].status)
           /\ Loop(h, Tail(todo[h]), "refund", "refunded") /\ UNCHANGED call
  <2>1. /\ OnlyOf(h) /\ todo'[h] = Tail(todo[h])
        /\ pc'[h] = IF Tail(todo[h]) = <<>> THEN "refunded" ELSE "refund"
    BY <1>6 DEF Loop, OnlyOf, RecordInv
  <2>2. /\ Tail(todo[h]) \in Seq(Payments)
        /\ DOMAIN Tail(todo[h]) = 1 .. (Len(todo[h]) - 1)
        /\ DOMAIN todo[h] = 1 .. Len(todo[h]) /\ Len(todo[h]) \in Nat
        /\ \A k \in 1 .. (Len(todo[h]) - 1) : Tail(todo[h])[k] = todo[h][k + 1]
    BY <1>2, HeadTailProperties, LenProperties
  <2>3. RowsKept
    BY <1>2, <1>6, UpdateStep
  <2>4. ASSUME NEW k \in DOMAIN Tail(todo[h])
        PROVE  OnRecord(todo[h][k].id, todo[h][k].paid)'
    <3>1. k + 1 \in DOMAIN todo[h] /\ todo'[h][k] = todo[h][k + 1]
      BY <2>1, <2>2
    <3>2. OnRecord(todo[h][k + 1].id, todo[h][k + 1].paid)
      BY <1>2, <3>1
    <3> QED BY <2>3, <3>1, <3>2 DEF OnRecord, RowsKept
  <2>5. HandlerTrue(h)'
    <3>1. pc'[h] = "refund" =>
            /\ todo'[h] \in Seq(Payments) /\ todo'[h] # <<>>
            /\ \A k \in DOMAIN todo'[h] : OnRecord(todo[h][k].id, todo[h][k].paid)'
      BY <2>1, <2>2, <2>4
    <3> QED BY <2>1, <3>1 DEF HandlerTrue, Payments
  <2> QED BY <1>4, <1>6, <2>1, <2>5
<1> QED BY <1>3, <1>5, <1>6 DEF SaveRefund

\* A confirmation undoes no charge.
LEMMA ConfirmTrue ==
  ASSUME TruthInv, RecordInv, KeysIdentify, NEW c \in charges, Confirm(c)
  PROVE  TruthInv'
<1>1. UNCHANGED <<client, rows, refunds, nextId, pc, call, todo, result>>
  BY DEF Confirm, local, bounds
<1>2. \A d \in charges : \E e \in charges' :
        /\ e.key = d.key /\ e.room = d.room /\ e.user = d.user
        /\ d.status # "pending" => e.status = d.status
  <2>1. PICK s \in {"succeeded", "canceled"} :
          charges' = (charges \ {c}) \cup {[c EXCEPT !.status = s]}
    BY DEF Confirm
  <2>2. c = [key |-> c.key, room |-> c.room, user |-> c.user, status |-> c.status]
    BY DEF KeysIdentify
  <2>3. /\ [c EXCEPT !.status = s].key = c.key
        /\ [c EXCEPT !.status = s].room = c.room
        /\ [c EXCEPT !.status = s].user = c.user
    BY <2>2
  <2> QED BY <2>1, <2>3 DEF Confirm
<1>3. GatewayKept
  BY <1>1, <1>2 DEF GatewayKept, TruthInv
<1>4. RowsTrue'
  BY <1>1, <1>3, SameRowsTrue DEF TruthInv
<1>5. IdsUnique' /\ client' \in Clients
  BY <1>1 DEF IdsUnique, TruthInv
<1>6. ASSUME NEW h \in Handlers PROVE HandlerTrue(h)'
  <2>1. HandlerTrue(h)
    BY DEF TruthInv
  <2> QED BY <1>1, <1>2, <2>1 DEF HandlerTrue, Charged, Answered, OnRecord, GivenBack
<1> QED BY <1>1, <1>4, <1>5, <1>6 DEF TruthInv

\* A refund that is carried out, or canceled, is of the same payment as before.
LEMMA SettledRefund ==
  ASSUME TruthInv, NEW f \in refunds, SettleRefund(f)
  PROVE  /\ UNCHANGED <<client, rows, charges, nextId, pc, call, todo, result>>
         /\ \E g \in Refunds :
              /\ refunds' = (refunds \ {f}) \cup {g}
              /\ g.id = f.id /\ g.paid = f.paid /\ f.status = "pending"
              /\ g.status \in {"succeeded"} \cup (IF "refund" \in Faults THEN {"canceled"} ELSE {})
<1>1. f \in Refunds
  BY DEF TruthInv
<1>2. PICK s \in {"succeeded"} \cup (IF "refund" \in Faults THEN {"canceled"} ELSE {}) :
        refunds' = (refunds \ {f}) \cup {[f EXCEPT !.status = s]}
  BY DEF SettleRefund
<1>3. s \in RefundStatuses
  BY DEF RefundStatuses
<1>4. [f EXCEPT !.status = s] = [id |-> f.id, paid |-> f.paid, status |-> s]
  BY <1>1 DEF Refunds
<1>5. [f EXCEPT !.status = s] \in Refunds
  BY <1>1, <1>3, <1>4 DEF Refunds
<1> QED BY <1>2, <1>4, <1>5 DEF SettleRefund, local, bounds

\* It is still accepted, which is all that the table says of it.
LEMMA SettleRefundTrue ==
  ASSUME TruthInv, RecordInv, NEW f \in refunds, SettleRefund(f)
  PROVE  TruthInv'
<1>1. UNCHANGED <<client, rows, charges, nextId, pc, call, todo, result>>
  BY SettledRefund
<1>2. PICK g \in Refunds : /\ refunds' = (refunds \ {f}) \cup {g}
                          /\ g.id = f.id /\ g.paid = f.paid
  BY SettledRefund
<1>3. GatewayKept
  BY <1>1, <1>2 DEF GatewayKept, TruthInv
<1>4. RowsTrue'
  BY <1>1, <1>3, SameRowsTrue DEF TruthInv
<1>5. IdsUnique' /\ client' \in Clients
  BY <1>1 DEF IdsUnique, TruthInv
<1>6. ASSUME NEW h \in Handlers PROVE HandlerTrue(h)'
  <2>1. HandlerTrue(h)
    BY DEF TruthInv
  <2> QED BY <1>1, <1>3, <2>1 DEF HandlerTrue, Charged, Answered, OnRecord, GivenBack, GatewayKept
<1> QED BY <1>3, <1>4, <1>5, <1>6 DEF TruthInv, GatewayKept, Refunds

\* Every step keeps TruthInv, one lemma for each kind of step.
LEMMA TruthStep ==
  ASSUME TruthInv, RecordInv, KeysIdentify, [Next]_vars
  PROVE  TruthInv'
<1>1. CASE UNCHANGED vars
  BY <1>1 DEF vars, gateway, local, bounds, TruthInv, RowsTrue, IdsUnique, HandlerTrue,
              Charged, Answered, GivenBack, OnRecord
<1>2. CASE Crash
  BY <1>2, RestartTrue DEF Crash, gateway, bounds, RecordInv
<1> QED
  BY <1>1, <1>2, ProcessPaymentTrue, RefundPaymentTrue, ChargeTrue, SavePaymentTrue,
     RefundTrue, SaveRefundTrue, AnswerTrue, ConfirmTrue, SettleRefundTrue DEF Next, Continue

\* What the table says happened at the gateway did happen there, for any number of
\* concurrent calls and refunds, failures and restarts, in a process that main.go
\* has given a client, or a nil pointer (a mock payment is of no charge).
THEOREM TableIsTrue ==
  ASSUME "nil_interface" \notin Clients
  PROVE  Spec => []RecordsAreTrue
<1>1. Init => KeysIdentify /\ RecordInv /\ TruthInv
  BY EmptySeq DEF Init, KeysIdentify, RecordInv, CallInv, TruthInv, RowsTrue, IdsUnique,
                  HandlerTrue
<1>2. KeysIdentify /\ RecordInv /\ TruthInv /\ [Next]_vars
        => (KeysIdentify /\ RecordInv /\ TruthInv)'
  BY KeysIdentifyStep, RecordInvStep, TruthStep
<1>3. TruthInv => RecordsAreTrue
  BY DEF TruthInv, RowsTrue, RecordsAreTrue, Charged, GivenBack, Mocking
<1> QED BY <1>1, <1>2, <1>3, PTL DEF Spec
-----------------------------------------------------------------------------
(* Types.                                                                   *)

\* TypeOK speaks of the head of a list; the lists a refund goes through must be
\* lists of payments to the end.
TypeInv ==
  /\ client \in Clients
  /\ \A c \in charges :
       c.room \in Rooms /\ c.user \in Users /\ c.status \in ChargeStatuses
  /\ pc \in [Handlers -> Steps]
  /\ \A h \in Handlers :
       pc[h] \in {"refund", "refund_save"} => todo[h] \in Seq(Payments) /\ todo[h] # <<>>

\* A step of one handler keeps the types when its own list stays a list of payments.
LEMMA TypesOfOthers ==
  ASSUME TypeInv, NEW h \in Handlers, OnlyOf(h), client' \in Clients, UNCHANGED charges,
         pc' \in [Handlers -> Steps],
         pc'[h] \in {"refund", "refund_save"} => todo'[h] \in Seq(Payments) /\ todo'[h] # <<>>
  PROVE  TypeInv'
BY DEF TypeInv, OnlyOf

\* Every step keeps the types.
LEMMA TypeStep ==
  ASSUME TypeInv, RecordInv, KeysIdentify, [Next]_vars
  PROVE  TypeInv'
<1>1. ASSUME Restart, UNCHANGED charges PROVE TypeInv'
  BY <1>1 DEF TypeInv, Restart, Steps
<1>2. ASSUME NEW h \in Handlers, Return(h), UNCHANGED <<client, charges>> PROVE TypeInv'
  BY <1>2, ReturnOnlyOf, TypesOfOthers DEF TypeInv, Return, Steps
<1>3. ASSUME NEW h \in Handlers, ProcessPayment(h) PROVE TypeInv'
  <2>1. PICK list \in UserLists, r \in Rooms :
          /\ Loop(h, list, "charge", "charged")
          /\ call' = [call EXCEPT ![h] = [room |-> r, users |-> Elements(list)]]
    BY <1>3 DEF ProcessPayment
  <2>2. OnlyOf(h) /\ pc'[h] \in {"charge", "charged"}
    BY <2>1, LoopOnlyOf
  <2>3. pc' \in [Handlers -> Steps]
    BY <2>1 DEF Loop, TypeInv, Steps
  <2> QED BY <1>3, <2>2, <2>3, TypesOfOthers DEF ProcessPayment, TypeInv, gateway
<1>4. ASSUME NEW h \in Handlers, RefundPayment(h) PROVE TypeInv'
  <2>1. PICK list \in Seq(Payments), r \in Rooms :
          /\ Loop(h, list, "refund", "refunded")
          /\ call' = [call EXCEPT ![h] = [room |-> r, users |-> {}]]
    BY <1>4, PaymentsRead
  <2>2. /\ OnlyOf(h) /\ todo'[h] = list
        /\ pc'[h] = IF list = <<>> THEN "refunded" ELSE "refund"
    BY <2>1, LoopOnlyOf
  <2>3. pc' \in [Handlers -> Steps]
    BY <2>1 DEF Loop, TypeInv, Steps
  <2>4. client' \in Clients /\ UNCHANGED charges
    BY <1>4 DEF RefundPayment, TypeInv, gateway
  <2> QED BY <2>1, <2>2, <2>3, <2>4, TypesOfOthers
<1>5. ASSUME NEW h \in Handlers, Charge(h) PROVE TypeInv'
  <2>1. CASE Restart /\ UNCHANGED charges
    BY <1>1, <2>1
  <2>2. CASE /\ pc' = [pc EXCEPT ![h] = "save"] /\ UNCHANGED <<client, todo>>
             /\ \A c \in charges' \ charges :
                  c.room \in Rooms /\ c.user \in Users /\ c.status \in ChargeStatuses
    BY <2>2 DEF TypeInv, Steps
  <2>3. call[h].room \in Rooms /\ Head(todo[h]) \in Users
    BY <1>5, TailElements DEF Charge, RecordInv, CallInv
  <2>4. ASSUME NEW key, NEW r \in Rooms, NEW u \in Users, NEW answer,
               CreatePayment(key, r, u, answer)
        PROVE  \A c \in charges' \ charges :
                 c.room \in Rooms /\ c.user \in Users /\ c.status \in ChargeStatuses
    BY <2>4 DEF CreatePayment, ChargeStatuses
  <2> QED BY <1>5, <2>1, <2>2, <2>3, <2>4 DEF Charge
<1>6. ASSUME NEW h \in Handlers, SavePayment(h) PROVE TypeInv'
  <2>1. UNCHANGED <<client, charges>>
    BY <1>6 DEF SavePayment, gateway
  <2>2. CASE Loop(h, Tail(todo[h]), "charge", "charged") /\ UNCHANGED call
    <3>1. OnlyOf(h) /\ pc'[h] \in {"charge", "charged"} /\ pc' \in [Handlers -> Steps]
      BY <2>2 DEF Loop, OnlyOf, RecordInv, TypeInv, Steps
    <3> QED BY <2>1, <3>1, TypesOfOthers DEF TypeInv
  <2> QED BY <1>2, <1>6, <2>1, <2>2 DEF SavePayment
<1>7. ASSUME NEW h \in Handlers, Refund(h) PROVE TypeInv'
  <2>1. CASE Restart /\ UNCHANGED charges
    BY <1>1, <2>1
  <2>2. CASE pc' = [pc EXCEPT ![h] = "refund_save"] /\ UNCHANGED <<client, charges, todo>>
    BY <1>7, <2>2 DEF TypeInv, Steps, Refund
  <2> QED BY <1>7, <2>1, <2>2 DEF Refund
<1>8. ASSUME NEW h \in Handlers, SaveRefund(h) PROVE TypeInv'
  <2>1. UNCHANGED <<client, charges>> /\ pc[h] = "refund_save"
    BY <1>8 DEF SaveRefund, gateway
  <2>2. CASE Loop(h, Tail(todo[h]), "refund", "refunded") /\ UNCHANGED call
    <3>1. /\ OnlyOf(h) /\ pc' \in [Handlers -> Steps] /\ todo'[h] = Tail(todo[h])
          /\ pc'[h] = IF Tail(todo[h]) = <<>> THEN "refunded" ELSE "refund"
      BY <2>2 DEF Loop, OnlyOf, RecordInv, TypeInv, Steps
    <3>2. Tail(todo[h]) \in Seq(Payments)
      BY <2>1, HeadTailProperties DEF TypeInv
    <3> QED BY <2>1, <3>1, <3>2, TypesOfOthers DEF TypeInv
  <2> QED BY <1>2, <1>8, <2>1, <2>2 DEF SaveRefund
<1>9. ASSUME NEW c \in charges, Confirm(c) PROVE TypeInv'
  <2>1. PICK s \in {"succeeded", "canceled"} :
          charges' = (charges \ {c}) \cup {[c EXCEPT !.status = s]}
    BY <1>9 DEF Confirm
  <2>2. c = [key |-> c.key, room |-> c.room, user |-> c.user, status |-> c.status]
    BY DEF KeysIdentify
  <2>3. /\ [c EXCEPT !.status = s].room = c.room /\ [c EXCEPT !.status = s].user = c.user
        /\ [c EXCEPT !.status = s].status = s
    BY <2>2
  <2> QED BY <1>9, <2>1, <2>3 DEF TypeInv, Confirm, local, ChargeStatuses
<1>10. CASE UNCHANGED vars
  BY <1>10 DEF vars, gateway, local, TypeInv
<1>11. ASSUME NEW f \in refunds, SettleRefund(f) PROVE TypeInv'
  BY <1>11 DEF SettleRefund, local, TypeInv
<1> QED
  BY <1>1, <1>2, <1>3, <1>4, <1>5, <1>6, <1>7, <1>8, <1>9, <1>10, <1>11
  DEF Next, Continue, Answer, Crash, gateway

\* The variables keep their types: the gateway's payments and the rows have only
\* statuses the code knows, and a loop never takes the head of an empty list.
THEOREM TypeCorrect == Spec => []TypeOK
<1>1. Init => KeysIdentify /\ RecordInv /\ TruthInv /\ TypeInv
  BY EmptySeq DEF Init, KeysIdentify, RecordInv, CallInv, TruthInv, RowsTrue, IdsUnique,
                  HandlerTrue, TypeInv, Steps
<1>2. KeysIdentify /\ RecordInv /\ TruthInv /\ TypeInv /\ [Next]_vars
        => (KeysIdentify /\ RecordInv /\ TruthInv /\ TypeInv)'
  BY KeysIdentifyStep, RecordInvStep, TruthStep, TypeStep
<1>3. RecordInv /\ TruthInv /\ TypeInv => TypeOK
  <2>1. ASSUME RecordInv, NEW i \in DOMAIN rows PROVE IsPayment(rows[i])
    <3>1. rows[i] \in Payments
      BY <2>1, LenProperties DEF RecordInv
    <3> QED BY <3>1 DEF Payments, IsPayment
  <2>2. ASSUME RecordInv, NEW h \in Handlers, pc[h] \in {"charge", "save"}
        PROVE  Head(todo[h]) \in Users /\ call[h].room \in Rooms
    BY <2>2, TailElements DEF RecordInv, CallInv
  <2>3. ASSUME TypeInv, NEW h \in Handlers, pc[h] \in {"refund", "refund_save"}
        PROVE  IsPayment(Head(todo[h]))
    <3>1. Head(todo[h]) \in Payments
      BY <2>3, HeadTailProperties DEF TypeInv
    <3> QED BY <3>1 DEF Payments, IsPayment
  <2>4. ASSUME TruthInv, NEW f \in refunds PROVE f.id \in Nat /\ f.status \in RefundStatuses
    BY <2>4 DEF TruthInv, Refunds
  <2> QED BY <2>1, <2>2, <2>3, <2>4 DEF TypeOK, TypeInv
<1> QED BY <1>1, <1>2, <1>3, PTL DEF Spec
-----------------------------------------------------------------------------
(* A payment recorded as refunded stays so.  Two handlers may both have     *)
(* read a payment as succeeded; the second one refunds it again, and what   *)
(* it then writes must not undo what the first has written.                 *)

\* The charge of a key has gone through, and the refund of a payment is made.
Paid(key) == \E c \in charges : c.key = key /\ c.status = "succeeded"

Refunded(id, key) == \E f \in refunds : f.id = id /\ f.paid = key

\* The id of the mock's payments, which is that of no charge.
MockId == <<"mock">>

\* The process has a gateway to call, if only through a nil pointer.
Real == client # "nil_interface"

\* A refund that was not accepted and will not be: the gateway has no payment of that
\* key, or has used the id for another one, or is giving the money back already.
Hopeless(id, key) ==
  /\ ~Refunded(id, key)
  /\ \/ key = MockId
     \/ \E f \in refunds : f.id = id \/ (f.paid = key /\ f.status # "canceled")

\* A payment on record as succeeded has been paid, or was the mock's.
RowsFinal ==
  \A i \in DOMAIN rows :
    rows[i].status = "succeeded" => rows[i].paid = MockId \/ Paid(rows[i].paid)

\* A payment that says refunded has been, under its own id: so it is as long as only
\* this process has said so.  An earlier one may have been without a gateway.
Fresh(id) ==
  \A i \in DOMAIN rows :
    rows[i].id = id /\ rows[i].status = "refunded" => Refunded(id, rows[i].paid)

\* A handler fails to refund only a payment that never can be; that is none that has
\* been read as succeeded and says refunded by now.
HandlerFinal(h) ==
  /\ pc[h] = "save" /\ result[h].status = "succeeded" =>
       result[h].paid = MockId \/ Paid(result[h].paid)
  /\ pc[h] \in {"refund", "refund_save"} =>
       \A k \in DOMAIN todo[h] :
         /\ todo[h][k].paid = MockId \/ Paid(todo[h][k].paid)
         /\ Real => Fresh(todo[h][k].id)
  /\ pc[h] = "refund_save" =>
       IF Real
       THEN /\ Fresh(result[h].id)
            /\ \/ result[h].status = "refunded" /\ Refunded(result[h].id, result[h].paid)
               \/ result[h].status = "refund_failed" /\ Hopeless(result[h].id, result[h].paid)
       ELSE result[h].status = "refunded"

FinalInv == RowsFinal /\ \A h \in Handlers : HandlerFinal(h)

\* Money that has moved does not move back by itself, and what is refused is so for
\* good: the second holds only as long as no refund is canceled once it was accepted.
MoneyKept ==
  /\ \A c \in charges : c.status = "succeeded" =>
       \E d \in charges' : d.key = c.key /\ d.status = "succeeded"
  /\ \A id, key : Refunded(id, key) => Refunded(id, key)'
  /\ \A id, key : Hopeless(id, key) => Hopeless(id, key)'

\* A process with a gateway says refunded only of what has been.
RefundsBacked ==
  Real => \A i \in DOMAIN rows' : rows'[i].status = "refunded" =>
            \/ i \in DOMAIN rows /\ rows'[i] = rows[i]
            \/ \E f \in refunds' : f.id = rows'[i].id /\ f.paid = rows'[i].paid

\* What is fresh stays so.
LEMMA FreshStays ==
  ASSUME NEW id, Real, Fresh(id), RefundsBacked, MoneyKept
  PROVE  Fresh(id)'
<1>1. ASSUME NEW i \in DOMAIN rows', rows'[i].id = id, rows'[i].status = "refunded"
      PROVE  \E f \in refunds' : f.id = id /\ f.paid = rows'[i].paid
  <2>1. CASE i \in DOMAIN rows /\ rows'[i] = rows[i]
    <3>1. Refunded(id, rows[i].paid)
      BY <1>1, <2>1 DEF Fresh
    <3>2. PICK key : key = rows[i].paid
      OBVIOUS
    <3>3. Refunded(id, key)'
      BY <3>1, <3>2 DEF MoneyKept
    <3> QED BY <2>1, <3>2, <3>3 DEF Refunded
  <2> QED BY <1>1, <2>1 DEF RefundsBacked
<1> QED BY <1>1 DEF Fresh, Refunded

\* Where no refund changes none is taken back.
LEMMA SameRefunds ==
  ASSUME UNCHANGED refunds
  PROVE  /\ \A id, key : Refunded(id, key) => Refunded(id, key)'
         /\ \A id, key : Hopeless(id, key) => Hopeless(id, key)'
BY DEF Refunded, Hopeless, MockId

\* A step of one handler that moves no money back leaves the others what they know.
LEMMA OthersStayFinal ==
  ASSUME FinalInv, NEW h \in Handlers, MoneyKept, RefundsBacked, UNCHANGED client,
         OnlyOf(h), RowsFinal', HandlerFinal(h)'
  PROVE  FinalInv'
<1>1. ASSUME NEW g \in Handlers, g # h PROVE HandlerFinal(g)'
  <2>1. /\ pc'[g] = pc[g] /\ todo'[g] = todo[g] /\ result'[g] = result[g]
        /\ Real' = Real
    BY <1>1 DEF OnlyOf, Real
  <2>2. HandlerFinal(g)
    BY DEF FinalInv
  <2>3. ASSUME NEW key, Paid(key) PROVE Paid(key)'
    BY <2>3 DEF Paid, MoneyKept
  <2>4. ASSUME NEW id, Real, Fresh(id) PROVE Fresh(id)'
    BY <2>4, FreshStays
  <2>5. ASSUME pc[g] = "save", result[g].status = "succeeded"
        PROVE  result[g].paid = MockId \/ (\E d \in charges' : d.key = result[g].paid
                                                            /\ d.status = "succeeded")
    BY <2>2, <2>5 DEF HandlerFinal, Paid, MoneyKept
  <2>6. ASSUME pc[g] \in {"refund", "refund_save"}, NEW k \in DOMAIN todo[g],
               NEW p, p = todo[g][k]
        PROVE  (p.paid = MockId \/ Paid(p.paid)') /\ (Real => Fresh(p.id)')
    BY <2>2, <2>3, <2>4, <2>6 DEF HandlerFinal
  <2>7. ASSUME pc[g] = "refund_save", NEW p, p = result[g]
        PROVE  IF Real
               THEN /\ Fresh(p.id)'
                    /\ \/ p.status = "refunded" /\ Refunded(p.id, p.paid)'
                       \/ p.status = "refund_failed" /\ Hopeless(p.id, p.paid)'
               ELSE p.status = "refunded"
    <3>1. CASE ~Real
      BY <2>2, <2>7, <3>1 DEF HandlerFinal
    <3>2. CASE Real
      <4>1. /\ Fresh(p.id)
            /\ \/ p.status = "refunded" /\ Refunded(p.id, p.paid)
               \/ p.status = "refund_failed" /\ Hopeless(p.id, p.paid)
        BY <2>2, <2>7, <3>2 DEF HandlerFinal
      <4>2. Fresh(p.id)'
        BY <2>4, <3>2, <4>1
      <4>3. PICK id, key : id = p.id /\ key = p.paid
        OBVIOUS
      <4>4. /\ Refunded(id, key) => Refunded(id, key)'
            /\ Hopeless(id, key) => Hopeless(id, key)'
        BY DEF MoneyKept
      <4> QED BY <3>2, <4>1, <4>2, <4>3, <4>4 DEF Refunded, Hopeless, MockId
    <3> QED BY <3>1, <3>2
  <2>8. pc'[g] = "save" /\ result'[g].status = "succeeded" =>
          (result[g].paid = MockId \/ Paid(result[g].paid))'
    BY <2>1, <2>5 DEF Paid, MockId
  <2>9. ASSUME pc'[g] \in {"refund", "refund_save"}, NEW k \in DOMAIN todo'[g]
        PROVE  (/\ todo[g][k].paid = MockId \/ Paid(todo[g][k].paid)
                /\ Real => Fresh(todo[g][k].id))'
    <3>1. PICK p : p = todo[g][k]
      OBVIOUS
    <3>2. (p.paid = MockId \/ Paid(p.paid)') /\ (Real => Fresh(p.id)')
      BY <2>1, <2>6, <2>9, <3>1
    <3> QED BY <2>1, <3>1, <3>2 DEF Paid, Fresh, Refunded, MockId
  <2>10. ASSUME pc'[g] = "refund_save"
         PROVE  (IF Real
                 THEN /\ Fresh(result[g].id)
                      /\ \/ result[g].status = "refunded" /\ Refunded(result[g].id, result[g].paid)
                         \/ /\ result[g].status = "refund_failed"
                            /\ Hopeless(result[g].id, result[g].paid)
                 ELSE result[g].status = "refunded")'
    <3>1. PICK p : p = result[g]
      OBVIOUS
    <3>2. IF Real
          THEN /\ Fresh(p.id)'
               /\ \/ p.status = "refunded" /\ Refunded(p.id, p.paid)'
                  \/ p.status = "refund_failed" /\ Hopeless(p.id, p.paid)'
          ELSE p.status = "refunded"
      BY <2>1, <2>7, <2>10, <3>1
    <3> QED BY <2>1, <3>1, <3>2 DEF Fresh, Refunded, Hopeless, MockId
  <2> QED BY <2>8, <2>9, <2>10 DEF HandlerFinal
<1> QED BY <1>1 DEF FinalInv

\* Rows that stay as they are stay final.
LEMMA SameRowsFinal ==
  ASSUME RowsFinal, UNCHANGED rows, MoneyKept
  PROVE  RowsFinal' /\ RefundsBacked
BY DEF RowsFinal, Paid, MoneyKept, MockId, RefundsBacked

\* A step of one handler that moves no money, and leaves it with nothing in hand.
LEMMA QuietStepFinal ==
  ASSUME FinalInv, NEW h \in Handlers, OnlyOf(h),
         pc'[h] \notin {"save", "refund", "refund_save"},
         UNCHANGED <<client, charges, refunds>>,
         UNCHANGED rows \/ (RowsFinal' /\ RefundsBacked)
  PROVE  FinalInv'
<1>1. MoneyKept
  BY SameRefunds DEF MoneyKept
<1>2. RowsFinal' /\ RefundsBacked
  BY <1>1, SameRowsFinal DEF FinalInv
<1>3. HandlerFinal(h)'
  BY DEF HandlerFinal
<1> QED BY <1>1, <1>2, <1>3, OthersStayFinal

\* A restart changes no row, and afterwards no handler carries a payment.
LEMMA RestartFinal ==
  ASSUME FinalInv, Restart, UNCHANGED <<rows, charges, refunds>>
  PROVE  FinalInv'
<1>1. MoneyKept
  BY SameRefunds DEF MoneyKept
<1>2. RowsFinal'
  BY <1>1, SameRowsFinal DEF FinalInv
<1> QED BY <1>2 DEF FinalInv, HandlerFinal, Restart

\* A new call to charge changes no row and carries no payment.
LEMMA ProcessPaymentFinal ==
  ASSUME FinalInv, RecordInv, NEW h \in Handlers, ProcessPayment(h)
  PROVE  FinalInv'
<1>1. PICK list \in UserLists, r \in Rooms :
        /\ Loop(h, list, "charge", "charged")
        /\ call' = [call EXCEPT ![h] = [room |-> r, users |-> Elements(list)]]
  BY DEF ProcessPayment
<1>2. OnlyOf(h) /\ pc'[h] \in {"charge", "charged"}
  BY <1>1, LoopOnlyOf
<1> QED BY <1>2, QuietStepFinal DEF ProcessPayment, gateway

\* What is read as succeeded has been paid.
LEMMA RefundPaymentFinal ==
  ASSUME FinalInv, TruthInv, RecordInv, NEW h \in Handlers, RefundPayment(h)
  PROVE  FinalInv'
<1>1. PICK list \in Seq(Payments), r \in Rooms :
        /\ Loop(h, list, "refund", "refunded")
        /\ call' = [call EXCEPT ![h] = [room |-> r, users |-> {}]]
        /\ \A k \in DOMAIN list : \E i \in DOMAIN rows :
             list[k] = rows[i] /\ rows[i].status = "succeeded"
  <2>1. \E list \in Seq(Payments), r \in Rooms :
          /\ Loop(h, list, "refund", "refunded")
          /\ call' = [call EXCEPT ![h] = [room |-> r, users |-> {}]]
          /\ \A k \in DOMAIN list : OnRecord(list[k].id, list[k].paid)
          /\ \A k \in DOMAIN list : \E i \in DOMAIN rows :
               list[k] = rows[i] /\ rows[i].status = "succeeded"
    BY PaymentsRead
  <2> QED BY <2>1, Zenon
<1>2. UNCHANGED <<rows, charges, refunds>>
  BY DEF RefundPayment, gateway
<1>3. /\ OnlyOf(h) /\ todo'[h] = list
      /\ pc'[h] = IF list = <<>> THEN "refunded" ELSE "refund"
  <2>1. /\ Loop(h, list, "refund", "refunded")
        /\ call' = [call EXCEPT ![h] = [room |-> r, users |-> {}]]
    BY <1>1
  <2> QED BY <2>1, LoopOnlyOf
<1>4. MoneyKept
  BY <1>2, SameRefunds DEF MoneyKept
<1>5. RowsFinal' /\ RefundsBacked
  BY <1>2, <1>4, SameRowsFinal DEF FinalInv
<1>6. ASSUME NEW k \in DOMAIN list
      PROVE  (list[k].paid = MockId \/ Paid(list[k].paid)) /\ Fresh(list[k].id)
  <2>1. PICK i \in DOMAIN rows : list[k] = rows[i] /\ rows[i].status = "succeeded"
    BY <1>1
  <2>2. rows[i].paid = MockId \/ Paid(rows[i].paid)
    BY <2>1 DEF FinalInv, RowsFinal
  <2>3. Fresh(rows[i].id)
    BY <2>1 DEF Fresh, TruthInv, IdsUnique
  <2> QED BY <2>1, <2>2, <2>3
<1>7. HandlerFinal(h)'
  <2>1. ASSUME NEW k \in DOMAIN todo'[h]
        PROVE  (/\ todo[h][k].paid = MockId \/ Paid(todo[h][k].paid)
                /\ Real => Fresh(todo[h][k].id))'
    BY <1>2, <1>3, <1>6 DEF Paid, Fresh, Refunded, MockId
  <2> QED BY <1>3, <2>1 DEF HandlerFinal
<1>8. UNCHANGED client
  BY DEF RefundPayment
<1> QED BY <1>3, <1>4, <1>5, <1>7, <1>8, OthersStayFinal

\* The gateway's answer "succeeded" is true, and what has gone through stays.
LEMMA CreatePaymentFinal ==
  ASSUME NEW key, NEW r, NEW u, NEW answer, CreatePayment(key, r, u, answer)
  PROVE  charges \subseteq charges' /\ (answer = "succeeded" => Paid(key)')
<1>1. CASE Failing /\ answer = "failed" /\ UNCHANGED charges
  BY <1>1
<1>2. CASE \E c \in charges :
             /\ c.key = key /\ UNCHANGED charges
             /\ answer = c.status \/ answer = "failed"
  BY <1>2 DEF Paid
<1>3. CASE \E s \in {"pending", "succeeded"} :
             /\ charges' = charges \cup {[key |-> key, room |-> r, user |-> u, status |-> s]}
             /\ answer = s \/ answer = "failed"
  <2>1. PICK s \in {"pending", "succeeded"} :
          /\ charges' = charges \cup {[key |-> key, room |-> r, user |-> u, status |-> s]}
          /\ answer = s \/ answer = "failed"
    BY <1>3
  <2> DEFINE c == [key |-> key, room |-> r, user |-> u, status |-> s]
  <2>2. c \in charges' /\ charges \subseteq charges' /\ c.key = key /\ c.status = s
    BY <2>1
  <2> QED BY <2>1, <2>2 DEF Paid
<1> QED BY <1>1, <1>2, <1>3 DEF CreatePayment

\* A charge adds a payment to the gateway, or answers with the one of its key:
\* either way what is paid or refunded there stays so.
LEMMA ChargeFinal ==
  ASSUME FinalInv, TruthInv, RecordInv, NEW h \in Handlers, Charge(h)
  PROVE  FinalInv'
<1>1. UNCHANGED <<rows, refunds>>
  BY DEF Charge
<1>2. CASE Restart /\ UNCHANGED charges
  BY <1>1, <1>2, RestartFinal
<1>3. ASSUME charges \subseteq charges', NEW answer, NEW key, UNCHANGED <<client, call, todo>>,
             answer = "succeeded" =>
               key = MockId \/ \E c \in charges' : c.key = key /\ c.status = "succeeded",
             pc' = [pc EXCEPT ![h] = "save"],
             result' = [result EXCEPT ![h] = [id |-> nextId, status |-> answer, paid |-> key]]
      PROVE  FinalInv'
  <2>1. /\ OnlyOf(h) /\ pc'[h] = "save"
        /\ result'[h] = [id |-> nextId, status |-> answer, paid |-> key]
    BY <1>3 DEF OnlyOf, RecordInv
  <2>2. MoneyKept
    BY <1>1, <1>3, SameRefunds DEF MoneyKept
  <2>3. RowsFinal' /\ RefundsBacked
    BY <1>1, <2>2, SameRowsFinal DEF FinalInv
  <2>4. HandlerFinal(h)'
    BY <1>3, <2>1 DEF HandlerFinal, Paid, MockId
  <2> QED BY <1>3, <2>1, <2>2, <2>3, <2>4, OthersStayFinal
<1>4. CASE client = "configured"
  <2>1. PICK answer \in ChargeStatuses \cup {"failed"} :
          /\ CreatePayment(<<call[h].room, Head(todo[h])>>,
                           call[h].room, Head(todo[h]), answer)
          /\ pc' = [pc EXCEPT ![h] = "save"]
          /\ result' = [result EXCEPT ![h] =
               [id |-> nextId, status |-> answer,
                paid |-> IF answer = "failed" THEN <<>>
                         ELSE <<call[h].room, Head(todo[h])>>]]
          /\ UNCHANGED <<client, call, todo>>
    BY <1>4 DEF Charge, IdempotencyKey
  <2>2. PICK r, u : r = call[h].room /\ u = Head(todo[h])
    OBVIOUS
  <2>3. CreatePayment(<<r, u>>, r, u, answer)
    BY <2>1, <2>2
  <2>4. /\ charges \subseteq charges'
        /\ answer = "succeeded" =>
             \E c \in charges' : c.key = <<r, u>> /\ c.status = "succeeded"
    BY <2>3, CreatePaymentFinal DEF Paid
  <2>5. PICK key : key = IF answer = "failed" THEN <<>> ELSE <<r, u>>
    OBVIOUS
  <2>6. result' = [result EXCEPT ![h] = [id |-> nextId, status |-> answer, paid |-> key]]
    BY <2>1, <2>2, <2>5
  <2>7. answer = "succeeded" =>
          key = MockId \/ \E c \in charges' : c.key = key /\ c.status = "succeeded"
    BY <2>4, <2>5
  <2>8. charges \subseteq charges'
    BY <2>4
  <2>9. pc' = [pc EXCEPT ![h] = "save"] /\ UNCHANGED <<client, call, todo>>
    BY <2>1
  <2> QED BY <1>3, <2>6, <2>7, <2>8, <2>9, Zenon
<1>5. CASE client = "nil_interface"
  <2>1. /\ pc' = [pc EXCEPT ![h] = "save"]
        /\ result' = [result EXCEPT ![h] =
             [id |-> nextId, status |-> "succeeded", paid |-> MockId]]
        /\ UNCHANGED <<client, call, todo, charges>>
    BY <1>5 DEF Charge, MockId
  <2> QED BY <1>3, <2>1
<1> QED BY <1>2, <1>4, <1>5 DEF Charge

\* A row is added behind the others, with the status of a charge, which is not
\* refunded; the rows that were there are as before.
LEMMA InsertFinal ==
  ASSUME FinalInv, RecordInv, NEW h \in Handlers, pc[h] = "save", InsertPayment(h),
         UNCHANGED <<charges, refunds>>
  PROVE  RowsFinal' /\ RefundsBacked /\ \A i \in DOMAIN rows : rows'[i] = rows[i]
<1> DEFINE new == [id |-> result[h].id, room |-> call[h].room, user |-> Head(todo[h]),
                   paid |-> result[h].paid, status |-> result[h].status]
<1>1. rows \in Seq(Payments) /\ result[h].status # "refunded"
  BY DEF RecordInv, CallInv, Results, ChargeStatuses
<1>2. new.paid = result[h].paid /\ new.status = result[h].status
  OBVIOUS
<1>3. rows' = Append(rows, new)
  BY DEF InsertPayment
<1> HIDE DEF new
<1>4. /\ DOMAIN rows' = DOMAIN rows \cup {Len(rows) + 1}
      /\ \A i \in DOMAIN rows : rows'[i] = rows[i]
      /\ rows'[Len(rows) + 1] = new
  BY <1>1, <1>3, LenProperties
<1>5. new.status = "succeeded" => new.paid = MockId \/ Paid(new.paid)
  BY <1>2 DEF FinalInv, HandlerFinal
<1>6. RowsFinal'
  BY <1>4, <1>5 DEF FinalInv, RowsFinal, Paid, MockId
<1>7. RefundsBacked
  BY <1>1, <1>2, <1>4 DEF RefundsBacked
<1> QED BY <1>4, <1>6, <1>7

\* The insert keeps FinalInv, whether it succeeds or fails.
LEMMA SavePaymentFinal ==
  ASSUME FinalInv, RecordInv, NEW h \in Handlers, SavePayment(h)
  PROVE  FinalInv'
<1>1. pc[h] = "save" /\ UNCHANGED <<client, charges, refunds>>
  BY DEF SavePayment, gateway
<1>2. UNCHANGED rows \/ (RowsFinal' /\ RefundsBacked)
  BY <1>1, InsertFinal DEF SavePayment
<1>3. CASE Return(h)
  BY <1>1, <1>2, <1>3, ReturnOnlyOf, QuietStepFinal
<1>4. CASE Loop(h, Tail(todo[h]), "charge", "charged") /\ UNCHANGED call
  <2>1. OnlyOf(h) /\ pc'[h] \in {"charge", "charged"}
    BY <1>4 DEF Loop, OnlyOf, RecordInv
  <2> QED BY <1>1, <1>2, <2>1, QuietStepFinal
<1> QED BY <1>3, <1>4 DEF SavePayment

\* The key of a charge is not the mock's id.
LEMMA KeysAreNotMock ==
  ASSUME KeysIdentify, NEW c \in charges
  PROVE  c.key # MockId
<1>1. ASSUME NEW r, NEW u PROVE <<r, u>> # MockId
  BY DEF MockId
<1> QED BY <1>1 DEF KeysIdentify

\* Without failures of the gateway a refund fails for good or not at all, and a refund
\* it accepts is not one that had failed.
LEMMA CreateRefundFinal ==
  ASSUME "gateway" \notin Faults, NEW key, NEW id, NEW ok, CreateRefund(key, id, ok),
         key = MockId \/ Paid(key), KeysIdentify
  PROVE  /\ \A i, k : Refunded(i, k) => Refunded(i, k)'
         /\ \A i, k : Hopeless(i, k) => Hopeless(i, k)'
         /\ ok => Refunded(id, key)'
         /\ ~ok => Hopeless(id, key)'
<1>1. CASE Accepted(key, id) /\ ok /\ UNCHANGED refunds
  BY <1>1, SameRefunds DEF Accepted, Refunded
<1>2. CASE /\ Refundable(key, id) /\ ok
           /\ \E s \in RefundStatuses :
                refunds' = refunds \cup {[id |-> id, paid |-> key, status |-> s]}
  <2>1. PICK s \in RefundStatuses :
          refunds' = refunds \cup {[id |-> id, paid |-> key, status |-> s]}
    BY <1>2
  <2> DEFINE new == [id |-> id, paid |-> key, status |-> s]
  <2>2. refunds' = refunds \cup {new} /\ new.id = id /\ new.paid = key
    BY <2>1
  <2> HIDE DEF new
  <2>3. key # MockId
    BY <1>2, KeysAreNotMock DEF Refundable
  <2>4. ASSUME NEW i, NEW k, Hopeless(i, k) PROVE i # id \/ k # key
    BY <1>2, <2>3, <2>4 DEF Hopeless, Refundable
  <2>5. \A i, k : Hopeless(i, k) => Hopeless(i, k)'
    BY <2>2, <2>4 DEF Hopeless, Refunded, MockId
  <2> QED BY <1>2, <2>2, <2>5 DEF Refunded
<1>3. CASE ~ok /\ ~(Accepted(key, id) \/ Refundable(key, id)) /\ UNCHANGED refunds
  <2>1. Hopeless(id, key)
    BY <1>3 DEF Hopeless, Refunded, Accepted, Refundable, Paid
  <2> QED BY <1>3, <2>1, SameRefunds
<1> QED BY <1>1, <1>2, <1>3 DEF CreateRefund, Failing

\* A refund that fails fails for good: the gateway has refunded the key for another
\* payment, or there is nothing it could refund.
LEMMA RefundFinal ==
  ASSUME FinalInv, TruthInv, RecordInv, KeysIdentify, "gateway" \notin Faults,
         NEW h \in Handlers, Refund(h)
  PROVE  FinalInv'
<1>1. UNCHANGED <<rows, charges>> /\ pc[h] = "refund"
  BY DEF Refund
<1>2. CASE Restart /\ UNCHANGED refunds
  BY <1>1, <1>2, RestartFinal
<1>3. PICK p : p = Head(todo[h])
  OBVIOUS
<1>4. /\ \A k \in DOMAIN todo[h] : /\ todo[h][k].paid = MockId \/ Paid(todo[h][k].paid)
                                   /\ Real => Fresh(todo[h][k].id)
      /\ p.paid = MockId \/ Paid(p.paid)
      /\ Real => Fresh(p.id)
  <2>1. \A k \in DOMAIN todo[h] : /\ todo[h][k].paid = MockId \/ Paid(todo[h][k].paid)
                                  /\ Real => Fresh(todo[h][k].id)
    BY <1>1 DEF FinalInv, HandlerFinal
  <2>2. todo[h] \in Seq(Payments) /\ todo[h] # <<>>
    BY <1>1 DEF TruthInv, HandlerTrue
  <2>3. 1 \in DOMAIN todo[h] /\ p = todo[h][1]
    BY <1>3, <2>2, LenProperties, EmptySeq
  <2> QED BY <2>1, <2>3
<1>5. ASSUME NEW ok \in BOOLEAN, NEW id, NEW key, id = p.id, key = p.paid,
             \A i, k : Refunded(i, k) => Refunded(i, k)',
             \A i, k : Hopeless(i, k) => Hopeless(i, k)',
             IF Real THEN (ok => Refunded(id, key)') /\ (~ok => Hopeless(id, key)') ELSE ok,
             pc' = [pc EXCEPT ![h] = "refund_save"],
             result' = [result EXCEPT ![h] =
                          [id |-> p.id, status |-> NewStatus(ok), paid |-> p.paid]],
             UNCHANGED <<client, call, todo>>
      PROVE  FinalInv'
  <2>1. OnlyOf(h) /\ pc'[h] = "refund_save" /\ todo'[h] = todo[h]
        /\ result'[h] = [id |-> p.id, status |-> NewStatus(ok), paid |-> p.paid]
    BY <1>5 DEF OnlyOf, RecordInv
  <2>2. MoneyKept
    BY <1>1, <1>5 DEF MoneyKept
  <2>3. RowsFinal' /\ RefundsBacked
    BY <1>1, <1>5 DEF FinalInv, RowsFinal, Paid, MockId, RefundsBacked
  <2>4. ASSUME NEW i, Real => Fresh(i) PROVE (Real => Fresh(i))'
    BY <1>5, <2>2, <2>3, <2>4, FreshStays DEF Real
  <2>5. ASSUME NEW k \in DOMAIN todo'[h]
        PROVE  (/\ todo[h][k].paid = MockId \/ Paid(todo[h][k].paid)
                /\ Real => Fresh(todo[h][k].id))'
    <3>1. PICK q : q = todo[h][k]
      OBVIOUS
    <3>2. (q.paid = MockId \/ Paid(q.paid)) /\ (Real => Fresh(q.id))
      BY <1>4, <2>1, <3>1
    <3>3. (Real => Fresh(q.id))'
      BY <2>4, <3>2
    <3> QED BY <1>1, <2>1, <3>1, <3>2, <3>3 DEF Paid, Real, Fresh, Refunded, MockId
  <2>6. (IF Real
         THEN /\ Fresh(result[h].id)
              /\ \/ result[h].status = "refunded" /\ Refunded(result[h].id, result[h].paid)
                 \/ result[h].status = "refund_failed" /\ Hopeless(result[h].id, result[h].paid)
         ELSE result[h].status = "refunded")'
    <3>1. Real' = Real
      BY <1>5 DEF Real
    <3>2. /\ result'[h].id = p.id /\ result'[h].paid = p.paid
          /\ result'[h].status = IF ok THEN "refunded" ELSE "refund_failed"
      BY <2>1 DEF NewStatus
    <3>3. Real => Fresh(p.id)'
      BY <1>4, <2>4, <3>1
    <3> QED BY <1>5, <3>1, <3>2, <3>3 DEF Fresh, Refunded, Hopeless, MockId
  <2>7. HandlerFinal(h)'
    BY <2>1, <2>5, <2>6 DEF HandlerFinal
  <2> QED BY <1>5, <2>1, <2>2, <2>3, <2>7, OthersStayFinal
<1>7. CASE client = "configured"
  <2>1. PICK ok \in BOOLEAN :
          /\ CreateRefund(p.paid, p.id, ok)
          /\ pc' = [pc EXCEPT ![h] = "refund_save"]
          /\ result' = [result EXCEPT ![h] =
                          [id |-> p.id, status |-> NewStatus(ok), paid |-> p.paid]]
          /\ UNCHANGED <<client, call, todo>>
    BY <1>3, <1>7 DEF Refund
  <2>2. PICK key, id : key = p.paid /\ id = p.id
    OBVIOUS
  <2>3. CreateRefund(key, id, ok) /\ (key = MockId \/ Paid(key))
    BY <1>4, <2>1, <2>2
  <2>4. /\ \A i, k : Refunded(i, k) => Refunded(i, k)'
        /\ \A i, k : Hopeless(i, k) => Hopeless(i, k)'
        /\ ok => Refunded(id, key)'
        /\ ~ok => Hopeless(id, key)'
    BY <2>3, CreateRefundFinal
  <2>5. Real
    BY <1>7 DEF Real
  <2> QED BY <1>5, <2>1, <2>2, <2>4, <2>5
<1>8. CASE client = "nil_interface"
  <2>1. /\ pc' = [pc EXCEPT ![h] = "refund_save"]
        /\ result' = [result EXCEPT ![h] =
                        [id |-> p.id, status |-> NewStatus(TRUE), paid |-> p.paid]]
        /\ UNCHANGED <<client, call, todo, refunds>>
    BY <1>3, <1>8 DEF Refund
  <2>2. ~Real
    BY <1>8 DEF Real
  <2>3. PICK key, id : key = p.paid /\ id = p.id
    OBVIOUS
  <2> QED BY <1>5, <2>1, <2>2, <2>3, SameRefunds
<1> QED BY <1>2, <1>7, <1>8 DEF Refund

\* An update writes "refund_failed" over no "refunded", and "refunded" only where
\* the refund of that payment was made.
LEMMA UpdateFinal ==
  ASSUME FinalInv, TruthInv, RecordInv, NEW h \in Handlers, pc[h] = "refund_save",
         UpdatePaymentStatus(result[h].id, result[h].status), UNCHANGED <<charges, refunds>>
  PROVE  /\ RowsFinal' /\ RefundsBacked
         /\ \A k \in DOMAIN rows : rows[k].status = "refunded" => rows'[k].status = "refunded"
<1>1. /\ RowsFinal /\ IdsUnique /\ rows \in Seq(Payments)
      /\ OnRecord(result[h].id, result[h].paid)
      /\ result[h].status \in {"refunded", "refund_failed"}
  BY DEF FinalInv, TruthInv, HandlerTrue, RecordInv, CallInv
<1>2. IF Real
      THEN /\ Fresh(result[h].id)
           /\ \/ result[h].status = "refunded" /\ Refunded(result[h].id, result[h].paid)
              \/ result[h].status = "refund_failed" /\ Hopeless(result[h].id, result[h].paid)
      ELSE result[h].status = "refunded"
  BY DEF FinalInv, HandlerFinal
<1>3. rows' = [k \in DOMAIN rows |-> IF rows[k].id = result[h].id
                                    THEN [rows[k] EXCEPT !.status = result[h].status]
                                    ELSE rows[k]]
  BY DEF UpdatePaymentStatus
<1>4. ASSUME NEW k \in DOMAIN rows, rows[k].id = result[h].id
      PROVE  /\ rows[k].paid = result[h].paid
             /\ rows'[k].status = result[h].status
             /\ rows'[k].id = rows[k].id /\ rows'[k].paid = rows[k].paid
  <2>1. rows[k] \in Payments
    BY <1>1, LenProperties
  <2>2. rows'[k] = [rows[k] EXCEPT !.status = result[h].status]
    BY <1>3, <1>4
  <2> QED BY <1>1, <1>4, <2>1, <2>2 DEF IdsUnique, OnRecord, Payments
<1>5. ASSUME NEW k \in DOMAIN rows, rows[k].id # result[h].id PROVE rows'[k] = rows[k]
  BY <1>3, <1>5
<1>6. ASSUME NEW k \in DOMAIN rows, rows[k].status = "refunded"
      PROVE  rows'[k].status = "refunded"
  <2>1. CASE rows[k].id # result[h].id
    BY <1>5, <1>6, <2>1
  <2>2. CASE rows[k].id = result[h].id /\ result[h].status = "refunded"
    BY <1>4, <2>2
  <2>3. CASE rows[k].id = result[h].id /\ result[h].status = "refund_failed"
    <3>1. Real /\ Fresh(result[h].id)
      BY <1>2, <2>3
    <3>2. Refunded(result[h].id, result[h].paid)
      BY <1>4, <1>6, <2>3, <3>1 DEF Fresh
    <3>3. FALSE
      BY <1>2, <2>3, <3>1, <3>2 DEF Hopeless
    <3> QED BY <3>3
  <2> QED BY <1>1, <2>1, <2>2, <2>3
<1>7. ASSUME NEW k \in DOMAIN rows
      PROVE  rows'[k].status = "succeeded" => rows'[k].paid = MockId \/ Paid(rows'[k].paid)
  BY <1>1, <1>4, <1>5 DEF RowsFinal
<1>8. DOMAIN rows' = DOMAIN rows
  BY <1>3
<1>9. RowsFinal'
  BY <1>1, <1>7, <1>8 DEF RowsFinal, Paid, MockId
<1>10. ASSUME Real, NEW k \in DOMAIN rows, rows'[k].status = "refunded", rows'[k] # rows[k]
       PROVE  \E f \in refunds : f.id = rows'[k].id /\ f.paid = rows'[k].paid
  <2>1. rows[k].id = result[h].id /\ result[h].status = "refunded"
    BY <1>4, <1>5, <1>10
  <2>2. Refunded(result[h].id, result[h].paid)
    BY <1>2, <1>10, <2>1
  <2> QED BY <1>4, <2>1, <2>2 DEF Refunded
<1>11. RefundsBacked
  BY <1>8, <1>10 DEF RefundsBacked
<1> QED BY <1>6, <1>9, <1>11

\* Two handlers may have read one payment as succeeded: what the second writes
\* is what the first has written.
LEMMA SaveRefundFinal ==
  ASSUME FinalInv, TruthInv, RecordInv, NEW h \in Handlers, SaveRefund(h)
  PROVE  FinalInv'
<1>1. pc[h] = "refund_save" /\ UNCHANGED <<client, charges, refunds>>
  BY DEF SaveRefund, gateway
<1>2. UNCHANGED rows \/ (RowsFinal' /\ RefundsBacked)
  BY <1>1, UpdateFinal DEF SaveRefund
<1>3. CASE Return(h)
  BY <1>1, <1>2, <1>3, ReturnOnlyOf, QuietStepFinal
<1>4. CASE Loop(h, Tail(todo[h]), "refund", "refunded") /\ UNCHANGED call
  <2>1. /\ OnlyOf(h) /\ todo'[h] = Tail(todo[h])
        /\ pc'[h] = IF Tail(todo[h]) = <<>> THEN "refunded" ELSE "refund"
    BY <1>4 DEF Loop, OnlyOf, RecordInv
  <2>2. todo[h] \in Seq(Payments) /\ todo[h] # <<>>
    BY <1>1 DEF TruthInv, HandlerTrue
  <2>3. \A k \in DOMAIN Tail(todo[h]) :
          k + 1 \in DOMAIN todo[h] /\ Tail(todo[h])[k] = todo[h][k + 1]
    <3>1. /\ DOMAIN Tail(todo[h]) = 1 .. (Len(todo[h]) - 1)
          /\ DOMAIN todo[h] = 1 .. Len(todo[h]) /\ Len(todo[h]) \in Nat
          /\ \A k \in 1 .. (Len(todo[h]) - 1) : Tail(todo[h])[k] = todo[h][k + 1]
      BY <2>2, HeadTailProperties, LenProperties
    <3> QED BY <3>1
  <2>4. MoneyKept
    BY <1>1, SameRefunds DEF MoneyKept
  <2>5. RowsFinal' /\ RefundsBacked
    BY <1>1, <1>2, <2>4, SameRowsFinal DEF FinalInv
  <2>6. ASSUME NEW k \in DOMAIN todo'[h]
        PROVE  (/\ todo[h][k].paid = MockId \/ Paid(todo[h][k].paid)
                /\ Real => Fresh(todo[h][k].id))'
    <3>1. PICK q : q = todo'[h][k]
      OBVIOUS
    <3>2. (q.paid = MockId \/ Paid(q.paid)) /\ (Real => Fresh(q.id))
      BY <1>1, <2>1, <2>3, <3>1 DEF FinalInv, HandlerFinal
    <3>3. (Real => Fresh(q.id))'
      BY <1>1, <2>4, <2>5, <3>2, FreshStays DEF Real
    <3> QED BY <1>1, <3>1, <3>2, <3>3 DEF Paid, Real, Fresh, Refunded, MockId
  <2>7. HandlerFinal(h)'
    BY <2>1, <2>6 DEF HandlerFinal
  <2> QED BY <1>1, <2>1, <2>4, <2>5, <2>7, OthersStayFinal
<1> QED BY <1>3, <1>4 DEF SaveRefund

\* What the gateway does by itself concerns no handler as long as no money moves back.
LEMMA GatewayFinal ==
  ASSUME FinalInv, MoneyKept, UNCHANGED <<client, rows, pc, call, todo, result>>
  PROVE  FinalInv'
<1>1. RowsFinal' /\ RefundsBacked /\ Real' = Real
  BY SameRowsFinal DEF FinalInv, Real
<1>2. ASSUME NEW key, key = MockId \/ Paid(key) PROVE (key = MockId \/ Paid(key))'
  BY <1>2 DEF Paid, MoneyKept, MockId
<1>3. ASSUME NEW id, Real => Fresh(id) PROVE Real => Fresh(id)'
  BY <1>1, <1>3, FreshStays
<1>4. ASSUME NEW h \in Handlers PROVE HandlerFinal(h)'
  <2>1. HandlerFinal(h)
    BY DEF FinalInv
  <2>2. pc[h] = "save" /\ result[h].status = "succeeded" =>
          (result[h].paid = MockId \/ Paid(result[h].paid))'
    <3>1. PICK key : key = result[h].paid
      OBVIOUS
    <3> QED BY <1>2, <2>1, <3>1 DEF HandlerFinal, Paid, MockId
  <2>3. ASSUME pc[h] \in {"refund", "refund_save"}, NEW k \in DOMAIN todo[h]
        PROVE  (/\ todo[h][k].paid = MockId \/ Paid(todo[h][k].paid)
                /\ Real => Fresh(todo[h][k].id))'
    <3>1. PICK q : q = todo[h][k]
      OBVIOUS
    <3>2. (q.paid = MockId \/ Paid(q.paid)) /\ (Real => Fresh(q.id))
      BY <2>1, <2>3, <3>1 DEF HandlerFinal
    <3>3. (q.paid = MockId \/ Paid(q.paid))' /\ (Real => Fresh(q.id)')
      BY <1>2, <1>3, <3>2
    <3> QED BY <1>1, <3>1, <3>3 DEF Paid, Fresh, Refunded, MockId
  <2>4. ASSUME pc[h] = "refund_save"
        PROVE  (IF Real
                THEN /\ Fresh(result[h].id)
                     /\ \/ result[h].status = "refunded" /\ Refunded(result[h].id, result[h].paid)
                        \/ /\ result[h].status = "refund_failed"
                           /\ Hopeless(result[h].id, result[h].paid)
                ELSE result[h].status = "refunded")'
    <3>1. PICK id, key, status : id = result[h].id /\ key = result[h].paid
                                 /\ status = result[h].status
      OBVIOUS
    <3>2. IF Real
          THEN /\ Fresh(id)
               /\ \/ status = "refunded" /\ Refunded(id, key)
                  \/ status = "refund_failed" /\ Hopeless(id, key)
          ELSE status = "refunded"
      BY <2>1, <2>4, <3>1 DEF HandlerFinal
    <3>3. IF Real
          THEN /\ Fresh(id)'
               /\ \/ status = "refunded" /\ Refunded(id, key)'
                  \/ status = "refund_failed" /\ Hopeless(id, key)'
          ELSE status = "refunded"
      BY <1>3, <3>2 DEF MoneyKept
    <3> QED BY <1>1, <3>1, <3>3 DEF Fresh, Refunded, Hopeless, MockId
  <2> QED BY <2>2, <2>3, <2>4 DEF HandlerFinal
<1> QED BY <1>1, <1>4 DEF FinalInv

\* A pending payment that is confirmed takes nothing back.
LEMMA ConfirmFinal ==
  ASSUME FinalInv, NEW c \in charges, Confirm(c)
  PROVE  FinalInv'
<1>1. UNCHANGED <<client, rows, refunds, pc, call, todo, result>>
  BY DEF Confirm, local
<1>2. MoneyKept
  BY <1>1, SameRefunds DEF MoneyKept, Confirm
<1> QED BY <1>1, <1>2, GatewayFinal

\* Nor does a pending refund, as long as it is carried out.
LEMMA SettleRefundFinal ==
  ASSUME FinalInv, TruthInv, "refund" \notin Faults, NEW f \in refunds, SettleRefund(f)
  PROVE  FinalInv'
<1>1. UNCHANGED <<client, rows, charges, pc, call, todo, result>>
  BY SettledRefund
<1>2. PICK g \in Refunds : /\ refunds' = (refunds \ {f}) \cup {g}
                          /\ g.id = f.id /\ g.paid = f.paid
                          /\ g.status = "succeeded"
  BY SettledRefund
<1>3. /\ \A id, key : Refunded(id, key) <=> Refunded(id, key)'
      /\ \A id, key : Hopeless(id, key) => Hopeless(id, key)'
  BY <1>2 DEF Refunded, Hopeless, MockId
<1>4. MoneyKept
  BY <1>1, <1>3 DEF MoneyKept
<1> QED BY <1>1, <1>4, GatewayFinal

\* Every step keeps FinalInv when the gateway answers truthfully.
LEMMA FinalStep ==
  ASSUME FinalInv, TruthInv, RecordInv, KeysIdentify,
         "gateway" \notin Faults, "refund" \notin Faults, [Next]_vars
  PROVE  FinalInv'
<1>1. CASE UNCHANGED vars
  BY <1>1 DEF vars, gateway, local, FinalInv, RowsFinal, HandlerFinal, Paid, Refunded,
              Real, Fresh, Hopeless, MockId
<1>2. CASE Crash
  BY <1>2, RestartFinal DEF Crash, gateway
<1>3. ASSUME NEW h \in Handlers, Answer(h) PROVE FinalInv'
  BY <1>3, ReturnOnlyOf, QuietStepFinal DEF Answer, gateway
<1> QED
  BY <1>1, <1>2, <1>3, ProcessPaymentFinal, RefundPaymentFinal, ChargeFinal,
     SavePaymentFinal, RefundFinal, SaveRefundFinal, ConfirmFinal, SettleRefundFinal DEF Next, Continue

\* No step takes back a status "refunded".
LEMMA RefundedStays ==
  ASSUME FinalInv, TruthInv, RecordInv, [Next]_vars,
         NEW i \in DOMAIN rows, rows[i].status = "refunded"
  PROVE  rows'[i].status = "refunded"
<1>1. CASE UNCHANGED rows
  BY <1>1
<1>2. ASSUME NEW h \in Handlers, SavePayment(h) PROVE rows'[i].status = "refunded"
  <2>1. pc[h] = "save" /\ UNCHANGED <<charges, refunds>>
    BY <1>2 DEF SavePayment, gateway
  <2> QED BY <1>1, <1>2, <2>1, InsertFinal DEF SavePayment
<1>3. ASSUME NEW h \in Handlers, SaveRefund(h) PROVE rows'[i].status = "refunded"
  <2>1. pc[h] = "refund_save" /\ UNCHANGED <<charges, refunds>>
    BY <1>3 DEF SaveRefund, gateway
  <2> QED BY <1>1, <1>3, <2>1, UpdateFinal DEF SaveRefund
<1>4. ASSUME NEW h \in Handlers, ProcessPayment(h) \/ RefundPayment(h) \/ Charge(h)
                                  \/ Refund(h) \/ Answer(h)
      PROVE  UNCHANGED rows
  BY <1>4 DEF ProcessPayment, RefundPayment, Charge, Refund, Answer
<1>5. ASSUME \/ Crash \/ UNCHANGED vars
             \/ \E c \in charges : Confirm(c)
             \/ \E f \in refunds : SettleRefund(f)
      PROVE  UNCHANGED rows
  BY <1>5 DEF Crash, Confirm, SettleRefund, vars
<1> QED BY <1>1, <1>2, <1>3, <1>4, <1>5 DEF Next, Continue

\* A payment once recorded as refunded stays so, for any number of concurrent
\* refunds, failed statements and restarts, with or without a gateway, or now with
\* one and now without, as long as its calls do not fail and it cancels no refund
\* it had accepted as pending.
THEOREM RefundsAreFinal ==
  ASSUME "gateway" \notin Faults, "refund" \notin Faults
  PROVE  Spec => RefundedIsFinal
<1>1. Init => KeysIdentify /\ RecordInv /\ TruthInv /\ FinalInv
  BY EmptySeq DEF Init, KeysIdentify, RecordInv, CallInv, TruthInv, RowsTrue, IdsUnique,
                  HandlerTrue, FinalInv, RowsFinal, HandlerFinal
<1>2. KeysIdentify /\ RecordInv /\ TruthInv /\ FinalInv /\ [Next]_vars
        => (KeysIdentify /\ RecordInv /\ TruthInv /\ FinalInv)'
  BY KeysIdentifyStep, RecordInvStep, TruthStep, FinalStep
<1>3. RecordInv /\ TruthInv /\ FinalInv /\ [Next]_vars
        => [\A i \in DOMAIN rows :
              rows[i].status = "refunded" => rows'[i].status = "refunded"]_vars
  BY RefundedStays
<1> QED BY <1>1, <1>2, <1>3, PTL DEF Spec, RefundedIsFinal
=============================================================================
