------------------------ MODULE PaymentLedgerProofs ------------------------
(***************************************************************************)
(* The payment service implements PaymentLedger: theorem and proof.  Each  *)
(* step moves the money of one payer, or changes the records of one, or    *)
(* does neither.                                                           *)
(***************************************************************************)
EXTENDS PaymentServiceProofs

Payers == Rooms \X Users

\* AccountOf for given payments C and refunds R, so that it can be compared before
\* and after a step.
Account(C, R, p) ==
  LET mine == {c \in C : <<c.room, c.user>> = p}
  IN  CASE mine = {} -> "unpaid"
        [] \E c, d \in mine : c # d -> "charged twice"
        [] OTHER -> Fate(CHOOSE c \in mine : TRUE, R)

\* AccountOf is Account of the payments and refunds of the same state, so the
\* lemmas on Account apply before a step and after it.
LEMMA AccountBeforeAndAfter ==
  /\ \A p : AccountOf(p) = Account(charges, refunds, p)
  /\ \A p : AccountOf(p)' = Account(charges', refunds', p)
BY DEF AccountOf, Account, Fate

\* Without a payment of theirs at the gateway, they have not paid.
LEMMA AccountUnpaid ==
  ASSUME NEW C, NEW R, NEW p, \A c \in C : <<c.room, c.user>> # p
  PROVE  Account(C, R, p) = "unpaid"
BY DEF Account

\* With one payment, the account is what has become of that.
LEMMA AccountPaid ==
  ASSUME NEW C, NEW R, NEW c \in C, NEW p, p = <<c.room, c.user>>,
         \A d \in C : <<d.room, d.user>> = p => d = c
  PROVE  Account(C, R, p) = Fate(c, R)
<1> DEFINE mine == {d \in C : <<d.room, d.user>> = p}
<1>1. mine = {c}
  OBVIOUS
<1>2. (CHOOSE d \in mine : TRUE) = c
  BY <1>1
<1> HIDE DEF mine
<1>3. Account(C, R, p) =
        CASE mine = {} -> "unpaid"
          [] \E d, e \in mine : d # e -> "charged twice"
          [] OTHER -> Fate(CHOOSE d \in mine : TRUE, R)
  BY DEF Account, mine
<1>4. mine # {} /\ ~ \E d, e \in mine : d # e
  BY <1>1
<1> QED BY <1>2, <1>3, <1>4

\* What has become of a payment that nobody has tried to give back.
LEMMA FateOfKept ==
  ASSUME NEW c, NEW R, \A f \in R : f.paid # c.key
  PROVE  Fate(c, R) = c.status
BY DEF Fate

\* Of one of which every refund was canceled.
LEMMA FateOfCanceled ==
  ASSUME NEW c, NEW R, \E f \in R : f.paid = c.key,
         \A f \in R : f.paid = c.key => f.status = "canceled"
  PROVE  Fate(c, R) = "refund_canceled"
<1> DEFINE made   == {f \in R : f.paid = c.key}
           counts == {f \in made : f.status # "canceled"}
<1>1. made # {} /\ counts = {}
  OBVIOUS
<1> QED BY <1>1 DEF Fate

\* Of one with a refund that counts, and no other that does.
LEMMA FateOfRefunded ==
  ASSUME NEW c, NEW R, NEW f \in R, f.paid = c.key, f.status # "canceled",
         \A g \in R : g.paid = c.key /\ g.status # "canceled" => g = f
  PROVE  Fate(c, R) = IF f.status = "pending" THEN "refunding" ELSE "refunded"
<1> DEFINE made   == {g \in R : g.paid = c.key}
           counts == {g \in made : g.status # "canceled"}
<1>1. made # {} /\ counts = {f}
  OBVIOUS
<1> HIDE DEF made, counts
<1>2. Fate(c, R) =
        CASE made = {} -> c.status
          [] made # {} /\ counts = {} -> "refund_canceled"
          [] \E g, k \in counts : g # k -> "refunded twice"
          [] \E g \in counts : counts = {g} /\ g.status = "pending" -> "refunding"
          [] OTHER -> "refunded"
  BY DEF Fate, made, counts
<1>3. counts # {} /\ ~ \E g, k \in counts : g # k
  BY <1>1
<1>4. (\E g \in counts : counts = {g} /\ g.status = "pending") <=> f.status = "pending"
  BY <1>1
<1> QED BY <1>1, <1>2, <1>3, <1>4

\* It depends on the refunds of its key and, once there are some, not on its status.
LEMMA FateSame ==
  ASSUME NEW c, NEW d, NEW R, NEW S, c.key = d.key,
         {f \in R : f.paid = c.key} = {f \in S : f.paid = c.key},
         c.status = d.status \/ \E f \in R : f.paid = c.key
  PROVE  Fate(c, R) = Fate(d, S)
<1> DEFINE made == {f \in R : f.paid = c.key}
           counts == {f \in made : f.status # "canceled"}
           F(status) == CASE made = {} -> status
                          [] made # {} /\ counts = {} -> "refund_canceled"
                          [] \E f, g \in counts : f # g -> "refunded twice"
                          [] \E f \in counts : counts = {f} /\ f.status = "pending" ->
                               "refunding"
                          [] OTHER -> "refunded"
<1>1. made = {f \in S : f.paid = d.key}
  OBVIOUS
<1>2. Fate(c, R) = F(c.status)
  BY Zenon DEF Fate
<1>3. Fate(d, S) = F(d.status)
  <2>1. ASSUME NEW m, m = {f \in S : f.paid = d.key}
        PROVE  Fate(d, S) = CASE m = {} -> d.status
                 [] m # {} /\ {f \in m : f.status # "canceled"} = {} -> "refund_canceled"
                 [] \E f, g \in {f \in m : f.status # "canceled"} : f # g -> "refunded twice"
                 [] \E f \in {f \in m : f.status # "canceled"} :
                      {k \in m : k.status # "canceled"} = {f} /\ f.status = "pending" ->
                        "refunding"
                 [] OTHER -> "refunded"
    BY <2>1 DEF Fate
  <2> QED BY <1>1, <2>1
<1>4. CASE c.status = d.status
  BY <1>2, <1>3, <1>4
<1>5. CASE made # {}
  <2> HIDE DEF made, counts
  <2>1. F(c.status) = F(d.status)
    BY <1>5
  <2> QED BY <1>2, <1>3, <2>1
<1> QED BY <1>4, <1>5

\* An account depends on the payments of that room and user, and on their refunds,
\* and on nothing else.
LEMMA AccountSame ==
  ASSUME NEW C, NEW D, NEW R, NEW S, NEW p,
         {c \in C : <<c.room, c.user>> = p} = {c \in D : <<c.room, c.user>> = p},
         \A c \in C : <<c.room, c.user>> = p =>
           {f \in R : f.paid = c.key} = {f \in S : f.paid = c.key}
  PROVE  Account(C, R, p) = Account(D, S, p)
<1> DEFINE mine == {c \in C : <<c.room, c.user>> = p}
<1>1. ASSUME mine # {}
      PROVE  Fate(CHOOSE c \in mine : TRUE, R) = Fate(CHOOSE c \in mine : TRUE, S)
  BY <1>1, FateSame
<1>2. mine = {c \in D : <<c.room, c.user>> = p}
  OBVIOUS
<1> HIDE DEF mine
<1>3. /\ Account(C, R, p) = CASE mine = {} -> "unpaid"
                              [] \E c, d \in mine : c # d -> "charged twice"
                              [] OTHER -> Fate(CHOOSE c \in mine : TRUE, R)
      /\ Account(D, S, p) = CASE mine = {} -> "unpaid"
                              [] \E c, d \in mine : c # d -> "charged twice"
                              [] OTHER -> Fate(CHOOSE c \in mine : TRUE, S)
  BY <1>2 DEF Account, mine
<1> QED BY <1>1, <1>3

\* What a step may do to the money of one payer.
LEMMA MoneyStep ==
  ASSUME UNCHANGED rows, NEW p \in Payers,
         \A q \in Payers : q # p => AccountOf(q)' = AccountOf(q),
         \/ AccountOf(p)' = AccountOf(p)
         \/ AccountOf(p) = "unpaid" /\ AccountOf(p)' \in {"pending", "succeeded"}
         \/ AccountOf(p) = "pending" /\ AccountOf(p)' \in {"succeeded", "canceled"}
         \/ /\ AccountOf(p) \in {"succeeded", "refund_canceled"}
            /\ AccountOf(p)' \in Ledger!GivenBack
         \/ /\ AccountOf(p) = "refunding"
            /\ AccountOf(p)' \in {"refunded", "refund_canceled"}
  PROVE  [Ledger!Next]_(Ledger!ledger)
<1> DEFINE before == [q \in Payers |-> AccountOf(q)]
           after  == [q \in Payers |-> AccountOf(q)']
<1>1. [q \in Payers |-> ClaimsOf(q)]' = [q \in Payers |-> ClaimsOf(q)]
  BY DEF ClaimsOf, Payers
<1>2. after = [before EXCEPT ![p] = AccountOf(p)'] /\ before[p] = AccountOf(p)
  OBVIOUS
<1>3. CASE AccountOf(p)' = AccountOf(p)
  BY <1>1, <1>2, <1>3 DEF Ledger!ledger, Payers
<1>4. CASE AccountOf(p) = "unpaid" /\ AccountOf(p)' \in {"pending", "succeeded"}
  BY <1>1, <1>2, <1>4 DEF Ledger!Next, Ledger!Charge, Payers
<1>5. CASE AccountOf(p) = "pending" /\ AccountOf(p)' \in {"succeeded", "canceled"}
  BY <1>1, <1>2, <1>5 DEF Ledger!Next, Ledger!Settle, Payers
<1>6. CASE /\ AccountOf(p) \in {"succeeded", "refund_canceled"}
           /\ AccountOf(p)' \in Ledger!GivenBack
  BY <1>1, <1>2, <1>6 DEF Ledger!Next, Ledger!GiveBack, Payers
<1>7. CASE AccountOf(p) = "refunding" /\ AccountOf(p)' \in {"refunded", "refund_canceled"}
  BY <1>1, <1>2, <1>7 DEF Ledger!Next, Ledger!SettleRefund, Payers
<1> QED BY <1>3, <1>4, <1>5, <1>6, <1>7

\* What a step may do to the records of one payer.
LEMMA RecordStep ==
  ASSUME UNCHANGED <<charges, refunds>>, NEW p \in Payers,
         \A q \in Payers : q # p => ClaimsOf(q)' = ClaimsOf(q),
         \/ ClaimsOf(p)' = ClaimsOf(p)
         \/ \E s \in DOMAIN Ledger!Backing :
              /\ AccountOf(p) \in Ledger!Backing[s]
              /\ ClaimsOf(p)' = ClaimsOf(p) \cup {s}
         \/ \E old \in SUBSET {"succeeded", "refunded"}, new \in SUBSET {"refunded"} :
              /\ new # {} => AccountOf(p) \in Ledger!Backing.refunded
              /\ ClaimsOf(p)' = (ClaimsOf(p) \ old) \cup new
  PROVE  [Ledger!Next]_(Ledger!ledger)
<1> DEFINE before == [q \in Payers |-> ClaimsOf(q)]
           after  == [q \in Payers |-> ClaimsOf(q)']
<1>1. [q \in Payers |-> AccountOf(q)]' = [q \in Payers |-> AccountOf(q)]
  <2>1. \A q : AccountOf(q)' = AccountOf(q)
    BY AccountBeforeAndAfter
  <2> QED BY <2>1 DEF Payers
<1>2. /\ after = [before EXCEPT ![p] = ClaimsOf(p)'] /\ before[p] = ClaimsOf(p)
      /\ [q \in Payers |-> AccountOf(q)][p] = AccountOf(p)
  OBVIOUS
<1>3. CASE ClaimsOf(p)' = ClaimsOf(p)
  BY <1>1, <1>2, <1>3 DEF Ledger!ledger, Payers
<1>4. ASSUME NEW s \in DOMAIN Ledger!Backing, AccountOf(p) \in Ledger!Backing[s],
             ClaimsOf(p)' = ClaimsOf(p) \cup {s}
      PROVE  Ledger!Record(p)
  <2>1. after = [before EXCEPT ![p] = before[p] \cup {s}]
    BY <1>2, <1>4
  <2> QED BY <1>1, <1>2, <1>4, <2>1 DEF Ledger!Record, Payers
<1>5. ASSUME NEW old \in SUBSET {"succeeded", "refunded"}, NEW new \in SUBSET {"refunded"},
             new # {} => AccountOf(p) \in Ledger!Backing.refunded,
             ClaimsOf(p)' = (ClaimsOf(p) \ old) \cup new
      PROVE  Ledger!Amend(p)
  <2>1. after = [before EXCEPT ![p] = (before[p] \ old) \cup new]
    BY <1>2, <1>5
  <2> QED BY <1>1, <1>2, <1>5, <2>1 DEF Ledger!Amend, Payers
<1>6. CASE Ledger!Record(p) \/ Ledger!Amend(p)
  BY <1>6 DEF Ledger!Next, Payers
<1> QED BY <1>3, <1>4, <1>5, <1>6

\* Where no row, payment or refund changes the ledger stutters.
LEMMA NothingMoved ==
  ASSUME UNCHANGED <<rows, charges, refunds>>
  PROVE  [Ledger!Next]_(Ledger!ledger)
<1>1. \A q : AccountOf(q)' = AccountOf(q)
  BY AccountBeforeAndAfter
<1>2. \A q : ClaimsOf(q)' = ClaimsOf(q)
  BY DEF ClaimsOf
<1> QED BY <1>1, <1>2 DEF Ledger!ledger

\* A refund is of a payment that was made, and one refund of it counts.
RefundsPaid ==
  /\ \A f \in refunds : \E c \in charges : c.key = f.paid /\ c.status = "succeeded"
  /\ \A f, g \in refunds :
       f.paid = g.paid /\ f.status # "canceled" /\ g.status # "canceled" => f = g

\* A payment has its own status, or one of those of a payment given back.
LEMMA FateKnown ==
  ASSUME KeysIdentify, RefundsPaid, NEW c \in charges
  PROVE  \/ (\A f \in refunds : f.paid # c.key) /\ Fate(c, refunds) = c.status
         \/ /\ \E f \in refunds : f.paid = c.key
            /\ c.status = "succeeded" /\ Fate(c, refunds) \in Ledger!GivenBack
<1>1. CASE \A f \in refunds : f.paid # c.key
  BY <1>1, FateOfKept
<1>2. CASE \E f \in refunds : f.paid = c.key
  <2>1. c.status = "succeeded"
    BY <1>2 DEF RefundsPaid, KeysIdentify
  <2>2. CASE \A f \in refunds : f.paid = c.key => f.status = "canceled"
    BY <1>2, <2>1, <2>2, FateOfCanceled DEF Ledger!GivenBack
  <2>3. ASSUME NEW f \in refunds, f.paid = c.key, f.status # "canceled"
        PROVE  Fate(c, refunds) \in Ledger!GivenBack
    <3>1. \A g \in refunds : g.paid = c.key /\ g.status # "canceled" => g = f
      BY <2>3 DEF RefundsPaid
    <3> QED BY <2>3, <3>1, FateOfRefunded DEF Ledger!GivenBack
  <2> QED BY <1>2, <2>1, <2>2, <2>3
<1> QED BY <1>1, <1>2

\* A key the gateway has not seen is of a payer who has not been charged.
LEMMA NewCharge ==
  ASSUME KeysIdentify, RefundsPaid, NEW r \in Rooms, NEW u \in Users,
         NEW s \in {"pending", "succeeded"}, \A c \in charges : c.key # <<r, u>>,
         charges' = charges \cup {[key |-> <<r, u>>, room |-> r, user |-> u, status |-> s]},
         UNCHANGED <<rows, refunds>>
  PROVE  [Ledger!Next]_(Ledger!ledger)
<1> DEFINE new == [key |-> <<r, u>>, room |-> r, user |-> u, status |-> s]
           p   == <<r, u>>
<1>1. charges' = charges \cup {new} /\ p \in Payers
  BY DEF Payers
<1>2. new.key = p /\ <<new.room, new.user>> = p /\ new.status = s
  OBVIOUS
<1> HIDE DEF new, p
<1>3. \A c \in charges : c.key # p /\ <<c.room, c.user>> # p
  BY DEF KeysIdentify, p
<1>4. AccountOf(p) = "unpaid"
  BY <1>3, AccountUnpaid, AccountBeforeAndAfter
<1>5. AccountOf(p)' = s
  <2>1. new \in charges' /\ \A d \in charges' : <<d.room, d.user>> = p => d = new
    BY <1>1, <1>3
  <2>2. \A f \in refunds' : f.paid # new.key
    BY <1>2, <1>3 DEF RefundsPaid
  <2>3. Account(charges', refunds', p) = new.status
    BY <1>2, <2>1, <2>2, AccountPaid, FateOfKept
  <2> QED BY <1>2, <2>3, AccountBeforeAndAfter DEF p
<1>6. ASSUME NEW q \in Payers, q # p PROVE AccountOf(q)' = AccountOf(q)
  <2>1. {c \in charges : <<c.room, c.user>> = q} = {c \in charges' : <<c.room, c.user>> = q}
    BY <1>1, <1>2, <1>6
  <2>2. Account(charges, refunds, q) = Account(charges', refunds', q)
    BY <2>1, AccountSame
  <2> QED BY <2>2, AccountBeforeAndAfter
<1> QED BY <1>1, <1>4, <1>5, <1>6, MoneyStep DEF p

\* The confirmation of a pending payment is the ledger's own, for that account.
LEMMA ConfirmLedger ==
  ASSUME KeysIdentify, TypeInv, RefundsPaid, NEW c \in charges, Confirm(c)
  PROVE  [Ledger!Next]_(Ledger!ledger)
<1>1. PICK s \in {"succeeded", "canceled"} :
        charges' = (charges \ {c}) \cup {[c EXCEPT !.status = s]}
  BY DEF Confirm
<1>2. c.status = "pending" /\ UNCHANGED <<rows, refunds>>
  BY DEF Confirm
<1> DEFINE d == [c EXCEPT !.status = s]
           p == <<c.room, c.user>>
<1>3. d.key = c.key /\ <<d.room, d.user>> = p /\ d.status = s
  <2>1. c = [key |-> c.key, room |-> c.room, user |-> c.user, status |-> c.status]
    BY DEF KeysIdentify
  <2> QED BY <2>1
<1>4. charges' = (charges \ {c}) \cup {d} /\ p \in Payers
  BY <1>1 DEF TypeInv, Payers
<1>5. p = <<c.room, c.user>>
  OBVIOUS
<1> HIDE DEF d, p
<1>6. \A e \in charges : <<e.room, e.user>> = p => e = c
  BY <1>5 DEF KeysIdentify
<1>7. Account(charges, refunds, p) = "pending" /\ \A f \in refunds : f.paid # c.key
  BY <1>2, <1>5, <1>6, AccountPaid, FateKnown
<1>8. Account(charges', refunds', p) = s
  <2>1. d \in charges' /\ \A e \in charges' : <<e.room, e.user>> = p => e = d
    BY <1>3, <1>4, <1>6
  <2> QED BY <1>2, <1>3, <1>7, <2>1, AccountPaid, FateOfKept
<1>9. ASSUME NEW q \in Payers, q # p PROVE AccountOf(q)' = AccountOf(q)
  <2>1. {e \in charges : <<e.room, e.user>> = q} = {e \in charges' : <<e.room, e.user>> = q}
    BY <1>3, <1>4, <1>5, <1>9
  <2>2. Account(charges, refunds, q) = Account(charges', refunds', q)
    BY <1>2, <2>1, AccountSame
  <2> QED BY <2>2, AccountBeforeAndAfter
<1>10. AccountOf(p) = Account(charges, refunds, p)
       /\ AccountOf(p)' = Account(charges', refunds', p)
  BY AccountBeforeAndAfter DEF p
<1>11. AccountOf(p) = "pending" /\ AccountOf(p)' \in {"succeeded", "canceled"}
  BY <1>7, <1>8, <1>10
<1> QED BY <1>2, <1>4, <1>9, <1>11, MoneyStep DEF p

\* Refunds of the key of one payment are no concern of other payers.
LEMMA OtherAccounts ==
  ASSUME KeysIdentify, NEW c \in charges, UNCHANGED charges,
         \A f \in refunds : f.paid # c.key => f \in refunds',
         \A f \in refunds' : f.paid # c.key => f \in refunds
  PROVE  \A q \in Payers : q # <<c.room, c.user>> => AccountOf(q)' = AccountOf(q)
<1>1. ASSUME NEW q \in Payers, q # <<c.room, c.user>> PROVE AccountOf(q)' = AccountOf(q)
  <2>1. ASSUME NEW e \in charges, <<e.room, e.user>> = q
        PROVE  {f \in refunds : f.paid = e.key} = {f \in refunds' : f.paid = e.key}
    <3>1. e.key # c.key
      BY <1>1, <2>1 DEF KeysIdentify
    <3> QED BY <3>1
  <2>2. Account(charges, refunds, q) = Account(charges', refunds', q)
    BY <2>1, AccountSame
  <2> QED BY <2>2, AccountBeforeAndAfter
<1> QED BY <1>1

\* The account of a payer who has been charged is the fate of that payment, before and
\* after a step that adds no charge.
LEMMA AccountIsFate ==
  ASSUME KeysIdentify, NEW c \in charges, NEW p, p = <<c.room, c.user>>, UNCHANGED charges
  PROVE  AccountOf(p) = Fate(c, refunds) /\ AccountOf(p)' = Fate(c, refunds')
<1>1. \A e \in charges : <<e.room, e.user>> = p => e = c
  BY DEF KeysIdentify
<1>2. /\ Account(charges, refunds, p) = Fate(c, refunds)
      /\ Account(charges', refunds', p) = Fate(c, refunds')
  BY <1>1, AccountPaid
<1> QED BY <1>2, AccountBeforeAndAfter

\* A refund of a key is of the payer it is made of.
LEMMA NewRefund ==
  ASSUME KeysIdentify, TypeInv, RefundsPaid, NEW key, NEW id, Refundable(key, id),
         NEW s \in RefundStatuses,
         refunds' = refunds \cup {[id |-> id, paid |-> key, status |-> s]},
         UNCHANGED <<rows, charges>>
  PROVE  [Ledger!Next]_(Ledger!ledger)
<1>1. PICK c \in charges : c.key = key /\ c.status = "succeeded"
  BY DEF Refundable
<1>2. PICK p : p = <<c.room, c.user>>
  OBVIOUS
<1> DEFINE new == [id |-> id, paid |-> key, status |-> s]
<1>3. /\ refunds' = refunds \cup {new} /\ new.paid = c.key /\ new.status = s
      /\ p \in Payers
  BY <1>1, <1>2 DEF TypeInv, Payers
<1> HIDE DEF new
<1>4. \A f \in refunds : f.paid = c.key => f.status = "canceled"
  BY <1>1 DEF Refundable
<1>5. Fate(c, refunds) \in {"succeeded", "refund_canceled"}
  BY <1>1, <1>4, FateOfKept, FateOfCanceled
<1>6. Fate(c, refunds') \in Ledger!GivenBack
  <2>1. CASE s = "canceled"
    <3>1. /\ \E f \in refunds' : f.paid = c.key
          /\ \A f \in refunds' : f.paid = c.key => f.status = "canceled"
      BY <1>3, <1>4, <2>1
    <3> QED BY <3>1, FateOfCanceled DEF Ledger!GivenBack
  <2>2. CASE s # "canceled"
    <3>1. /\ new \in refunds'
          /\ \A f \in refunds' : f.paid = c.key /\ f.status # "canceled" => f = new
      BY <1>3, <1>4
    <3> QED BY <1>3, <2>2, <3>1, FateOfRefunded DEF Ledger!GivenBack
  <2> QED BY <2>1, <2>2
<1>7. AccountOf(p) = Fate(c, refunds) /\ AccountOf(p)' = Fate(c, refunds')
  BY <1>2, AccountIsFate
<1>8. \A q \in Payers : q # p => AccountOf(q)' = AccountOf(q)
  BY <1>2, <1>3, OtherAccounts
<1> QED BY <1>3, <1>5, <1>6, <1>7, <1>8, MoneyStep

\* A pending refund is settled, and there is no other of that payment that counts.
LEMMA SettleRefundLedger ==
  ASSUME KeysIdentify, TypeInv, TruthInv, RefundsPaid, NEW f \in refunds, SettleRefund(f)
  PROVE  [Ledger!Next]_(Ledger!ledger)
<1>1. UNCHANGED <<rows, charges>>
  BY SettledRefund
<1>2. PICK g \in Refunds :
        /\ refunds' = (refunds \ {f}) \cup {g}
        /\ g.id = f.id /\ g.paid = f.paid /\ f.status = "pending"
        /\ g.status \in {"succeeded"} \cup (IF "refund" \in Faults THEN {"canceled"} ELSE {})
  BY SettledRefund
<1>3. PICK c \in charges : c.key = f.paid
  BY DEF RefundsPaid
<1>4. PICK p : p = <<c.room, c.user>>
  OBVIOUS
<1>5. p \in Payers
  BY <1>4 DEF TypeInv, Payers
<1>6. \A e \in refunds : e.paid = c.key /\ e.status # "canceled" => e = f
  BY <1>2, <1>3 DEF RefundsPaid
<1>7. Fate(c, refunds) = "refunding"
  BY <1>2, <1>3, <1>6, FateOfRefunded
<1>8. Fate(c, refunds') \in {"refunded", "refund_canceled"}
  <2>1. /\ g \in refunds' /\ g.paid = c.key
        /\ \A e \in refunds' : e.paid = c.key /\ e.status # "canceled" => e = g
    BY <1>2, <1>3, <1>6
  <2>2. CASE g.status = "canceled"
    BY <2>1, <2>2, FateOfCanceled
  <2>3. CASE g.status = "succeeded"
    BY <2>1, <2>3, FateOfRefunded
  <2> QED BY <1>2, <2>2, <2>3
<1>9. AccountOf(p) = Fate(c, refunds) /\ AccountOf(p)' = Fate(c, refunds')
  BY <1>1, <1>4, AccountIsFate
<1>10. \A q \in Payers : q # p => AccountOf(q)' = AccountOf(q)
  BY <1>1, <1>2, <1>3, <1>4, OtherAccounts
<1> QED BY <1>1, <1>5, <1>7, <1>8, <1>9, <1>10, MoneyStep

\* A payment just recorded is, as far as its record says, what the account shows,
\* though other handlers may have refunded it since it was answered.
LEMMA InsertLedger ==
  ASSUME KeysIdentify, RecordInv, TypeInv, TruthInv, RefundsPaid, ~Mocking,
         NEW h \in Handlers, pc[h] = "save", InsertPayment(h), UNCHANGED <<charges, refunds>>,
         NEW p, p = <<call[h].room, Head(todo[h])>>
  PROVE  [Ledger!Next]_(Ledger!ledger)
<1> DEFINE new == [id |-> result[h].id, room |-> call[h].room, user |-> Head(todo[h]),
                   paid |-> result[h].paid, status |-> result[h].status]
<1>1. /\ rows \in Seq(Payments) /\ result[h] \in Results
      /\ call[h].room \in Rooms /\ Head(todo[h]) \in Users
  BY TailElements DEF RecordInv, CallInv
<1>2. new.status = result[h].status /\ <<new.room, new.user>> = p
  OBVIOUS
<1>3. rows' = Append(rows, new)
  BY DEF InsertPayment
<1> HIDE DEF new
<1>4. /\ DOMAIN rows = 1 .. Len(rows) /\ Len(rows) \in Nat
      /\ DOMAIN rows' = DOMAIN rows \cup {Len(rows) + 1}
      /\ \A i \in DOMAIN rows : rows'[i] = rows[i]
      /\ rows'[Len(rows) + 1] = new
  BY <1>1, <1>3, LenProperties
<1>5. p \in Payers
  BY <1>1 DEF Payers
<1>6. ASSUME NEW q PROVE ClaimsOf(q)' = ClaimsOf(q) \cup
               {s \in Claims : q = p /\ s = result[h].status}
  BY <1>2, <1>4 DEF ClaimsOf
<1>7. \A q \in Payers : q # p => ClaimsOf(q)' = ClaimsOf(q)
  BY <1>6
<1>8. CASE result[h].status = "failed"
  <2>1. ClaimsOf(p)' = ClaimsOf(p)
    BY <1>6, <1>8 DEF Claims, ChargeStatuses
  <2> QED BY <1>5, <1>7, <2>1, RecordStep
<1>9. CASE result[h].status # "failed"
  <2>1. result[h].status \in ChargeStatuses
    BY <1>1, <1>9 DEF Results
  <2>2. ClaimsOf(p)' = ClaimsOf(p) \cup {result[h].status}
    BY <1>6, <2>1 DEF Claims
  <2>3. PICK c \in charges : c.key = result[h].paid /\ <<c.room, c.user>> = p
    BY <1>9 DEF TruthInv, HandlerTrue, Charged
  <2>4. result[h].status # "pending" => c.status = result[h].status
    BY <1>9, <2>3 DEF TruthInv, HandlerTrue, Answered, KeysIdentify
  <2>5. AccountOf(p) = Fate(c, refunds)
    BY <2>3, AccountIsFate
  <2>6. \/ AccountOf(p) = c.status
        \/ c.status = "succeeded" /\ AccountOf(p) \in Ledger!GivenBack
    BY <2>5, FateKnown
  <2>7. c.status \in ChargeStatuses
    BY DEF TypeInv
  <2>8. /\ result[h].status \in DOMAIN Ledger!Backing
        /\ AccountOf(p) \in Ledger!Backing[result[h].status]
    BY <2>1, <2>4, <2>6, <2>7 DEF Ledger!Backing, Ledger!GivenBack, ChargeStatuses
  <2> QED BY <1>5, <1>7, <2>2, <2>8, RecordStep
<1> QED BY <1>8, <1>9

\* An update touches the records of one payer, who had paid.
LEMMA UpdateLedger ==
  ASSUME KeysIdentify, RecordInv, TypeInv, TruthInv, RefundsPaid, ~Mocking,
         NEW h \in Handlers, pc[h] = "refund_save",
         UpdatePaymentStatus(result[h].id, result[h].status), UNCHANGED <<charges, refunds>>
  PROVE  [Ledger!Next]_(Ledger!ledger)
<1>1. /\ RowsTrue /\ IdsUnique /\ rows \in Seq(Payments)
      /\ OnRecord(result[h].id, result[h].paid)
      /\ result[h].status = "refunded" => GivenBack(result[h].paid)
      /\ result[h].status \in {"refunded", "refund_failed"}
  BY DEF TruthInv, HandlerTrue, RecordInv, CallInv
<1>2. PICK k \in DOMAIN rows : /\ rows[k].id = result[h].id /\ rows[k].paid = result[h].paid
                               /\ rows[k].status \in Settled
  BY <1>1 DEF OnRecord
<1>3. rows[k] \in Payments
  BY <1>1, LenProperties
<1>4. PICK p : p = <<rows[k].room, rows[k].user>>
  OBVIOUS
<1>5. p \in Payers
  BY <1>3, <1>4 DEF Payments, Payers
<1>6. /\ DOMAIN rows' = DOMAIN rows
      /\ \A j \in DOMAIN rows \ {k} : rows'[j] = rows[j]
      /\ rows'[k] = [rows[k] EXCEPT !.status = result[h].status]
  BY <1>1, <1>2 DEF UpdatePaymentStatus, IdsUnique
<1>7. /\ rows'[k].status = result[h].status
      /\ rows'[k].room = rows[k].room /\ rows'[k].user = rows[k].user
  BY <1>3, <1>6 DEF Payments
<1>8. \A q \in Payers : q # p => ClaimsOf(q)' = ClaimsOf(q)
  <2>1. ASSUME NEW q \in Payers, q # p PROVE ClaimsOf(q)' = ClaimsOf(q)
    <3>1. \A j \in DOMAIN rows : (/\ <<rows[j].room, rows[j].user>> = q
                                 /\ rows[j].status \in Claims) =>
            j # k /\ rows'[j] = rows[j]
      BY <1>4, <1>6, <2>1
    <3>2. \A j \in DOMAIN rows' : (/\ <<rows'[j].room, rows'[j].user>> = q
                                  /\ rows'[j].status \in Claims) =>
            j # k /\ rows'[j] = rows[j]
      BY <1>4, <1>6, <1>7, <2>1
    <3>3. ClaimsOf(q)' \subseteq ClaimsOf(q)
      BY <1>6, <3>2 DEF ClaimsOf
    <3>4. ClaimsOf(q) \subseteq ClaimsOf(q)'
      BY <1>6, <3>1 DEF ClaimsOf
    <3> QED BY <3>3, <3>4
  <2> QED BY <2>1
<1>9. /\ ClaimsOf(p) \ ClaimsOf(p)' \subseteq {"succeeded", "refunded"}
      /\ ClaimsOf(p)' \ ClaimsOf(p) \subseteq {result[h].status} \cap {"refunded"}
  <2>1. ASSUME NEW s \in ClaimsOf(p), s \notin ClaimsOf(p)' PROVE s = rows[k].status
    BY <1>6, <2>1 DEF ClaimsOf
  <2>2. ASSUME NEW s \in ClaimsOf(p)', s \notin ClaimsOf(p)
        PROVE  s = result[h].status /\ s \in Claims
    BY <1>6, <1>7, <2>2 DEF ClaimsOf
  <2>3. ClaimsOf(p) \subseteq Claims
    BY DEF ClaimsOf
  <2> QED BY <1>1, <1>2, <2>1, <2>2, <2>3 DEF Claims, ChargeStatuses, Settled
<1>10. result[h].status = "refunded" => AccountOf(p) \in Ledger!Backing.refunded
  <2>1. PICK c \in charges : c.key = rows[k].paid /\ <<c.room, c.user>> = p
    BY <1>1, <1>2, <1>4 DEF RowsTrue, Charged, Settled
  <2>2. AccountOf(p) = Fate(c, refunds)
    BY <2>1, AccountIsFate
  <2>3. result[h].status = "refunded" => \E f \in refunds : f.paid = c.key
    BY <1>1, <1>2, <2>1 DEF GivenBack
  <2> QED BY <2>2, <2>3, FateKnown DEF Ledger!Backing
<1>11. \E old \in SUBSET {"succeeded", "refunded"}, new \in SUBSET {"refunded"} :
         /\ new # {} => AccountOf(p) \in Ledger!Backing.refunded
         /\ ClaimsOf(p)' = (ClaimsOf(p) \ old) \cup new
  <2>1. ClaimsOf(p)' = (ClaimsOf(p) \ (ClaimsOf(p) \ ClaimsOf(p)'))
                         \cup (ClaimsOf(p)' \ ClaimsOf(p))
    OBVIOUS
  <2>2. ClaimsOf(p)' \ ClaimsOf(p) # {} => AccountOf(p) \in Ledger!Backing.refunded
    BY <1>9, <1>10
  <2> QED BY <1>9, <2>1, <2>2
<1> QED BY <1>5, <1>8, <1>11, RecordStep

\* Every step keeps RefundsPaid: a refund is made for a payment that went
\* through, and no confirmation changes that one again; and it is not made while
\* another one counts.
LEMMA RefundsPaidStep ==
  ASSUME RefundsPaid, KeysIdentify, TruthInv, [Next]_vars
  PROVE  RefundsPaid'
<1>1. ASSUME \A c \in charges : c.status = "succeeded" => c \in charges', UNCHANGED refunds
      PROVE  RefundsPaid'
  BY <1>1 DEF RefundsPaid
<1>2. ASSUME NEW h \in Handlers, Refund(h) PROVE RefundsPaid'
  <2>1. UNCHANGED charges
    BY <1>2 DEF Refund
  <2>2. ASSUME NEW key, NEW id, NEW ok, CreateRefund(key, id, ok) PROVE RefundsPaid'
    <3>1. CASE UNCHANGED refunds
      BY <1>1, <2>1, <3>1
    <3>2. ASSUME Refundable(key, id), NEW s \in RefundStatuses,
                 refunds' = refunds \cup {[id |-> id, paid |-> key, status |-> s]}
          PROVE  RefundsPaid'
      <4>1. [id |-> id, paid |-> key, status |-> s].paid = key
        OBVIOUS
      <4> QED BY <2>1, <3>2, <4>1 DEF Refundable, RefundsPaid
    <3> QED BY <2>2, <3>1, <3>2 DEF CreateRefund
  <2> QED BY <1>1, <1>2, <2>1, <2>2 DEF Refund
<1>3. ASSUME NEW h \in Handlers, Charge(h) PROVE RefundsPaid'
  <2>1. UNCHANGED refunds
    BY <1>3 DEF Charge
  <2>2. charges \subseteq charges'
    <3>1. ASSUME NEW key, NEW r, NEW u, NEW answer, CreatePayment(key, r, u, answer)
          PROVE  charges \subseteq charges'
      BY <3>1 DEF CreatePayment
    <3> QED BY <1>3, <3>1 DEF Charge
  <2> QED BY <1>1, <2>1, <2>2
<1>4. ASSUME NEW c \in charges, Confirm(c) PROVE RefundsPaid'
  BY <1>1, <1>4 DEF Confirm
<1>5. CASE UNCHANGED <<charges, refunds>>
  BY <1>1, <1>5
<1>6. ASSUME NEW h \in Handlers,
             ProcessPayment(h) \/ RefundPayment(h) \/ SavePayment(h) \/ SaveRefund(h) \/ Answer(h)
      PROVE  UNCHANGED <<charges, refunds>>
  BY <1>6 DEF ProcessPayment, RefundPayment, SavePayment, SaveRefund, Answer, gateway
<1>7. ASSUME Crash \/ UNCHANGED vars PROVE UNCHANGED <<charges, refunds>>
  BY <1>7 DEF Crash, vars, gateway
<1>8. ASSUME NEW f \in refunds, SettleRefund(f) PROVE RefundsPaid'
  <2>1. UNCHANGED charges
    BY <1>8, SettledRefund
  <2>2. PICK g \in Refunds : /\ refunds' = (refunds \ {f}) \cup {g}
                            /\ g.paid = f.paid /\ f.status = "pending"
    BY <1>8, SettledRefund
  <2> QED BY <2>1, <2>2 DEF RefundsPaid
<1> QED BY <1>2, <1>3, <1>4, <1>5, <1>6, <1>7, <1>8 DEF Next, Continue

\* Every step of the service is a step of the ledger or changes nothing of it.
LEMMA LedgerStep ==
  ASSUME KeysIdentify, RecordInv, TypeInv, TruthInv, RefundsPaid,
         ~Mocking, [Next]_vars
  PROVE  [Ledger!Next]_(Ledger!ledger)
<1>1. ASSUME NEW h \in Handlers, Charge(h) PROVE [Ledger!Next]_(Ledger!ledger)
  <2>1. UNCHANGED <<rows, refunds>> /\ client # "nil_interface"
    BY <1>1 DEF Charge, TruthInv, Mocking
  <2>2. CASE UNCHANGED charges
    BY <2>1, <2>2, NothingMoved
  <2>3. ASSUME NEW r \in Rooms, NEW u \in Users, NEW answer,
               CreatePayment(<<r, u>>, r, u, answer)
        PROVE  [Ledger!Next]_(Ledger!ledger)
    BY <2>1, <2>2, <2>3, NewCharge DEF CreatePayment
  <2>4. call[h].room \in Rooms /\ Head(todo[h]) \in Users
    BY <1>1, TailElements DEF Charge, RecordInv, CallInv
  <2> QED BY <1>1, <2>1, <2>2, <2>3, <2>4 DEF Charge, IdempotencyKey
<1>2. ASSUME NEW c \in charges, Confirm(c) PROVE [Ledger!Next]_(Ledger!ledger)
  BY <1>2, ConfirmLedger
<1>3. ASSUME NEW h \in Handlers, SavePayment(h) PROVE [Ledger!Next]_(Ledger!ledger)
  <2>1. pc[h] = "save" /\ UNCHANGED <<charges, refunds>>
    BY <1>3 DEF SavePayment, gateway
  <2>2. CASE UNCHANGED rows
    BY <2>1, <2>2, NothingMoved
  <2>3. CASE InsertPayment(h)
    BY <2>1, <2>3, InsertLedger
  <2> QED BY <1>3, <2>2, <2>3 DEF SavePayment
<1>4. ASSUME NEW h \in Handlers, Refund(h) PROVE [Ledger!Next]_(Ledger!ledger)
  <2>1. UNCHANGED <<rows, charges>>
    BY <1>4 DEF Refund
  <2>2. CASE UNCHANGED refunds
    BY <2>1, <2>2, NothingMoved
  <2>3. ASSUME NEW key, NEW id, NEW ok, CreateRefund(key, id, ok)
        PROVE  [Ledger!Next]_(Ledger!ledger)
    BY <2>1, <2>2, <2>3, NewRefund DEF CreateRefund
  <2> QED BY <1>4, <2>2, <2>3 DEF Refund
<1>5. ASSUME NEW h \in Handlers, SaveRefund(h) PROVE [Ledger!Next]_(Ledger!ledger)
  <2>1. pc[h] = "refund_save" /\ UNCHANGED <<charges, refunds>>
    BY <1>5 DEF SaveRefund, gateway
  <2>2. CASE UNCHANGED rows
    BY <2>1, <2>2, NothingMoved
  <2> QED BY <1>5, <2>1, <2>2, UpdateLedger DEF SaveRefund
<1>6. ASSUME NEW h \in Handlers, ProcessPayment(h) \/ RefundPayment(h) \/ Answer(h)
      PROVE  UNCHANGED <<rows, charges, refunds>>
  BY <1>6 DEF ProcessPayment, RefundPayment, Answer, gateway
<1>7. ASSUME Crash \/ UNCHANGED vars PROVE UNCHANGED <<rows, charges, refunds>>
  BY <1>7 DEF Crash, vars, gateway
<1> QED
  BY <1>1, <1>2, <1>3, <1>4, <1>5, <1>6, <1>7, NothingMoved, SettleRefundLedger
  DEF Next, Continue

\* Through any number of concurrent calls and refunds, failures and restarts, the
\* gateway's payments and the records behave as the ledger says, in a process that
\* main.go has given a client, or a nil pointer: nobody is charged or given back
\* money twice, and no record is written that is not true of its payer (that a
\* payment is refunded being true as soon as the gateway has accepted a refund).
THEOREM LedgerIsImplemented ==
  ASSUME "nil_interface" \notin Clients
  PROVE  Spec => ImplementsLedger
<1> DEFINE Inv == KeysIdentify /\ RecordInv /\ TypeInv /\ TruthInv /\ RefundsPaid
<1>1. Init => Inv
  BY EmptySeq DEF Init, KeysIdentify, RecordInv, CallInv, TypeInv, Steps, TruthInv, RowsTrue,
                  IdsUnique, HandlerTrue, RefundsPaid
<1>2. Inv /\ [Next]_vars => Inv'
  BY KeysIdentifyStep, RecordInvStep, TypeStep, TruthStep, RefundsPaidStep
<1>3. Init => Ledger!Init
  <2>1. Init => \A p : AccountOf(p) = "unpaid" /\ ClaimsOf(p) = {}
    <3>1. Init => \A p : AccountOf(p) = "unpaid"
      BY AccountBeforeAndAfter, AccountUnpaid DEF Init
    <3> QED BY <3>1 DEF Init, ClaimsOf
  <2> QED BY <2>1 DEF Ledger!Init
<1>4. Inv /\ [Next]_vars => [Ledger!Next]_(Ledger!ledger)
  BY LedgerStep DEF Mocking
<1> QED BY <1>1, <1>2, <1>3, <1>4, PTL DEF Spec, ImplementsLedger, Ledger!Spec
=============================================================================
