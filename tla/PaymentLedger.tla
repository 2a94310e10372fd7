--------------------------- MODULE PaymentLedger ---------------------------
(***************************************************************************)
(* What the payment service promises to a payer, that is, to a passenger   *)
(* of a room, with no handlers, statements or failures in sight: what      *)
(* becomes of the payer's money, and that a record claims of it only what  *)
(* is true.  (A record of a refund claims that one was made, and not that  *)
(* it succeeded: the service does not look.)                               *)
(***************************************************************************)
CONSTANTS Payers

VARIABLES
  account,  \* what has become of each payer's money
  claims    \* the statuses of the payer's records, failures left out

ledger == <<account, claims>>

\* A refund was made; it may be on its way, have arrived or have come to nothing.
GivenBack == {"refunding", "refunded", "refund_canceled"}

\* The accounts a record of a status is true of, at any later time as well.
Backing ==
  [pending   |-> {"pending", "succeeded", "canceled"} \cup GivenBack,
   succeeded |-> {"succeeded"} \cup GivenBack,
   canceled  |-> {"canceled"},
   refunded  |-> GivenBack]

Init ==
  /\ account = [p \in Payers |-> "unpaid"]
  /\ claims  = [p \in Payers |-> {}]

\* A payer is charged once: not again while the payment is open, nor after it was
\* made, canceled or given back.
Charge(p) ==
  /\ account[p] = "unpaid"
  /\ \E s \in {"pending", "succeeded"} : account' = [account EXCEPT ![p] = s]
  /\ UNCHANGED claims

Settle(p) ==
  /\ account[p] = "pending"
  /\ \E s \in {"succeeded", "canceled"} : account' = [account EXCEPT ![p] = s]
  /\ UNCHANGED claims

\* Only what was paid is given back, and again only if that came to nothing.
GiveBack(p) ==
  /\ account[p] \in {"succeeded", "refund_canceled"}
  /\ \E s \in GivenBack : account' = [account EXCEPT ![p] = s]
  /\ UNCHANGED claims

SettleRefund(p) ==
  /\ account[p] = "refunding"
  /\ \E s \in {"refunded", "refund_canceled"} : account' = [account EXCEPT ![p] = s]
  /\ UNCHANGED claims

Record(p) ==
  /\ \E s \in DOMAIN Backing :
       account[p] \in Backing[s] /\ claims' = [claims EXCEPT ![p] = @ \cup {s}]
  /\ UNCHANGED account

\* The outcome of a refund takes the place of what was on record as paid; a
\* record of an open or a canceled payment is never touched.
Amend(p) ==
  /\ \E old \in SUBSET {"succeeded", "refunded"}, new \in SUBSET {"refunded"} :
       /\ new # {} => account[p] \in Backing.refunded
       /\ claims' = [claims EXCEPT ![p] = (@ \ old) \cup new]
  /\ UNCHANGED account

Next ==
  \E p \in Payers : Charge(p) \/ Settle(p) \/ GiveBack(p) \/ SettleRefund(p)
                   \/ Record(p) \/ Amend(p)

Spec == Init /\ [][Next]_ledger
=============================================================================
