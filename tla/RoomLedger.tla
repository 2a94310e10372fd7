----------------------------- MODULE RoomLedger -----------------------------
(***************************************************************************)
(* What the rooms tables promise to whoever reads them, with no handlers,  *)
(* statements or failures in sight: which rooms exist, who sits in them,   *)
(* what a completed ride costs, and who is charged for it.  Slack is the   *)
(* number of seats by which a room can be oversold.                        *)
(***************************************************************************)
EXTENDS Integers, FiniteSets

CONSTANTS Rooms, Users, Slack

VARIABLES status, seats, fare, members, billed

ledger == <<status, seats, fare, members, billed>>

Init ==
  /\ status  = [r \in Rooms |-> "ABSENT"]
  /\ seats   = [r \in Rooms |-> 0]
  /\ fare    = [r \in Rooms |-> [total |-> 0, share |-> 0]]
  /\ members = [r \in Rooms |-> {}]
  /\ billed  = [r \in Rooms |-> {}]

\* A room opens once, with a fixed positive number of seats and no price yet.
Open(r) ==
  /\ status[r] = "ABSENT"
  /\ status' = [status EXCEPT ![r] = "WAITING"]
  /\ seats'[r] \in Int /\ seats'[r] > 0
  /\ seats' = [seats EXCEPT ![r] = seats'[r]]
  /\ fare' = [fare EXCEPT ![r] = [total |-> 0, share |-> 0]]
  /\ UNCHANGED <<members, billed>>

\* A user takes a seat of an existing room that is not yet oversold by Slack.
Take(r, u) ==
  /\ status[r] # "ABSENT"
  /\ Cardinality(members[r]) < seats[r] + Slack
  /\ members' = [members EXCEPT ![r] = @ \cup {u}]
  /\ UNCHANGED <<status, seats, fare, billed>>

Leave(r, u) ==
  /\ members' = [members EXCEPT ![r] = @ \ {u}]
  /\ UNCHANGED <<status, seats, fare, billed>>

\* A room once open is never listed as waiting again: it can only be marked.
MarkFull(r) ==
  /\ status[r] # "ABSENT"
  /\ status' = [status EXCEPT ![r] = "FULL"]
  /\ UNCHANGED <<seats, fare, members, billed>>

\* The ride ends, its price divided among at least one passenger and no more
\* than can have sat in the room.
Finish(r) ==
  /\ status[r] # "ABSENT"
  /\ status' = [status EXCEPT ![r] = "COMPLETED"]
  /\ fare'[r].total \in Int /\ fare'[r].share \in 1 .. (seats[r] + Slack)
  /\ fare' = [fare EXCEPT ![r] = fare'[r]]
  /\ UNCHANGED <<seats, members, billed>>

\* Users are charged, for a ride that has been given its price; nobody who
\* has been charged is forgotten.
Charge(r) ==
  /\ fare[r].share > 0
  /\ \E paid \in SUBSET Users :
       billed' = [billed EXCEPT ![r] = @ \cup paid]
  /\ UNCHANGED <<status, seats, fare, members>>

Next ==
  \E r \in Rooms :
    \/ Open(r) \/ MarkFull(r) \/ Finish(r) \/ Charge(r)
    \/ \E u \in Users : Take(r, u) \/ Leave(r, u)

Spec == Init /\ [][Next]_ledger
=============================================================================
