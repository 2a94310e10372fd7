------------------------ MODULE ServiceProcessProofs ------------------------
(***************************************************************************)
(* What ServiceProcess keeps for any calls, any services that can start,   *)
(* any faults and any number of them.                                      *)
(***************************************************************************)
EXTENDS ServiceProcess, TLAPS

\* The versions marked clean are those whose script has run to its end; a dirty
\* one is the next, and only its script can be running.
SchemaInv ==
  \A s \in Services :
    /\ ~schema[s].dirty => applied[s] = 1 .. schema[s].version
    /\ schema[s].dirty  => /\ schema[s].version > 0
                           /\ applied[s] = 1 .. (schema[s].version - 1)
    /\ phase[s] = "migrating" => schema[s].dirty

\* The migrations of a service are at their last version, which is clean.
Done(s) == schema[s].version = Latest[s] /\ ~schema[s].dirty

\* The steps of main that lie behind a process have been taken.
PhaseInv ==
  \A s \in Services :
    /\ phase[s] \in {"listen", "serving", "draining"} =>
         pool[s] /\ Done(s)
    /\ (s = "user" /\ phase[s] \in {"migrate", "migrating"}) => pool[s]
    /\ (s # "user" /\ phase[s] = "connect") =>
         Done(s)
    /\ running[s] # {} => phase[s] \in {"serving", "draining"}

IInv == TypeOK /\ SchemaInv /\ PhaseInv

\* The three mains name the steps of a process.
LEMMA Steps ==
  /\ After("user", "down") = "connect"
  /\ \A s \in Services : s # "user" => After(s, "down") = "migrate"
  /\ After("user", "migrate") = "listen"
  /\ \A s \in Services : s # "user" => After(s, "migrate") = "connect"
  /\ After("user", "connect") = "migrate"
  /\ \A s \in Services : s # "user" => After(s, "connect") = "listen"
  /\ \A s \in Services : After(s, "listen") = "serving"
  /\ \A s \in Services : Latest[s] \in Nat \ {0}
  /\ \A s \in Services : After(s, "migrate") \in Phases /\ After(s, "connect") \in Phases
BY DEF After, UserMain, RoomMain, PaymentMain, Services, Latest, Phases

\* The databases are empty and no service has started: the invariant holds.
LEMMA InitInv == Init => IInv
BY Steps DEF Init, IInv, TypeOK, SchemaInv, PhaseInv, Done, Services, Latest, Phases

\* Every step preserves it.
LEMMA NextInv == IInv /\ [Next]_vars => IInv'
<1> SUFFICES ASSUME IInv, [Next]_vars PROVE IInv'
  OBVIOUS
<1> USE Steps DEF Goto, stored, process
<1>1. CASE UNCHANGED vars
  BY <1>1 DEF IInv, TypeOK, SchemaInv, PhaseInv, Done, vars
<1>2. ASSUME NEW s \in Services, Start(s) PROVE IInv'
  <2>1. TypeOK'
    BY <1>2 DEF IInv, TypeOK, Phases, Start
  <2>2. SchemaInv'
    BY <1>2 DEF IInv, TypeOK, SchemaInv, Start
  <2>3. PhaseInv'
    BY <1>2 DEF IInv, TypeOK, PhaseInv, Done, Start
  <2> QED
    BY <2>1, <2>2, <2>3 DEF IInv
<1>3. ASSUME NEW s \in Services, NoChange(s) PROVE IInv'
  <2>1. TypeOK'
    BY <1>3 DEF IInv, TypeOK, Phases, NoChange, ReadyToMigrate
  <2>2. SchemaInv'
    BY <1>3 DEF IInv, TypeOK, SchemaInv, NoChange, ReadyToMigrate
  <2>3. PhaseInv'
    BY <1>3 DEF IInv, TypeOK, PhaseInv, Done, NoChange, ReadyToMigrate
  <2> QED
    BY <2>1, <2>2, <2>3 DEF IInv
<1>4. ASSUME NEW s \in Services, MarkDirty(s) PROVE IInv'
  <2>1. TypeOK'
    BY <1>4 DEF IInv, TypeOK, Phases, MarkDirty, ReadyToMigrate
  <2>2. SchemaInv'
    <3>1. schema[s].version \in Nat /\ ~schema[s].dirty
      BY <1>4 DEF IInv, TypeOK, MarkDirty, ReadyToMigrate
    <3>2. applied[s] = 1 .. schema[s].version
      BY <1>4, <3>1 DEF IInv, SchemaInv
    <3>3. (schema[s].version + 1) - 1 = schema[s].version /\ schema[s].version + 1 > 0
      BY <3>1
    <3>4. /\ schema' = [schema EXCEPT ![s] = [version |-> schema[s].version + 1, dirty |-> TRUE]]
          /\ schema \in [Services -> [version : Nat, dirty : BOOLEAN]]
          /\ phase' = [phase EXCEPT ![s] = "migrating"] /\ phase \in [Services -> Phases]
          /\ applied' = applied
      BY <1>4 DEF IInv, TypeOK, MarkDirty
    <3>5. schema'[s].dirty /\ schema'[s].version = schema[s].version + 1
      BY <3>4
    <3>6. \A q \in Services \ {s} : schema'[q] = schema[q] /\ phase'[q] = phase[q]
      BY <3>4
    <3> QED
      BY <3>2, <3>3, <3>4, <3>5, <3>6 DEF IInv, SchemaInv
  <2>3. PhaseInv'
    BY <1>4 DEF IInv, TypeOK, PhaseInv, Done, MarkDirty, ReadyToMigrate
  <2> QED
    BY <2>1, <2>2, <2>3 DEF IInv
<1>5. ASSUME NEW s \in Services, RunScript(s) PROVE IInv'
  <2>1. TypeOK'
    <3>1. schema' \in [Services -> [version : Nat, dirty : BOOLEAN]]
      BY <1>5 DEF IInv, TypeOK, RunScript
    <3>2. \A q \in Services : schema'[q].version = schema[q].version
      BY <1>5 DEF IInv, TypeOK, RunScript
    <3>3. applied' \in [Services -> SUBSET Nat]
      BY <1>5 DEF IInv, TypeOK, RunScript
    <3>4. phase' \in [Services -> Phases]
      BY <1>5 DEF IInv, TypeOK, RunScript, Phases
    <3> QED
      BY <1>5, <3>1, <3>2, <3>3, <3>4 DEF IInv, TypeOK, RunScript
  <2>2. SchemaInv'
    BY <1>5 DEF IInv, TypeOK, SchemaInv, RunScript
  <2>3. PhaseInv'
    BY <1>5 DEF IInv, TypeOK, PhaseInv, Done, RunScript
  <2> QED
    BY <2>1, <2>2, <2>3 DEF IInv
<1>6. ASSUME NEW s \in Services, MigrateFatal(s) PROVE IInv'
  <2>1. TypeOK'
    BY <1>6 DEF IInv, TypeOK, Phases, MigrateFatal, Exit, Count
  <2>2. SchemaInv'
    BY <1>6 DEF IInv, TypeOK, SchemaInv, MigrateFatal, Exit, Count
  <2>3. PhaseInv'
    BY <1>6 DEF IInv, TypeOK, PhaseInv, Done, MigrateFatal, Exit, Count
  <2> QED
    BY <2>1, <2>2, <2>3 DEF IInv
<1>7. ASSUME NEW s \in Services, Connect(s) PROVE IInv'
  <2>1. TypeOK'
    <3>1. phase' \in [Services -> Phases]
      BY <1>7 DEF IInv, TypeOK, Phases, Connect, Exit
    <3>2. /\ pool' \in [Services -> BOOLEAN] /\ signalled' \in [Services -> BOOLEAN]
          /\ running' \in [Services -> SUBSET Calls]
      BY <1>7 DEF IInv, TypeOK, Connect, Exit
    <3>3. UNCHANGED <<db, schema, applied, answered, faults, kills>>
      BY <1>7 DEF Connect
    <3> QED
      BY <3>1, <3>2, <3>3 DEF IInv, TypeOK
  <2>2. SchemaInv'
    BY <1>7 DEF IInv, TypeOK, SchemaInv, Connect, Exit
  <2>3. PhaseInv'
    BY <1>7 DEF IInv, TypeOK, PhaseInv, Done, Connect, Exit
  <2> QED
    BY <2>1, <2>2, <2>3 DEF IInv
<1>8. ASSUME NEW s \in Services, Listen(s) PROVE IInv'
  <2>1. TypeOK'
    <3>1. phase' \in [Services -> Phases]
      BY <1>8 DEF IInv, TypeOK, Phases, Listen, Exit
    <3>2. /\ pool' \in [Services -> BOOLEAN] /\ signalled' \in [Services -> BOOLEAN]
          /\ running' \in [Services -> SUBSET Calls]
      BY <1>8 DEF IInv, TypeOK, Listen, Exit
    <3>3. UNCHANGED <<db, schema, applied, answered, faults, kills>>
      BY <1>8 DEF Listen
    <3> QED
      BY <3>1, <3>2, <3>3 DEF IInv, TypeOK
  <2>2. SchemaInv'
    BY <1>8 DEF IInv, TypeOK, SchemaInv, Listen, Exit
  <2>3. PhaseInv'
    BY <1>8 DEF IInv, TypeOK, PhaseInv, Done, Listen, Exit
  <2> QED
    BY <2>1, <2>2, <2>3 DEF IInv
<1>9. ASSUME NEW s \in Services, GracefulStop(s) PROVE IInv'
  <2>1. TypeOK'
    BY <1>9 DEF IInv, TypeOK, Phases, GracefulStop
  <2>2. SchemaInv'
    BY <1>9 DEF IInv, TypeOK, SchemaInv, GracefulStop
  <2>3. PhaseInv'
    BY <1>9 DEF IInv, TypeOK, PhaseInv, Done, GracefulStop
  <2> QED
    BY <2>1, <2>2, <2>3 DEF IInv
<1>10. ASSUME NEW s \in Services, Drained(s) PROVE IInv'
  <2>1. TypeOK'
    BY <1>10 DEF IInv, TypeOK, Phases, Drained, Exit
  <2>2. SchemaInv'
    BY <1>10 DEF IInv, TypeOK, SchemaInv, Drained, Exit
  <2>3. PhaseInv'
    BY <1>10 DEF IInv, TypeOK, PhaseInv, Done, Drained, Exit
  <2> QED
    BY <2>1, <2>2, <2>3 DEF IInv
<1>11. ASSUME NEW s \in Services, Signal(s) PROVE IInv'
  <2>1. TypeOK'
    BY <1>11 DEF IInv, TypeOK, Phases, Signal, Count
  <2>2. SchemaInv'
    BY <1>11 DEF IInv, TypeOK, SchemaInv, Signal, Count
  <2>3. PhaseInv'
    BY <1>11 DEF IInv, TypeOK, PhaseInv, Done, Signal, Count
  <2> QED
    BY <2>1, <2>2, <2>3 DEF IInv
<1>12. ASSUME NEW s \in Services, Kill(s) PROVE IInv'
  <2>1. TypeOK'
    BY <1>12 DEF IInv, TypeOK, Phases, Kill, Exit, Count
  <2>2. SchemaInv'
    BY <1>12 DEF IInv, TypeOK, SchemaInv, Kill, Exit, Count
  <2>3. PhaseInv'
    BY <1>12 DEF IInv, TypeOK, PhaseInv, Done, Kill, Exit, Count
  <2> QED
    BY <2>1, <2>2, <2>3 DEF IInv
<1>13. ASSUME NEW s \in Services, Arrive(s) PROVE IInv'
  <2>1. TypeOK'
    BY <1>13 DEF IInv, TypeOK, Phases, Arrive, Accept, Made
  <2>2. SchemaInv'
    BY <1>13 DEF IInv, TypeOK, SchemaInv, Arrive, Accept, Made
  <2>3. PhaseInv'
    BY <1>13 DEF IInv, TypeOK, PhaseInv, Done, Arrive, Accept, Made
  <2> QED
    BY <2>1, <2>2, <2>3 DEF IInv
<1>14. ASSUME NEW s \in Services, NEW c \in Calls, Answer(s, c) PROVE IInv'
  BY <1>14 DEF IInv, TypeOK, SchemaInv, PhaseInv, Done, Answer
<1>15. CASE Outage \/ Recover
  <2>1. db' \in BOOLEAN
    BY <1>15, Zenon DEF Outage, Recover
  <2>5. faults' \in Nat
    BY <1>15 DEF IInv, TypeOK, Outage, Recover, Count
  <2>3. UNCHANGED <<schema, applied, process, answered, kills>>
    BY <1>15 DEF Outage, Recover
  <2>2. SchemaInv' /\ PhaseInv'
    BY <1>15 DEF IInv, SchemaInv, PhaseInv, Done, Outage, Recover
  <2>4. TypeOK'
    BY <2>1, <2>3, <2>5 DEF IInv, TypeOK
  <2> QED
    BY <2>2, <2>4 DEF IInv
<1> QED
  BY <1>1, <1>2, <1>3, <1>4, <1>5, <1>6, <1>7, <1>8, <1>9, <1>10, <1>11, <1>12, <1>13, <1>14, <1>15 DEF Next, Continue, Fault

\* The inductive invariant holds in every behaviour.
LEMMA InvHolds == Spec => []IInv
BY InitInv, NextInv, PTL DEF Spec

\* A process keeps its types, and its database never gets beyond the migrations
\* there are.
THEOREM TypeCorrect == Spec => []TypeOK
<1>1. IInv => TypeOK
  BY DEF IInv
<1> QED
  BY <1>1, InvHolds, PTL

\* Handlers run on a complete schema and an open pool, wherever the start before
\* was cut off.
THEOREM HandlersHaveTheirDatabase == Spec => []HandlersAreBacked
<1>1. IInv => HandlersAreBacked
  BY DEF IInv, TypeOK, SchemaInv, PhaseInv, HandlersAreBacked, Migrated, Done
<1> QED
  BY <1>1, InvHolds, PTL

\* Only a kill loses a call that was accepted: no step of the start has one, and
\* a graceful stop waits for all of them.
LEMMA StepLosesNoCall ==
  ASSUME IInv, Next, kills' = kills, NEW s \in Services
  PROVE  running[s] \ running'[s] \subseteq answered'
<1> USE DEF IInv, TypeOK, Phases, PhaseInv
<1>1. ASSUME NEW p \in Services, Continue(p) PROVE running[s] \ running'[s] \subseteq answered'
  <2>1. CASE Start(p) \/ NoChange(p) \/ MarkDirty(p) \/ RunScript(p) \/ GracefulStop(p)
    BY <2>1 DEF Start, NoChange, MarkDirty, RunScript, GracefulStop
  <2>2. CASE MigrateFatal(p)
    BY <2>2 DEF MigrateFatal, Exit
  <2>3. CASE Connect(p)
    BY <2>3 DEF Connect, Exit
  <2>4. CASE Listen(p)
    BY <2>4 DEF Listen, Exit
  <2>5. CASE Drained(p)
    BY <2>5 DEF Drained, Exit
  <2> QED
    BY <1>1, <2>1, <2>2, <2>3, <2>4, <2>5 DEF Continue
<1>2. ASSUME NEW p \in Services, Fault(p) PROVE running[s] \ running'[s] \subseteq answered'
  <2>1. CASE Signal(p)
    BY <2>1 DEF Signal
  <2>2. CASE Kill(p)
    BY <2>2 DEF Kill
  <2>3. CASE MigrateFatal(p)
    BY <2>3 DEF MigrateFatal, Exit
  <2> QED
    BY <1>2, <2>1, <2>2, <2>3 DEF Fault
<1>3. ASSUME NEW p \in Services, Arrive(p) PROVE running[s] \ running'[s] \subseteq answered'
  BY <1>3 DEF Arrive, Accept
<1>4. ASSUME NEW p \in Services, NEW c \in Calls, Answer(p, c)
      PROVE  running[s] \ running'[s] \subseteq answered'
  BY <1>4 DEF Answer
<1>5. CASE Outage \/ Recover
  BY <1>5 DEF Outage, Recover, process
<1> QED
  BY <1>1, <1>2, <1>3, <1>4, <1>5 DEF Next

\* An accepted call is answered before its service ends, unless it is killed.
THEOREM NoCallIsLost == Spec => StopsLoseNoCall
<1>1. IInv /\ [Next]_vars =>
        [kills' = kills =>
           \A s \in Services : running[s] \ running'[s] \subseteq answered']_vars
  BY StepLosesNoCall
<1> QED
  BY <1>1, InvHolds, PTL DEF Spec, StopsLoseNoCall
=============================================================================
