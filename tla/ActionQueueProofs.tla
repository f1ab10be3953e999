-------------------------- MODULE ActionQueueProofs --------------------------
(***************************************************************************)
(* Proofs about ActionQueue, for every set of actions, batch and bound.    *)
(* Inv strengthens the invariants of ActionQueue with what the program     *)
(* counter of a goroutine says about the row it works on.                  *)
(***************************************************************************)
EXTENDS ActionQueue, TLAPS

\* The worker has an action in its hands exactly between claim and outcome, and
\* that action's row is "running"; a process that is down has no worker.
WorkerInv ==
    /\ worker.pc \in {"claimed", "executing"} =>
          worker.action \in Actions /\ status[worker.action] = "running"
    /\ worker.pc \notin {"claimed", "executing"} => worker.action = NoAction
    /\ svc = "down" => worker.pc = "stopped"

\* An action has been executed only if its row was claimed, and the one in the
\* worker's hands once iff it is executing.
StartsInv ==
    /\ \A a \in Actions : starts[a] <= 1
    /\ \A a \in Actions : status[a] \in {"absent", "queued"} => starts[a] = 0
    /\ worker.pc = "claimed" => starts[worker.action] = 0
    /\ worker.pc = "executing" => starts[worker.action] = 1

\* A row exists exactly from the handler's insert on.
HandlerInv ==
    \A a \in Actions :
        /\ handler[a] \in {"none", "identified", "stamped", "refused"} => status[a] = "absent"
        /\ handler[a] \in {"inserted", "woken", "pending"} => status[a] # "absent"

\* The actions acknowledged before b connected carry an earlier queued_at.
OrderInv ==
    \A b \in Actions : \A a \in earlier[b] :
        /\ handler[a] = "pending" /\ handler[b] # "none"
        /\ stamp[a] < second
        /\ (handler[b] = "stamped" \/ status[b] # "absent") => stamp[a] < stamp[b]

Inv == /\ TypeOK /\ WorkerInv /\ HandlerInv /\ TablesAgree /\ StartsInv
       /\ OrderInv /\ FifoAcrossSeconds /\ NoOrphanWithoutFault

USE QueueAssumption DEF NoAction

-----------------------------------------------------------------------------
\* The initial state satisfies every conjunct of Inv.
LEMMA InitInv == Init => Inv
<1> SUFFICES ASSUME Init PROVE Inv
  OBVIOUS
<1>1. TypeOK
  <2>1. history \in [Actions -> Seq(Final)] BY DEF Init
  <2> QED BY <2>1 DEF Init, TypeOK, Idle, Statuses, HandlerStates, TokenPlaces, WorkerStates
<1>2. WorkerInv /\ HandlerInv /\ StartsInv
  BY DEF Init, WorkerInv, HandlerInv, StartsInv, Idle
<1>3. TablesAgree BY DEF Init, TablesAgree, Final
<1>4. OrderInv /\ FifoAcrossSeconds /\ NoOrphanWithoutFault
  BY DEF Init, OrderInv, FifoAcrossSeconds, NoOrphanWithoutFault, Final
<1> QED BY <1>1, <1>2, <1>3, <1>4 DEF Inv

\* A step keeps every variable in its range.
LEMMA TypeStep == TypeOK /\ WorkerInv /\ [Next]_vars => TypeOK'
<1> SUFFICES ASSUME TypeOK, WorkerInv, [Next]_vars PROVE TypeOK'
  OBVIOUS
<1> USE DEF TypeOK
<1>1. ASSUME NEW a \in Actions, Connect(a) \/ Handle(a) PROVE TypeOK'
  <2> USE DEF HandlerStates, TokenPlaces, Statuses, DbCallFails
  <2>1. CASE Connect(a) BY <2>1 DEF Connect, dbVars, boundVars
  <2>2. CASE Refuse(a) BY <2>2 DEF Refuse, dbVars, ghostVars, boundVars
  <2>3. CASE Stamp(a) BY <2>3 DEF Stamp, ghostVars, boundVars
  <2>4. CASE Insert(a)
    <3>1. handler' \in [Actions -> HandlerStates] BY <2>4 DEF Insert
    <3>2. status' \in [Actions -> Statuses] BY <2>4 DEF Insert
    <3>3. UNCHANGED <<svc, second, stamp, history, token, trigger, worker, ghostVars, boundVars>>
      BY <2>4 DEF Insert
    <3> QED BY <3>1, <3>2, <3>3 DEF ghostVars, boundVars
  <2>5. CASE InsertFails(a) BY <2>5 DEF InsertFails, dbVars, ghostVars
  <2>6. CASE Wake(a) BY <2>6 DEF Wake, dbVars, ghostVars, boundVars
  <2>7. CASE Promote(a) BY <2>7 DEF Promote, dbVars, ghostVars, boundVars
  <2> QED BY <1>1, <2>1, <2>2, <2>3, <2>4, <2>5, <2>6, <2>7 DEF Handle
<1>2. CASE Work
  <2>0. \A pc \in WorkerStates :
          Idle(pc) \in [pc : WorkerStates, action : Actions \cup {NoAction}, round : 0..(Batch - 1)]
    BY DEF Idle
  <2>1. CASE WakeByTrigger BY <2>0, <2>1 DEF WakeByTrigger, WorkerStates, dbVars, ghostVars, boundVars
  <2>2. CASE WakeByTicker BY <2>0, <2>2 DEF WakeByTicker, WorkerStates, dbVars, ghostVars, boundVars
  <2>3. CASE WorkerReturns BY <2>0, <2>3 DEF WorkerReturns, WorkerStates, dbVars, ghostVars, boundVars
  <2>4. ASSUME NEW a \in Actions, Claim(a) PROVE TypeOK'
    BY <2>4 DEF Claim, WorkerStates, Statuses, ghostVars, boundVars
  <2>5. CASE ClaimNothing BY <2>0, <2>5 DEF ClaimNothing, WorkerStates, dbVars, ghostVars, boundVars
  <2>6. CASE ClaimFails
    <3>1. faults' \in Nat BY <2>6 DEF ClaimFails, DbCallFails
    <3>2. worker' \in [pc : WorkerStates, action : Actions \cup {NoAction}, round : 0..(Batch - 1)]
      BY <2>0, <2>6 DEF ClaimFails, WorkerStates
    <3>3. UNCHANGED <<svc, second, dbVars, handler, token, trigger, ghostVars, restarts>>
      BY <2>6 DEF ClaimFails
    <3> QED BY <3>1, <3>2, <3>3 DEF dbVars, ghostVars
  <2>7. CASE Begin
    <3>1. worker.action \in Actions BY <2>7 DEF Begin, WorkerInv
    <3>2. token' \in [Actions -> TokenPlaces] BY <2>7, <3>1 DEF Begin, TokenPlaces
    <3>3. starts' \in [Actions -> Nat] BY <2>7, <3>1 DEF Begin
    <3> QED BY <2>7, <3>2, <3>3 DEF Begin, WorkerStates, dbVars, boundVars
  <2>8. ASSUME NEW outcome \in Final, Complete(outcome) PROVE TypeOK'
    <3>1. worker.action \in Actions BY <2>8 DEF Complete, WorkerInv
    <3>2. worker' \in [pc : WorkerStates, action : Actions \cup {NoAction}, round : 0..(Batch - 1)]
      BY <2>8, <2>0 DEF Complete, RoundAfterAction, NextRound, WorkerStates
    <3>3. history' \in [Actions -> Seq(Final)]
      <4>1. Append(history[worker.action], outcome) \in Seq(Final) BY <3>1
      <4> QED BY <2>8, <3>1, <4>1 DEF Complete
    <3>4. token' \in [Actions -> TokenPlaces]
      BY <2>8, <3>1 DEF Complete, CloseActionToken, TokenPlaces
    <3>5. status' \in [Actions -> Statuses] BY <2>8 DEF Complete, Statuses
    <3> QED BY <2>8, <3>2, <3>3, <3>4, <3>5 DEF Complete, ghostVars, boundVars
  <2>9. CASE CompleteFails
    <3>1. worker.action \in Actions BY <2>9 DEF CompleteFails, WorkerInv
    <3>2. token' \in [Actions -> TokenPlaces]
      BY <2>9, <3>1 DEF CompleteFails, CloseActionToken, TokenPlaces
    <3> QED BY <2>0, <2>9, <3>2 DEF CompleteFails, DbCallFails, WorkerStates, dbVars, ghostVars
  <2> QED BY <1>2, <2>1, <2>2, <2>3, <2>4, <2>5, <2>6, <2>7, <2>8, <2>9 DEF Work
<1>3. CASE Process
  <2>1. CASE Cancel BY <2>1 DEF Cancel, dbVars, ghostVars, boundVars
  <2>2. CASE CloseDatabase BY <2>2 DEF CloseDatabase, dbVars, ghostVars, boundVars
  <2>3. CASE ProcessEnds
    <3>1. handler' \in [Actions -> HandlerStates] BY <2>3 DEF ProcessEnds, HandlerStates
    <3>2. token' \in [Actions -> TokenPlaces] BY <2>3 DEF ProcessEnds, TokenPlaces
    <3>3. svc' = "down" /\ trigger' = 0 BY <2>3 DEF ProcessEnds
    <3>4. worker' \in [pc : WorkerStates, action : Actions \cup {NoAction}, round : 0..(Batch - 1)]
      BY <2>3 DEF ProcessEnds, Idle, WorkerStates
    <3>5. UNCHANGED <<second, dbVars, ghostVars, boundVars>> BY <2>3 DEF ProcessEnds
    <3> QED BY <3>1, <3>2, <3>3, <3>4, <3>5 DEF dbVars, ghostVars, boundVars
  <2>4. CASE Start BY <2>4 DEF Start, Idle, WorkerStates, dbVars, ghostVars
  <2> QED BY <1>3, <2>1, <2>2, <2>3, <2>4 DEF Process
<1>4. CASE SecondPasses BY <1>4 DEF SecondPasses, dbVars, ghostVars, boundVars
<1>5. CASE UNCHANGED vars BY <1>5 DEF vars, dbVars, ghostVars, boundVars
<1> QED BY <1>1, <1>2, <1>3, <1>4, <1>5 DEF Next

\* What each kind of step may touch: every step but an insert, a claim and the end
\* of an execution leaves status and history alone, every step but Begin leaves
\* starts alone, and the request handlers leave the worker alone.
LEMMA HandlerFrame ==
  ASSUME NEW a \in Actions, Connect(a) \/ Handle(a)
  PROVE  /\ UNCHANGED <<svc, second, history, worker, starts, restarts>>
         /\ Insert(a) \/ UNCHANGED status
<1> USE DEF dbVars, ghostVars, boundVars
<1>1. CASE Connect(a) BY <1>1 DEF Connect
<1>2. CASE Refuse(a) BY <1>2 DEF Refuse
<1>3. CASE Stamp(a) BY <1>3 DEF Stamp
<1>4. CASE Insert(a) BY <1>4 DEF Insert
<1>5. CASE InsertFails(a) BY <1>5 DEF InsertFails
<1>6. CASE Wake(a) BY <1>6 DEF Wake
<1>7. CASE Promote(a) BY <1>7 DEF Promote
<1> QED BY <1>1, <1>2, <1>3, <1>4, <1>5, <1>6, <1>7 DEF Handle

LEMMA WorkFrame ==
  ASSUME Work
  PROVE  /\ UNCHANGED <<svc, second, stamp, handler, earlier, restarts>>
         /\ \/ \E a \in Actions : Claim(a)
            \/ \E outcome \in Final : Complete(outcome)
            \/ UNCHANGED <<status, history>>
<1> USE DEF dbVars, ghostVars, boundVars
<1>1. CASE WakeByTrigger BY <1>1 DEF WakeByTrigger
<1>2. CASE WakeByTicker BY <1>2 DEF WakeByTicker
<1>3. CASE WorkerReturns BY <1>3 DEF WorkerReturns
<1>4. ASSUME NEW a \in Actions, Claim(a) PROVE UNCHANGED <<svc, second, stamp, handler, earlier, restarts>>
  BY <1>4 DEF Claim
<1>5. CASE ClaimNothing BY <1>5 DEF ClaimNothing
<1>6. CASE ClaimFails BY <1>6 DEF ClaimFails
<1>7. CASE Begin BY <1>7 DEF Begin
<1>8. ASSUME NEW outcome \in Final, Complete(outcome) PROVE UNCHANGED <<svc, second, stamp, handler, earlier, restarts>>
  BY <1>8 DEF Complete
<1>9. CASE CompleteFails BY <1>9 DEF CompleteFails
<1> QED BY <1>1, <1>2, <1>3, <1>4, <1>5, <1>6, <1>7, <1>8, <1>9 DEF Work

LEMMA ProcessFrame ==
  ASSUME Process PROVE UNCHANGED <<second, status, stamp, history, starts, earlier>>
BY DEF Process, Cancel, CloseDatabase, ProcessEnds, Start, dbVars, ghostVars

\* The two tables are written together, so they agree after every step.
LEMMA TablesStep == TypeOK /\ WorkerInv /\ HandlerInv /\ TablesAgree /\ [Next]_vars => TablesAgree'
<1> SUFFICES ASSUME TypeOK, WorkerInv, HandlerInv, TablesAgree, [Next]_vars PROVE TablesAgree'
  OBVIOUS
<1> USE DEF TablesAgree, TypeOK
<1>1. CASE UNCHANGED <<status, history>>
  BY <1>1
<1>2. ASSUME NEW a \in Actions, Insert(a) PROVE TablesAgree'
  BY <1>2 DEF Insert, HandlerInv, Final
<1>3. ASSUME NEW a \in Actions, Claim(a) PROVE TablesAgree'
  BY <1>3 DEF Claim, IsNextQueued, Final
<1>4. ASSUME NEW outcome \in Final, Complete(outcome) PROVE TablesAgree'
  <2>1. worker.action \in Actions /\ history[worker.action] = <<>>
    BY <1>4 DEF Complete, WorkerInv, Final
  <2>2. history'[worker.action] = <<outcome>> /\ status'[worker.action] = outcome
    BY <1>4, <2>1 DEF Complete
  <2>3. \A a \in Actions \ {worker.action} : history'[a] = history[a] /\ status'[a] = status[a]
    BY <1>4 DEF Complete
  <2> QED BY <2>1, <2>2, <2>3
<1> QED
  BY <1>1, <1>2, <1>3, <1>4, HandlerFrame, WorkFrame, ProcessFrame DEF Next, SecondPasses, vars, dbVars

\* Only the worker claims and completes, so its row stays "running" in its hands.
LEMMA WorkerStep == TypeOK /\ WorkerInv /\ HandlerInv /\ [Next]_vars => WorkerInv'
<1> SUFFICES ASSUME TypeOK, WorkerInv, HandlerInv, [Next]_vars PROVE WorkerInv'
  OBVIOUS
<1> USE DEF WorkerInv, TypeOK
<1>1. ASSUME NEW a \in Actions, Connect(a) \/ Handle(a) PROVE WorkerInv'
  <2>1. CASE UNCHANGED status BY <1>1, <2>1, HandlerFrame
  <2>2. CASE Insert(a)
    <3>1. status[a] = "absent" /\ UNCHANGED <<svc, worker>>
      BY <2>2 DEF Insert, HandlerInv
    <3> QED BY <2>2, <3>1 DEF Insert
  <2> QED BY <1>1, <2>1, <2>2, HandlerFrame
<1>2. CASE Work
  <2> USE DEF Idle, Alive, DbOpen, DbCallFails
  <2>1. CASE WakeByTrigger BY <2>1 DEF WakeByTrigger
  <2>2. CASE WakeByTicker BY <2>2 DEF WakeByTicker
  <2>3. CASE WorkerReturns BY <2>3 DEF WorkerReturns
  <2>4. ASSUME NEW a \in Actions, Claim(a) PROVE WorkerInv' BY <2>4 DEF Claim
  <2>5. CASE ClaimNothing BY <2>5 DEF ClaimNothing
  <2>6. CASE ClaimFails BY <2>6 DEF ClaimFails
  <2>7. CASE Begin BY <2>7 DEF Begin, dbVars
  <2>8. ASSUME NEW outcome \in Final, Complete(outcome) PROVE WorkerInv'
    BY <2>8 DEF Complete, RoundAfterAction, NextRound
  <2>9. CASE CompleteFails BY <2>9 DEF CompleteFails
  <2> QED BY <1>2, <2>1, <2>2, <2>3, <2>4, <2>5, <2>6, <2>7, <2>8, <2>9 DEF Work
<1>3. CASE Process
  BY <1>3 DEF Process, Cancel, CloseDatabase, ProcessEnds, Start, Alive, Idle, dbVars
<1>4. CASE SecondPasses BY <1>4 DEF SecondPasses, dbVars
<1>5. CASE UNCHANGED vars BY <1>5 DEF vars, dbVars
<1> QED BY <1>1, <1>2, <1>3, <1>4, <1>5 DEF Next

\* A row exists from the insert on, and no step removes one.
LEMMA HandlerStep == TypeOK /\ WorkerInv /\ HandlerInv /\ [Next]_vars => HandlerInv'
<1> SUFFICES ASSUME TypeOK, WorkerInv, HandlerInv, [Next]_vars PROVE HandlerInv'
  OBVIOUS
<1> USE DEF HandlerInv, TypeOK
<1>1. ASSUME NEW a \in Actions, Connect(a) \/ Handle(a) PROVE HandlerInv'
  <2>1. CASE Connect(a) BY <2>1 DEF Connect, dbVars
  <2>2. CASE Refuse(a) BY <2>2 DEF Refuse, dbVars
  <2>3. CASE Stamp(a) BY <2>3 DEF Stamp
  <2>4. CASE Insert(a) BY <2>4 DEF Insert
  <2>5. CASE InsertFails(a) BY <2>5 DEF InsertFails, dbVars
  <2>6. CASE Wake(a) BY <2>6 DEF Wake, dbVars
  <2>7. CASE Promote(a) BY <2>7 DEF Promote, dbVars
  <2> QED BY <1>1, <2>1, <2>2, <2>3, <2>4, <2>5, <2>6, <2>7 DEF Handle
<1>2. CASE Work
  <2>1. CASE UNCHANGED <<status, handler>> BY <2>1
  <2>2. ASSUME NEW a \in Actions, Claim(a) PROVE HandlerInv'
    BY <2>2 DEF Claim, IsNextQueued
  <2>3. ASSUME NEW outcome \in Final, Complete(outcome) PROVE HandlerInv'
    BY <2>3 DEF Complete, WorkerInv, Final
  <2> QED BY <1>2, <2>1, <2>2, <2>3, WorkFrame
<1>3. CASE Process
  <2>1. CASE ProcessEnds BY <2>1 DEF ProcessEnds, ActiveHandler, dbVars
  <2>2. CASE Cancel \/ CloseDatabase \/ Start
    BY <2>2 DEF Cancel, CloseDatabase, Start, dbVars
  <2> QED BY <1>3, <2>1, <2>2 DEF Process
<1>4. CASE SecondPasses BY <1>4 DEF SecondPasses, dbVars
<1>5. CASE UNCHANGED vars BY <1>5 DEF vars, dbVars
<1> QED BY <1>1, <1>2, <1>3, <1>4, <1>5 DEF Next

\* The claim takes the row away before Begin counts the execution, and no row goes
\* back to "queued": a second execution has nothing to start from.
LEMMA StartsStep == TypeOK /\ WorkerInv /\ HandlerInv /\ StartsInv /\ [Next]_vars => StartsInv'
<1> SUFFICES ASSUME TypeOK, WorkerInv, HandlerInv, StartsInv, [Next]_vars PROVE StartsInv'
  OBVIOUS
<1> USE DEF StartsInv, TypeOK
<1>1. ASSUME NEW a \in Actions, Connect(a) \/ Handle(a) PROVE StartsInv'
  <2>1. CASE UNCHANGED status BY <1>1, <2>1, HandlerFrame
  <2>2. CASE Insert(a)
    <3>1. status[a] = "absent" /\ UNCHANGED <<worker, starts>>
      BY <2>2 DEF Insert, HandlerInv, ghostVars
    <3> QED BY <2>2, <3>1 DEF Insert
  <2> QED BY <1>1, <2>1, <2>2, HandlerFrame
<1>2. CASE Work
  <2> USE DEF Idle, ghostVars
  <2>1. CASE WakeByTrigger BY <2>1 DEF WakeByTrigger, dbVars
  <2>2. CASE WakeByTicker BY <2>2 DEF WakeByTicker, dbVars
  <2>3. CASE WorkerReturns BY <2>3 DEF WorkerReturns, dbVars
  <2>4. ASSUME NEW a \in Actions, Claim(a) PROVE StartsInv'
    BY <2>4 DEF Claim, IsNextQueued
  <2>5. CASE ClaimNothing BY <2>5 DEF ClaimNothing, dbVars
  <2>6. CASE ClaimFails BY <2>6 DEF ClaimFails, dbVars
  <2>7. CASE Begin
    <3>1. worker.action \in Actions /\ status[worker.action] = "running" /\ starts[worker.action] = 0
      BY <2>7 DEF Begin, WorkerInv
    <3> QED BY <2>7, <3>1 DEF Begin, dbVars
  <2>8. ASSUME NEW outcome \in Final, Complete(outcome) PROVE StartsInv'
    BY <2>8 DEF Complete, RoundAfterAction, NextRound, WorkerInv, Final
  <2>9. CASE CompleteFails BY <2>9 DEF CompleteFails, dbVars
  <2> QED BY <1>2, <2>1, <2>2, <2>3, <2>4, <2>5, <2>6, <2>7, <2>8, <2>9 DEF Work
<1>3. CASE Process
  <2>1. worker' = worker \/ worker'.pc \in {"stopped", "waiting"}
    BY <1>3 DEF Process, Cancel, CloseDatabase, ProcessEnds, Start, Idle
  <2> QED BY <1>3, <2>1, ProcessFrame
<1>4. CASE SecondPasses BY <1>4 DEF SecondPasses, dbVars, ghostVars
<1>5. CASE UNCHANGED vars BY <1>5 DEF vars, dbVars, ghostVars
<1> QED BY <1>1, <1>2, <1>3, <1>4, <1>5 DEF Next

\* An acknowledged action keeps its queued_at, later handlers read a later clock, and
\* the worker takes the smallest queued_at: so it cannot pass one of them.
LEMMA OrderStep ==
  TypeOK /\ WorkerInv /\ HandlerInv /\ OrderInv /\ FifoAcrossSeconds /\ [Next]_vars
    => OrderInv' /\ FifoAcrossSeconds'
<1> SUFFICES ASSUME TypeOK, WorkerInv, HandlerInv, OrderInv, FifoAcrossSeconds, [Next]_vars
             PROVE  OrderInv' /\ FifoAcrossSeconds'
  OBVIOUS
<1> USE DEF OrderInv, FifoAcrossSeconds, TypeOK
<1>1. ASSUME NEW a \in Actions, Connect(a) \/ Handle(a) PROVE OrderInv' /\ FifoAcrossSeconds'
  <2>1. CASE Connect(a)
    <3>1. /\ handler[a] = "none" /\ handler' = [handler EXCEPT ![a] = "identified"]
          /\ earlier' = [earlier EXCEPT ![a] =
                            {b \in Actions : handler[b] = "pending" /\ stamp[b] < second}]
          /\ UNCHANGED <<second, status, stamp>>
      BY <2>1 DEF Connect, dbVars
    <3>2. status[a] = "absent" BY <3>1 DEF HandlerInv
    <3> QED BY <3>1, <3>2, Zenon, SMT DEF Final
  <2>2. CASE Refuse(a) BY <2>2 DEF Refuse, dbVars, ghostVars
  <2>3. CASE Stamp(a)
    <3>1. /\ handler[a] = "identified" /\ handler' = [handler EXCEPT ![a] = "stamped"]
          /\ stamp' = [stamp EXCEPT ![a] = second]
          /\ UNCHANGED <<second, status, earlier>>
      BY <2>3 DEF Stamp, ghostVars
    <3>2. status[a] = "absent" BY <3>1 DEF HandlerInv
    <3> QED BY <3>1, <3>2
  <2>4. CASE Insert(a) BY <2>4 DEF Insert, HandlerInv, Final, ghostVars
  <2>5. CASE InsertFails(a) BY <2>5 DEF InsertFails, HandlerInv, dbVars, ghostVars
  <2>6. CASE Wake(a) BY <2>6 DEF Wake, dbVars, ghostVars
  <2>7. CASE Promote(a) BY <2>7 DEF Promote, dbVars, ghostVars
  <2> QED BY <1>1, <2>1, <2>2, <2>3, <2>4, <2>5, <2>6, <2>7 DEF Handle
<1>2. CASE Work
  <2>1. CASE UNCHANGED status BY <1>2, <2>1, WorkFrame
  <2>2. ASSUME NEW a \in Actions, Claim(a) PROVE OrderInv' /\ FifoAcrossSeconds'
    <3>1. /\ status' = [status EXCEPT ![a] = "running"] /\ status[a] = "queued"
          /\ \A b \in Actions : status[b] = "queued" =>
                stamp[a] < stamp[b] \/ (stamp[a] = stamp[b] /\ a <= b)
          /\ UNCHANGED <<second, stamp, handler, earlier>>
      BY <2>2 DEF Claim, IsNextQueued, ghostVars
    <3>2. \A c \in earlier[a] : status[c] # "queued"
      BY <3>1
    <3> QED BY <3>1, <3>2
  <2>3. ASSUME NEW outcome \in Final, Complete(outcome) PROVE OrderInv' /\ FifoAcrossSeconds'
    <3>1. /\ status' = [status EXCEPT ![worker.action] = outcome]
          /\ worker.action \in Actions /\ status[worker.action] = "running"
          /\ UNCHANGED <<second, stamp, handler, earlier>>
      BY <2>3 DEF Complete, WorkerInv, ghostVars
    <3> QED BY <3>1 DEF Final
  <2> QED BY <1>2, <2>1, <2>2, <2>3, WorkFrame
<1>3. CASE Process
  <2>1. \A a \in Actions : handler'[a] = handler[a]
                           \/ (handler[a] \in ActiveHandler /\ handler'[a] = "lost")
    BY <1>3 DEF Process, Cancel, CloseDatabase, ProcessEnds, Start
  <2>2. \A a \in Actions : /\ handler[a] = "pending" => handler'[a] = "pending"
                           /\ handler[a] # "none" => handler'[a] # "none"
                           /\ handler'[a] = "stamped" => handler[a] = "stamped"
    BY <2>1 DEF ActiveHandler
  <2>3. UNCHANGED <<second, status, stamp, earlier>> BY <1>3, ProcessFrame
  <2>4. earlier \in [Actions -> SUBSET Actions] OBVIOUS
  <2>5. OrderInv'
    <3> SUFFICES ASSUME NEW b \in Actions, NEW a \in earlier[b]
                 PROVE  /\ handler'[a] = "pending" /\ handler'[b] # "none"
                        /\ stamp[a] < second
                        /\ (handler'[b] = "stamped" \/ status[b] # "absent") => stamp[a] < stamp[b]
      BY <2>3
    <3> QED BY <2>2, <2>4
  <2>6. FifoAcrossSeconds' BY <2>3
  <2> QED BY <2>5, <2>6
<1>4. CASE SecondPasses BY <1>4 DEF SecondPasses, dbVars, ghostVars
<1>5. CASE UNCHANGED vars BY <1>5 DEF vars, dbVars, ghostVars
<1> QED BY <1>1, <1>2, <1>3, <1>4, <1>5 DEF Next

\* Without a failed call, a closed database or a restart, the worker lets go of a
\* "running" row only by completing it.
LEMMA OrphanStep ==
  TypeOK /\ WorkerInv /\ HandlerInv /\ NoOrphanWithoutFault /\ [Next]_vars => NoOrphanWithoutFault'
<1> SUFFICES ASSUME TypeOK, WorkerInv, HandlerInv, NoOrphanWithoutFault, [Next]_vars,
                    DbOpen', faults' = 0, restarts' = 0,
                    NEW x \in Actions, status'[x] = "running"
             PROVE  worker'.action = x
  BY DEF NoOrphanWithoutFault
<1> USE DEF NoOrphanWithoutFault, TypeOK
<1>1. ASSUME NEW a \in Actions, Connect(a) \/ Handle(a) PROVE worker'.action = x
  <2>1. status[x] = "running" /\ UNCHANGED <<svc, worker, restarts>>
    BY <1>1, HandlerFrame DEF Insert
  <2>2. faults = 0
    BY <1>1 DEF Connect, Handle, Refuse, Stamp, Insert, InsertFails, Wake, Promote,
                DbCallFails, boundVars
  <2> QED BY <2>1, <2>2 DEF DbOpen
<1>2. CASE Work
  <2> USE DEF Idle, DbOpen, DbCallFails, WorkerInv
  <2>1. CASE WakeByTrigger BY <2>1 DEF WakeByTrigger, dbVars, boundVars
  <2>2. CASE WakeByTicker BY <2>2 DEF WakeByTicker, dbVars, boundVars
  <2>3. CASE WorkerReturns BY <2>3 DEF WorkerReturns, dbVars, boundVars
  <2>4. ASSUME NEW a \in Actions, Claim(a) PROVE worker'.action = x
    BY <2>4 DEF Claim, boundVars
  <2>5. CASE ClaimNothing BY <2>5 DEF ClaimNothing, dbVars, boundVars
  <2>6. CASE ClaimFails BY <2>6 DEF ClaimFails, dbVars
  <2>7. CASE Begin BY <2>7 DEF Begin, dbVars, boundVars
  <2>8. ASSUME NEW outcome \in Final, Complete(outcome) PROVE worker'.action = x
    BY <2>8 DEF Complete, boundVars, Final
  <2>9. CASE CompleteFails BY <2>9 DEF CompleteFails, dbVars
  <2> QED BY <1>2, <2>1, <2>2, <2>3, <2>4, <2>5, <2>6, <2>7, <2>8, <2>9 DEF Work
<1>3. CASE Process
  BY <1>3 DEF Process, Cancel, CloseDatabase, ProcessEnds, Start, DbOpen, dbVars, boundVars
<1>4. CASE SecondPasses BY <1>4 DEF SecondPasses, DbOpen, dbVars, boundVars
<1>5. CASE UNCHANGED vars BY <1>5 DEF vars, DbOpen, dbVars, boundVars
<1> QED BY <1>1, <1>2, <1>3, <1>4, <1>5 DEF Next

LEMMA StepInv == Inv /\ [Next]_vars => Inv'
BY TypeStep, TablesStep, WorkerStep, HandlerStep, StartsStep, OrderStep, OrphanStep DEF Inv

-----------------------------------------------------------------------------
\* Inv is an invariant of the specification.
THEOREM Invariance == Spec => []Inv
BY InitInv, StepInv, PTL DEF Spec

\* Type correctness of the action queue.
THEOREM TypeCorrect == Spec => []TypeOK
BY Invariance, PTL DEF Inv

\* The tables action_queue and action_history agree, whatever crashes or fails
\* around CompleteAction.
THEOREM TablesAlwaysAgree == Spec => []TablesAgree
BY Invariance, PTL DEF Inv

\* No crash, restart or failed call makes the worker run an action a second time.
THEOREM AtMostOnce == Spec => []AtMostOneExecution
<1>1. Inv => AtMostOneExecution BY DEF Inv, StartsInv, AtMostOneExecution
<1> QED BY <1>1, Invariance, PTL

\* A request that was answered 202 is on record from then on.
THEOREM PendingStaysOnRecord == Spec => []PendingIsOnRecord
<1>1. Inv => PendingIsOnRecord BY DEF Inv, HandlerInv, PendingIsOnRecord
<1> QED BY <1>1, Invariance, PTL

\* A "running" row without a worker is always the trace of a failed call, a close
\* of the database or the end of a process.
THEOREM OrphansComeFromFaults == Spec => []NoOrphanWithoutFault
BY Invariance, PTL DEF Inv

\* The three tables of the queue tell one story, for all actions and batches.
THEOREM RecordsAlwaysAgree == Spec => []RecordsAgree
<1>1. TablesAgree /\ PendingIsOnRecord /\ NoOrphanWithoutFault => RecordsAgree
  BY DEF RecordsAgree
<1> QED BY <1>1, TablesAlwaysAgree, PendingStaysOnRecord, OrphansComeFromFaults, PTL

\* The queue is first come, first served at the resolution of queued_at.
THEOREM FirstComeFirstServed == Spec => []FifoAcrossSeconds
BY Invariance, PTL DEF Inv

-----------------------------------------------------------------------------
\* The refinement of JobLedger: the insert accepts, Begin runs, CompleteAction
\* finishes and the reply tells; every other step stutters.
Told == {a \in Actions : handler[a] = "pending"}

LEMMA LedgerInitMaps == Init => L!LedgerInit
BY DEF Init, L!LedgerInit, LedgerState, Final

\* A function on Actions that changes at one place.
LEMMA LedgerUpdate ==
  ASSUME NEW a \in Actions, NEW v, LedgerState'[a] = v,
         \A b \in Actions \ {a} : LedgerState'[b] = LedgerState[b]
  PROVE  LedgerState' = [LedgerState EXCEPT ![a] = v]
<1>1. /\ LedgerState = [b \in Actions |-> LedgerState[b]]
      /\ LedgerState' = [b \in Actions |-> LedgerState'[b]]
  BY DEF LedgerState
<1> QED BY <1>1

LEMMA LedgerStepMaps == Inv /\ [Next]_vars => [L!LedgerNext]_(L!ledgerVars)
<1> SUFFICES ASSUME Inv, [Next]_vars
             PROVE  L!LedgerNext \/ (UNCHANGED LedgerState /\ UNCHANGED Told /\ UNCHANGED starts)
  BY DEF L!ledgerVars, Told
<1> USE DEF Inv, TypeOK, Told, LedgerState
<1>1. CASE UNCHANGED <<status, starts, handler>>
  BY <1>1
<1>2. ASSUME NEW a \in Actions, Connect(a) \/ Handle(a) PROVE L!LedgerNext \/ (UNCHANGED LedgerState /\ UNCHANGED Told /\ UNCHANGED starts)
  <2>1. CASE Insert(a)
    <3>1. status[a] = "absent" /\ status' = [status EXCEPT ![a] = "queued"] /\ starts[a] = 0
          /\ handler[a] = "stamped" /\ handler' = [handler EXCEPT ![a] = "inserted"] /\ UNCHANGED starts
      BY <2>1 DEF Insert, HandlerInv, StartsInv, ghostVars
    <3>2. /\ LedgerState[a] = "unknown" /\ LedgerState'[a] = "accepted"
          /\ \A b \in Actions \ {a} : LedgerState'[b] = LedgerState[b]
      BY <3>1 DEF Final
    <3>3. UNCHANGED Told /\ UNCHANGED starts BY <3>1
    <3> HIDE DEF LedgerState
    <3> QED BY <3>2, <3>3, LedgerUpdate DEF L!LedgerNext, L!Accept, L!Move
  <2>2. CASE Promote(a)
    <3>1. handler[a] = "woken" /\ handler' = [handler EXCEPT ![a] = "pending"] /\ UNCHANGED <<status, starts>>
      BY <2>2 DEF Promote, dbVars, ghostVars
    <3>2. LedgerState[a] # "unknown" BY <3>1 DEF HandlerInv, Final
    <3>3. Told' = Told \cup {a} /\ a \notin Told /\ UNCHANGED LedgerState /\ UNCHANGED starts BY <3>1
    <3> QED BY <3>2, <3>3 DEF L!LedgerNext, L!Tell
  <2>3. CASE ~Insert(a) /\ ~Promote(a)
    <3>1. UNCHANGED <<status, starts>> BY <1>2, <2>3, HandlerFrame
    <3>2. handler[a] # "pending" /\ handler'[a] # "pending"
          /\ \A b \in Actions \ {a} : handler'[b] = handler[b]
      BY <1>2, <2>3 DEF Connect, Handle, Refuse, Stamp, InsertFails, Wake
    <3> QED BY <3>1, <3>2
  <2> QED BY <2>1, <2>2, <2>3
<1>3. CASE Work
  <2>0. UNCHANGED handler BY <1>3, WorkFrame
  <2>1. ASSUME NEW a \in Actions, Claim(a) PROVE UNCHANGED LedgerState /\ UNCHANGED starts
    BY <2>1 DEF Claim, IsNextQueued, Final, ghostVars
  <2>2. CASE Begin
    <3>1. worker.action \in Actions /\ status[worker.action] = "running" /\ starts[worker.action] = 0
      BY <2>2 DEF Begin, WorkerInv, StartsInv
    <3>2. /\ starts'[worker.action] = 1 /\ UNCHANGED status
          /\ starts' = [starts EXCEPT ![worker.action] = @ + 1]
          /\ \A b \in Actions \ {worker.action} : starts'[b] = starts[b]
      BY <2>2, <3>1 DEF Begin, dbVars
    <3>3. /\ LedgerState[worker.action] = "accepted" /\ LedgerState'[worker.action] = "started"
          /\ \A b \in Actions \ {worker.action} : LedgerState'[b] = LedgerState[b]
      BY <3>1, <3>2 DEF Final
    <3> HIDE DEF LedgerState
    <3> QED BY <2>0, <3>1, <3>2, <3>3, LedgerUpdate DEF L!LedgerNext, L!Run, L!Move
  <2>3. ASSUME NEW outcome \in Final, Complete(outcome) PROVE L!LedgerNext
    <3>1. worker.action \in Actions /\ status[worker.action] = "running" /\ starts[worker.action] = 1
          /\ status' = [status EXCEPT ![worker.action] = outcome] /\ UNCHANGED starts
      BY <2>3 DEF Complete, WorkerInv, StartsInv, ghostVars
    <3>2. /\ LedgerState[worker.action] = "started" /\ LedgerState'[worker.action] = outcome
          /\ \A b \in Actions \ {worker.action} : LedgerState'[b] = LedgerState[b]
      BY <3>1 DEF Final
    <3> HIDE DEF LedgerState
    <3> QED BY <2>0, <3>1, <3>2, LedgerUpdate DEF L!LedgerNext, L!Finish, L!Move, Final
  <2>4. CASE ~Begin /\ UNCHANGED status
    <3>1. UNCHANGED starts
      BY <1>3, <2>4 DEF Work, WakeByTrigger, WakeByTicker, WorkerReturns, Claim, ClaimNothing,
                        ClaimFails, Complete, CompleteFails, ghostVars
    <3> QED BY <2>0, <2>4, <3>1
  <2> QED BY <1>3, <2>0, <2>1, <2>2, <2>3, <2>4, WorkFrame
<1>4. CASE Process
  <2>1. \A a \in Actions : handler'[a] = "pending" <=> handler[a] = "pending"
    BY <1>4 DEF Process, Cancel, CloseDatabase, ProcessEnds, Start, ActiveHandler
  <2> QED BY <1>4, <2>1, ProcessFrame
<1> QED BY <1>1, <1>2, <1>3, <1>4 DEF Next, SecondPasses, vars, dbVars, ghostVars

\* The action queue implements JobLedger: accepted once, started at most once, an
\* outcome only for what started, and a client told only of what is on record.
THEOREM ImplementsLedger == Spec => KeepsLedger
BY LedgerInitMaps, LedgerStepMaps, Invariance, PTL DEF Spec, KeepsLedger, L!Ledger
=============================================================================
