------------------------ MODULE CommandChannelProofs ------------------------
(***************************************************************************)
(* Proofs about what the server has the agent do and hears of it:          *)
(* CommandChannel (types, that the agent drops no result and repeats none  *)
(* without a cause, that the status follows the loop, and that the         *)
(* connections and the outbox implement StoreAndForward), HubSession (no   *)
(* session with a server that is not to be trusted; a command the hub sent *)
(* is launched, and once, whichever part of the agent reads it) and        *)
(* PackageInstall (what is reported of a package task is what became of    *)
(* it).  Each is taken by itself, for every value of its constants.        *)
(***************************************************************************)
EXTENDS MCCommandChannel, FiniteSetTheorems, TLAPS

-----------------------------------------------------------------------------
(* CommandChannel: the results of the commands.                            *)

\* The row that the drain is about to delete was sent.
DrainInv ==
    draining # NoRow =>
        /\ draining \in Commands \X Kinds
        /\ received[draining[1]] > 0 \/ InWire(draining[1]) \/ draining[1] \in lost

\* A session has a connection, and a command that arrived came over one.
LinkInv ==
    /\ Up => current > 0
    /\ \A d \in Deliveries : tasks[d].stage # "idle" => tasks[d].conn > 0

Inv == TypeOK /\ LinkInv /\ DrainInv /\ NoResultDropped /\ StatusFollowsLoop

USE DEF NoRow

-----------------------------------------------------------------------------
\* What the proofs need of the constants.
LEMMA Sizes == Len(Transports) \in Nat /\ Len(Transports) > 0 /\ MaxConns \in Nat
BY ChannelAssumption DEF ChannelAssumption

\* The initial state satisfies the invariant.
LEMMA InitInv == Init => Inv
<1> SUFFICES ASSUME Init PROVE Inv
  OBVIOUS
<1>0. Len(Transports) \in Nat /\ 1 \in 1..Len(Transports) /\ MaxConns \in Nat
  BY Sizes
<1>1. TypeOK
  <2>1. status \in BOOLEAN /\ phase = "waiting" /\ index = 1 /\ current = 0
        /\ conns = [k \in Conns |-> "unused"] /\ config = 0 /\ sessionConfig = 0
    BY DEF Init
  <2>4. ConnType BY <1>0, <2>1 DEF ConnType
  <2>2. TaskType BY <1>0 DEF Init, TaskType, Stages, Kinds
  <2>3. ResultType BY DEF Init, ResultType
  <2> QED BY <2>4, <2>2, <2>3 DEF Init, TypeOK
<1>2. NoResultDropped /\ DrainInv
  BY DEF Init, NoResultDropped, DrainInv, Deliveries
<1>3. StatusFollowsLoop
  BY DEF Init, StatusFollowsLoop, Up
<1>4. LinkInv
  BY DEF Init, LinkInv, Up
<1> QED BY <1>1, <1>2, <1>3, <1>4 DEF Inv

\* Counting an event keeps the counters in their range.
LEMMA SpendType ==
  ASSUME used \in [Bounds -> Nat], NEW b \in Bounds, NEW limit, Spend(b, limit)
  PROVE  used' \in [Bounds -> Nat]
BY DEF Spend

\* The next attempt and the end of a session keep the loop's variables in range.
LEMMA NextAttemptType ==
  ASSUME ConnType, NextAttempt
  PROVE  phase' \in {"waiting", "trying"} /\ index' \in 1..Len(Transports) /\ status' \in BOOLEAN
<1>0. Len(Transports) \in Nat /\ Len(Transports) > 0
  BY Sizes
<1>1. phase' \in {"waiting", "trying"} /\ index' \in 1..Len(Transports)
  BY <1>0 DEF NextAttempt, ConnType
<1>2. status' \in BOOLEAN
  BY DEF NextAttempt, ConnType
<1> QED BY <1>1, <1>2

\* The connection loop and the process keep the types of the connection.
LEMMA ConnTypeStep == ConnType /\ [Next]_vars => ConnType'
<1> SUFFICES ASSUME ConnType, [Next]_vars PROVE ConnType'
  OBVIOUS
<1>0. Len(Transports) \in Nat /\ Len(Transports) > 0 /\ MaxConns \in Nat
  BY Sizes
<1> USE DEF ConnType
<1>1. CASE UNCHANGED connVars
  BY <1>1 DEF connVars
<1>2. CASE LoadConfig
  BY <1>2, <1>0 DEF LoadConfig
<1>3. CASE Establish
  BY <1>3, <1>0 DEF Establish, Connected, Conns
<1>4. CASE SessionEnds
  BY <1>4, NextAttemptType DEF SessionEnds, Close
<1>5. CASE AttemptFails
  BY <1>5, NextAttemptType DEF AttemptFails
<1>6. CASE NetworkBreaks \/ NatsReconnects
  BY <1>6 DEF NetworkBreaks, NatsReconnects
<1>7. CASE Reload
  <2>1. /\ conns' = Close(current) \/ conns' = conns
        /\ config' = config + 1
        /\ UNCHANGED <<phase, index, current, status, sessionConfig>>
    BY <1>7 DEF Reload
  <2> QED BY <2>1 DEF Close
<1>8. CASE ProcessEnds
  BY <1>8 DEF ProcessEnds, Close
<1>9. CASE ProcessStarts
  BY <1>9 DEF ProcessStarts
<1>10. CASE UNCHANGED vars
  BY <1>10 DEF vars
<1>11. \A c \in Commands, n \in 1..MaxDeliveries : Deliver(c, n) \/ Task(c, n) => UNCHANGED connVars
  BY DEF Deliver, Task, Execute, Respond, Enqueue, EnqueueFails
<1>12. Drain \/ (\E row \in outbox : Expire(row)) \/ Network => UNCHANGED connVars
  BY DEF Drain, DrainSend, DrainMark, DrainMarkFails, Expire, Network, Arrive, Vanish
<1> HIDE DEF ConnType
<1> QED BY <1>1, <1>2, <1>3, <1>4, <1>5, <1>6, <1>7, <1>8, <1>9, <1>10, <1>11, <1>12
        DEF Next, Connection

\* Only Deliver, the tasks and the end of the process change a task.
LEMMA TaskTypeStep == TypeOK /\ [Next]_vars => TaskType'
<1> SUFFICES ASSUME TypeOK, [Next]_vars PROVE TaskType'
  OBVIOUS
<1> USE DEF TypeOK
<1>1. CASE UNCHANGED tasks
  BY <1>1 DEF TaskType
<1>2. ASSUME NEW c \in Commands, NEW n \in 1..MaxDeliveries, Deliver(c, n) PROVE TaskType'
  <2>1. <<c, n>> \in Deliveries BY DEF Deliveries
  <2>2. Kind(index) \in Kinds /\ current \in 0..MaxConns BY DEF Kind, Kinds, ConnType
  <2>3. tasks' = [tasks EXCEPT ![<<c, n>>] = [stage |-> "running", conn |-> current, kind |-> Kind(index)]]
    BY <1>2 DEF Deliver
  <2> QED BY <2>1, <2>2, <2>3 DEF TaskType, Stages
<1>3. ASSUME NEW c \in Commands, NEW n \in 1..MaxDeliveries, Task(c, n) PROVE TaskType'
  <2>1. <<c, n>> \in Deliveries BY DEF Deliveries
  <2>2. \E s \in Stages : tasks' = [tasks EXCEPT ![<<c, n>>].stage = s]
    BY <1>3 DEF Task, Execute, Respond, Enqueue, EnqueueFails, Stages
  <2> QED BY <2>1, <2>2 DEF TaskType
<1>4. CASE ProcessEnds
  BY <1>4 DEF ProcessEnds, TaskType, Stages
<1>5. Connection \/ AttemptFails \/ NetworkBreaks \/ NatsReconnects \/ Reload \/ ProcessStarts
        => UNCHANGED tasks
  BY DEF Connection, LoadConfig, Establish, SessionEnds, AttemptFails, NetworkBreaks, NatsReconnects,
         Reload, ProcessStarts
<1>6. Drain \/ (\E row \in outbox : Expire(row)) \/ Network \/ UNCHANGED vars => UNCHANGED tasks
  BY DEF Drain, DrainSend, DrainMark, DrainMarkFails, Expire, Network, Arrive, Vanish, vars
<1> QED BY <1>1, <1>2, <1>3, <1>4, <1>5, <1>6 DEF Next

\* Counting at one place keeps a function to the naturals one.
LEMMA CountUp ==
  ASSUME NEW S, NEW f \in [S -> Nat], NEW x
  PROVE  [f EXCEPT ![x] = @ + 1] \in [S -> Nat]
<1>1. CASE x \in S
  BY <1>1
<1>2. CASE x \notin S
  <2>1. [f EXCEPT ![x] = f[x] + 1] = f
    BY <1>2
  <2> QED BY <2>1
<1> QED BY <1>1, <1>2

LEMMA CountDown ==
  ASSUME NEW S, NEW f \in [S -> Nat], NEW x \in S, f[x] > 0
  PROVE  [f EXCEPT ![x] = @ - 1] \in [S -> Nat]
OBVIOUS

\* What becomes of a result, action by action.
LEMMA ResultTypeStep == TypeOK /\ [Next]_vars => ResultType'
<1> SUFFICES ASSUME TypeOK, [Next]_vars PROVE ResultType'
  OBVIOUS
<1> USE DEF TypeOK
<1>1. CASE UNCHANGED resultVars
  BY <1>1 DEF ResultType, resultVars
<1>2. ASSUME NEW c \in Commands, NEW n \in 1..MaxDeliveries, Task(c, n) PROVE ResultType'
  <2>1. tasks[<<c, n>>].kind \in Kinds BY DEF TaskType, Deliveries
  <2>2. CASE Execute(c, n) BY <2>2 DEF Execute, resultVars, ResultType
  <2>3. CASE Respond(c, n)
    <3>1. UNCHANGED <<outbox, draining, received, lost, spare>> BY <2>3 DEF Respond
    <3>2. wire' = [wire EXCEPT ![<<c, tasks[<<c, n>>].conn>>] = @ + 1] BY <2>3 DEF Respond
    <3>3. wire' \in [Commands \X Conns -> Nat] BY <3>2, CountUp DEF ResultType
    <3> QED BY <3>1, <3>3 DEF ResultType
  <2>4. CASE Enqueue(c, n) BY <2>1, <2>4 DEF Enqueue, ResultType
  <2>5. CASE EnqueueFails(c, n) BY <2>5 DEF EnqueueFails, ResultType
  <2> QED BY <1>2, <2>2, <2>3, <2>4, <2>5 DEF Task
<1>3. ASSUME NEW row \in outbox, DrainSend(row) PROVE ResultType'
  <2>1. UNCHANGED <<outbox, received, lost, spare>> /\ draining' = row BY <1>3 DEF DrainSend
  <2>2. wire' = [wire EXCEPT ![<<row[1], current>>] = @ + 1] BY <1>3 DEF DrainSend
  <2>3. wire' \in [Commands \X Conns -> Nat] BY <2>2, CountUp DEF ResultType
  <2> QED BY <2>1, <2>3 DEF ResultType
<1>4. CASE DrainMark
  BY <1>4 DEF DrainMark, ResultType
<1>5. CASE DrainMarkFails
  BY <1>5 DEF DrainMarkFails, ResultType
<1>6. ASSUME NEW row \in outbox, Expire(row) PROVE ResultType'
  <2>1. row \in Commands \X Kinds BY DEF ResultType
  <2>2. lost' \subseteq Commands /\ draining' \in (Commands \X Kinds) \cup {NoRow}
    BY <1>6, <2>1 DEF Expire, ResultType
  <2> QED BY <1>6, <2>2 DEF Expire, ResultType
<1>7. ASSUME NEW c \in Commands, NEW k \in Conns, Arrive(c, k) \/ Vanish(c, k) PROVE ResultType'
  <2>2. wire' = [wire EXCEPT ![<<c, k>>] = @ - 1] /\ wire[<<c, k>>] > 0
    BY <1>7 DEF Arrive, Vanish
  <2>3. wire' \in [Commands \X Conns -> Nat] BY <2>2, CountDown DEF ResultType
  <2>4. received' \in [Commands -> Nat]
    <3>1. received' = [received EXCEPT ![c] = @ + 1] \/ received' = received
      BY <1>7 DEF Arrive, Vanish
    <3> QED BY <3>1, CountUp DEF ResultType
  <2>5. lost' \subseteq Commands /\ UNCHANGED <<outbox, draining, spare>> BY <1>7 DEF Arrive, Vanish, ResultType
  <2> QED BY <2>3, <2>4, <2>5 DEF ResultType
<1>8. CASE ProcessEnds
  BY <1>8 DEF ProcessEnds, ResultType
<1>9. Connection \/ AttemptFails \/ NetworkBreaks \/ NatsReconnects \/ Reload \/ ProcessStarts
         \/ UNCHANGED vars
         \/ (\E c \in Commands, n \in 1..MaxDeliveries : Deliver(c, n))
        => UNCHANGED resultVars
  BY DEF Connection, LoadConfig, Establish, SessionEnds, AttemptFails, NetworkBreaks, NatsReconnects,
         Reload, ProcessStarts, Deliver, vars, resultVars
<1> QED BY <1>1, <1>2, <1>3, <1>4, <1>5, <1>6, <1>7, <1>8, <1>9 DEF Next, Drain, Network

\* A step keeps every variable in its range.
LEMMA TypeStep == TypeOK /\ [Next]_vars => TypeOK'
<1> SUFFICES ASSUME TypeOK, [Next]_vars PROVE TypeOK'
  OBVIOUS
<1>1. \/ UNCHANGED used
      \/ \E b \in Bounds : Spend(b, MaxBreaks) \/ Spend(b, MaxRefusals) \/ Spend(b, MaxFaults)
                             \/ Spend(b, MaxConfigs) \/ Spend(b, MaxCrashes)
  BY DEF Next, vars, Connection, LoadConfig, Establish, SessionEnds, AttemptFails, NetworkBreaks,
         NatsReconnects, Reload, ProcessStarts, ProcessEnds, Deliver, Task, Execute, Respond,
         Enqueue, EnqueueFails, Drain, DrainSend, DrainMark, DrainMarkFails, Expire, Network,
         Arrive, Vanish, Bounds
<1>2. used' \in [Bounds -> Nat]
  BY <1>1, SpendType DEF TypeOK
<1> QED BY <1>2, ConnTypeStep, TaskTypeStep, ResultTypeStep DEF TypeOK

-----------------------------------------------------------------------------
\* A command one of whose results left the agent, or was lost by its environment.
Gone(c) == received[c] > 0 \/ InWire(c) \/ c \in lost

\* Nothing that left comes back.
LEMMA GoneStays == ASSUME TypeOK, [Next]_vars, NEW c \in Commands, Gone(c) PROVE Gone(c)'
<1> USE DEF TypeOK, ResultType, Gone, InWire
<1>1. CASE UNCHANGED <<received, wire, lost>>
  BY <1>1
<1>2. ASSUME NEW x \in Commands, NEW k \in Conns, Arrive(x, k) PROVE Gone(c)'
  <2>1. CASE x = c
    <3>1. received[c] \in Nat /\ received'[c] = received[c] + 1 BY <1>2, <2>1 DEF Arrive
    <3> QED BY <3>1
  <2>2. CASE x # c
    <3>1. \A j \in Conns : wire'[<<c, j>>] = wire[<<c, j>>] BY <1>2, <2>2 DEF Arrive
    <3>2. received'[c] = received[c] /\ lost' = lost BY <1>2, <2>2 DEF Arrive
    <3> QED BY <3>1, <3>2
  <2> QED BY <2>1, <2>2
<1>3. ASSUME NEW x \in Commands, NEW k \in Conns, Vanish(x, k) PROVE Gone(c)'
  <2>1. CASE x = c BY <1>3, <2>1 DEF Vanish
  <2>2. CASE x # c
    <3>1. \A j \in Conns : wire'[<<c, j>>] = wire[<<c, j>>] BY <1>3, <2>2 DEF Vanish
    <3>2. received' = received /\ c \in lost => c \in lost' BY <1>3 DEF Vanish
    <3> QED BY <3>1, <3>2, <1>3 DEF Vanish
  <2> QED BY <2>1, <2>2
<1>4. ASSUME NEW v, wire' = [wire EXCEPT ![v] = @ + 1], UNCHANGED <<received, lost>> PROVE Gone(c)'
  <2>1. \A j \in Conns : wire[<<c, j>>] \in Nat /\ wire'[<<c, j>>] \in {wire[<<c, j>>], wire[<<c, j>>] + 1}
    BY <1>4
  <2> QED BY <1>4, <2>1
<1>5. CASE UNCHANGED <<received, wire>> /\ lost \subseteq lost'
  BY <1>5
<1>6. CASE Connection \/ AttemptFails \/ NetworkBreaks \/ NatsReconnects \/ Reload
             \/ ProcessStarts \/ ProcessEnds \/ UNCHANGED vars
  BY <1>1, <1>6 DEF vars, Connection, LoadConfig, Establish, SessionEnds, AttemptFails, NetworkBreaks,
         NatsReconnects, Reload, ProcessStarts, ProcessEnds, resultVars
<1>7. ASSUME NEW x \in Commands, NEW n \in 1..MaxDeliveries, Deliver(x, n) \/ Task(x, n)
      PROVE  Gone(c)'
  <2>1. CASE Respond(x, n) BY <1>4, <2>1 DEF Respond
  <2>2. CASE EnqueueFails(x, n) BY <1>5, <2>2 DEF EnqueueFails
  <2>3. CASE Deliver(x, n) \/ Execute(x, n) \/ Enqueue(x, n)
    BY <1>1, <2>3 DEF Deliver, Execute, Enqueue, resultVars
  <2> QED BY <1>7, <2>1, <2>2, <2>3 DEF Task
<1>8. ASSUME NEW row \in outbox, DrainSend(row) \/ Expire(row) PROVE Gone(c)'
  <2>1. CASE DrainSend(row) BY <1>4, <2>1 DEF DrainSend
  <2>2. CASE Expire(row) BY <1>5, <2>2 DEF Expire
  <2> QED BY <1>8, <2>1, <2>2
<1>9. CASE DrainMark \/ DrainMarkFails
  BY <1>1, <1>9 DEF DrainMark, DrainMarkFails
<1> HIDE DEF TypeOK, ResultType, Gone, InWire
<1> QED BY <1>2, <1>3, <1>6, <1>7, <1>8, <1>9 DEF Next, Drain, Network

\* A row leaves the outbox only when its command is Gone.
LEMMA RowStays ==
  ASSUME Inv, [Next]_vars, NEW c \in Commands, InOutbox(c)
  PROVE  InOutbox(c)' \/ Gone(c)'
<1> USE DEF Inv, InOutbox
<1>1. CASE outbox \subseteq outbox'
  BY <1>1
<1>2. CASE DrainMark
  <2>1. CASE draining[1] = c
    BY <1>2, <2>1, GoneStays DEF DrainMark, DrainInv, Gone
  <2>2. CASE draining[1] # c
    BY <1>2, <2>2 DEF DrainMark
  <2> QED BY <2>1, <2>2
<1>3. ASSUME NEW row \in outbox, Expire(row) PROVE InOutbox(c)' \/ Gone(c)'
  <2>1. CASE row[1] # c
    BY <1>3, <2>1 DEF Expire
  <2>2. CASE row[1] = c /\ row = draining
    <3>1. draining # NoRow BY <2>2 DEF TypeOK, ResultType
    <3> QED BY <2>2, <3>1, GoneStays DEF DrainInv, Gone
  <2>3. CASE row[1] = c /\ row # draining
    BY <1>3, <2>3 DEF Expire, Gone
  <2> QED BY <2>1, <2>2, <2>3
<1>4. outbox \subseteq outbox' \/ DrainMark \/ (\E row \in outbox : Expire(row))
  BY DEF Next, vars, Connection, LoadConfig, Establish, SessionEnds, AttemptFails, NetworkBreaks,
         NatsReconnects, Reload, ProcessStarts, ProcessEnds, Deliver, Task, Execute, Respond,
         Enqueue, EnqueueFails, Drain, DrainSend, DrainMarkFails, Network, Arrive, Vanish, resultVars
<1> QED BY <1>1, <1>2, <1>3, <1>4

\* A result sent by DrainSend or Respond is under way.
LEMMA SentIsGone ==
  ASSUME TypeOK, NEW c \in Commands, NEW k \in Conns, wire' = [wire EXCEPT ![<<c, k>>] = @ + 1]
  PROVE  InWire(c)'
<1>1. wire[<<c, k>>] \in Nat /\ wire'[<<c, k>>] = wire[<<c, k>>] + 1
  BY DEF TypeOK, ResultType
<1> QED BY <1>1 DEF InWire

\* LinkInv is inductive.
LEMMA LinkStep == TypeOK /\ LinkInv /\ [Next]_vars => LinkInv'
<1> SUFFICES ASSUME TypeOK, LinkInv, [Next]_vars PROVE LinkInv'
  OBVIOUS
<1>0. current \in Nat BY DEF TypeOK, ConnType
<1>1. ASSUME UNCHANGED tasks, phase' = "up" => current' > 0 PROVE LinkInv'
  BY <1>1 DEF LinkInv, Up
<1>2. CASE Connection \/ AttemptFails \/ NetworkBreaks \/ NatsReconnects \/ Reload \/ ProcessStarts
             \/ UNCHANGED vars
  <2>1. UNCHANGED tasks
    BY <1>2 DEF vars, Connection, LoadConfig, Establish, SessionEnds, AttemptFails, NetworkBreaks,
         NatsReconnects, Reload, ProcessStarts
  <2>2. phase' = "up" => current' > 0
    BY <1>0, <1>2 DEF vars, Connection, LoadConfig, Establish, SessionEnds, AttemptFails, NetworkBreaks,
         NatsReconnects, Reload, ProcessStarts, NextAttempt, LinkInv, Up
  <2> QED BY <1>1, <2>1, <2>2
<1>3. ASSUME NEW c \in Commands, NEW n \in 1..MaxDeliveries, Deliver(c, n) PROVE LinkInv'
  <2>1. tasks' = [tasks EXCEPT ![<<c, n>>] = [stage |-> "running", conn |-> current, kind |-> Kind(index)]]
        /\ current > 0 /\ UNCHANGED <<phase, current>>
    BY <1>3 DEF Deliver, connVars, LinkInv, Up
  <2> QED BY <2>1 DEF LinkInv, Up, TypeOK, TaskType
<1>4. ASSUME NEW c \in Commands, NEW n \in 1..MaxDeliveries, Task(c, n) PROVE LinkInv'
  <2>1. <<c, n>> \in Deliveries /\ tasks[<<c, n>>].stage # "idle" /\ UNCHANGED <<phase, current>>
    BY <1>4 DEF Task, Execute, Respond, Enqueue, EnqueueFails, connVars, Deliveries
  <2>2. \E s \in Stages : tasks' = [tasks EXCEPT ![<<c, n>>].stage = s]
    BY <1>4 DEF Task, Execute, Respond, Enqueue, EnqueueFails, Stages
  <2> QED BY <2>1, <2>2 DEF LinkInv, Up, TypeOK, TaskType
<1>5. CASE ProcessEnds
  <2>1. ASSUME NEW d \in Deliveries
        PROVE  \/ tasks'[d] = tasks[d]
               \/ tasks[d].stage # "idle" /\ tasks'[d] = [tasks[d] EXCEPT !.stage = "gone"]
    <3>1. tasks'[d] = IF tasks[d].stage \in {"running", "done"}
                      THEN [tasks[d] EXCEPT !.stage = "gone"] ELSE tasks[d]
      BY <1>5 DEF ProcessEnds
    <3> QED BY <3>1
  <2>2. \A d \in Deliveries : tasks'[d].stage # "idle" => tasks[d].stage # "idle" /\ tasks'[d].conn = tasks[d].conn
    BY <2>1 DEF TypeOK, TaskType
  <2> QED BY <1>5, <2>2 DEF ProcessEnds, LinkInv, Up
<1>6. CASE Drain \/ (\E row \in outbox : Expire(row)) \/ Network
  <2>1. UNCHANGED <<tasks, phase, current>>
    BY <1>6 DEF Drain, DrainSend, DrainMark, DrainMarkFails, Expire, Network, Arrive, Vanish, connVars
  <2> QED BY <2>1 DEF LinkInv, Up
<1> QED BY <1>2, <1>3, <1>4, <1>5, <1>6 DEF Next

\* What is about to be deleted was sent.
LEMMA DrainStep == Inv /\ [Next]_vars => DrainInv'
<1> SUFFICES ASSUME Inv, [Next]_vars, draining' # NoRow
             PROVE  draining' \in Commands \X Kinds /\ \A c \in Commands : c = draining'[1] => Gone(c)'
  BY DEF DrainInv, Gone, InWire
<1>1. ASSUME draining' = draining, NEW c \in Commands, c = draining'[1]
      PROVE  draining' \in Commands \X Kinds /\ Gone(c)'
  <2>1. draining \in Commands \X Kinds /\ Gone(c)
    BY <1>1 DEF Inv, DrainInv, Gone, InWire
  <2> QED BY <1>1, <2>1, GoneStays DEF Inv
<1>2. ASSUME NEW row \in outbox, DrainSend(row), NEW c \in Commands, c = draining'[1]
      PROVE  draining' \in Commands \X Kinds /\ Gone(c)'
  <2>1. row \in Commands \X Kinds BY DEF Inv, TypeOK, ResultType
  <2>2. current \in Conns BY <1>2 DEF DrainSend, Inv, LinkInv, TypeOK, ConnType, Conns
  <2>3. wire' = [wire EXCEPT ![<<c, current>>] = @ + 1] /\ draining' = row
    BY <1>2 DEF DrainSend
  <2>4. InWire(c)' BY <2>2, <2>3, SentIsGone DEF Inv
  <2> QED BY <2>1, <2>3, <2>4 DEF Gone
<1>3. \/ draining' = draining
      \/ \E row \in outbox : DrainSend(row)
  BY DEF Next, vars, Connection, LoadConfig, Establish, SessionEnds, AttemptFails, NetworkBreaks,
         NatsReconnects, Reload, ProcessStarts, ProcessEnds, Deliver, Task, Execute, Respond,
         Enqueue, EnqueueFails, Drain, DrainMark, DrainMarkFails, Expire, Network, Arrive, Vanish, resultVars
<1>5. draining' = draining => draining' \in Commands \X Kinds
  BY DEF Inv, DrainInv
<1>6. \A row \in outbox : DrainSend(row) => draining' \in Commands \X Kinds
  BY DEF DrainSend, Inv, TypeOK, ResultType
<1> QED BY <1>1, <1>2, <1>3, <1>5, <1>6

\* A goroutine that is over has left its result somewhere.
LEMMA ResultStep == Inv /\ [Next]_vars => NoResultDropped'
<1> SUFFICES ASSUME Inv, [Next]_vars, NEW c \in Commands, NEW n \in 1..MaxDeliveries,
                    tasks'[<<c, n>>].stage = "over"
             PROVE  Gone(c)' \/ InOutbox(c)'
  BY DEF NoResultDropped, Gone
<1> DEFINE d == <<c, n>>
<1>0. d \in Deliveries /\ tasks \in [Deliveries -> [stage : Stages, conn : 0..MaxConns, kind : Kinds]]
  BY DEF Inv, TypeOK, TaskType, Deliveries
<1>1. CASE tasks[d].stage = "over"
  <2>1. Gone(c) \/ InOutbox(c) BY <1>1 DEF Inv, NoResultDropped, Gone
  <2> QED BY <2>1, GoneStays, RowStays DEF Inv
<1>2. CASE Respond(c, n)
  <2>1. tasks[d].conn \in Conns
    BY <1>0, <1>2 DEF Respond, Inv, LinkInv, Conns
  <2>2. wire' = [wire EXCEPT ![<<c, tasks[d].conn>>] = @ + 1] BY <1>2 DEF Respond
  <2> QED BY <2>1, <2>2, SentIsGone DEF Inv, Gone
<1>3. CASE Enqueue(c, n)
  <2>1. tasks[d].kind \in Kinds BY <1>0
  <2> QED BY <1>3, <2>1 DEF Enqueue, InOutbox
<1>4. CASE EnqueueFails(c, n)
  BY <1>4 DEF EnqueueFails, Gone
<1>5. tasks[d].stage = "over" \/ Respond(c, n) \/ Enqueue(c, n) \/ EnqueueFails(c, n)
  <2>1. CASE UNCHANGED tasks BY <2>1
  <2>2. ASSUME NEW x \in Commands, NEW m \in 1..MaxDeliveries, Deliver(x, m) \/ Task(x, m)
        PROVE  tasks[d].stage = "over" \/ Respond(c, n) \/ Enqueue(c, n) \/ EnqueueFails(c, n)
    <3>1. CASE x = c /\ m = n
      <4>1. CASE Deliver(c, n) BY <1>0, <4>1 DEF Deliver
      <4>2. CASE Execute(c, n) BY <1>0, <4>2 DEF Execute
      <4> QED BY <2>2, <3>1, <4>1, <4>2 DEF Task
    <3>2. CASE ~(x = c /\ m = n)
      <4>1. \E v : tasks' = [tasks EXCEPT ![<<x, m>>] = v]
        BY <2>2 DEF Deliver, Task, Execute, Respond, Enqueue, EnqueueFails
      <4>2. <<x, m>> # d BY <3>2
      <4> QED BY <1>0, <4>1, <4>2
    <3> QED BY <3>1, <3>2
  <2>3. CASE ProcessEnds
    <3>1. tasks'[d] = IF tasks[d].stage \in {"running", "done"}
                      THEN [tasks[d] EXCEPT !.stage = "gone"] ELSE tasks[d]
      BY <1>0, <2>3 DEF ProcessEnds
    <3> QED BY <1>0, <3>1
  <2>4. Connection \/ AttemptFails \/ NetworkBreaks \/ NatsReconnects \/ Reload \/ ProcessStarts
          \/ Drain \/ (\E row \in outbox : Expire(row)) \/ Network \/ UNCHANGED vars => UNCHANGED tasks
    BY DEF Connection, LoadConfig, Establish, SessionEnds, AttemptFails, NetworkBreaks, NatsReconnects,
         Reload, ProcessStarts, Drain, DrainSend, DrainMark, DrainMarkFails, Expire, Network, Arrive,
         Vanish, vars
  <2> QED BY <2>1, <2>2, <2>3, <2>4 DEF Next
<1> QED BY <1>1, <1>2, <1>3, <1>4, <1>5

\* The status and the connections follow the loop.
LEMMA StatusStep == TypeOK /\ LinkInv /\ StatusFollowsLoop /\ [Next]_vars => StatusFollowsLoop'
<1> SUFFICES ASSUME TypeOK, LinkInv, StatusFollowsLoop, [Next]_vars PROVE StatusFollowsLoop'
  OBVIOUS
<1>0. /\ current \in Nat /\ MaxConns \in Nat
      /\ conns \in [Conns -> {"unused", "open", "broken", "closed"}]
      /\ phase = "up" => current \in Conns
  BY Sizes DEF TypeOK, ConnType, LinkInv, Up, Conns
<1> USE DEF StatusFollowsLoop, Up
<1>1. CASE UNCHANGED connVars
  BY <1>1 DEF connVars
<1>2. CASE LoadConfig BY <1>2 DEF LoadConfig
<1>3. CASE Establish BY <1>0, <1>3 DEF Establish, Connected, Conns
<1>4. ASSUME NextAttempt PROVE phase' \in {"trying", "waiting"} /\ (phase' = "waiting" => ~status')
  BY <1>4 DEF NextAttempt
<1>5. CASE SessionEnds
  <2>1. NextAttempt /\ conns' = [conns EXCEPT ![current] = "closed"] /\ phase = "up"
    BY <1>5 DEF SessionEnds, Close
  <2> QED BY <1>0, <1>4, <2>1
<1>6. CASE AttemptFails
  <2>1. NextAttempt /\ conns' = conns /\ phase = "trying"
    BY <1>6 DEF AttemptFails
  <2> QED BY <1>4, <2>1
<1>7. CASE NetworkBreaks BY <1>0, <1>7 DEF NetworkBreaks
<1>8. CASE NatsReconnects BY <1>0, <1>8 DEF NatsReconnects
<1>9. CASE Reload
  <2>1. UNCHANGED <<phase, current, status>> BY <1>9 DEF Reload
  <2>2. conns' = IF phase = "up" /\ Kind(index) = "signalr" THEN [conns EXCEPT ![current] = "closed"] ELSE conns
    BY <1>9 DEF Reload, Close
  <2>3. CASE phase = "up" BY <1>0, <2>1, <2>2, <2>3
  <2>4. CASE phase # "up" BY <2>1, <2>2, <2>4
  <2> QED BY <2>3, <2>4
<1>10. CASE ProcessEnds
  <2>1. phase' = "off" /\ ~status' /\ UNCHANGED current
    BY <1>10 DEF ProcessEnds
  <2>2. conns' = IF current > 0 THEN [conns EXCEPT ![current] = "closed"] ELSE conns
    BY <1>10 DEF ProcessEnds, Close
  <2>3. \A k \in Conns : k # 0 BY DEF Conns
  <2>4. \A k \in Conns : conns'[k] \notin {"open", "broken"}
    BY <1>0, <2>2, <2>3
  <2> QED BY <2>1, <2>4
<1>11. CASE ProcessStarts BY <1>11 DEF ProcessStarts, Off
<1>12. (\E c \in Commands, n \in 1..MaxDeliveries : Deliver(c, n) \/ Task(c, n)) \/ UNCHANGED vars
       \/ Drain \/ (\E row \in outbox : Expire(row)) \/ Network => UNCHANGED connVars
  BY DEF Deliver, Task, Execute, Respond, Enqueue, EnqueueFails, Drain, DrainSend, DrainMark,
         DrainMarkFails, Expire, Network, Arrive, Vanish, vars, connVars
<1> HIDE DEF StatusFollowsLoop, Up
<1> QED BY <1>1, <1>2, <1>3, <1>5, <1>6, <1>7, <1>8, <1>9, <1>10, <1>11, <1>12 DEF Next, Connection

-----------------------------------------------------------------------------
\* Inv holds in every state of every behaviour.
THEOREM Invariance == Spec => []Inv
<1>1. Inv /\ [Next]_vars => Inv'
  BY TypeStep, LinkStep, DrainStep, ResultStep, StatusStep DEF Inv
<1> QED BY <1>1, InitInv, PTL DEF Spec

\* Every variable stays in its range, whatever the transports and bounds.
THEOREM TypeCorrect == Spec => []TypeOK
BY Invariance, PTL DEF Inv

\* executeAndRespond, the outbox and its drain drop no result: one that is neither
\* received, nor under way, nor in the outbox was lost by the environment.
THEOREM ResultsAreKept == Spec => []NoResultDropped
BY Invariance, PTL DEF Inv

\* Whoever reads GetStatus while Run waits to reconnect reads "not connected", and
\* only the latest connection of a running session is ever usable.
THEOREM StatusIsHonest == Spec => []StatusFollowsLoop
BY Invariance, PTL DEF Inv

-----------------------------------------------------------------------------
\* A goroutine with a result ends with it or with the process; one that ended with the
\* process stays ended.
LEMMA TaskMoves ==
  ASSUME Inv, [Next]_vars, NEW d \in Deliveries
  PROVE  /\ tasks[d].stage \in {"running", "done"}
               => tasks'[d].stage \in {"running", "done", "over", "gone"}
         /\ tasks[d].stage = "gone" => tasks'[d].stage = "gone"
<1>0. tasks \in [Deliveries -> [stage : Stages, conn : 0..MaxConns, kind : Kinds]]
  BY DEF Inv, TypeOK, TaskType
<1>1. CASE UNCHANGED tasks
  BY <1>1
<1>2. ASSUME NEW c \in Commands, NEW n \in 1..MaxDeliveries, Deliver(c, n) \/ Task(c, n), d = <<c, n>>
      PROVE  tasks[d].stage # "gone" /\ tasks'[d].stage \in {"running", "done", "over"}
  <2>1. CASE Deliver(c, n) BY <1>0, <1>2, <2>1 DEF Deliver
  <2>2. CASE Execute(c, n) BY <1>0, <1>2, <2>2 DEF Execute
  <2>3. CASE Respond(c, n) BY <1>0, <1>2, <2>3 DEF Respond
  <2>4. CASE Enqueue(c, n) BY <1>0, <1>2, <2>4 DEF Enqueue
  <2>5. CASE EnqueueFails(c, n) BY <1>0, <1>2, <2>5 DEF EnqueueFails
  <2> QED BY <1>2, <2>1, <2>2, <2>3, <2>4, <2>5 DEF Task
<1>3. ASSUME NEW c \in Commands, NEW n \in 1..MaxDeliveries, Deliver(c, n) \/ Task(c, n), d # <<c, n>>
      PROVE  tasks'[d] = tasks[d]
  <2>1. \E v : tasks' = [tasks EXCEPT ![<<c, n>>] = v]
    BY <1>3 DEF Deliver, Task, Execute, Respond, Enqueue, EnqueueFails
  <2> QED BY <1>0, <1>3, <2>1
<1>4. CASE ProcessEnds
  <2>1. tasks'[d] = IF tasks[d].stage \in {"running", "done"}
                    THEN [tasks[d] EXCEPT !.stage = "gone"] ELSE tasks[d]
    BY <1>4 DEF ProcessEnds
  <2> QED BY <1>0, <2>1
<1>5. Connection \/ AttemptFails \/ NetworkBreaks \/ NatsReconnects \/ Reload \/ ProcessStarts
        \/ Drain \/ (\E row \in outbox : Expire(row)) \/ Network \/ UNCHANGED vars => UNCHANGED tasks
  BY DEF Connection, LoadConfig, Establish, SessionEnds, AttemptFails, NetworkBreaks, NatsReconnects,
       Reload, ProcessStarts, Drain, DrainSend, DrainMark, DrainMarkFails, Expire, Network, Arrive,
       Vanish, vars
<1> QED BY <1>1, <1>2, <1>3, <1>4, <1>5 DEF Next

\* The server gets what was under way, and neither it nor the agent's losses shrink.
LEMMA Arrivals ==
  ASSUME Inv, [Next]_vars
  PROVE  /\ \A c \in Commands : received'[c] > 0 => received[c] > 0 \/ InWire(c)
         /\ \A c \in Commands : received[c] > 0 => received'[c] > 0
         /\ lost \subseteq lost'
<1>0. received \in [Commands -> Nat]
  BY DEF Inv, TypeOK, ResultType
<1>1. CASE \E c \in Commands, k \in Conns : Arrive(c, k)
  <2>1. PICK c \in Commands, k \in Conns : Arrive(c, k)
    BY <1>1
  <2>2. InWire(c) /\ received' = [received EXCEPT ![c] = @ + 1] /\ lost' = lost
    BY <2>1 DEF Arrive, InWire
  <2> QED BY <1>0, <2>2
<1>2. (\E c \in Commands, k \in Conns : Arrive(c, k)) \/ (received' = received /\ lost \subseteq lost')
  BY DEF Next, vars, Connection, LoadConfig, Establish, SessionEnds, AttemptFails, NetworkBreaks,
         NatsReconnects, Reload, ProcessStarts, ProcessEnds, Deliver, Task, Execute, Respond,
         Enqueue, EnqueueFails, Drain, DrainSend, DrainMark, DrainMarkFails, Expire, Network,
         Vanish, resultVars
<1> QED BY <1>1, <1>2

\* Whoever is owed something is in the hands of the agent, or it is gone.
LEMMA NoneForgotten ==
  ASSUME Inv, Inv', [Next]_vars
  PROVE  ResultsOwed \subseteq ResultsOwed' \cup ResultsReceived' \cup ResultsAbandoned'
<1> SUFFICES ASSUME NEW c \in ResultsOwed
             PROVE  c \in ResultsOwed' \cup ResultsReceived' \cup ResultsAbandoned'
  OBVIOUS
<1>0. c \in Commands
  BY DEF ResultsOwed
<1>1. ASSUME Gone(c)' \/ InOutbox(c)'
      PROVE  c \in ResultsOwed' \cup ResultsReceived' \cup ResultsAbandoned'
  BY <1>0, <1>1 DEF Gone, ResultsOwed, ResultsReceived, ResultsAbandoned
<1>2. CASE InWire(c)
  <2>1. Gone(c)' BY <1>0, <1>2, GoneStays DEF Gone, Inv
  <2> QED BY <1>1, <2>1
<1>3. CASE InOutbox(c)
  BY <1>0, <1>1, <1>3, RowStays
<1>4. ASSUME NEW n \in 1..MaxDeliveries, tasks[<<c, n>>].stage \in {"running", "done"}
      PROVE  c \in ResultsOwed' \cup ResultsReceived' \cup ResultsAbandoned'
  <2>0. <<c, n>> \in Deliveries
    BY <1>0 DEF Deliveries
  <2>1. tasks'[<<c, n>>].stage \in {"running", "done", "over", "gone"}
    BY <1>4, <2>0, TaskMoves
  <2>2. CASE tasks'[<<c, n>>].stage \in {"running", "done"}
    BY <1>0, <2>2 DEF ResultsOwed
  <2>3. CASE tasks'[<<c, n>>].stage = "gone"
    BY <1>0, <2>3 DEF ResultsAbandoned
  <2>4. CASE tasks'[<<c, n>>].stage = "over"
    <3>1. Gone(c)' \/ InOutbox(c)'
      BY <1>0, <2>4 DEF Inv, NoResultDropped, Gone
    <3> QED BY <1>1, <3>1
  <2> QED BY <2>1, <2>2, <2>3, <2>4
<1> QED BY <1>2, <1>3, <1>4 DEF ResultsOwed

\* The agent's connections and its outbox implement StoreAndForward: the server gets only
\* results of commands that ran, and none slips out of the agent's hands unaccounted.
THEOREM ImplementsForwarding == Spec => ResultsAreForwarded
<1>1. Init => ResultRelay!ForwardInit
  <2> SUFFICES ASSUME Init PROVE ResultRelay!ForwardInit
    OBVIOUS
  <2>1. \A c \in Commands, n \in 1..MaxDeliveries : tasks[<<c, n>>].stage = "idle"
    BY DEF Init, Deliveries
  <2>2. ASSUME NEW c \in Commands PROVE ~(received[c] > 0) /\ ~InWire(c) /\ ~InOutbox(c)
    <3>1. received[c] = 0
      BY DEF Init
    <3>2. ASSUME NEW k \in Conns PROVE ~(wire[<<c, k>>] > 0)
      <4>1. wire[<<c, k>>] = 0 BY DEF Init
      <4> QED BY <4>1
    <3>3. ~InWire(c)
      BY <3>2 DEF InWire
    <3>4. ~InOutbox(c)
      BY DEF Init, InOutbox
    <3> QED BY <3>1, <3>3, <3>4
  <2>3. ResultsOwed = {} /\ ResultsReceived = {}
    BY <2>1, <2>2 DEF ResultsOwed, ResultsReceived
  <2>4. ResultsAbandoned = {}
    BY <2>1 DEF ResultsAbandoned, Init
  <2> QED BY <2>3, <2>4 DEF ResultRelay!ForwardInit
<1>2. Inv /\ Inv' /\ [Next]_vars => [ResultRelay!ForwardNext]_ResultRelay!forwardVars
  <2> SUFFICES ASSUME Inv, Inv', [Next]_vars PROVE ResultRelay!ForwardNext
    OBVIOUS
  <2>1. ResultRelay!OnlyOwedArrive
    <3>1. ResultsOwed' \subseteq Commands
      BY DEF ResultsOwed
    <3>2. ResultsReceived' \subseteq ResultsReceived \cup ResultsOwed
      BY Arrivals DEF ResultsReceived, ResultsOwed
    <3> QED BY <3>1, <3>2 DEF ResultRelay!OnlyOwedArrive
  <2>2. ResultRelay!NothingIsUndone
    <3>1. ResultsReceived \subseteq ResultsReceived'
      BY Arrivals DEF ResultsReceived
    <3>2. ASSUME NEW c \in Commands, NEW n \in 1..MaxDeliveries, tasks[<<c, n>>].stage = "gone"
          PROVE  tasks'[<<c, n>>].stage = "gone"
      BY <3>2, TaskMoves DEF Deliveries
    <3>3. ResultsAbandoned \subseteq ResultsAbandoned'
      BY <3>2, Arrivals DEF ResultsAbandoned
    <3> QED BY <3>1, <3>3 DEF ResultRelay!NothingIsUndone
  <2>3. ResultRelay!NothingIsForgotten
    BY NoneForgotten DEF ResultRelay!NothingIsForgotten
  <2> QED BY <2>1, <2>2, <2>3 DEF ResultRelay!ForwardNext
<1> QED BY <1>1, <1>2, Invariance, PTL DEF Spec, ResultsAreForwarded, ResultRelay!Forward

-----------------------------------------------------------------------------
(* The results of a command are counted.                                   *)

\* What is counted is finite, in any state.
LEMMA WireFinite ==
  ASSUME NEW w \in [Commands \X Conns -> Nat], NEW c \in Commands
  PROVE  LET S == UNION {{k} \X (1..w[<<c, k>>]) : k \in Conns}
         IN  IsFiniteSet(S) /\ Cardinality(S) \in Nat
<1> DEFINE f == [k \in Conns |-> {k} \X (1..w[<<c, k>>])]
           T == {{k} \X (1..w[<<c, k>>]) : k \in Conns}
<1>1. IsFiniteSet(Conns)
  BY Sizes, FS_Interval DEF Conns
<1>2. f \in Surjection(Conns, T)
  BY DEF Surjection
<1>3. IsFiniteSet(T)
  BY <1>1, <1>2, FS_Surjection
<1>4. ASSUME NEW k \in Conns PROVE IsFiniteSet({k} \X (1..w[<<c, k>>]))
  <2>1. w[<<c, k>>] \in Nat
    OBVIOUS
  <2>2. IsFiniteSet({k}) /\ IsFiniteSet(1..w[<<c, k>>])
    <3>1. PICK m \in Int : m = w[<<c, k>>]
      BY <2>1
    <3>2. IsFiniteSet(1..m)
      BY FS_Interval
    <3> QED BY <3>1, <3>2, FS_Singleton
  <2> QED BY <2>2, FS_Product
<1>5. IsFiniteSet(UNION T)
  BY <1>3, <1>4, FS_UNION
<1> QED BY <1>5, FS_CardinalityType

LEMMA CountsFinite ==
  /\ \A S \in SUBSET Kinds : IsFiniteSet(S) /\ Cardinality(S) \in Nat
  /\ \A S \in SUBSET (1..MaxDeliveries) : IsFiniteSet(S) /\ Cardinality(S) \in Nat
<1>1. IsFiniteSet({"nats"}) /\ IsFiniteSet({"nats"} \cup {"signalr"})
  BY FS_Singleton, FS_AddElement
<1>2. IsFiniteSet(Kinds)
  <2>1. Kinds = {"nats"} \cup {"signalr"}
    BY DEF Kinds
  <2> QED BY <1>1, <2>1
<1>3. IsFiniteSet(1..MaxDeliveries)
  BY ChannelAssumption, FS_Interval DEF ChannelAssumption
<1> QED BY <1>2, <1>3, FS_Subset, FS_CardinalityType

\* A write puts one result of a command on the wire, and none of another; an arrival takes
\* one away.
LEMMA WireUp ==
  ASSUME TypeOK, NEW c \in Commands, NEW k \in Conns, wire' = [wire EXCEPT ![<<c, k>>] = @ + 1]
  PROVE  /\ Cardinality(OnWire(c)') = Cardinality(OnWire(c)) + 1
         /\ \A d \in Commands \ {c} : OnWire(d)' = OnWire(d)
<1>0. wire \in [Commands \X Conns -> Nat]
  BY DEF TypeOK, ResultType
<1> DEFINE n == wire[<<c, k>>] + 1
<1>1. /\ wire[<<c, k>>] \in Nat /\ wire'[<<c, k>>] = n
      /\ \A d \in Commands, l \in Conns : <<d, l>> # <<c, k>> => wire'[<<d, l>>] = wire[<<d, l>>]
  BY <1>0
<1>2. OnWire(c)' = OnWire(c) \cup {<<k, n>>}
  <2>1. 1..n = (1..wire[<<c, k>>]) \cup {n}
    BY <1>1
  <2>2. ASSUME NEW x PROVE x \in OnWire(c)' <=> x \in OnWire(c) \cup {<<k, n>>}
    <3>1. x \in OnWire(c)' <=> \E l \in Conns : x \in {l} \X (1..wire'[<<c, l>>])
      BY DEF OnWire, Conns
    <3>2. x \in OnWire(c) <=> \E l \in Conns : x \in {l} \X (1..wire[<<c, l>>])
      BY DEF OnWire
    <3>3. \A l \in Conns : l # k => wire'[<<c, l>>] = wire[<<c, l>>]
      BY <1>1
    <3>4. x \in {k} \X (1..wire'[<<c, k>>]) <=> x \in {k} \X (1..wire[<<c, k>>]) \/ x = <<k, n>>
      BY <1>1, <2>1
    <3> HIDE DEF n
    <3> QED BY <3>1, <3>2, <3>3, <3>4
  <2> HIDE DEF n
  <2> QED BY <2>2
<1>3. <<k, n>> \notin OnWire(c)
  <2>1. n \notin 1..wire[<<c, k>>]
    BY <1>1
  <2> HIDE DEF n
  <2>2. \A l \in Conns : <<k, n>> \notin {l} \X (1..wire[<<c, l>>])
    BY <2>1
  <2> QED BY <2>2 DEF OnWire
<1>4. IsFiniteSet(OnWire(c))
  BY <1>0, WireFinite DEF OnWire
<1>5. \A d \in Commands \ {c} : OnWire(d)' = OnWire(d)
  BY <1>1 DEF OnWire, Conns
<1> HIDE DEF n
<1> QED BY <1>2, <1>3, <1>4, <1>5, FS_AddElement

LEMMA WireDown ==
  ASSUME TypeOK, NEW c \in Commands, NEW k \in Conns, wire[<<c, k>>] > 0,
         wire' = [wire EXCEPT ![<<c, k>>] = @ - 1]
  PROVE  /\ Cardinality(OnWire(c)') = Cardinality(OnWire(c)) - 1
         /\ \A d \in Commands \ {c} : OnWire(d)' = OnWire(d)
<1>0. wire \in [Commands \X Conns -> Nat]
  BY DEF TypeOK, ResultType
<1> DEFINE n == wire[<<c, k>>]
<1>1. /\ n \in Nat /\ n > 0 /\ wire'[<<c, k>>] = n - 1
      /\ \A d \in Commands, l \in Conns : <<d, l>> # <<c, k>> => wire'[<<d, l>>] = wire[<<d, l>>]
  BY <1>0
<1>2. OnWire(c)' = OnWire(c) \ {<<k, n>>}
  <2>1. 1..(n - 1) = (1..n) \ {n}
    BY <1>1
  <2>2. ASSUME NEW x PROVE x \in OnWire(c)' <=> x \in OnWire(c) \ {<<k, n>>}
    <3>1. x \in OnWire(c)' <=> \E l \in Conns : x \in {l} \X (1..wire'[<<c, l>>])
      BY DEF OnWire, Conns
    <3>2. x \in OnWire(c) <=> \E l \in Conns : x \in {l} \X (1..wire[<<c, l>>])
      BY DEF OnWire
    <3>3. \A l \in Conns : l # k => wire'[<<c, l>>] = wire[<<c, l>>]
      BY <1>1
    <3>4. x \in {k} \X (1..wire'[<<c, k>>]) <=> x \in {k} \X (1..wire[<<c, k>>]) /\ x # <<k, n>>
      BY <1>1, <2>1
    <3>5. \A l \in Conns : l # k => <<k, n>> \notin {l} \X (1..wire[<<c, l>>])
      OBVIOUS
    <3> HIDE DEF n
    <3> QED BY <3>1, <3>2, <3>3, <3>4, <3>5
  <2> HIDE DEF n
  <2> QED BY <2>2
<1>3. <<k, n>> \in OnWire(c)
  <2>1. n \in 1..wire[<<c, k>>]
    BY <1>1
  <2> HIDE DEF n
  <2> QED BY <2>1 DEF OnWire
<1>4. IsFiniteSet(OnWire(c))
  BY <1>0, WireFinite DEF OnWire
<1>5. \A d \in Commands \ {c} : OnWire(d)' = OnWire(d)
  BY <1>1 DEF OnWire, Conns
<1> HIDE DEF n
<1> QED BY <1>2, <1>3, <1>4, <1>5, FS_RemoveElement

\* The four counts of a command, and what is allowed.
LEMMA CountsAreNumbers ==
  ASSUME TypeOK, TypeOK', NEW c \in Commands
  PROVE  /\ received[c] \in Nat /\ received'[c] \in Nat /\ spare[c] \in Nat /\ spare'[c] \in Nat
         /\ IsFiniteSet(OnWire(c)) /\ Cardinality(OnWire(c)) \in Nat /\ Cardinality(OnWire(c)') \in Nat
         /\ IsFiniteSet(RowsLeft(c)) /\ Cardinality(RowsLeft(c)) \in Nat /\ Cardinality(RowsLeft(c)') \in Nat
         /\ IsFiniteSet(UnderWay(c)) /\ Cardinality(UnderWay(c)) \in Nat /\ Cardinality(UnderWay(c)') \in Nat
         /\ IsFiniteSet(Delivered(c)) /\ Cardinality(Delivered(c)) \in Nat /\ Cardinality(Delivered(c)') \in Nat
<1>1. received[c] \in Nat /\ received'[c] \in Nat /\ spare[c] \in Nat /\ spare'[c] \in Nat
  BY DEF TypeOK, ResultType
<1>2. wire \in [Commands \X Conns -> Nat] /\ wire' \in [Commands \X Conns -> Nat]
  BY DEF TypeOK, ResultType, Conns
<1>3. IsFiniteSet(OnWire(c)) /\ Cardinality(OnWire(c)) \in Nat
  BY <1>2, WireFinite DEF OnWire
<1>4. Cardinality(OnWire(c)') \in Nat
  <2>1. OnWire(c)' = UNION {{k} \X (1..wire'[<<c, k>>]) : k \in Conns}
    BY DEF OnWire, Conns
  <2> QED BY <1>2, <2>1, WireFinite
<1>5. RowsLeft(c) \in SUBSET Kinds /\ RowsLeft(c)' \in SUBSET Kinds
  BY DEF RowsLeft, Kinds
<1>6. /\ UnderWay(c) \in SUBSET (1..MaxDeliveries) /\ UnderWay(c)' \in SUBSET (1..MaxDeliveries)
      /\ Delivered(c) \in SUBSET (1..MaxDeliveries) /\ Delivered(c)' \in SUBSET (1..MaxDeliveries)
  BY DEF UnderWay, Delivered
<1> QED BY <1>1, <1>3, <1>4, <1>5, <1>6, CountsFinite

\* A set from which something may have gone has no more members, one to which one member
\* came has at most one more.
LEMMA CountGrows ==
  ASSUME NEW S, NEW T, IsFiniteSet(S)
  PROVE  /\ T \subseteq S => Cardinality(T) <= Cardinality(S)
         /\ \A x : T \subseteq S \cup {x} => Cardinality(T) <= Cardinality(S) + 1
         /\ \A x : x \in S /\ T \subseteq S \ {x} => Cardinality(T) <= Cardinality(S) - 1
         /\ \A x : x \notin S /\ T = S \cup {x} => Cardinality(T) = Cardinality(S) + 1
<1>0. Cardinality(S) \in Nat
  BY FS_CardinalityType
<1>1. T \subseteq S => Cardinality(T) <= Cardinality(S)
  BY FS_Subset
<1>2. ASSUME NEW x, T \subseteq S \cup {x} PROVE Cardinality(T) <= Cardinality(S) + 1
  <2>1. IsFiniteSet(S \cup {x}) /\ Cardinality(S \cup {x}) \in {Cardinality(S), Cardinality(S) + 1}
    BY FS_AddElement
  <2>2. Cardinality(T) <= Cardinality(S \cup {x}) /\ IsFiniteSet(T)
    BY <1>2, <2>1, FS_Subset
  <2>3. Cardinality(T) \in Nat
    BY <2>2, FS_CardinalityType
  <2> QED BY <1>0, <2>1, <2>2, <2>3
<1>3. ASSUME NEW x, x \in S, T \subseteq S \ {x} PROVE Cardinality(T) <= Cardinality(S) - 1
  <2>1. IsFiniteSet(S \ {x}) /\ Cardinality(S \ {x}) = Cardinality(S) - 1
    BY <1>3, FS_RemoveElement
  <2>2. Cardinality(T) <= Cardinality(S \ {x})
    BY <1>3, <2>1, FS_Subset
  <2> QED BY <2>1, <2>2
<1>4. ASSUME NEW x, x \notin S, T = S \cup {x} PROVE Cardinality(T) = Cardinality(S) + 1
  BY <1>4, FS_AddElement
<1> QED BY <1>1, <1>2, <1>3, <1>4

\* A step of the goroutine of a command: what leaves it is one result, on the wire or in
\* the outbox.
LEMMA TaskCounts ==
  ASSUME TypeOK, TypeOK', LinkInv, NEW e \in Commands, NEW n \in 1..MaxDeliveries,
         Deliver(e, n) \/ Task(e, n), NEW c \in Commands,
         Copies(c) <= Cardinality(Delivered(c)) + spare[c]
  PROVE  (Copies(c) <= Cardinality(Delivered(c)) + spare[c])'
<1>0. /\ tasks \in [Deliveries -> [stage : Stages, conn : 0..MaxConns, kind : Kinds]]
      /\ <<e, n>> \in Deliveries
      /\ spare' = spare /\ received' = received
  BY DEF TypeOK, TaskType, Deliveries, Deliver, Task, Execute, Respond, Enqueue, EnqueueFails, resultVars
<1>1. /\ Copies(c) = received[c] + Cardinality(OnWire(c)) + Cardinality(RowsLeft(c)) + Cardinality(UnderWay(c))
      /\ Copies(c)' = received'[c] + Cardinality(OnWire(c)') + Cardinality(RowsLeft(c)') + Cardinality(UnderWay(c)')
      /\ (Copies(c) <= Cardinality(Delivered(c)) + spare[c])' <=> Copies(c)' <= Cardinality(Delivered(c)') + spare'[c]
  BY DEF Copies
<1>2. /\ received[c] \in Nat /\ spare[c] \in Nat
      /\ IsFiniteSet(OnWire(c)) /\ Cardinality(OnWire(c)) \in Nat /\ Cardinality(OnWire(c)') \in Nat
      /\ IsFiniteSet(RowsLeft(c)) /\ Cardinality(RowsLeft(c)) \in Nat /\ Cardinality(RowsLeft(c)') \in Nat
      /\ IsFiniteSet(UnderWay(c)) /\ Cardinality(UnderWay(c)) \in Nat /\ Cardinality(UnderWay(c)') \in Nat
      /\ IsFiniteSet(Delivered(c)) /\ Cardinality(Delivered(c)) \in Nat /\ Cardinality(Delivered(c)') \in Nat
  BY CountsAreNumbers
<1>3. \A m \in 1..MaxDeliveries : <<c, m>> \in Deliveries
  BY DEF Deliveries
<1>4. ASSUME NEW r \in [stage : Stages, conn : 0..MaxConns, kind : Kinds],
             tasks' = [tasks EXCEPT ![<<e, n>>] = r]
      PROVE  /\ c # e => UnderWay(c)' = UnderWay(c) /\ Delivered(c)' = Delivered(c)
             /\ c = e /\ tasks[<<e, n>>].stage = "idle" /\ r.stage = "running"
                   => /\ n \notin UnderWay(c) /\ UnderWay(c)' = UnderWay(c) \cup {n}
                      /\ n \notin Delivered(c) /\ Delivered(c)' = Delivered(c) \cup {n}
             /\ c = e /\ tasks[<<e, n>>].stage \in {"running", "done"} /\ r.stage \in {"done", "over"}
                   => /\ Delivered(c)' = Delivered(c) /\ n \in UnderWay(c)
                      /\ r.stage = "done" => UnderWay(c)' = UnderWay(c)
                      /\ r.stage = "over" => UnderWay(c)' = UnderWay(c) \ {n}
  <2>1. tasks'[<<e, n>>] = r /\ \A d \in Deliveries : d # <<e, n>> => tasks'[d] = tasks[d]
    BY <1>0, <1>4
  <2>2. CASE c # e
    <3>1. \A m \in 1..MaxDeliveries : tasks'[<<c, m>>] = tasks[<<c, m>>]
      BY <1>3, <2>1, <2>2
    <3> QED BY <2>2, <3>1 DEF UnderWay, Delivered
  <2>3. CASE c = e
    <3>1. \A m \in 1..MaxDeliveries : m # n => tasks'[<<c, m>>] = tasks[<<c, m>>]
      BY <1>3, <2>1, <2>3
    <3> QED BY <2>1, <2>3, <3>1 DEF UnderWay, Delivered
  <2> QED BY <2>2, <2>3
<1>5. CASE Deliver(e, n)
  <2> DEFINE r == [stage |-> "running", conn |-> current, kind |-> Kind(index)]
  <2>1. r \in [stage : Stages, conn : 0..MaxConns, kind : Kinds]
    BY DEF TypeOK, ConnType, Kind, Kinds, Stages
  <2>2. tasks[<<e, n>>].stage = "idle" /\ tasks' = [tasks EXCEPT ![<<e, n>>] = r] /\ UNCHANGED resultVars
    BY <1>5 DEF Deliver
  <2>3. OnWire(c)' = OnWire(c) /\ RowsLeft(c)' = RowsLeft(c)
    BY <2>2 DEF OnWire, RowsLeft, resultVars, Conns, Kinds
  <2>4. r.stage = "running"
    OBVIOUS
  <2> HIDE DEF r
  <2>5. CASE c = e
    <3>1. Cardinality(UnderWay(c)') = Cardinality(UnderWay(c)) + 1 /\ Cardinality(Delivered(c)') = Cardinality(Delivered(c)) + 1
      BY <1>2, <1>4, <2>1, <2>2, <2>4, <2>5, CountGrows
    <3> QED BY <1>0, <1>1, <1>2, <2>3, <3>1
  <2>6. CASE c # e
    BY <1>0, <1>1, <1>2, <1>4, <2>1, <2>2, <2>3, <2>6
  <2> QED BY <2>5, <2>6
<1>6. ASSUME NEW s \in {"done", "over"}, tasks' = [tasks EXCEPT ![<<e, n>>].stage = s],
             tasks[<<e, n>>].stage \in {"running", "done"}
      PROVE  /\ Delivered(c)' = Delivered(c)
             /\ c # e \/ s = "done" => UnderWay(c)' = UnderWay(c)
             /\ c = e /\ s = "over" => Cardinality(UnderWay(c)') <= Cardinality(UnderWay(c)) - 1
  <2> DEFINE r == [tasks[<<e, n>>] EXCEPT !.stage = s]
  <2>1. r \in [stage : Stages, conn : 0..MaxConns, kind : Kinds] /\ r.stage = s
    BY <1>0 DEF Stages
  <2>2. tasks' = [tasks EXCEPT ![<<e, n>>] = r]
    BY <1>6
  <2> HIDE DEF r
  <2>3. CASE c = e
    BY <1>2, <1>4, <1>6, <2>1, <2>2, <2>3, CountGrows
  <2>4. CASE c # e
    BY <1>4, <2>1, <2>2, <2>4
  <2> QED BY <2>3, <2>4
<1>7. CASE Execute(e, n)
  <2>1. OnWire(c)' = OnWire(c) /\ RowsLeft(c)' = RowsLeft(c)
    BY <1>7 DEF Execute, OnWire, RowsLeft, resultVars, Conns, Kinds
  <2>2. UnderWay(c)' = UnderWay(c) /\ Delivered(c)' = Delivered(c)
    BY <1>6, <1>7 DEF Execute
  <2> QED BY <1>0, <1>1, <1>2, <2>1, <2>2
<1>8. CASE Respond(e, n)
  <2>1. PICK k \in Conns : k = tasks[<<e, n>>].conn
    <3>1. tasks[<<e, n>>].conn \in 0..MaxConns /\ tasks[<<e, n>>].conn > 0
      BY <1>0, <1>8 DEF LinkInv, Respond
    <3> QED BY <3>1, Sizes DEF Conns
  <2>2. wire' = [wire EXCEPT ![<<e, k>>] = @ + 1] /\ outbox' = outbox /\ draining' = draining
        /\ tasks[<<e, n>>].stage = "done" /\ tasks' = [tasks EXCEPT ![<<e, n>>].stage = "over"]
    BY <1>8, <2>1 DEF Respond
  <2>3. RowsLeft(c)' = RowsLeft(c)
    BY <2>2 DEF RowsLeft, Kinds
  <2>4. /\ Cardinality(OnWire(e)') = Cardinality(OnWire(e)) + 1
        /\ c # e => OnWire(c)' = OnWire(c)
    BY <2>2, WireUp
  <2>5. /\ Delivered(c)' = Delivered(c)
        /\ c # e => UnderWay(c)' = UnderWay(c)
        /\ c = e => Cardinality(UnderWay(c)') <= Cardinality(UnderWay(c)) - 1
    BY <1>6, <2>2
  <2>6. CASE c = e
    BY <1>0, <1>1, <1>2, <2>3, <2>4, <2>5, <2>6
  <2>7. CASE c # e
    BY <1>0, <1>1, <1>2, <2>3, <2>4, <2>5, <2>7
  <2> QED BY <2>6, <2>7
<1>9. CASE Enqueue(e, n) \/ EnqueueFails(e, n)
  <2>1. PICK kind \in Kinds : kind = tasks[<<e, n>>].kind
    BY <1>0
  <2>2. wire' = wire /\ outbox' \subseteq outbox \cup {<<e, kind>>} /\ draining' = draining
        /\ tasks[<<e, n>>].stage = "done" /\ tasks' = [tasks EXCEPT ![<<e, n>>].stage = "over"]
    BY <1>9, <2>1 DEF Enqueue, EnqueueFails
  <2>3. OnWire(c)' = OnWire(c)
    BY <2>2 DEF OnWire, Conns
  <2>4. /\ RowsLeft(c)' \subseteq RowsLeft(c) \cup {kind}
        /\ c # e => RowsLeft(c)' \subseteq RowsLeft(c)
    BY <2>2 DEF RowsLeft, Kinds
  <2>5. /\ Delivered(c)' = Delivered(c)
        /\ c # e => UnderWay(c)' = UnderWay(c)
        /\ c = e => Cardinality(UnderWay(c)') <= Cardinality(UnderWay(c)) - 1
    BY <1>6, <2>2
  <2>6. /\ Cardinality(RowsLeft(c)') <= Cardinality(RowsLeft(c)) + 1
        /\ c # e => Cardinality(RowsLeft(c)') <= Cardinality(RowsLeft(c))
    BY <1>2, <2>4, CountGrows
  <2>7. CASE c = e
    BY <1>0, <1>1, <1>2, <2>3, <2>5, <2>6, <2>7
  <2>8. CASE c # e
    BY <1>0, <1>1, <1>2, <2>3, <2>5, <2>6, <2>8
  <2> QED BY <2>7, <2>8
<1> QED BY <1>5, <1>7, <1>8, <1>9 DEF Task

\* The outbox and the network hand a result on, lose it, or leave a spare copy.
LEMMA DrainCounts ==
  ASSUME TypeOK, TypeOK', LinkInv,
         Drain \/ (\E row \in outbox : Expire(row)) \/ Network \/ ProcessEnds, NEW c \in Commands,
         Copies(c) <= Cardinality(Delivered(c)) + spare[c]
  PROVE  (Copies(c) <= Cardinality(Delivered(c)) + spare[c])'
<1> HIDE DEF NoRow
<1>1. /\ Copies(c) = received[c] + Cardinality(OnWire(c)) + Cardinality(RowsLeft(c)) + Cardinality(UnderWay(c))
      /\ Copies(c)' = received'[c] + Cardinality(OnWire(c)') + Cardinality(RowsLeft(c)') + Cardinality(UnderWay(c)')
      /\ (Copies(c) <= Cardinality(Delivered(c)) + spare[c])' <=> Copies(c)' <= Cardinality(Delivered(c)') + spare'[c]
  BY DEF Copies
<1>2. /\ received[c] \in Nat /\ spare[c] \in Nat
      /\ IsFiniteSet(OnWire(c)) /\ Cardinality(OnWire(c)) \in Nat /\ Cardinality(OnWire(c)') \in Nat
      /\ IsFiniteSet(RowsLeft(c)) /\ Cardinality(RowsLeft(c)) \in Nat /\ Cardinality(RowsLeft(c)') \in Nat
      /\ IsFiniteSet(UnderWay(c)) /\ Cardinality(UnderWay(c)) \in Nat /\ Cardinality(UnderWay(c)') \in Nat
      /\ IsFiniteSet(Delivered(c)) /\ Cardinality(Delivered(c)) \in Nat /\ Cardinality(Delivered(c)') \in Nat
  BY CountsAreNumbers
<1>3. /\ outbox \subseteq Commands \X Kinds /\ received \in [Commands -> Nat] /\ spare \in [Commands -> Nat]
      /\ draining \in (Commands \X Kinds) \cup {NoRow}
  BY DEF TypeOK, ResultType
<1>4. tasks' = tasks => UnderWay(c)' = UnderWay(c) /\ Delivered(c)' = Delivered(c)
  BY DEF UnderWay, Delivered
<1>5. wire' = wire => OnWire(c)' = OnWire(c)
  BY DEF OnWire, Conns
<1>6. ASSUME NEW row \in outbox, DrainSend(row)
      PROVE  (Copies(c) <= Cardinality(Delivered(c)) + spare[c])'
  <2>1. PICK e \in Commands, kind \in Kinds : row = <<e, kind>>
    BY <1>3
  <2>2. current \in Conns
    <3>1. current \in 0..MaxConns /\ current > 0
      BY <1>6 DEF DrainSend, LinkInv, TypeOK, ConnType
    <3> QED BY <3>1, Sizes DEF Conns
  <2>3. /\ draining = NoRow /\ draining' = <<e, kind>> /\ wire' = [wire EXCEPT ![<<e, current>>] = @ + 1]
        /\ tasks' = tasks /\ outbox' = outbox /\ received' = received /\ spare' = spare
    BY <1>6, <2>1 DEF DrainSend
  <2>4. /\ Cardinality(OnWire(e)') = Cardinality(OnWire(e)) + 1
        /\ c # e => OnWire(c)' = OnWire(c)
    BY <2>2, <2>3, WireUp
  <2>5. /\ c # e => RowsLeft(c)' \subseteq RowsLeft(c)
        /\ c = e => kind \in RowsLeft(c) /\ RowsLeft(c)' \subseteq RowsLeft(c) \ {kind}
    <3>1. \A k \in Kinds : <<c, k>> # draining
      BY <2>3 DEF NoRow
    <3>2. RowsLeft(c) = {k \in Kinds : <<c, k>> \in outbox}
      BY <3>1 DEF RowsLeft
    <3>3. RowsLeft(c)' = {k \in Kinds : <<c, k>> \in outbox /\ <<c, k>> # <<e, kind>>}
      BY <2>3 DEF RowsLeft, Kinds
    <3> QED BY <2>1, <3>2, <3>3
  <2>6. CASE c = e
    <3>1. Cardinality(RowsLeft(c)') <= Cardinality(RowsLeft(c)) - 1
      BY <1>2, <2>5, <2>6, CountGrows
    <3> QED BY <1>1, <1>2, <1>4, <2>3, <2>4, <2>6, <3>1
  <2>7. CASE c # e
    <3>1. Cardinality(RowsLeft(c)') <= Cardinality(RowsLeft(c))
      BY <1>2, <2>5, <2>7, CountGrows
    <3> QED BY <1>1, <1>2, <1>4, <2>3, <2>4, <2>7, <3>1
  <2> QED BY <2>6, <2>7
<1>7. CASE DrainMark \/ \E row \in outbox : Expire(row)
  <2>1. wire' = wire /\ tasks' = tasks /\ received' = received /\ spare' = spare
    BY <1>7 DEF DrainMark, Expire
  <2>2. RowsLeft(c)' \subseteq RowsLeft(c)
    BY <1>7 DEF DrainMark, Expire, RowsLeft, Kinds
  <2>3. Cardinality(RowsLeft(c)') <= Cardinality(RowsLeft(c))
    BY <1>2, <2>2, CountGrows
  <2> QED BY <1>1, <1>2, <1>4, <1>5, <2>1, <2>3
<1>8. CASE DrainMarkFails \/ ProcessEnds
  <2>1. wire' = wire /\ outbox' = outbox /\ received' = received /\ draining' = NoRow
        /\ (draining = NoRow => spare' = spare)
        /\ (draining # NoRow => spare' = [spare EXCEPT ![draining[1]] = @ + 1])
    BY <1>8 DEF DrainMarkFails, ProcessEnds
  <2>2. UnderWay(c)' \subseteq UnderWay(c) /\ Delivered(c)' = Delivered(c)
    <3>1. CASE DrainMarkFails
      BY <1>4, <3>1 DEF DrainMarkFails
    <3>2. CASE ProcessEnds
      <4>1. tasks \in [Deliveries -> [stage : Stages, conn : 0..MaxConns, kind : Kinds]]
        BY DEF TypeOK, TaskType
      <4>2. \A d \in Deliveries : tasks'[d] = IF tasks[d].stage \in {"running", "done"}
                                              THEN [tasks[d] EXCEPT !.stage = "gone"] ELSE tasks[d]
        BY <3>2 DEF ProcessEnds
      <4>3. \A d \in Deliveries : IF tasks[d].stage \in {"running", "done"}
                                  THEN tasks'[d].stage = "gone" ELSE tasks'[d] = tasks[d]
        BY <4>1, <4>2
      <4>4. \A n \in 1..MaxDeliveries : <<c, n>> \in Deliveries
        BY DEF Deliveries
      <4> QED BY <4>3, <4>4 DEF UnderWay, Delivered
    <3> QED BY <1>8, <3>1, <3>2
  <2>3. Cardinality(UnderWay(c)') <= Cardinality(UnderWay(c))
    BY <1>2, <2>2, CountGrows
  <2>4. CASE draining = NoRow
    <3>1. RowsLeft(c)' \subseteq RowsLeft(c)
      BY <2>1, <2>4 DEF RowsLeft, Kinds
    <3>2. Cardinality(RowsLeft(c)') <= Cardinality(RowsLeft(c))
      BY <1>2, <3>1, CountGrows
    <3> QED BY <1>1, <1>2, <1>5, <2>1, <2>2, <2>3, <2>4, <3>2
  <2>5. CASE draining # NoRow
    <3>1. PICK e \in Commands, kind \in Kinds : draining = <<e, kind>>
      BY <1>3, <2>5
    <3>2. spare' = [spare EXCEPT ![e] = @ + 1]
      BY <2>1, <2>5, <3>1
    <3>3. /\ RowsLeft(c)' \subseteq RowsLeft(c) \cup {kind}
          /\ c # e => RowsLeft(c)' \subseteq RowsLeft(c)
      BY <2>1, <3>1 DEF RowsLeft, Kinds
    <3>4. /\ Cardinality(RowsLeft(c)') <= Cardinality(RowsLeft(c)) + 1
          /\ c # e => Cardinality(RowsLeft(c)') <= Cardinality(RowsLeft(c))
      BY <1>2, <3>3, CountGrows
    <3>5. CASE c = e
      <4>1. spare'[c] = spare[c] + 1
        BY <1>3, <3>2, <3>5
      <4> QED BY <1>1, <1>2, <1>5, <2>1, <2>2, <2>3, <3>4, <4>1
    <3>6. CASE c # e
      <4>1. spare'[c] = spare[c]
        BY <1>3, <3>2, <3>6
      <4> QED BY <1>1, <1>2, <1>5, <2>1, <2>2, <2>3, <3>4, <3>6, <4>1
    <3> QED BY <3>5, <3>6
  <2> QED BY <2>4, <2>5
<1>9. ASSUME NEW e \in Commands, NEW k \in Conns, Arrive(e, k) \/ Vanish(e, k)
      PROVE  (Copies(c) <= Cardinality(Delivered(c)) + spare[c])'
  <2>1. /\ wire[<<e, k>>] > 0 /\ wire' = [wire EXCEPT ![<<e, k>>] = @ - 1]
        /\ tasks' = tasks /\ outbox' = outbox /\ draining' = draining /\ spare' = spare
        /\ received' = received \/ received' = [received EXCEPT ![e] = @ + 1]
    BY <1>9 DEF Arrive, Vanish
  <2>2. /\ Cardinality(OnWire(e)') = Cardinality(OnWire(e)) - 1
        /\ c # e => OnWire(c)' = OnWire(c)
    BY <2>1, WireDown
  <2>3. RowsLeft(c)' = RowsLeft(c)
    BY <2>1 DEF RowsLeft, Kinds
  <2>4. /\ c # e => received'[c] = received[c]
        /\ c = e => received'[c] \in {received[c], received[c] + 1}
    BY <1>3, <2>1
  <2>5. CASE c = e
    BY <1>1, <1>2, <1>4, <2>1, <2>2, <2>3, <2>4, <2>5
  <2>6. CASE c # e
    BY <1>1, <1>2, <1>4, <2>1, <2>2, <2>3, <2>4, <2>6
  <2> QED BY <2>5, <2>6
<1> QED BY <1>6, <1>7, <1>8, <1>9 DEF Drain, Network

\* executeAndRespond, the outbox and its drain: the server gets a result once per delivery
\* of its command, and once more for each row that was sent and could not be deleted.
THEOREM DuplicatesAreExplained == Spec => []DuplicatesHaveACause
<1>1. Init => DuplicatesHaveACause
  <2> SUFFICES ASSUME Init, NEW c \in Commands
               PROVE  Copies(c) <= Cardinality(Delivered(c)) + spare[c]
    BY DEF DuplicatesHaveACause
  <2>1. OnWire(c) = {}
    <3>1. \A k \in Conns : wire[<<c, k>>] = 0
      BY DEF Init
    <3>2. \A k \in Conns : {k} \X (1..wire[<<c, k>>]) = {}
      BY <3>1
    <3> QED BY <3>2 DEF OnWire
  <2>2. RowsLeft(c) = {} /\ UnderWay(c) = {} /\ Delivered(c) = {} /\ received[c] = 0 /\ spare[c] = 0
    BY DEF Init, RowsLeft, UnderWay, Delivered, Deliveries
  <2> QED BY <2>1, <2>2, FS_EmptySet DEF Copies
<1>2. Inv /\ Inv' /\ DuplicatesHaveACause /\ [Next]_vars => DuplicatesHaveACause'
  <2> SUFFICES ASSUME Inv, Inv', DuplicatesHaveACause, [Next]_vars, NEW c \in Commands
               PROVE  (Copies(c) <= Cardinality(Delivered(c)) + spare[c])'
    BY DEF DuplicatesHaveACause
  <2>1. TypeOK /\ TypeOK' /\ LinkInv /\ Copies(c) <= Cardinality(Delivered(c)) + spare[c]
    BY DEF Inv, DuplicatesHaveACause
  <2>2. CASE \E e \in Commands, n \in 1..MaxDeliveries : Deliver(e, n) \/ Task(e, n)
    BY <2>1, <2>2, TaskCounts
  <2>3. CASE Drain \/ (\E row \in outbox : Expire(row)) \/ Network \/ ProcessEnds
    BY <2>1, <2>3, DrainCounts
  <2>4. CASE Connection \/ AttemptFails \/ NetworkBreaks \/ NatsReconnects \/ Reload \/ ProcessStarts \/ UNCHANGED vars
    <3>1. UNCHANGED <<tasks, resultVars>>
      BY <2>4 DEF Connection, LoadConfig, Establish, SessionEnds, AttemptFails, NetworkBreaks,
              NatsReconnects, Reload, ProcessStarts, vars, resultVars
    <3>2. /\ Copies(c)' = Copies(c) /\ Delivered(c)' = Delivered(c) /\ spare'[c] = spare[c]
      BY <3>1 DEF Copies, OnWire, RowsLeft, UnderWay, Delivered, resultVars, Conns, Kinds
    <3> QED BY <2>1, <3>2
  <2> QED BY <2>2, <2>3, <2>4 DEF Next
<1> QED BY <1>1, <1>2, Invariance, PTL DEF Spec

-----------------------------------------------------------------------------
(* HubSession: how a session with the hub comes up, and what it hears.     *)

\* HubSpec without its fairness, of which safety needs nothing.
HubMoves == InitHub /\ [][NextHub]_hubVars

TransportNames == {"nats", "nats-wss", "signalr"}
HubStages == {"waiting", "try", "dial", "hello", "secure", "register", "up"}

\* A round is of settings that were found safe, and a session of the round's first
\* transport.
RoundInv ==
    /\ round \in Seq(TransportNames)
    /\ round = <<>> <=> stage = "waiting"
    /\ round # <<>> => SettingsAreSafe(inUse)

\* What the certificate was found to be holds until the session is over.
PinInv ==
    stage \in {"dial", "hello", "secure", "register", "up"} =>
        (ServerOf(inUse, Transport).by = "tls" => PinAllows(inUse, Transport, observed))

\* There is nothing from a hub where there is no session with one, and a session starts
\* with nothing of the one before.
QuietInv ==
    /\ ~InHubSession => unread = <<>> /\ inbox = <<>> /\ hub = {} /\ alone = {}
    /\ stage \notin {"secure", "register", "up"} => challenge = "none"
    /\ stage # "up" => inbox = <<>>
    /\ stage \in {"register", "up"} => challenge # "seen"

\* The hub's first record is its answer to the agent's hello.
HelloInv ==
    stage = "hello" =>
        IF unread = <<>> THEN "ack" \notin hub
        ELSE Head(unread)[1] \in {"ack", "rejected"}

\* A command is on its way once at most, and is not launched before it was read.
OnItsWayOnce(c) ==
    /\ \A i, j \in 1..Len(unread) : Contains(unread[i], c) /\ Contains(unread[j], c) => i = j
    /\ \A i, j \in 1..Len(inbox) : Contains(inbox[i], c) /\ Contains(inbox[j], c) => i = j
    /\ \A i \in 1..Len(unread), j \in 1..Len(inbox) : ~(Contains(unread[i], c) /\ Contains(inbox[j], c))
    /\ \A i \in 1..Len(unread) : Contains(unread[i], c) => launched[c] = 0
    /\ \A i \in 1..Len(inbox) : Contains(inbox[i], c) => launched[c] = 0

\* One sent in a frame of its own is on its way in that frame, or was launched.
Heard(c) ==
    \/ \E i \in 1..Len(unread) : unread[i] = <<c>>
    \/ \E i \in 1..Len(inbox) : inbox[i] = <<c>>
    \/ launched[c] = 1

CommandInv ==
    /\ \A c \in HubCommand : OnItsWayOnce(c)
    /\ \A c \in alone : Heard(c)
    /\ launched \in [HubCommand -> 0..1]

HubInv == HubTypeOK /\ RoundInv /\ PinInv /\ QuietInv /\ HelloInv /\ CommandInv

-----------------------------------------------------------------------------
\* What the proofs need of the constants.
LEMMA HubSizes ==
  /\ HubPatience \in Nat /\ HubPatience > 0 /\ InboxSize \in Nat /\ InboxSize > 0
  /\ WireSize \in Nat /\ WireSize > 0
  /\ Settings \subseteq ConnectionSettings
  /\ HubCommand \cap HubRecord = {} /\ "error" \notin HubCommand
BY HubSessionAssumption DEF HubSessionAssumption

\* The types of a state that has nothing of a session.
LEMMA EmptyLinkType ==
  /\ <<>> \in Seq(Frames) /\ <<>> \in Seq(Frames \cup {ReadError})
  /\ Len(<<>>) <= WireSize /\ Len(<<>>) <= InboxSize
  /\ HubPatience \in 0..HubPatience /\ FALSE \in BOOLEAN /\ "none" \in Certificate
  /\ "none" \in {"none", "seen", "accepted"}
BY HubSizes DEF Certificate

\* Taking the first element of a sequence.
LEMMA TailFacts ==
  ASSUME NEW S, NEW s \in Seq(S), s # <<>>
  PROVE  /\ Head(s) \in S /\ Head(s) = s[1] /\ 1 \in 1..Len(s)
         /\ Tail(s) \in Seq(S) /\ Len(Tail(s)) = Len(s) - 1
         /\ \A i \in 1..Len(Tail(s)) : i + 1 \in 1..Len(s) /\ Tail(s)[i] = s[i + 1]
OBVIOUS

\* The settings of a round are settings, and its transports are at most three.
LEMMA EffectiveType ==
  ASSUME NEW s \in ConnectionSettings
  PROVE  Effective(s) \in ConnectionSettings
<1>1. s.api \in Server /\ s.nats \in Server /\ s.wss \in Server /\ NoServer \in Server
  BY DEF ConnectionSettings, Server, NoServer
<1>2. \A v \in Server, h \in {"none", "local", "remote"} : Rehosted(v, h) \in Server
  BY DEF Rehosted, Server
<1>3. [by |-> "tls", local |-> s.host = "local"] \in Server
  BY DEF Server
<1>4. s.host \in {"none", "local", "remote"}
  BY DEF ConnectionSettings
<1> DEFINE wss == IF s.external /\ s.host # "none" THEN [by |-> "tls", local |-> s.host = "local"]
                  ELSE Rehosted(s.wss, s.host)
<1> DEFINE nats == IF s.external /\ s.host # "none" THEN NoServer ELSE Rehosted(s.nats, s.host)
<1> DEFINE api == IF s.api.by = "odd" THEN NoServer ELSE s.api
<1>5. wss \in Server /\ nats \in Server /\ api \in Server
  BY <1>1, <1>2, <1>3, <1>4
<1>6. Effective(s) = [s EXCEPT !.wss = wss, !.nats = nats, !.api = api]
  BY DEF Effective
<1> HIDE DEF wss, nats, api
<1> QED BY <1>5, <1>6 DEF ConnectionSettings

LEMMA UsableTransportsType ==
  ASSUME NEW s
  PROVE  UsableTransports(s) \in Seq(TransportNames) /\ Len(UsableTransports(s)) <= 3
<1>1. \A t \in TransportNames : IfUsable(s, t) \in Seq(TransportNames) /\ Len(IfUsable(s, t)) \in {0, 1}
  BY DEF IfUsable
<1>2. \A a, b \in Seq(TransportNames) : a \o b \in Seq(TransportNames) /\ Len(a \o b) = Len(a) + Len(b)
  OBVIOUS
<1> DEFINE a == IfUsable(s, "nats")
           b == IfUsable(s, "nats-wss")
           c == IfUsable(s, "signalr")
<1>3. /\ a \in Seq(TransportNames) /\ b \in Seq(TransportNames) /\ c \in Seq(TransportNames)
      /\ Len(a) \in {0, 1} /\ Len(b) \in {0, 1} /\ Len(c) \in {0, 1}
  BY <1>1 DEF TransportNames
<1>4. UsableTransports(s) = (a \o b) \o c
  BY DEF UsableTransports
<1> HIDE DEF a, b, c
<1>5. a \o b \in Seq(TransportNames) /\ Len(a \o b) = Len(a) + Len(b)
  BY <1>2, <1>3
<1>6. (a \o b) \o c \in Seq(TransportNames) /\ Len((a \o b) \o c) = Len(a \o b) + Len(c)
  BY <1>2, <1>3, <1>5
<1>7. Len(UsableTransports(s)) = Len(a) + Len(b) + Len(c)
  BY <1>4, <1>5, <1>6
<1>8. Len(a) + Len(b) + Len(c) <= 3
  <2>1. \A n \in {0, 1} : n \in Nat /\ n <= 1
    OBVIOUS
  <2>2. /\ Len(a) \in Nat /\ Len(b) \in Nat /\ Len(c) \in Nat
        /\ Len(a) <= 1 /\ Len(b) <= 1 /\ Len(c) <= 1
    BY <1>3, <2>1
  <2> QED BY <2>2
<1> QED BY <1>4, <1>6, <1>7, <1>8

\* A session that is over leaves nothing behind.
LEMMA NextTransportInv ==
  ASSUME HubInv, stage # "waiting", NextTransport
  PROVE  HubInv'
<1>0. HubPatience \in Nat BY HubSizes
<1>1. round \in Seq(TransportNames) /\ round # <<>> /\ Len(round) <= 3
  BY DEF HubInv, RoundInv, HubTypeOK
<1>2. Tail(round) \in Seq(TransportNames) /\ Len(Tail(round)) <= 3
  <2>1. Tail(round) \in Seq(TransportNames) /\ Len(Tail(round)) = Len(round) - 1
    BY <1>1, TailFacts
  <2>2. Len(round) \in Nat
    BY <1>1
  <2> QED BY <1>1, <2>1, <2>2
<1>3. /\ round' = Tail(round) /\ stage' = IF Tail(round) = <<>> THEN "waiting" ELSE "try"
      /\ inUse' = inUse /\ launched' = launched /\ observed' = "none"
      /\ unread' = <<>> /\ inbox' = <<>> /\ deaf' = FALSE /\ patience' = HubPatience
      /\ challenge' = "none" /\ hub' = {} /\ alone' = {}
  BY DEF NextTransport, SessionOver
<1>4. HubTypeOK'
  <2>1. inUse \in ConnectionSettings /\ launched \in [HubCommand -> 0..2]
    BY DEF HubInv, HubTypeOK
  <2> QED BY <1>2, <1>3, <2>1, EmptyLinkType DEF HubTypeOK, TransportNames
<1>5. RoundInv'
  BY <1>1, <1>2, <1>3 DEF HubInv, RoundInv, SettingsAreSafe
<1>6. PinInv' /\ QuietInv' /\ HelloInv'
  BY <1>3 DEF PinInv, QuietInv, HelloInv, InHubSession
<1>7. CommandInv'
  BY <1>3 DEF HubInv, CommandInv, OnItsWayOnce
<1> QED BY <1>4, <1>5, <1>6, <1>7 DEF HubInv

\* The initial state.
LEMMA InitHubInv == InitHub => HubInv
<1> SUFFICES ASSUME InitHub PROVE HubInv
  OBVIOUS
<1>1. HubTypeOK
  <2>1. inUse \in ConnectionSettings
    BY HubSizes DEF InitHub
  <2>2. launched \in [HubCommand -> 0..2]
    BY DEF InitHub
  <2>3. round \in Seq({"nats", "nats-wss", "signalr"}) /\ Len(round) <= 3
    BY DEF InitHub
  <2> QED BY <2>1, <2>2, <2>3, EmptyLinkType DEF InitHub, HubTypeOK
<1>2. RoundInv /\ PinInv /\ QuietInv /\ HelloInv
  BY DEF InitHub, RoundInv, PinInv, QuietInv, HelloInv, InHubSession
<1>3. CommandInv
  BY DEF InitHub, CommandInv, OnItsWayOnce
<1> QED BY <1>1, <1>2, <1>3 DEF HubInv

-----------------------------------------------------------------------------
\* What does not touch the frames, the commands or the challenge keeps the invariant
\* where the session stays with the hub, or without one.
LEMMA LinkKept ==
  ASSUME HubInv, UNCHANGED <<unread, inbox, hub, alone, launched, challenge>>,
         stage' = "hello" => stage = "hello" \/ stage = "dial",
         InHubSession => InHubSession',
         stage' \in {"secure", "register", "up"} \/ challenge = "none",
         stage' = "up" \/ inbox = <<>>,
         stage' \in {"register", "up"} => challenge # "seen"
  PROVE  QuietInv' /\ HelloInv' /\ CommandInv'
<1>1. QuietInv'
  BY DEF HubInv, QuietInv
<1>2. HelloInv'
  BY DEF HubInv, QuietInv, HelloInv, InHubSession
<1>3. CommandInv'
  BY DEF HubInv, CommandInv, OnItsWayOnce, Heard
<1> QED BY <1>1, <1>2, <1>3

\* A round begins with settings that were found safe.
LEMMA BeginRoundInv ==
  ASSUME HubInv, NEW s \in Settings, BeginRound(s)
  PROVE  HubInv'
<1>1. /\ stage = "waiting" /\ stage' = "try" /\ SettingsAreSafe(Effective(s))
      /\ inUse' = Effective(s) /\ round' = UsableTransports(Effective(s)) /\ round' # <<>>
      /\ UNCHANGED <<observed, unread, inbox, deaf, patience, challenge, hub, alone, launched>>
  BY DEF BeginRound, linkVars
<1>2. HubTypeOK'
  <2>1. inUse' \in ConnectionSettings
    BY <1>1, EffectiveType, HubSizes
  <2> QED BY <1>1, <2>1, UsableTransportsType DEF HubInv, HubTypeOK, TransportNames
<1>3. RoundInv' /\ PinInv'
  BY <1>1, UsableTransportsType DEF RoundInv, PinInv, SettingsAreSafe
<1>4. QuietInv' /\ HelloInv' /\ CommandInv'
  <2>1. challenge = "none" /\ inbox = <<>> /\ ~InHubSession
    BY <1>1 DEF HubInv, QuietInv, InHubSession
  <2> QED BY <1>1, <2>1, LinkKept
<1> QED BY <1>2, <1>3, <1>4 DEF HubInv

\* An attempt goes on only after the certificate was judged.
LEMMA ObserveInv ==
  ASSUME HubInv, NEW seen \in Certificate, Observe(seen)
  PROVE  HubInv'
<1>1. /\ stage = "try" /\ stage' = "dial" /\ observed' = seen
      /\ ServerOf(inUse, Transport).by = "tls" => PinAllows(inUse, Transport, seen)
      /\ UNCHANGED <<inUse, round, unread, inbox, deaf, patience, challenge, hub, alone, launched>>
  BY DEF Observe, linkVars
<1>2. HubTypeOK'
  BY <1>1 DEF HubInv, HubTypeOK
<1>3. RoundInv' /\ PinInv'
  BY <1>1 DEF HubInv, RoundInv, PinInv, SettingsAreSafe, Transport
<1>4. QuietInv' /\ HelloInv' /\ CommandInv'
  <2>1. challenge = "none" /\ inbox = <<>> /\ ~InHubSession
    BY <1>1 DEF HubInv, QuietInv, InHubSession
  <2> QED BY <1>1, <2>1, LinkKept
<1> QED BY <1>2, <1>3, <1>4 DEF HubInv

\* A session with a NATS server comes up, and one with the hub begins.
LEMMA ConnectsInv ==
  ASSUME HubInv, NatsComesUp \/ HubConnects
  PROVE  HubInv'
<1>0. HubPatience \in Nat /\ HubPatience \in 0..HubPatience
  BY HubSizes
<1>1. /\ stage = "dial" /\ stage' \in {"hello", "up"}
      /\ patience' \in {patience, HubPatience}
      /\ UNCHANGED <<inUse, round, observed, unread, inbox, deaf, challenge, hub, alone, launched>>
  BY DEF NatsComesUp, HubConnects, linkVars
<1>2. HubTypeOK'
  BY <1>0, <1>1 DEF HubInv, HubTypeOK
<1>3. RoundInv' /\ PinInv'
  BY <1>1 DEF HubInv, RoundInv, PinInv, SettingsAreSafe, Transport
<1>4. QuietInv' /\ HelloInv' /\ CommandInv'
  <2>1. challenge = "none" /\ inbox = <<>> /\ ~InHubSession
    BY <1>1 DEF HubInv, QuietInv, InHubSession
  <2> QED BY <1>1, <2>1, LinkKept
<1> QED BY <1>2, <1>3, <1>4 DEF HubInv

\* The connection breaks, time passes, and a hub that kept silent is taken for one that
\* does not challenge.
LEMMA SilenceInv ==
  ASSUME HubInv, HubGone \/ TimePasses \/ DeadlineIsUp
  PROVE  HubInv'
<1>0. HubPatience \in Nat
  BY HubSizes
<1>1. CASE DeadlineIsUp /\ (stage = "hello" \/ challenge = "seen")
  BY <1>1, NextTransportInv DEF DeadlineIsUp
<1>2. CASE ~(DeadlineIsUp /\ (stage = "hello" \/ challenge = "seen"))
  <2>1. /\ stage' \in {stage, "register"}
        /\ stage' # stage => stage = "secure" /\ challenge # "seen"
        /\ stage \in {"hello", "secure", "register", "up"}
        /\ patience' \in 0..HubPatience /\ deaf' \in BOOLEAN
        /\ UNCHANGED <<inUse, round, observed, unread, inbox, challenge, hub, alone, launched>>
    <3>1. CASE HubGone
      BY <3>1 DEF HubGone, InHubSession, HubInv, HubTypeOK
    <3>2. CASE TimePasses
      BY <1>0, <3>2 DEF TimePasses, HubInv, HubTypeOK
    <3>3. CASE DeadlineIsUp
      BY <1>2, <3>3 DEF DeadlineIsUp, HubInv, HubTypeOK
    <3> QED BY <3>1, <3>2, <3>3
  <2>2. HubTypeOK'
    BY <2>1 DEF HubInv, HubTypeOK
  <2>3. RoundInv' /\ PinInv'
    BY <2>1 DEF HubInv, RoundInv, PinInv, SettingsAreSafe, Transport
  <2>4. QuietInv' /\ HelloInv' /\ CommandInv'
    <3>1. InHubSession => InHubSession'
      BY <2>1 DEF InHubSession, Transport
    <3>2. inbox = <<>> \/ stage' = "up"
      BY <2>1 DEF HubInv, QuietInv
    <3>3. stage' \in {"secure", "register", "up"} \/ challenge = "none"
      BY <2>1 DEF HubInv, QuietInv
    <3>4. stage' \in {"register", "up"} => challenge # "seen"
      BY <2>1 DEF HubInv, QuietInv
    <3> QED BY <2>1, <3>1, <3>2, <3>3, <3>4, LinkKept
  <2> QED BY <2>2, <2>3, <2>4 DEF HubInv
<1> QED BY <1>1, <1>2

\* The agent is registered.
LEMMA RegisterInv ==
  ASSUME HubInv, Register
  PROVE  HubInv'
<1>1. /\ stage = "register" /\ stage' = "up"
      /\ UNCHANGED <<inUse, round, observed, unread, inbox, deaf, patience, challenge, hub, alone, launched>>
  BY DEF Register, linkVars
<1>2. HubTypeOK'
  BY <1>1 DEF HubInv, HubTypeOK
<1>3. RoundInv' /\ PinInv'
  BY <1>1 DEF HubInv, RoundInv, PinInv, SettingsAreSafe, Transport
<1>4. QuietInv' /\ HelloInv' /\ CommandInv'
  <2>1. InHubSession => InHubSession'
    BY <1>1 DEF InHubSession, Transport
  <2>2. challenge # "seen"
    BY <1>1 DEF HubInv, QuietInv
  <2> QED BY <1>1, <2>1, <2>2, LinkKept
<1> QED BY <1>2, <1>3, <1>4 DEF HubInv

-----------------------------------------------------------------------------
\* Adding an element to a sequence, and what two sequences have together.
LEMMA AppendFacts ==
  ASSUME NEW S, NEW s \in Seq(S), NEW x \in S
  PROVE  /\ Append(s, x) \in Seq(S) /\ Len(Append(s, x)) = Len(s) + 1
         /\ \A i \in 1..Len(Append(s, x)) :
               Append(s, x)[i] = IF i \in 1..Len(s) THEN s[i] ELSE x
         /\ Len(s) + 1 \in 1..Len(Append(s, x)) /\ Len(s) + 1 \notin 1..Len(s)
OBVIOUS

LEMMA RangeOfBoth ==
  ASSUME NEW S, NEW s \in Seq(S), NEW u \in Seq(S)
  PROVE  /\ \A i \in 1..Len(s) : s[i] \in Range(s \o u)
         /\ \A i \in 1..Len(u) : u[i] \in Range(s \o u)
<1>1. DOMAIN (s \o u) = 1..(Len(s) + Len(u))
  OBVIOUS
<1>2. \A i \in 1..Len(s) : i \in DOMAIN (s \o u) /\ (s \o u)[i] = s[i]
  OBVIOUS
<1>3. \A i \in 1..Len(u) : Len(s) + i \in DOMAIN (s \o u) /\ (s \o u)[Len(s) + i] = u[i]
  OBVIOUS
<1> QED BY <1>2, <1>3 DEF Range

\* The frames on their way and those passed on, as sequences over one set.
LEMMA FramesType ==
  ASSUME HubInv
  PROVE  /\ unread \in Seq(Frames) /\ inbox \in Seq(Frames \cup {ReadError})
         /\ unread \in Seq(Frames \cup {ReadError})
         /\ Len(unread) \in Nat /\ Len(inbox) \in Nat
<1>1. unread \in Seq(Frames) /\ inbox \in Seq(Frames \cup {ReadError})
  BY DEF HubInv, HubTypeOK
<1> QED BY <1>1

\* A command that may be sent is nowhere on its way.
LEMMA UnsentFacts ==
  ASSUME HubInv, NEW c \in HubCommand, Unsent(c)
  PROVE  /\ launched[c] = 0 /\ c \notin alone
         /\ \A i \in 1..Len(unread) : ~Contains(unread[i], c)
         /\ \A i \in 1..Len(inbox) : ~Contains(inbox[i], c)
BY FramesType, RangeOfBoth DEF Unsent

\* The hub says something: a record, or one with a command behind it.
LEMMA SaysInv ==
  ASSUME HubInv, NEW frame \in Frames, NEW record,
         InHubSession, MaySay(record), Len(unread) < WireSize,
         frame[1] = record, frame[1] \in HubCommand => frame = <<frame[1]>>,
         \A c \in HubCommand : Contains(frame, c) => Unsent(c),
         unread' = Append(unread, frame), hub' = hub \cup Said(record),
         \A c \in alone' : c \in alone \/ (c \in HubCommand /\ frame = <<c>>),
         alone' \subseteq HubCommand,
         UNCHANGED <<inUse, round, stage, observed, inbox, deaf, patience, challenge, launched>>
  PROVE  HubInv'
<1>0. WireSize \in Nat
  BY HubSizes
<1>1. unread \in Seq(Frames) /\ Len(unread) \in Nat /\ inbox \in Seq(Frames \cup {ReadError})
  BY FramesType
<1>2. /\ unread' \in Seq(Frames) /\ Len(unread') = Len(unread) + 1
      /\ \A i \in 1..Len(unread') : unread'[i] = IF i \in 1..Len(unread) THEN unread[i] ELSE frame
      /\ Len(unread) + 1 \in 1..Len(unread') /\ Len(unread) + 1 \notin 1..Len(unread)
  BY <1>1, AppendFacts
<1>3. HubTypeOK'
  <2>1. hub' \subseteq {"ack", "challenge", "verdict", "close"}
    BY DEF HubInv, HubTypeOK, Said
  <2>2. Len(unread') <= WireSize
    BY <1>0, <1>1, <1>2
  <2> QED BY <1>2, <2>1, <2>2 DEF HubInv, HubTypeOK
<1>4. RoundInv' /\ PinInv'
  BY DEF HubInv, RoundInv, PinInv, SettingsAreSafe, Transport
<1>5. QuietInv'
  BY DEF HubInv, QuietInv, InHubSession, Transport
<1>6. HelloInv'
  <2>1. CASE stage = "hello" /\ unread = <<>>
    <3>1. record \in {"ack", "rejected"}
      BY <2>1 DEF HubInv, HelloInv, QuietInv, MaySay
    <3>2. unread' # <<>> /\ Head(unread') = frame
      BY <1>1, <1>2, <2>1
    <3> QED BY <3>1, <3>2 DEF HelloInv
  <2>2. CASE stage = "hello" /\ unread # <<>>
    <3>1. unread' # <<>> /\ Head(unread') = Head(unread)
      BY <1>1, <1>2, <2>2
    <3> QED BY <2>2, <3>1 DEF HubInv, HelloInv
  <2> QED BY <2>1, <2>2 DEF HelloInv
<1>7. CommandInv'
  <2>1. ASSUME NEW c \in HubCommand PROVE OnItsWayOnce(c)'
    <3>1. CASE Contains(frame, c)
      BY <1>1, <1>2, <3>1, UnsentFacts DEF OnItsWayOnce
    <3>2. CASE ~Contains(frame, c)
      BY <1>1, <1>2, <3>2 DEF HubInv, CommandInv, OnItsWayOnce
    <3> QED BY <3>1, <3>2
  <2>2. ASSUME NEW c \in alone' PROVE Heard(c)'
    <3>1. CASE c \in alone
      <4>1. Heard(c)
        BY <3>1 DEF HubInv, CommandInv
      <4> QED BY <1>1, <1>2, <4>1 DEF Heard
    <3>2. CASE frame = <<c>>
      BY <1>1, <1>2, <3>2 DEF Heard
    <3> QED BY <3>1, <3>2
  <2> QED BY <2>1, <2>2 DEF HubInv, CommandInv
<1> QED BY <1>3, <1>4, <1>5, <1>6, <1>7 DEF HubInv

LEMMA HubSaysInv ==
  ASSUME HubInv, NEW record \in Records, HubSays(record)
  PROVE  HubInv'
<1>1. <<record>> \in Frames /\ <<record>>[1] = record
  BY DEF Frames
<1>2. \A c : Contains(<<record>>, c) => c = record
  BY DEF Contains
<1>3. \A c \in alone' : c \in alone \/ (c \in HubCommand /\ <<record>> = <<c>>)
  BY DEF HubSays
<1>4. alone' \subseteq HubCommand
  BY DEF HubSays, HubInv, HubTypeOK
<1> QED BY <1>1, <1>2, <1>3, <1>4, SaysInv DEF HubSays

LEMMA HubSaysBothInv ==
  ASSUME HubInv, NEW record \in Records, NEW c \in HubCommand, HubSaysBoth(record, c)
  PROVE  HubInv'
<1>1. <<record, c>> \in Frames /\ <<record, c>>[1] = record
  BY DEF Frames, Records
<1>2. \A d \in HubCommand : Contains(<<record, c>>, d) => d = c
  BY DEF Contains, HubSaysBoth
<1>3. alone' \subseteq HubCommand /\ alone' = alone /\ record \notin HubCommand
  BY DEF HubSaysBoth, HubInv, HubTypeOK
<1> QED BY <1>1, <1>2, <1>3, SaysInv DEF HubSaysBoth

-----------------------------------------------------------------------------
\* Reading a frame.
LEMMA ReadFacts ==
  ASSUME HubInv, unread # <<>>, unread' = Tail(unread)
  PROVE  /\ Head(unread) \in Frames /\ Head(unread) = unread[1] /\ 1 \in 1..Len(unread)
         /\ unread' \in Seq(Frames) /\ Len(unread') = Len(unread) - 1
         /\ \A i \in 1..Len(unread') : i + 1 \in 1..Len(unread) /\ unread'[i] = unread[i + 1]
         /\ \A i \in 1..Len(unread) : i = 1 \/ (i - 1 \in 1..Len(unread') /\ unread'[i - 1] = unread[i])
<1>1. unread \in Seq(Frames) /\ Len(unread) \in Nat
  BY FramesType
<1>2. /\ Head(unread) \in Frames /\ Head(unread) = unread[1] /\ 1 \in 1..Len(unread)
      /\ unread' \in Seq(Frames) /\ Len(unread') = Len(unread) - 1
      /\ \A i \in 1..Len(unread') : i + 1 \in 1..Len(unread) /\ unread'[i] = unread[i + 1]
  BY <1>1, TailFacts
<1>3. \A i \in 1..Len(unread) : i = 1 \/ (i - 1 \in 1..Len(unread') /\ unread'[i - 1] = unread[i])
  BY <1>1, <1>2
<1> QED BY <1>2, <1>3

\* A frame that is gone from the hub's, its commands launched or not, leaves the others as
\* they were; a command in a frame of its own must have been launched.
LEMMA TakenInv ==
  ASSUME HubInv, unread # <<>>, unread' = Tail(unread), NEW run \in SUBSET HubCommand,
         \A c \in run : Contains(Head(unread), c),
         \A c \in HubCommand : Head(unread) = <<c>> => c \in run,
         Launch(run) \/ (run = {} /\ launched' = launched),
         inbox' = inbox, alone' = alone
  PROVE  CommandInv' /\ launched' \in [HubCommand -> 0..2]
<1>1. /\ Head(unread) = unread[1] /\ 1 \in 1..Len(unread)
      /\ \A i \in 1..Len(unread') : i + 1 \in 1..Len(unread) /\ unread'[i] = unread[i + 1]
      /\ \A i \in 1..Len(unread) : i = 1 \/ (i - 1 \in 1..Len(unread') /\ unread'[i - 1] = unread[i])
  BY ReadFacts
<1>2. Len(unread) \in Nat /\ Len(inbox) \in Nat /\ Len(unread') \in Nat
  BY FramesType, ReadFacts
<1>3. launched \in [HubCommand -> 0..1] /\ alone \subseteq HubCommand
  BY DEF HubInv, CommandInv, HubTypeOK
<1>4. \A c \in HubCommand : launched'[c] = launched[c] + (IF c \in run THEN 1 ELSE 0)
  BY <1>3 DEF Launch
<1>5. \A c \in run : launched[c] = 0
  BY <1>1 DEF HubInv, CommandInv, OnItsWayOnce
<1>6. launched' \in [HubCommand -> 0..1]
  <2>1. CASE Launch(run)
    BY <1>3, <1>5, <2>1 DEF Launch
  <2>2. CASE launched' = launched
    BY <1>3, <2>2
  <2> QED BY <2>1, <2>2
<1>7. ASSUME NEW c \in HubCommand PROVE OnItsWayOnce(c)'
  <2>0. OnItsWayOnce(c)
    BY DEF HubInv, CommandInv
  <2>1. CASE c \in run
    <3>1. \A i \in 1..Len(unread') : ~Contains(unread'[i], c)
      BY <1>1, <1>2, <2>0, <2>1 DEF OnItsWayOnce
    <3>2. \A i \in 1..Len(inbox') : ~Contains(inbox'[i], c)
      BY <1>1, <1>2, <2>0, <2>1 DEF OnItsWayOnce
    <3> QED BY <3>1, <3>2 DEF OnItsWayOnce
  <2>2. CASE c \notin run
    <3>1. launched'[c] = launched[c]
      BY <1>3, <1>4, <2>2
    <3> QED BY <1>1, <1>2, <2>0, <3>1 DEF OnItsWayOnce
  <2> QED BY <2>1, <2>2
<1>8. ASSUME NEW c \in alone PROVE Heard(c)'
  <2>0. Heard(c) /\ c \in HubCommand /\ OnItsWayOnce(c)
    BY <1>3 DEF HubInv, CommandInv
  <2>1. CASE Head(unread) = <<c>>
    BY <1>4, <1>5, <2>0, <2>1 DEF Heard
  <2>2. CASE Head(unread) # <<c>> /\ \E i \in 1..Len(unread) : unread[i] = <<c>>
    <3>1. PICK i \in 1..Len(unread) : unread[i] = <<c>>
      BY <2>2
    <3>2. i # 1
      BY <1>1, <2>2, <3>1
    <3>3. i - 1 \in 1..Len(unread') /\ unread'[i - 1] = <<c>>
      BY <1>1, <3>1, <3>2
    <3> QED BY <3>3 DEF Heard
  <2>3. CASE \E i \in 1..Len(inbox) : inbox[i] = <<c>>
    BY <2>3 DEF Heard
  <2>4. CASE launched[c] = 1
    <3>1. c \notin run
      BY <1>5, <2>4
    <3> QED BY <1>3, <1>4, <2>0, <2>4, <3>1 DEF Heard
  <2> QED BY <2>0, <2>1, <2>2, <2>3, <2>4 DEF Heard
<1> QED BY <1>3, <1>6, <1>7, <1>8 DEF CommandInv

\* The hub's answer to the hello is never a command's frame, so that none is lost with it.
LEMMA ReadAckInv ==
  ASSUME HubInv, ReadAck
  PROVE  HubInv'
<1>1. CASE Contains(Head(unread), "rejected")
  BY <1>1, NextTransportInv DEF ReadAck
<1>2. CASE ~Contains(Head(unread), "rejected")
  <2>1. /\ stage = "hello" /\ stage' = "secure" /\ unread # <<>> /\ unread' = Tail(unread)
        /\ patience' = HubPatience
        /\ UNCHANGED <<inUse, round, observed, inbox, deaf, challenge, hub, alone, launched>>
    BY <1>2 DEF ReadAck
  <2>2. unread' \in Seq(Frames) /\ Len(unread') = Len(unread) - 1 /\ Len(unread) \in Nat
    BY <2>1, ReadFacts, FramesType
  <2>3. HubTypeOK'
    <3>1. Len(unread') <= WireSize
      BY <2>2, HubSizes DEF HubInv, HubTypeOK
    <3>2. HubPatience \in 0..HubPatience
      BY HubSizes
    <3> QED BY <2>1, <2>2, <3>1, <3>2 DEF HubInv, HubTypeOK
  <2>4. RoundInv' /\ PinInv'
    BY <2>1 DEF HubInv, RoundInv, PinInv, SettingsAreSafe, Transport
  <2>5. QuietInv' /\ HelloInv'
    <3>1. InHubSession => InHubSession'
      BY <2>1 DEF InHubSession, Transport
    <3>2. InHubSession
      BY <2>1 DEF HubInv, QuietInv
    <3> QED BY <2>1, <3>1, <3>2 DEF HubInv, QuietInv, HelloInv
  <2>6. CommandInv'
    <3>1. Head(unread)[1] \in {"ack", "rejected"}
      BY <2>1 DEF HubInv, HelloInv
    <3>2. \A c \in HubCommand : Head(unread) # <<c>>
      <4>1. {"ack", "rejected"} \cap HubCommand = {}
        BY HubSizes DEF HubRecord
      <4>2. \A c : Head(unread) = <<c>> => Head(unread)[1] = c
        OBVIOUS
      <4> QED BY <3>1, <4>1, <4>2
    <3>3. /\ unread # <<>> /\ unread' = Tail(unread) /\ inbox' = inbox /\ alone' = alone
          /\ launched' = launched /\ {} \in SUBSET HubCommand
      BY <2>1
    <3> QED BY <3>2, <3>3, TakenInv
  <2> QED BY <2>3, <2>4, <2>5, <2>6 DEF HubInv
<1> QED BY <1>1, <1>2

SearchStates == [is: {"on", "accepted", "failed", "passed"}, seen: BOOLEAN, run: SUBSET HubCommand]

\* What one record makes of the search.
LEMMA SearchedFacts ==
  ASSUME NEW at \in SearchStates, at.is = "passed" => ~at.seen, NEW record \in Records
  PROVE  /\ Searched(at, record) \in SearchStates
         /\ Searched(at, record).is = "passed" => ~Searched(at, record).seen
         /\ Searched(at, record).run \subseteq at.run \cup ({record} \cap HubCommand)
         /\ at.is = "on" /\ record \in HubCommand => record \in Searched(at, record).run
<1>1. CASE at.is # "on" \/ record = "ping"
  <2>1. Searched(at, record) = at
    BY <1>1 DEF Searched
  <2>2. "ping" \notin HubCommand
    BY HubSizes DEF HubRecord
  <2> QED BY <1>1, <2>1, <2>2
<1>2. CASE at.is = "on" /\ record = "challenge"
  BY <1>2, HubSizes DEF Searched, HubRecord, SearchStates
<1>3. CASE at.is = "on" /\ record = "accepted"
  BY <1>3, HubSizes DEF Searched, HubRecord, SearchStates
<1>4. CASE at.is = "on" /\ record \in {"refused", "close"}
  BY <1>4, HubSizes DEF Searched, HubRecord, SearchStates
<1>5. CASE at.is = "on" /\ record \notin {"ping", "challenge", "accepted", "refused", "close"}
  <2>1. Searched(at, record) = [at EXCEPT !.is = IF at.seen THEN "on" ELSE "passed",
                                          !.run = @ \cup ({record} \cap HubCommand)]
    BY <1>5 DEF Searched
  <2> QED BY <1>5, <2>1 DEF SearchStates
<1> QED BY <1>1, <1>2, <1>3, <1>4, <1>5

\* What a frame makes of it: an unasked-for challenge ends it, a command is launched.
LEMMA SearchOfFacts ==
  ASSUME NEW frame \in Frames
  PROVE  /\ SearchOf(frame) \in SearchStates
         /\ SearchOf(frame).is = "passed" => ~SearchOf(frame).seen
         /\ \A c \in SearchOf(frame).run : Contains(frame, c)
         /\ \A c \in HubCommand : frame = <<c>> => c \in SearchOf(frame).run
<1>1. Waiting \in SearchStates /\ Waiting.is = "on" /\ Waiting.run = {}
  BY DEF Waiting, SearchStates
<1>2. /\ frame \in Seq(Records) /\ Len(frame) \in {1, 2} /\ Head(frame) = frame[1]
      /\ frame[1] \in Records /\ Contains(frame, frame[1])
  BY DEF Frames, Contains
<1>3. Len(frame) = 2 => frame[2] \in Records /\ Contains(frame, frame[2])
  <2>1. ASSUME Len(frame) = 2 PROVE frame[2] \in Records /\ 2 \in 1..Len(frame)
    <3>1. 2 \in DOMAIN frame /\ DOMAIN frame = 1..Len(frame)
      BY <1>2, <2>1
    <3> QED BY <1>2, <3>1
  <2> QED BY <2>1 DEF Contains
<1> DEFINE first == Searched(Waiting, frame[1])
<1>4. /\ first \in SearchStates /\ (first.is = "passed" => ~first.seen)
      /\ first.run \subseteq {frame[1]} \cap HubCommand
      /\ frame[1] \in HubCommand => frame[1] \in first.run
  BY <1>1, <1>2, SearchedFacts
<1>5. SearchOf(frame) = IF Len(frame) = 1 THEN first ELSE Searched(first, frame[2])
  BY <1>2 DEF SearchOf
<1> HIDE DEF first
<1>6. CASE Len(frame) = 1
  <2>1. SearchOf(frame) = first
    BY <1>5, <1>6
  <2>2. \A c : frame = <<c>> => c = frame[1]
    OBVIOUS
  <2>3. \A c \in first.run : c = frame[1]
    BY <1>4
  <2> QED BY <1>2, <1>4, <2>1, <2>2, <2>3
<1>7. CASE Len(frame) = 2
  <2>1. /\ Searched(first, frame[2]) \in SearchStates
        /\ Searched(first, frame[2]).is = "passed" => ~Searched(first, frame[2]).seen
        /\ Searched(first, frame[2]).run \subseteq first.run \cup ({frame[2]} \cap HubCommand)
    BY <1>3, <1>4, <1>7, SearchedFacts
  <2>2. \A c : frame # <<c>>
    BY <1>7
  <2> QED BY <1>2, <1>3, <1>4, <1>5, <1>7, <2>1, <2>2
<1> QED BY <1>2, <1>6, <1>7

\* The search launches the commands it meets, and leaves a challenge unanswered only
\* where there was none.
LEMMA SearchInv ==
  ASSUME HubInv, Search
  PROVE  HubInv'
<1> DEFINE end == SearchOf(Head(unread))
<1>1. stage = "secure" /\ unread # <<>>
  BY DEF Search
<1>2. Head(unread) \in Frames
  BY <1>1, FramesType, TailFacts
<1>3. /\ end \in SearchStates /\ (end.is = "passed" => ~end.seen)
      /\ \A c \in end.run : Contains(Head(unread), c)
      /\ \A c \in HubCommand : Head(unread) = <<c>> => c \in end.run
  BY <1>2, SearchOfFacts
<1>4. CASE end.is = "failed"
  <2>1. NextTransport
    BY <1>4 DEF Search
  <2> QED BY <1>1, <2>1, NextTransportInv
<1>5. CASE end.is # "failed"
  <2>1. /\ stage' = IF end.is = "on" THEN "secure" ELSE "register"
        /\ challenge' = IF end.is = "accepted" THEN "accepted" ELSE IF end.seen THEN "seen" ELSE "none"
        /\ patience' = patience /\ unread' = Tail(unread) /\ Launch(end.run)
        /\ UNCHANGED <<inUse, round, observed, inbox, deaf, hub, alone>>
    BY <1>5 DEF Search, SameDeadline
  <2>2. end.run \in SUBSET HubCommand /\ end.is \in {"on", "accepted", "passed"}
    BY <1>3, <1>5 DEF SearchStates
  <2>3. stage' = "register" => challenge' # "seen"
    BY <1>3, <2>1, <2>2
  <2>4. inbox' = inbox /\ alone' = alone
    BY <2>1
  <2> HIDE DEF end
  <2>5. CommandInv' /\ launched' \in [HubCommand -> 0..2]
    BY <1>1, <1>3, <2>1, <2>2, <2>4, TakenInv
  <2>6. unread' \in Seq(Frames) /\ Len(unread') = Len(unread) - 1 /\ Len(unread) \in Nat
    BY <1>1, <2>1, ReadFacts, FramesType
  <2>7. HubTypeOK'
    <3>1. Len(unread') <= WireSize
      BY <2>6, HubSizes DEF HubInv, HubTypeOK
    <3>2. challenge' \in {"none", "seen", "accepted"} /\ stage' \in {"secure", "register"}
      BY <2>1
    <3> QED BY <2>1, <2>5, <2>6, <3>1, <3>2 DEF HubInv, HubTypeOK
  <2>8. RoundInv' /\ PinInv'
    BY <1>1, <2>1 DEF HubInv, RoundInv, PinInv, SettingsAreSafe, Transport
  <2>9. QuietInv' /\ HelloInv'
    <3>1. InHubSession /\ InHubSession'
      BY <1>1, <2>1 DEF HubInv, QuietInv, InHubSession, Transport
    <3> QED BY <1>1, <2>1, <2>3, <3>1 DEF HubInv, QuietInv, HelloInv
  <2> QED BY <2>5, <2>7, <2>8, <2>9 DEF HubInv
<1> QED BY <1>4, <1>5

\* The reader goroutine passes a frame on, and the session's loop handles it.
LEMMA PassOnInv ==
  ASSUME HubInv, NEW frame \in Frames \cup {ReadError},
         \/ frame = ReadError /\ unread' = unread
         \/ unread # <<>> /\ frame = Head(unread) /\ unread' = Tail(unread),
         inbox' = Append(inbox, frame), UNCHANGED <<alone, launched>>
  PROVE  CommandInv'
<1>1. /\ inbox \in Seq(Frames \cup {ReadError}) /\ Len(inbox) \in Nat
      /\ unread \in Seq(Frames) /\ Len(unread) \in Nat
  BY FramesType
<1>2. /\ Len(inbox') = Len(inbox) + 1
      /\ \A i \in 1..Len(inbox') : inbox'[i] = IF i \in 1..Len(inbox) THEN inbox[i] ELSE frame
      /\ Len(inbox) + 1 \in 1..Len(inbox') /\ Len(inbox) + 1 \notin 1..Len(inbox)
  BY <1>1, AppendFacts
<1>3. \A c \in HubCommand : ~Contains(ReadError, c)
  BY HubSizes DEF Contains, ReadError
<1>4. CASE frame = ReadError /\ unread' = unread
  <2>1. ASSUME NEW c \in HubCommand PROVE OnItsWayOnce(c)'
    BY <1>1, <1>2, <1>3, <1>4 DEF HubInv, CommandInv, OnItsWayOnce
  <2>2. ASSUME NEW c \in alone PROVE Heard(c)'
    <3>0. Heard(c)
      BY DEF HubInv, CommandInv
    <3>1. \A i \in 1..Len(inbox) : i \in 1..Len(inbox') /\ inbox'[i] = inbox[i]
      BY <1>1, <1>2
    <3> QED BY <1>4, <3>0, <3>1 DEF Heard
  <2> QED BY <2>1, <2>2 DEF HubInv, CommandInv
<1>5. CASE unread # <<>> /\ frame = Head(unread) /\ unread' = Tail(unread)
  <2>0. /\ frame = unread[1] /\ 1 \in 1..Len(unread) /\ Len(unread') = Len(unread) - 1
        /\ \A i \in 1..Len(unread') : i + 1 \in 1..Len(unread) /\ unread'[i] = unread[i + 1]
        /\ \A i \in 1..Len(unread) : i = 1 \/ (i - 1 \in 1..Len(unread') /\ unread'[i - 1] = unread[i])
    BY <1>5, ReadFacts
  <2>1. ASSUME NEW c \in HubCommand PROVE OnItsWayOnce(c)'
    <3>0. OnItsWayOnce(c)
      BY DEF HubInv, CommandInv
    <3>1. \A i, j \in 1..Len(unread') : Contains(unread'[i], c) /\ Contains(unread'[j], c) => i = j
      BY <1>1, <2>0, <3>0 DEF OnItsWayOnce
    <3>2. \A i, j \in 1..Len(inbox') : Contains(inbox'[i], c) /\ Contains(inbox'[j], c) => i = j
      BY <1>1, <1>2, <2>0, <3>0 DEF OnItsWayOnce
    <3>3. \A i \in 1..Len(unread'), j \in 1..Len(inbox') :
            ~(Contains(unread'[i], c) /\ Contains(inbox'[j], c))
      <4>1. SUFFICES ASSUME NEW i \in 1..Len(unread'), NEW j \in 1..Len(inbox'),
                            Contains(unread'[i], c), Contains(inbox'[j], c)
                     PROVE  FALSE
        OBVIOUS
      <4>2. i + 1 \in 1..Len(unread) /\ Contains(unread[i + 1], c) /\ i + 1 # 1
        BY <1>1, <2>0, <4>1
      <4>3. CASE j \in 1..Len(inbox)
        BY <1>2, <3>0, <4>1, <4>2, <4>3 DEF OnItsWayOnce
      <4>4. CASE j \notin 1..Len(inbox)
        BY <1>2, <2>0, <3>0, <4>1, <4>2, <4>4 DEF OnItsWayOnce
      <4> QED BY <4>3, <4>4
    <3>4. \A i \in 1..Len(unread') : Contains(unread'[i], c) => launched'[c] = 0
      BY <2>0, <3>0 DEF OnItsWayOnce
    <3>5. \A i \in 1..Len(inbox') : Contains(inbox'[i], c) => launched'[c] = 0
      BY <1>2, <2>0, <3>0 DEF OnItsWayOnce
    <3> QED BY <3>1, <3>2, <3>3, <3>4, <3>5 DEF OnItsWayOnce
  <2>2. ASSUME NEW c \in alone PROVE Heard(c)'
    <3>0. Heard(c)
      BY DEF HubInv, CommandInv
    <3>1. CASE frame = <<c>>
      BY <1>1, <1>2, <3>1 DEF Heard
    <3>2. CASE frame # <<c>>
      <4>1. CASE \E i \in 1..Len(unread) : unread[i] = <<c>>
        BY <2>0, <3>2, <4>1 DEF Heard
      <4>2. CASE \E i \in 1..Len(inbox) : inbox[i] = <<c>>
        BY <1>1, <1>2, <4>2 DEF Heard
      <4>3. CASE launched[c] = 1
        BY <4>3 DEF Heard
      <4> QED BY <3>0, <4>1, <4>2, <4>3 DEF Heard
    <3> QED BY <3>1, <3>2
  <2> QED BY <2>1, <2>2 DEF HubInv, CommandInv
<1> QED BY <1>4, <1>5

LEMMA ReadFrameInv ==
  ASSUME HubInv, ReadFrame
  PROVE  HubInv'
<1>1. /\ stage = "up" /\ Transport = "signalr" /\ Len(inbox) < InboxSize
      /\ UNCHANGED <<inUse, round, stage, observed, deaf, patience, challenge, hub, alone, launched>>
  BY DEF ReadFrame, HubIsUp
<1> DEFINE frame == IF deaf THEN ReadError ELSE Head(unread)
<1>2. /\ inbox' = Append(inbox, frame)
      /\ \/ frame = ReadError /\ unread' = unread
         \/ unread # <<>> /\ frame = Head(unread) /\ unread' = Tail(unread)
  BY DEF ReadFrame
<1>3. frame \in Frames \cup {ReadError}
  BY <1>2, FramesType, TailFacts
<1> HIDE DEF frame
<1>4. CommandInv'
  BY <1>1, <1>2, <1>3, PassOnInv
<1>5. HubTypeOK'
  <2>1. inbox' \in Seq(Frames \cup {ReadError}) /\ Len(inbox') = Len(inbox) + 1 /\ Len(inbox) \in Nat
    BY <1>2, <1>3, FramesType, AppendFacts
  <2>2. Len(inbox') <= InboxSize
    BY <1>1, <2>1, HubSizes
  <2>3. unread' \in Seq(Frames) /\ Len(unread') <= WireSize
    <3>1. CASE unread' = unread
      BY <3>1 DEF HubInv, HubTypeOK
    <3>2. CASE unread # <<>> /\ unread' = Tail(unread)
      <4>1. unread' \in Seq(Frames) /\ Len(unread') = Len(unread) - 1 /\ Len(unread) \in Nat
        BY <3>2, ReadFacts, FramesType
      <4>2. WireSize \in Nat /\ Len(unread) <= WireSize
        BY HubSizes DEF HubInv, HubTypeOK
      <4> QED BY <4>1, <4>2
    <3> QED BY <1>2, <3>1, <3>2
  <2> QED BY <1>1, <2>1, <2>2, <2>3 DEF HubInv, HubTypeOK
<1>6. RoundInv' /\ PinInv' /\ QuietInv' /\ HelloInv'
  <2>1. InHubSession'
    BY <1>1 DEF InHubSession, Transport
  <2> QED BY <1>1, <2>1 DEF HubInv, RoundInv, PinInv, QuietInv, HelloInv, SettingsAreSafe, Transport
<1> QED BY <1>4, <1>5, <1>6 DEF HubInv

\* The loop handles a frame: what it launches was in it, and a frame of one command is
\* launched.
LEMMA HandledFacts ==
  ASSUME NEW frame \in Frames
  PROVE  /\ Handled(frame) \in SUBSET HubCommand
         /\ \A c \in Handled(frame) : Contains(frame, c)
         /\ \A c \in HubCommand : frame = <<c>> => c \in Handled(frame)
<1>1. frame \in Seq(Records) /\ DOMAIN frame = 1..Len(frame)
  BY DEF Frames
<1>2. \A c \in Handled(frame) : Contains(frame, c)
  <2>1. SUFFICES ASSUME NEW c \in Handled(frame) PROVE Contains(frame, c)
    OBVIOUS
  <2>2. CASE Contains(frame, "close")
    BY <2>2 DEF Handled, Range
  <2>3. CASE ~Contains(frame, "close")
    <3>1. c \in Range(frame)
      BY <2>3 DEF Handled
    <3> QED BY <1>1, <3>1 DEF Range, Contains
  <2> QED BY <2>2, <2>3
<1>3. ASSUME NEW c \in HubCommand, frame = <<c>> PROVE c \in Handled(frame)
  <2>1. ~Contains(frame, "close")
    BY <1>3, HubSizes DEF Contains, HubRecord
  <2>2. 1 \in DOMAIN frame /\ frame[1] = c
    BY <1>3
  <2>3. c \in Range(frame)
    BY <2>2 DEF Range
  <2> QED BY <2>1, <2>3 DEF Handled
<1> QED BY <1>2, <1>3 DEF Handled

LEMMA HandleFrameInv ==
  ASSUME HubInv, HandleFrame
  PROVE  HubInv'
<1>0. stage = "up" /\ Transport = "signalr" /\ inbox # <<>>
  BY DEF HandleFrame, HubIsUp
<1>1. CASE Head(inbox) = ReadError
  BY <1>0, <1>1, NextTransportInv DEF HandleFrame
<1>2. CASE Head(inbox) # ReadError
  <2> DEFINE run == Handled(Head(inbox))
  <2>1. /\ Launch(run) /\ inbox' = Tail(inbox)
        /\ UNCHANGED <<inUse, round, stage, observed, unread, deaf, patience, challenge, hub, alone>>
    BY <1>2 DEF HandleFrame
  <2>2. inbox \in Seq(Frames \cup {ReadError}) /\ Len(inbox) \in Nat
    BY FramesType
  <2>3. /\ Head(inbox) \in Frames \cup {ReadError} /\ Head(inbox) = inbox[1] /\ 1 \in 1..Len(inbox)
        /\ inbox' \in Seq(Frames \cup {ReadError}) /\ Len(inbox') = Len(inbox) - 1
        /\ \A i \in 1..Len(inbox') : i + 1 \in 1..Len(inbox) /\ inbox'[i] = inbox[i + 1]
    BY <1>0, <2>1, <2>2, TailFacts
  <2>4. \A i \in 1..Len(inbox) : i = 1 \/ (i - 1 \in 1..Len(inbox') /\ inbox'[i - 1] = inbox[i])
    BY <2>2, <2>3
  <2>5. /\ run \in SUBSET HubCommand /\ \A c \in run : Contains(Head(inbox), c)
        /\ \A c \in HubCommand : Head(inbox) = <<c>> => c \in run
    BY <1>2, <2>3, HandledFacts
  <2> HIDE DEF run
  <2>6. launched \in [HubCommand -> 0..1] /\ alone \subseteq HubCommand
    BY DEF HubInv, CommandInv, HubTypeOK
  <2>7. \A c \in HubCommand : launched'[c] = launched[c] + (IF c \in run THEN 1 ELSE 0)
    BY <2>1 DEF Launch
  <2>8. \A c \in run : launched[c] = 0
    BY <2>3, <2>5 DEF HubInv, CommandInv, OnItsWayOnce
  <2>9. launched' \in [HubCommand -> 0..1]
    BY <2>1, <2>6, <2>8 DEF Launch
  <2>10. ASSUME NEW c \in HubCommand PROVE OnItsWayOnce(c)'
    <3>0. OnItsWayOnce(c)
      BY DEF HubInv, CommandInv
    <3>1. CASE c \in run
      <4>1. \A i \in 1..Len(unread') : ~Contains(unread'[i], c)
        BY <2>1, <2>3, <2>5, <3>0, <3>1 DEF OnItsWayOnce
      <4>2. \A i \in 1..Len(inbox') : ~Contains(inbox'[i], c)
        BY <2>2, <2>3, <2>5, <3>0, <3>1 DEF OnItsWayOnce
      <4> QED BY <4>1, <4>2 DEF OnItsWayOnce
    <3>2. CASE c \notin run
      <4>1. launched'[c] = launched[c]
        BY <2>6, <2>7, <3>2
      <4> QED BY <2>1, <2>2, <2>3, <3>0, <4>1 DEF OnItsWayOnce
    <3> QED BY <3>1, <3>2
  <2>11. ASSUME NEW c \in alone PROVE Heard(c)'
    <3>0. Heard(c) /\ c \in HubCommand
      BY <2>6 DEF HubInv, CommandInv
    <3>1. CASE Head(inbox) = <<c>>
      BY <2>5, <2>7, <2>8, <3>0, <3>1 DEF Heard
    <3>2. CASE Head(inbox) # <<c>> /\ \E i \in 1..Len(inbox) : inbox[i] = <<c>>
      BY <2>3, <2>4, <3>2 DEF Heard
    <3>3. CASE \E i \in 1..Len(unread) : unread[i] = <<c>>
      BY <2>1, <3>3 DEF Heard
    <3>4. CASE launched[c] = 1
      <4>1. c \notin run
        BY <2>8, <3>4
      <4> QED BY <2>6, <2>7, <3>0, <3>4, <4>1 DEF Heard
    <3> QED BY <3>0, <3>1, <3>2, <3>3, <3>4 DEF Heard
  <2>12. HubTypeOK'
    <3>1. Len(inbox') <= InboxSize
      BY <2>2, <2>3, HubSizes DEF HubInv, HubTypeOK
    <3>2. launched' \in [HubCommand -> 0..2]
      BY <2>9
    <3> QED BY <2>1, <2>3, <3>1, <3>2 DEF HubInv, HubTypeOK
  <2>13. RoundInv' /\ PinInv' /\ QuietInv' /\ HelloInv'
    <3>1. InHubSession'
      BY <1>0, <2>1 DEF InHubSession, Transport
    <3> QED BY <1>0, <2>1, <3>1
            DEF HubInv, RoundInv, PinInv, QuietInv, HelloInv, SettingsAreSafe, Transport
  <2> QED BY <2>1, <2>9, <2>10, <2>11, <2>12, <2>13 DEF HubInv, CommandInv
<1> QED BY <1>1, <1>2

-----------------------------------------------------------------------------
\* Every step keeps the invariant.
LEMMA HubStep == HubInv /\ [NextHub]_hubVars => HubInv'
<1> SUFFICES ASSUME HubInv, [NextHub]_hubVars PROVE HubInv'
  OBVIOUS
<1>1. ASSUME NEW s \in Settings, BeginRound(s) PROVE HubInv'
  BY <1>1, BeginRoundInv
<1>2. ASSUME NEW seen \in Certificate, Observe(seen) PROVE HubInv'
  BY <1>2, ObserveInv
<1>3. CASE AttemptIsOver
  BY <1>3, NextTransportInv DEF AttemptIsOver
<1>4. CASE NatsComesUp \/ HubConnects
  BY <1>4, ConnectsInv
<1>5. CASE NatsEnds
  BY <1>5, NextTransportInv DEF NatsEnds
<1>6. ASSUME NEW record \in Records, HubSays(record) PROVE HubInv'
  BY <1>6, HubSaysInv
<1>7. ASSUME NEW record \in Records, NEW c \in HubCommand, HubSaysBoth(record, c) PROVE HubInv'
  BY <1>7, HubSaysBothInv
<1>8. CASE HubGone \/ TimePasses \/ DeadlineIsUp
  BY <1>8, SilenceInv
<1>9. CASE ReadAck
  BY <1>9, ReadAckInv
<1>10. CASE Search
  BY <1>10, SearchInv
<1>11. CASE HandshakeBreaks
  BY <1>11, NextTransportInv DEF HandshakeBreaks
<1>12. CASE Register
  BY <1>12, RegisterInv
<1>13. CASE RegisterFails
  BY <1>13, NextTransportInv DEF RegisterFails
<1>14. CASE ReadFrame
  BY <1>14, ReadFrameInv
<1>15. CASE HandleFrame
  BY <1>15, HandleFrameInv
<1>16. CASE HeartbeatFails
  BY <1>16, NextTransportInv DEF HeartbeatFails, HubIsUp
<1>17. CASE UNCHANGED hubVars
  <2>1. UNCHANGED <<inUse, round, stage, observed, unread, inbox, deaf, patience, challenge, hub, alone,
                    launched>>
    BY <1>17 DEF hubVars, linkVars
  <2>2. HubTypeOK'
    BY <2>1 DEF HubInv, HubTypeOK
  <2>3. RoundInv' /\ PinInv' /\ QuietInv' /\ HelloInv'
    BY <2>1 DEF HubInv, RoundInv, PinInv, QuietInv, HelloInv, SettingsAreSafe, Transport, InHubSession
  <2>4. CommandInv'
    BY <2>1 DEF HubInv, CommandInv, OnItsWayOnce, Heard
  <2> QED BY <2>2, <2>3, <2>4 DEF HubInv
<1> QED BY <1>1, <1>2, <1>3, <1>4, <1>5, <1>6, <1>7, <1>8, <1>9, <1>10, <1>11, <1>12, <1>13, <1>14,
           <1>15, <1>16, <1>17 DEF NextHub, AgentReads

\* The inductive invariant, whatever the settings, the hub and the network do.
THEOREM HubInvariant == HubMoves => []HubInv
BY InitHubInv, HubStep, PTL DEF HubMoves

\* Whatever the settings and the hub, every variable keeps its type.
THEOREM HubTypes == HubMoves => []HubTypeOK
<1>1. HubInv => HubTypeOK
  BY DEF HubInv
<1> QED BY <1>1, HubInvariant, PTL

\* A session runs only with a server that is reached by TLS or is local, whose
\* certificate was judged where pins are enforced; and one that challenged has accepted
\* before the agent registers.
THEOREM HubTrust == HubMoves => []SessionsAreTrusted
<1>1. HubInv => SessionsAreTrusted
  <2> SUFFICES ASSUME HubInv, stage \in {"dial", "hello", "secure", "register", "up"}
               PROVE  /\ TransportIsSafe(ServerOf(inUse, Transport))
                      /\ (inUse.enforce /\ ServerOf(inUse, Transport).by = "tls") =>
                            PinOf(inUse, Transport) # "none" /\ observed = PinOf(inUse, Transport)
                      /\ stage \in {"register", "up"} => challenge # "seen"
    BY DEF SessionsAreTrusted
  <2>1. round \in Seq(TransportNames) /\ round # <<>> /\ SettingsAreSafe(inUse)
    BY DEF HubInv, RoundInv
  <2>2. Transport \in TransportNames
    BY <2>1, TailFacts DEF Transport
  <2>3. ServerOf(inUse, Transport) \in {inUse.api, inUse.nats, inUse.wss}
    BY <2>2 DEF ServerOf, TransportNames
  <2>4. TransportIsSafe(ServerOf(inUse, Transport))
    BY <2>1, <2>3 DEF SettingsAreSafe
  <2> QED BY <2>4 DEF HubInv, PinInv, QuietInv, PinAllows
<1> QED BY <1>1, HubInvariant, PTL

\* A command in a frame of its own is launched, and once, in the search for the handshake
\* or by the session's loop.
THEOREM HubHears == HubMoves => []CommandsAreHeard
<1>1. HubInv => CommandsAreHeard
  <2> SUFFICES ASSUME HubInv, NEW c \in alone, <<c>> \notin Range(unread \o inbox)
               PROVE  launched[c] = 1
    BY DEF CommandsAreHeard
  <2>1. Heard(c)
    BY DEF HubInv, CommandInv
  <2>2. /\ \A i \in 1..Len(unread) : unread[i] \in Range(unread \o inbox)
        /\ \A i \in 1..Len(inbox) : inbox[i] \in Range(unread \o inbox)
    BY FramesType, RangeOfBoth
  <2> QED BY <2>1, <2>2 DEF Heard
<1> QED BY <1>1, HubInvariant, PTL

-----------------------------------------------------------------------------
(* PackageInstall.                                                         *)

Job == [at: {"idle", "authorize", "running", "success", "failure"},
        task: PackageTask, op: Operation, tool: Tool, code: Code \cup {"refused"},
        fellBack: BOOLEAN, met: BOOLEAN]

\* The operation is one of those the task asks for, and a peer's installer only installs.
Fits(j) ==
    /\ j.op = "install" => j.task.action \in {"install", "both"}
    /\ j.op = "upgrade" => j.task.action \in {"update", "both"}
    /\ j.op = "uninstall" => j.task.action = "remove"
    /\ j.tool = "p2p" => j.op = "install"

\* What OutcomesAreHonest says of one process.
Honest(j) ==
    /\ j.at = "success" =>
         \/ j.met
         \/ j.tool \in {"psadt", "msi"} /\
               ((j.code = "ignorable" /\ psadtPolicy.ignores)
                  \/ (j.code = "timeout" /\ psadtPolicy.timeout = "ignore"))
    /\ (j.at = "failure" /\ j.met) =>
         \/ j.code \in {"refused", "busy", "denied", "ignorable", "script", "fatal",
                        "other", "timeout"}
         \/ j.code = "missing" /\ j.task.action = "remove"
         \/ j.code = "noop" /\ j.tool = "psadt"
         \/ j.code = "reboot" /\ j.tool = "choco"

\* What an exit code of a tool that met no trouble says of the machine.
CodeIsTrue(j) ==
    /\ j.code = "ok" => j.met
    /\ j.code = "reboot" => j.met /\ j.tool # "winget"
    /\ j.code = "noop" => j.met /\ j.tool \in {"winget", "psadt"} /\ j.op # "uninstall"
    /\ j.code = "missing" => j.op = "uninstall" \/ ~j.met

PackagesInv == PackageTypeOK /\ \A e \in Executor : Fits(job[e]) /\ Honest(job[e])

LEMMA PackageJobs ==
  ASSUME PackageTypeOK
  PROVE  job \in [Executor -> Job] /\ \A e \in Executor : job[e] \in Job
BY DEF PackageTypeOK, Job

\* A job of a process is replaced; the others stay.
LEMMA JobStep ==
  ASSUME PackagesInv, NEW e \in Executor, NEW j \in Job, Fits(j), Honest(j),
         job' = [job EXCEPT ![e] = j], psadtPolicy' = psadtPolicy, p2pInstalls' = p2pInstalls,
         package' \in {"absent", "old", "current"}, strays' \subseteq Operation,
         toolUsed' \in [faults: 0..MaxToolFaults, releases: 0..MaxReleases]
  PROVE  PackagesInv'
<1>1. job \in [Executor -> Job]
  BY PackageJobs DEF PackagesInv
<1>2. job' \in [Executor -> Job] /\ job'[e] = j /\ \A f \in Executor : f # e => job'[f] = job[f]
  BY <1>1
<1>3. PackageTypeOK'
  BY <1>2 DEF PackagesInv, PackageTypeOK, Job
<1>4. ASSUME NEW f \in Executor PROVE Fits(job[f])' /\ Honest(job[f])'
  <2>1. CASE f = e
    BY <1>2, <2>1 DEF Fits, Honest
  <2>2. CASE f # e
    BY <1>2, <2>2 DEF PackagesInv, Fits, Honest
  <2> QED BY <2>1, <2>2
<1> QED BY <1>3, <1>4 DEF PackagesInv

LEMMA PackageInit == InitPackages => PackagesInv
<1> SUFFICES ASSUME InitPackages PROVE PackagesInv
  OBVIOUS
<1>1. NoJob \in Job /\ Fits(NoJob) /\ Honest(NoJob)
  BY DEF NoJob, Job, PackageTask, Operation, Tool, Code, Fits, Honest
<1>2. job = [e \in Executor |-> NoJob] /\ job \in [Executor -> Job]
  BY <1>1 DEF InitPackages
<1>3. toolUsed \in [faults: 0..MaxToolFaults, releases: 0..MaxReleases]
  BY PackageInstallAssumption DEF InitPackages, PackageInstallAssumption
<1>4. PackageTypeOK
  BY <1>2, <1>3 DEF InitPackages, PackageTypeOK, Job
<1> QED BY <1>1, <1>2, <1>4 DEF PackagesInv

LEMMA TriedJob ==
  ASSUME NEW j \in Job, NEW tool \in Tool, Fits(j), tool = "p2p" => j.op = "install"
  PROVE  /\ Tried(j, tool) \in Job /\ Fits(Tried(j, tool)) /\ Honest(Tried(j, tool))
         /\ [Tried(j, tool) EXCEPT !.fellBack = TRUE] \in Job
         /\ Fits([Tried(j, tool) EXCEPT !.fellBack = TRUE])
         /\ Honest([Tried(j, tool) EXCEPT !.fellBack = TRUE])
BY DEF Tried, Job, Fits, Honest, Code

\* A job that may fail with its code, fails, or goes on with the install.
LEMMA FailedJob ==
  ASSUME NEW j \in Job, Fits(j), Honest([j EXCEPT !.at = "failure"])
  PROVE  Failed(j) \in Job /\ Fits(Failed(j)) /\ Honest(Failed(j))
<1>1. CASE j.task.action = "both" /\ j.op = "upgrade"
  <2>1. Failed(j) = [NoJob EXCEPT !.at = "authorize", !.task = j.task, !.op = "install"]
    BY <1>1 DEF Failed
  <2>2. NoJob \in Job
    BY DEF NoJob, Job, PackageTask, Operation, Tool, Code
  <2>3. Failed(j) \in Job /\ Failed(j).at = "authorize" /\ Failed(j).op = "install"
        /\ Failed(j).task = j.task
    BY <2>1, <2>2 DEF Job, Operation
  <2> QED BY <1>1, <2>3 DEF Fits, Honest
<1>2. CASE ~(j.task.action = "both" /\ j.op = "upgrade")
  <2>1. Failed(j) = [j EXCEPT !.at = "failure"]
    BY <1>2 DEF Failed
  <2> QED BY <2>1 DEF Job, Fits
<1> QED BY <1>1, <1>2

\* After a tool's end the job is done, has failed or goes on, and says so honestly.
LEMMA AfterJob ==
  ASSUME PackageTypeOK, NEW j \in Job, j.at = "running", j.code \in Code, Fits(j), CodeIsTrue(j)
  PROVE  After(j) \in Job /\ Fits(After(j)) /\ Honest(After(j))
<1>1. /\ Succeeded(j) \in Job /\ Fits(Succeeded(j))
      /\ [j EXCEPT !.at = "failure"] \in Job
      /\ Honest(Succeeded(j)) <=>
           \/ j.met
           \/ j.tool \in {"psadt", "msi"} /\
                 ((j.code = "ignorable" /\ psadtPolicy.ignores)
                    \/ (j.code = "timeout" /\ psadtPolicy.timeout = "ignore"))
  BY DEF Succeeded, Job, Fits, Honest
<1>2. Honest([j EXCEPT !.at = "failure"]) <=>
        (j.met =>
           \/ j.code \in {"refused", "busy", "denied", "ignorable", "script", "fatal", "other", "timeout"}
           \/ j.code = "missing" /\ j.task.action = "remove"
           \/ j.code = "noop" /\ j.tool = "psadt"
           \/ j.code = "reboot" /\ j.tool = "choco")
  BY DEF Job, Honest
<1>3. j.code = "missing" /\ j.met => j.task.action = "remove"
  BY DEF CodeIsTrue, Fits
<1>4. CASE j.tool = "p2p"
  <2>1. After(j) = AfterP2P(j)
    BY <1>4 DEF After
  <2>2. CASE j.code = "ok"
    BY <1>1, <2>1, <2>2 DEF AfterP2P, ProcessSucceeds, CodeIsTrue
  <2>3. CASE j.code # "ok"
    <3>1. After(j) = Tried(j, "winget") /\ "winget" \in Tool
      BY <2>1, <2>3 DEF AfterP2P, ProcessSucceeds, Tool
    <3> QED BY <3>1, TriedJob
  <2> QED BY <2>2, <2>3
<1>5. CASE j.tool = "winget"
  <2>1. After(j) = AfterWinget(j)
    BY <1>5 DEF After
  <2>2. CASE WingetSucceeds(j.code, j.op)
    BY <1>1, <2>1, <2>2 DEF AfterWinget, WingetSucceeds, CodeIsTrue
  <2>3. CASE ~WingetSucceeds(j.code, j.op) /\ j.fellBack
    <3>1. After(j) = Tried(j, "choco") /\ "choco" \in Tool
      BY <2>1, <2>3 DEF AfterWinget, Tool
    <3> QED BY <3>1, TriedJob
  <2>4. CASE ~WingetSucceeds(j.code, j.op) /\ ~j.fellBack
    <3>1. After(j) = Failed(j)
      BY <2>1, <2>4 DEF AfterWinget
    <3>2. j.code \in {"refused", "busy", "denied", "ignorable", "script", "fatal", "other", "timeout", "missing"}
      BY <1>5, <2>4 DEF WingetSucceeds, CodeIsTrue, Code
    <3> QED BY <1>2, <1>3, <3>1, <3>2, FailedJob
  <2> QED BY <2>2, <2>3, <2>4
<1>6. CASE j.tool = "choco"
  <2>1. After(j) = AfterChocolatey(j)
    BY <1>6 DEF After
  <2>2. CASE j.code = "ok"
    BY <1>1, <2>1, <2>2 DEF AfterChocolatey, ProcessSucceeds, CodeIsTrue
  <2>3. CASE j.code # "ok"
    <3>1. After(j) = Failed(j)
      BY <2>1, <2>3 DEF AfterChocolatey, ProcessSucceeds
    <3>2. j.code \in {"refused", "busy", "denied", "ignorable", "script", "fatal", "other", "timeout", "missing", "reboot"}
      BY <1>6, <2>3 DEF CodeIsTrue, Code
    <3> QED BY <1>2, <1>3, <1>6, <3>1, <3>2, FailedJob
  <2> QED BY <2>2, <2>3
<1>7. CASE j.tool \in {"psadt", "msi"}
  <2>1. After(j) = AfterPSADT(j)
    BY <1>7 DEF After
  <2>2. CASE Category(j.code) = "success"
    <3>1. After(j) = Succeeded(j)
      BY <2>1, <2>2 DEF AfterPSADT
    <3>2. \/ j.code \in {"ok", "reboot"}
          \/ j.code = "ignorable" /\ psadtPolicy.ignores
          \/ j.code = "timeout" /\ psadtPolicy.timeout = "ignore"
      BY <2>2 DEF Category, Code
    <3> QED BY <1>1, <1>7, <3>1, <3>2 DEF CodeIsTrue
  <2>3. CASE Category(j.code) = "recoverable" /\ psadtPolicy.fallback /\ j.tool = "psadt"
    <3>1. After(j) = [Tried(j, ByWinget(j.op)) EXCEPT !.fellBack = TRUE]
      BY <2>1, <2>3 DEF AfterPSADT
    <3>2. ByWinget(j.op) \in Tool /\ (ByWinget(j.op) = "p2p" => j.op = "install")
      BY DEF ByWinget, Tool
    <3> QED BY <3>1, <3>2, TriedJob
  <2>4. CASE /\ Category(j.code) # "success"
             /\ ~(Category(j.code) = "recoverable" /\ psadtPolicy.fallback /\ j.tool = "psadt")
    <3>1. After(j) = Failed(j)
      BY <2>1, <2>4 DEF AfterPSADT
    <3>2. /\ j.code \in {"refused", "busy", "denied", "ignorable", "script", "fatal", "other", "timeout", "missing", "noop"}
          /\ j.code = "noop" => j.tool = "psadt"
      BY <1>7, <2>4 DEF Category, Code, CodeIsTrue
    <3> QED BY <1>2, <1>3, <3>1, <3>2, FailedJob
  <2> QED BY <2>2, <2>3, <2>4
<1> QED BY <1>4, <1>5, <1>6, <1>7 DEF Job, Tool

Ending(e, code, p) == [job[e] EXCEPT !.code = code, !.met = Goal(job[e].task, p)]

\* A tool ends with a code that is true of the machine.
LEMMA EndedStep ==
  ASSUME PackagesInv, NEW e \in Executor, NEW code \in Code, NEW p, job[e].at = "running",
         Ended(e, code, p), CodeIsTrue(Ending(e, code, p))
  PROVE  \E j \in Job : Fits(j) /\ Honest(j) /\ job' = [job EXCEPT ![e] = j]
<1>1. job[e] \in Job /\ job \in [Executor -> Job] /\ Fits(job[e])
  BY PackageJobs DEF PackagesInv
<1>2. Goal(job[e].task, p) \in BOOLEAN
  BY DEF Goal
<1>3. /\ Ending(e, code, p) \in Job /\ Ending(e, code, p).at = "running"
      /\ Ending(e, code, p).code = code /\ Fits(Ending(e, code, p))
  BY <1>1, <1>2 DEF Ending, Job, Fits
<1>4. /\ After(Ending(e, code, p)) \in Job /\ Fits(After(Ending(e, code, p)))
      /\ Honest(After(Ending(e, code, p)))
  BY <1>3, AfterJob DEF PackagesInv
<1>5. job' = [job EXCEPT ![e] = After(Ending(e, code, p))]
  BY <1>1 DEF Ended, Ending
<1> QED BY <1>4, <1>5

\* What the fields of a tool's end are.
LEMMA EndingFields ==
  ASSUME PackagesInv, NEW e \in Executor, NEW code \in Code, NEW p
  PROVE  /\ Ending(e, code, p).code = code /\ Ending(e, code, p).met = Goal(job[e].task, p)
         /\ Ending(e, code, p).tool = job[e].tool /\ Ending(e, code, p).op = job[e].op
         /\ job[e].op \in Operation /\ job[e].tool \in Tool /\ Fits(job[e])
         /\ Goal(job[e].task, p) \in BOOLEAN
<1>1. job[e] \in Job /\ Fits(job[e])
  BY PackageJobs DEF PackagesInv
<1>2. Goal(job[e].task, p) \in BOOLEAN
  BY DEF Goal
<1> QED BY <1>1, <1>2 DEF Ending, Job

\* A tool that meets no trouble tells the truth: the machine it leaves is the one its code
\* speaks of.
LEMMA OrderlyEnd ==
  ASSUME PackagesInv, NEW e \in Executor, NEW code \in Orderly(job[e].tool, job[e].op),
         NEW p \in IF code \in {"ok", "reboot"} THEN Results(job[e].tool, job[e].op) ELSE {package}
  PROVE  code \in Code /\ CodeIsTrue(Ending(e, code, p)) /\ p \in {"absent", "old", "current"}
<1>1. code \in {"ok", "reboot", "noop", "missing"}
  BY DEF Orderly
<1>2. /\ job[e].op \in Operation /\ job[e].tool \in Tool /\ Fits(job[e])
      /\ package \in {"absent", "old", "current"}
  BY EndingFields DEF PackagesInv, PackageTypeOK, Code
<1>3. p \in {"absent", "old", "current"}
  BY <1>2 DEF Results
<1>4. CASE code \in {"ok", "reboot"}
  <2>1. p \in Results(job[e].tool, job[e].op)
    BY <1>4
  <2>2. Goal(job[e].task, p)
    <3>1. CASE job[e].op = "uninstall"
      BY <1>2, <2>1, <3>1 DEF Results, Fits, Goal
    <3>2. CASE job[e].op = "install"
      BY <1>2, <2>1, <3>2 DEF Results, Fits, Goal
    <3>3. CASE job[e].op = "upgrade"
      BY <1>2, <2>1, <3>3 DEF Results, Fits, Goal
    <3> QED BY <1>2, <3>1, <3>2, <3>3 DEF Operation
  <2>3. code = "reboot" => job[e].tool # "winget"
    BY DEF Orderly
  <2> QED BY <1>3, <1>4, <2>2, <2>3, EndingFields DEF CodeIsTrue, Code
<1>5. CASE code = "noop"
  <2>1. p = package /\ package = "current" /\ job[e].op # "uninstall" /\ job[e].tool \in {"winget", "psadt"}
    BY <1>5 DEF Orderly
  <2>2. Goal(job[e].task, p)
    BY <1>2, <2>1 DEF Goal, Fits, Operation
  <2> QED BY <1>3, <1>5, <2>1, <2>2, EndingFields DEF CodeIsTrue, Code
<1>6. CASE code = "missing"
  <2>1. p = package /\ package = "absent" /\ job[e].op \in {"uninstall", "upgrade"}
    BY <1>6 DEF Orderly
  <2>2. job[e].op = "upgrade" => ~Goal(job[e].task, p)
    BY <1>2, <2>1 DEF Goal, Fits
  <2> QED BY <1>3, <1>6, <2>1, <2>2, EndingFields DEF CodeIsTrue, Code
<1> QED BY <1>1, <1>4, <1>5, <1>6

\* What the tools do.
LEMMA ToolSteps ==
  ASSUME PackagesInv, NEW e \in Executor,
         \/ ToolIsMissing(e) \/ ToolFindsBusy(e)
         \/ \E code \in Code : ToolEnds(e, code) \/ ToolFails(e, code)
         \/ \E goesOn \in BOOLEAN : ToolIsKilled(e, goesOn)
  PROVE  PackagesInv'
<1>0. /\ package \in {"absent", "old", "current"} /\ strays \subseteq Operation
      /\ toolUsed \in [faults: 0..MaxToolFaults, releases: 0..MaxReleases]
      /\ job[e].op \in Operation /\ MaxToolFaults \in Nat /\ MaxReleases \in Nat
  BY PackageJobs, PackageInstallAssumption DEF PackagesInv, PackageTypeOK, Job, PackageInstallAssumption
<1>1. ToolFault => toolUsed' \in [faults: 0..MaxToolFaults, releases: 0..MaxReleases]
  BY <1>0 DEF ToolFault
<1>2. PICK code \in Code, p \in {"absent", "old", "current"} :
          /\ job[e].at = "running" /\ Ended(e, code, p) /\ package' = p
          /\ CodeIsTrue(Ending(e, code, p))
          /\ psadtPolicy' = psadtPolicy /\ p2pInstalls' = p2pInstalls
          /\ strays' \subseteq Operation
          /\ toolUsed' \in [faults: 0..MaxToolFaults, releases: 0..MaxReleases]
  <2>1. ASSUME NEW code \in {"busy", "denied", "ignorable", "script", "fatal", "other", "timeout"}
        PROVE  code \in Code /\ CodeIsTrue(Ending(e, code, package))
    <3>1. code \in Code
      BY DEF Code
    <3> QED BY <3>1, EndingFields DEF CodeIsTrue
  <2>2. CASE ToolIsMissing(e)
    BY <1>0, <2>1, <2>2 DEF ToolIsMissing
  <2>3. CASE ToolFindsBusy(e)
    BY <1>0, <2>1, <2>3 DEF ToolFindsBusy
  <2>4. ASSUME NEW code \in Code, ToolEnds(e, code)
        PROVE  /\ job[e].at = "running" /\ Ended(e, code, package')
               /\ code \in Code /\ CodeIsTrue(Ending(e, code, package'))
               /\ package' \in {"absent", "old", "current"}
               /\ psadtPolicy' = psadtPolicy /\ p2pInstalls' = p2pInstalls
               /\ strays' \subseteq Operation
               /\ toolUsed' \in [faults: 0..MaxToolFaults, releases: 0..MaxReleases]
    BY <1>0, <2>4, OrderlyEnd DEF ToolEnds
  <2>5. ASSUME NEW code \in Code, ToolFails(e, code)
        PROVE  /\ job[e].at = "running" /\ Ended(e, code, package) /\ package' = package
               /\ CodeIsTrue(Ending(e, code, package))
               /\ psadtPolicy' = psadtPolicy /\ p2pInstalls' = p2pInstalls
               /\ strays' \subseteq Operation
               /\ toolUsed' \in [faults: 0..MaxToolFaults, releases: 0..MaxReleases]
    BY <1>0, <1>1, <2>1, <2>5 DEF ToolFails
  <2>6. ASSUME NEW goesOn \in BOOLEAN, ToolIsKilled(e, goesOn)
        PROVE  /\ job[e].at = "running" /\ Ended(e, "timeout", package) /\ package' = package
               /\ CodeIsTrue(Ending(e, "timeout", package)) /\ "timeout" \in Code
               /\ psadtPolicy' = psadtPolicy /\ p2pInstalls' = p2pInstalls
               /\ strays' \subseteq Operation
               /\ toolUsed' \in [faults: 0..MaxToolFaults, releases: 0..MaxReleases]
    BY <1>0, <1>1, <2>1, <2>6 DEF ToolIsKilled
  <2> QED BY <1>0, <2>2, <2>3, <2>4, <2>5, <2>6
<1>3. PICK j \in Job : Fits(j) /\ Honest(j) /\ job' = [job EXCEPT ![e] = j]
  BY <1>2, EndedStep
<1> QED BY <1>2, <1>3, JobStep

\* What the executor does between the tools.
LEMMA TaskSteps ==
  ASSUME PackagesInv, NEW e \in Executor,
         \/ \E task \in PackageTasks : BeginTask(e, task)
         \/ Authorize(e) \/ NotAuthorized(e)
  PROVE  PackagesInv'
<1>0. /\ job \in [Executor -> Job] /\ job[e] \in Job /\ Fits(job[e])
      /\ package \in {"absent", "old", "current"} /\ strays \subseteq Operation
      /\ toolUsed \in [faults: 0..MaxToolFaults, releases: 0..MaxReleases]
  BY PackageJobs DEF PackagesInv, PackageTypeOK
<1>1. /\ package' = package /\ strays' = strays /\ psadtPolicy' = psadtPolicy
      /\ p2pInstalls' = p2pInstalls /\ toolUsed' = toolUsed
  BY DEF BeginTask, Authorize, NotAuthorized
<1>2. ASSUME NEW task \in PackageTasks, BeginTask(e, task)
      PROVE  \E j \in Job : Fits(j) /\ Honest(j) /\ job' = [job EXCEPT ![e] = j]
  <2> DEFINE j == [NoJob EXCEPT !.at = IF task.approval THEN "failure" ELSE "authorize",
                                !.task = task, !.op = FirstOperation(task.action),
                                !.code = IF task.approval THEN "refused" ELSE "ok"]
  <2>1. task \in PackageTask
    BY PackageInstallAssumption DEF PackageInstallAssumption
  <2>2. NoJob \in Job /\ NoJob.tool = "winget"
    BY DEF NoJob, Job, PackageTask, Operation, Tool, Code
  <2>3. /\ FirstOperation(task.action) \in Operation
        /\ FirstOperation(task.action) = "install" => task.action = "install"
        /\ FirstOperation(task.action) = "uninstall" => task.action = "remove"
        /\ FirstOperation(task.action) = "upgrade" => task.action \in {"update", "both"}
    BY <2>1 DEF FirstOperation, Operation, PackageTask
  <2>4. j \in Job /\ Fits(j) /\ Honest(j)
    BY <2>1, <2>2, <2>3 DEF Job, Code, Fits, Honest
  <2> QED BY <1>2, <2>4 DEF BeginTask
<1>3. CASE Authorize(e)
  <2>1. job' = [job EXCEPT ![e] = Tried(job[e], FirstTool(job[e].task.by, job[e].op))]
    BY <1>0, <1>3 DEF Authorize
  <2>2. job[e].task.by \in {"winget", "choco", "psadt", "msi"}
    BY <1>0 DEF Job, PackageTask
  <2>3. /\ FirstTool(job[e].task.by, job[e].op) \in Tool
        /\ FirstTool(job[e].task.by, job[e].op) = "p2p" => job[e].op = "install"
    BY <2>2 DEF FirstTool, ByWinget, Tool
  <2> QED BY <1>0, <1>1, <2>1, <2>3, TriedJob, JobStep
<1>4. CASE NotAuthorized(e)
  <2> DEFINE k == [job[e] EXCEPT !.code = "refused"]
  <2>1. job' = [job EXCEPT ![e] = Failed(k)]
    BY <1>0, <1>4 DEF NotAuthorized
  <2>2. k \in Job /\ Fits(k) /\ Honest([k EXCEPT !.at = "failure"])
    BY <1>0 DEF Job, Fits, Honest
  <2>3. Failed(k) \in Job /\ Fits(Failed(k)) /\ Honest(Failed(k))
    BY <2>2, FailedJob
  <2> QED BY <1>0, <1>1, <2>1, <2>3, JobStep
<1> QED BY <1>0, <1>1, <1>2, <1>3, <1>4, JobStep

\* The machine changes without the executor: no job does.
LEMMA MachineSteps ==
  ASSUME PackagesInv, Release \/ (\E op \in Operation : StrayEnds(op)) \/ UNCHANGED packageVars
  PROVE  PackagesInv'
<1>1. /\ job' = job /\ psadtPolicy' = psadtPolicy /\ p2pInstalls' = p2pInstalls
      /\ strays' \subseteq strays
  BY DEF Release, StrayEnds, packageVars
<1>2. package' \in {"absent", "old", "current"}
  BY DEF PackagesInv, PackageTypeOK, Release, StrayEnds, packageVars
<1>3. toolUsed' \in [faults: 0..MaxToolFaults, releases: 0..MaxReleases]
  BY PackageInstallAssumption
     DEF PackagesInv, PackageTypeOK, Release, StrayEnds, packageVars, PackageInstallAssumption
<1>4. PackageTypeOK'
  BY <1>1, <1>2, <1>3 DEF PackagesInv, PackageTypeOK
<1>5. \A e \in Executor : Fits(job[e])' /\ Honest(job[e])'
  BY <1>1 DEF PackagesInv, Fits, Honest
<1> QED BY <1>4, <1>5 DEF PackagesInv

LEMMA PackagesNext == PackagesInv /\ [NextPackages]_packageVars => PackagesInv'
BY ToolSteps, TaskSteps, MachineSteps DEF NextPackages

\* The inductive invariant of the package tasks.
THEOREM PackagesInvariant == PackagesSpec => []PackagesInv
<1> QED BY PackageInit, PackagesNext, PTL DEF PackagesSpec

\* A package task is reported completed or failed of a machine that is as the report says,
\* but for the codes that are read otherwise.
THEOREM PackageReportsAreHonest == PackagesSpec => []OutcomesAreHonest
<1>1. PackagesInv => OutcomesAreHonest
  BY DEF PackagesInv, Honest, OutcomesAreHonest
<1> QED BY <1>1, PackagesInvariant, PTL

-----------------------------------------------------------------------------
(* The three side by side.                                                 *)

\* A behaviour of MCCommandChannel is one of each component's specification, fairness
\* aside: those out of focus only wait.
THEOREM ConnectionsAreApart ==
  ConnectionSpec => Spec /\ HubMoves /\ PackagesSpec
<1>1. ConnectionInit => Init /\ InitHub /\ InitPackages
  BY DEF ConnectionInit
<1>2. ASSUME [ConnectionNext]_connectionVars
      PROVE  [Next]_vars /\ [NextHub]_hubVars /\ [NextPackages]_packageVars
  <2>1. CASE RunChannel
    BY <2>1 DEF RunChannel
  <2>2. CASE RunHub
    BY <2>2 DEF RunHub
  <2>3. CASE RunPackages
    BY <2>3 DEF RunPackages
  <2>4. CASE UNCHANGED connectionVars
    BY <2>4 DEF connectionVars
  <2> QED BY <1>2, <2>1, <2>2, <2>3, <2>4 DEF ConnectionNext
<1> QED BY <1>1, <1>2, PTL DEF ConnectionSpec, Spec, HubMoves, PackagesSpec

\* What is checked of the three on one instance holds whatever the constants are: no
\* result is dropped or repeated without a cause, the status is the loop's, sessions are
\* trusted, commands are heard, package tasks are reported as they went, and the outbox
\* forwards.
THEOREM ConnectionsKeepTheirWord ==
  ConnectionSpec => /\ []NoResultDropped /\ []DuplicatesHaveACause
                    /\ []StatusFollowsLoop /\ ResultsAreForwarded
                    /\ []SessionsAreTrusted /\ []CommandsAreHeard /\ []OutcomesAreHonest
<1> QED BY ConnectionsAreApart, ResultsAreKept, DuplicatesAreExplained, StatusIsHonest,
           ImplementsForwarding, HubTrust, HubHears, PackageReportsAreHonest, PTL
=============================================================================
