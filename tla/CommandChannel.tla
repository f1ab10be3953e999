--------------------------- MODULE CommandChannel ---------------------------
(***************************************************************************)
(* The agent's connection to its server: the reconnect loop with its       *)
(* fallback from one transport to the next, one goroutine per command, and *)
(* the outbox that keeps the results that could not be sent.               *)
(*                                                                         *)
(*   internal/agentconn/runtime.go, runtime_protocol.go                    *)
(*   app/command_result_outbox.go, app/app.go (periodic cleanup)           *)
(*   internal/database/sqlite_outbox_consolidation.go                      *)
(*                                                                         *)
(* The sockets are those of gorilla/websocket and nats.go, the server is   *)
(* the environment: it may deliver a command more than once.               *)
(***************************************************************************)
EXTENDS Naturals, Sequences, FiniteSets

CONSTANTS
    Commands,       \* command ids
    Transports,     \* the configured transports, in the order they are tried
    Challenges,     \* whether the hub speaks before the handshake times out
    MaxDeliveries,  \* bound: deliveries of one command by the server
    MaxConns,       \* bound: connections established
    MaxBreaks,      \* bound: times the network fails
    MaxRefusals,    \* bound: connection attempts that fail
    MaxFaults,      \* bound: outbox statements that fail
    MaxConfigs,     \* bound: changes of the configuration
    MaxCrashes      \* bound: ends of the process

ASSUME ChannelAssumption ==
    /\ Transports \in Seq({"nats", "nats-wss", "signalr"}) /\ Len(Transports) > 0
    /\ \A i \in 1..Len(Transports) : Transports[i] = "signalr" => i = Len(Transports)
    /\ Challenges \in BOOLEAN
    /\ {MaxDeliveries, MaxConns, MaxBreaks, MaxRefusals, MaxFaults, MaxConfigs, MaxCrashes} \subseteq Nat

VARIABLES
    phase,      \* Run: waiting (to reconnect), trying, up, off (process ended)
    index,      \* the attempt of runSession: position in Transports
    current,    \* number of the latest connection
    conns,      \* per connection: unused, open, broken (network), closed
    status,     \* Connected of GetStatus
    config,     \* version of the configuration that LoadConfig returns
    sessionConfig, \* version the running session was started with
    tasks,      \* per delivery, the goroutine that executes the command
    wire,       \* per command and connection, results written and not yet received
    outbox,     \* rows of command_result_outbox, by their key <<command, transport>>
    draining,   \* the row that was just sent and is not yet deleted
    received,   \* per command, results that reached the server
    lost,       \* history variable: commands one of whose results the environment lost
    spare,      \* history variable: per command, sent rows whose delete failed
    used        \* per bound, how often its event happened

vars == <<phase, index, current, conns, status, config, sessionConfig, tasks, wire,
          outbox, draining, received, lost, spare, used>>

connVars == <<phase, index, current, conns, status, config, sessionConfig>>
resultVars == <<wire, outbox, draining, received, lost, spare>>

Deliveries == Commands \X (1..MaxDeliveries)
Conns == 1..MaxConns
Kinds == {"nats", "signalr"}
NoRow == <<>>

\* The name of the transport in the outbox: both NATS transports use "nats".
Kind(i) == IF Transports[i] = "signalr" THEN "signalr" ELSE "nats"

Up == phase = "up"
Off == phase = "off"

Bounds == {"breaks", "refusals", "faults", "configs", "crashes"}
Spend(bound, limit) == used[bound] < limit /\ used' = [used EXCEPT ![bound] = @ + 1]
Close(k) == [conns EXCEPT ![k] = "closed"]

-----------------------------------------------------------------------------
(* The connection loop: Run, runSession.                                   *)

LoadConfig ==
    /\ phase = "waiting"
    /\ phase' = "trying" /\ index' = 1 /\ sessionConfig' = config
    /\ UNCHANGED <<current, conns, status, config, tasks, resultVars, used>>

\* runSession goes to the next transport, without loading the configuration
\* again; after the last one Run reports the session ended and waits.
\* (Faulty form: Run does not report the end.)
NextAttemptUnreported ==
    IF index < Len(Transports)
    THEN phase' = "trying" /\ index' = index + 1 /\ UNCHANGED status
    ELSE phase' = "waiting" /\ UNCHANGED <<status, index>>
NextAttempt ==
    IF index < Len(Transports)
    THEN phase' = "trying" /\ index' = index + 1 /\ UNCHANGED status
    ELSE phase' = "waiting" /\ status' = FALSE /\ UNCHANGED index

AttemptFails ==
    /\ phase = "trying" /\ Spend("refusals", MaxRefusals)
    /\ NextAttempt
    /\ UNCHANGED <<current, conns, config, sessionConfig, tasks, resultVars>>

\* With a silent hub completeSecureHandshake runs into its read deadline; it
\* returns nil, but a websocket that failed a read fails all that follow.
\* (Faulty form: the deadline is not lifted after the handshake.)
ConnectedWithDeadline(i) == IF Transports[i] = "signalr" THEN "broken" ELSE "open"
Connected(i) == IF Transports[i] = "signalr" /\ ~Challenges THEN "broken" ELSE "open"

Establish ==
    /\ phase = "trying" /\ current < MaxConns
    /\ phase' = "up" /\ status' = TRUE
    /\ current' = current + 1
    /\ conns' = [conns EXCEPT ![current + 1] = Connected(index)]
    /\ UNCHANGED <<index, config, sessionConfig, tasks, resultVars, used>>

\* SignalR: the reader or a heartbeat fails. NATS: publishing a heartbeat fails,
\* because the reconnect buffer is full or the client gave up.
SessionEnds ==
    /\ Up /\ draining = NoRow
    /\ conns[current] \in {"broken", "closed"}
    /\ conns' = Close(current)
    /\ NextAttempt
    /\ UNCHANGED <<current, config, sessionConfig, tasks, resultVars, used>>

NetworkBreaks ==
    /\ Up /\ conns[current] = "open" /\ Spend("breaks", MaxBreaks)
    /\ conns' = [conns EXCEPT ![current] = "broken"]
    /\ UNCHANGED <<phase, index, current, status, config, sessionConfig, tasks, resultVars>>

\* nats.go reconnects by itself, without limit (MaxReconnects(-1)).
NatsReconnects ==
    /\ Up /\ Kind(index) = "nats" /\ conns[current] = "broken"
    /\ conns' = [conns EXCEPT ![current] = "open"]
    /\ UNCHANGED <<phase, index, current, status, config, sessionConfig, tasks, resultVars, used>>

\* The configuration changes, and the component that changed it calls Reload,
\* which knows the websocket of a SignalR session only.
Reload ==
    /\ ~Off /\ Spend("configs", MaxConfigs)
    /\ config' = config + 1
    /\ conns' = IF Up /\ Kind(index) = "signalr" THEN Close(current) ELSE conns
    /\ UNCHANGED <<phase, index, current, status, sessionConfig, tasks, resultVars>>

-----------------------------------------------------------------------------
(* Commands.                                                               *)

\* A command arrives on the open connection; a goroutine of its own runs it.
\* Nothing remembers the commands that arrived before.
Deliver(c, n) ==
    /\ Up /\ conns[current] = "open"
    /\ tasks[<<c, n>>].stage = "idle" /\ \A m \in 1..(n - 1) : tasks[<<c, m>>].stage # "idle"
    /\ tasks' = [tasks EXCEPT ![<<c, n>>] =
                   [stage |-> "running", conn |-> current, kind |-> Kind(index)]]
    /\ UNCHANGED <<connVars, resultVars, used>>

\* (Faulty form: a command that fails is not answered.)
ExecuteUnanswered(c, n) ==
    /\ ~Off /\ tasks[<<c, n>>].stage = "running"
    /\ tasks' = [tasks EXCEPT ![<<c, n>>].stage = "idle"]
    /\ UNCHANGED <<connVars, resultVars, used>>
Execute(c, n) ==
    /\ ~Off /\ tasks[<<c, n>>].stage = "running"
    /\ tasks' = [tasks EXCEPT ![<<c, n>>].stage = "done"]
    /\ UNCHANGED <<connVars, resultVars, used>>

\* A write on a broken connection may be accepted (it sits in a buffer) or not.
Accepts(k) == conns[k] \in {"open", "broken"}
Rejects(k) == conns[k] \in {"broken", "closed"}

\* The result goes out on the connection the command came from.
Respond(c, n) ==
    /\ ~Off /\ tasks[<<c, n>>].stage = "done" /\ Accepts(tasks[<<c, n>>].conn)
    /\ wire' = [wire EXCEPT ![<<c, tasks[<<c, n>>].conn>>] = @ + 1]
    /\ tasks' = [tasks EXCEPT ![<<c, n>>].stage = "over"]
    /\ UNCHANGED <<connVars, outbox, draining, received, lost, spare, used>>

\* Sending failed: INSERT OR IGNORE under the key transport:command, so that a
\* second result of the same command is dropped while the first is waiting.
\* (Faulty form: the error of the send is only logged.)
LogOnly(c, n) ==
    /\ ~Off /\ tasks[<<c, n>>].stage = "done" /\ Rejects(tasks[<<c, n>>].conn)
    /\ tasks' = [tasks EXCEPT ![<<c, n>>].stage = "over"]
    /\ UNCHANGED <<connVars, resultVars, used>>
Enqueue(c, n) ==
    /\ ~Off /\ tasks[<<c, n>>].stage = "done" /\ Rejects(tasks[<<c, n>>].conn)
    /\ outbox' = outbox \cup {<<c, tasks[<<c, n>>].kind>>}
    /\ tasks' = [tasks EXCEPT ![<<c, n>>].stage = "over"]
    /\ UNCHANGED <<connVars, wire, draining, received, lost, spare, used>>

EnqueueFails(c, n) ==
    /\ ~Off /\ tasks[<<c, n>>].stage = "done" /\ Rejects(tasks[<<c, n>>].conn)
    /\ Spend("faults", MaxFaults)
    /\ lost' = lost \cup {c}
    /\ tasks' = [tasks EXCEPT ![<<c, n>>].stage = "over"]
    /\ UNCHANGED <<connVars, wire, outbox, draining, received, spare>>

-----------------------------------------------------------------------------
(* The outbox: drainCommandResultOutbox, in the loop of the session.       *)

\* A due row of this session's transport is sent. A failed send reschedules the
\* row, which changes its attempts and its due time only.
\* (Faulty form: it asks for the rows of the transport's label.)
DrainSendOfLabel(row) ==
    /\ Up /\ draining = NoRow /\ row[2] = Transports[index] /\ Accepts(current)
    /\ wire' = [wire EXCEPT ![<<row[1], current>>] = @ + 1]
    /\ draining' = row
    /\ UNCHANGED <<connVars, tasks, outbox, received, lost, spare, used>>
DrainSend(row) ==
    /\ Up /\ draining = NoRow /\ row[2] = Kind(index) /\ Accepts(current)
    /\ wire' = [wire EXCEPT ![<<row[1], current>>] = @ + 1]
    /\ draining' = row
    /\ UNCHANGED <<connVars, tasks, outbox, received, lost, spare, used>>

\* markSent deletes the row. (Faulty form: it only stamps it.)
DrainMarkKeepsRow ==
    /\ Up /\ draining # NoRow
    /\ draining' = NoRow
    /\ UNCHANGED <<connVars, tasks, outbox, wire, received, lost, spare, used>>
DrainMark ==
    /\ Up /\ draining # NoRow
    /\ outbox' = outbox \ {draining}
    /\ draining' = NoRow
    /\ UNCHANGED <<connVars, tasks, wire, received, lost, spare, used>>

DrainMarkFails ==
    /\ Up /\ draining # NoRow /\ Spend("faults", MaxFaults)
    /\ spare' = [spare EXCEPT ![draining[1]] = @ + 1]
    /\ draining' = NoRow
    /\ UNCHANGED <<connVars, tasks, wire, outbox, received, lost>>

\* A row that waited for 14 days is not due any more and is deleted. If it was
\* just sent, the delete that follows, by its id, finds nothing.
Expire(row) ==
    /\ ~Off /\ Spend("faults", MaxFaults)
    /\ outbox' = outbox \ {row}
    /\ IF row = draining THEN draining' = NoRow /\ UNCHANGED lost
                         ELSE lost' = lost \cup {row[1]} /\ UNCHANGED draining
    /\ UNCHANGED <<connVars, tasks, wire, received, spare>>

-----------------------------------------------------------------------------
(* The network and the process.                                            *)

\* What was written arrives; on a connection that was closed it may also not.
Arrive(c, k) ==
    /\ wire[<<c, k>>] > 0 /\ conns[k] \in {"open", "closed"}
    /\ wire' = [wire EXCEPT ![<<c, k>>] = @ - 1]
    /\ received' = [received EXCEPT ![c] = @ + 1]
    /\ UNCHANGED <<connVars, tasks, outbox, draining, lost, spare, used>>

Vanish(c, k) ==
    /\ wire[<<c, k>>] > 0 /\ conns[k] = "closed"
    /\ wire' = [wire EXCEPT ![<<c, k>>] = @ - 1]
    /\ lost' = lost \cup {c}
    /\ UNCHANGED <<connVars, tasks, outbox, draining, received, spare, used>>

ProcessEnds ==
    /\ ~Off /\ Spend("crashes", MaxCrashes)
    /\ phase' = "off" /\ status' = FALSE
    /\ conns' = IF current > 0 THEN Close(current) ELSE conns
    /\ tasks' = [d \in Deliveries |-> IF tasks[d].stage \in {"running", "done"}
                                      THEN [tasks[d] EXCEPT !.stage = "gone"] ELSE tasks[d]]
    /\ spare' = IF draining = NoRow THEN spare ELSE [spare EXCEPT ![draining[1]] = @ + 1]
    /\ draining' = NoRow
    /\ UNCHANGED <<index, current, config, sessionConfig, wire, outbox, received, lost>>

ProcessStarts ==
    /\ Off
    /\ phase' = "waiting"
    /\ UNCHANGED <<index, current, conns, status, config, sessionConfig, tasks, resultVars, used>>

-----------------------------------------------------------------------------
Init ==
    /\ phase = "waiting" /\ index = 1 /\ current = 0
    /\ conns = [k \in Conns |-> "unused"]
    /\ status = FALSE /\ config = 0 /\ sessionConfig = 0
    /\ tasks = [d \in Deliveries |-> [stage |-> "idle", conn |-> 0, kind |-> "nats"]]
    /\ wire = [x \in Commands \X Conns |-> 0]
    /\ outbox = {} /\ draining = NoRow
    /\ received = [c \in Commands |-> 0]
    /\ lost = {} /\ spare = [c \in Commands |-> 0]
    /\ used = [b \in Bounds |-> 0]

Connection == LoadConfig \/ Establish \/ SessionEnds
Task(c, n) == Execute(c, n) \/ Respond(c, n) \/ Enqueue(c, n) \/ EnqueueFails(c, n)
Drain == \/ \E row \in outbox : DrainSend(row)
         \/ DrainMark \/ DrainMarkFails
Network == \E c \in Commands, k \in Conns : Arrive(c, k) \/ Vanish(c, k)

Next ==
    \/ Connection \/ AttemptFails \/ NetworkBreaks \/ NatsReconnects \/ Reload
    \/ \E c \in Commands, n \in 1..MaxDeliveries : Deliver(c, n) \/ Task(c, n)
    \/ Drain \/ \E row \in outbox : Expire(row)
    \/ Network \/ ProcessEnds \/ ProcessStarts

Spec == Init /\ [][Next]_vars

\* The loop and the goroutines run, a client that can reconnect does, and what
\* was written on an open connection arrives.
Fairness ==
    /\ WF_vars(Connection) /\ WF_vars(NatsReconnects \/ SessionEnds)
    /\ \A c \in Commands, n \in 1..MaxDeliveries : WF_vars(Task(c, n))
    /\ WF_vars(Drain) /\ WF_vars(Network) /\ WF_vars(ProcessStarts)

FairSpec == Spec /\ Fairness

-----------------------------------------------------------------------------
(* Properties.                                                             *)

Stages == {"idle", "running", "done", "over", "gone"}

ConnType ==
    /\ phase \in {"waiting", "trying", "up", "off"} /\ index \in 1..Len(Transports)
    /\ current \in 0..MaxConns
    /\ conns \in [Conns -> {"unused", "open", "broken", "closed"}]
    /\ status \in BOOLEAN /\ config \in Nat /\ sessionConfig \in Nat
TaskType == tasks \in [Deliveries -> [stage : Stages, conn : 0..MaxConns, kind : Kinds]]
ResultType ==
    /\ wire \in [Commands \X Conns -> Nat]
    /\ outbox \subseteq Commands \X Kinds
    /\ draining \in (Commands \X Kinds) \cup {NoRow}
    /\ received \in [Commands -> Nat]
    /\ lost \subseteq Commands /\ spare \in [Commands -> Nat]

\* Every variable stays in its range.
TypeOK == ConnType /\ TaskType /\ ResultType /\ used \in [Bounds -> Nat]

InWire(c) == \E k \in Conns : wire[<<c, k>>] > 0
InOutbox(c) == \E kind \in Kinds : <<c, kind>> \in outbox

\* The agent drops no result itself: once a command's goroutine is over, its result
\* was received, is under way, or waits in the outbox, unless the environment lost
\* one (a connection that died with it, a failed statement, 14 days of waiting).
NoResultDropped ==
    \A c \in Commands : (\E n \in 1..MaxDeliveries : tasks[<<c, n>>].stage = "over") =>
        received[c] > 0 \/ InWire(c) \/ InOutbox(c) \/ c \in lost

\* The results of a command that were sent and not yet received, each under the number of
\* its connection and its own, and those that are still to be sent.
OnWire(c) == UNION {{k} \X (1..wire[<<c, k>>]) : k \in Conns}
RowsLeft(c) == {kind \in Kinds : <<c, kind>> \in outbox /\ <<c, kind>> # draining}
UnderWay(c) == {n \in 1..MaxDeliveries : tasks[<<c, n>>].stage \in {"running", "done"}}
Delivered(c) == {n \in 1..MaxDeliveries : tasks[<<c, n>>].stage # "idle"}
Copies(c) ==
    received[c] + Cardinality(OnWire(c)) + Cardinality(RowsLeft(c)) + Cardinality(UnderWay(c))

\* The server gets no more results of a command than it delivered the command, but
\* for a row that was sent and could not be deleted.
DuplicatesHaveACause ==
    \A c \in Commands : Copies(c) <= Cardinality(Delivered(c)) + spare[c]

\* While Run waits to reconnect, or has not started, no reader of the status is told
\* that the agent is connected; and a session in use is the latest connection.
StatusFollowsLoop ==
    /\ phase \in {"waiting", "off"} => ~status
    /\ Up => status /\ conns[current] # "unused"
    /\ \A k \in Conns : conns[k] \in {"open", "broken"} => Up /\ k = current

\* A row is sent, at last, when the sessions of its transport last: a row queued by
\* SignalR does not wait for NATS forever, nor one of NATS for SignalR.
StableOn(kind) == Up /\ Kind(index) = kind /\ conns[current] = "open"
OutboxDrains ==
    \A row \in Commands \X Kinds :
        <>[]StableOn(row[2]) => (row \in outbox ~> row \notin outbox)

\* Once the network, the configuration and the process are quiet, a session comes up
\* and stays up, whichever transport the loop had got to.
SessionLasts == <>[](Up /\ conns[current] = "open")

\* The refinement of StoreAndForward.  From the moment a command runs its result is owed
\* to the server, wherever it is kept: with its goroutine, on a connection, or in the
\* outbox.  It is abandoned when the environment loses one, and by the process that ends
\* with it.
ResultsOwed ==
    {c \in Commands : \/ \E n \in 1..MaxDeliveries : tasks[<<c, n>>].stage \in {"running", "done"}
                      \/ InWire(c) \/ InOutbox(c)}
ResultsReceived == {c \in Commands : received[c] > 0}
ResultsAbandoned ==
    lost \cup {c \in Commands : \E n \in 1..MaxDeliveries : tasks[<<c, n>>].stage = "gone"}
ResultRelay == INSTANCE StoreAndForward WITH
        Items <- Commands, owed <- ResultsOwed, arrived <- ResultsReceived,
        abandoned <- ResultsAbandoned

\* executeAndRespond and the outbox forward the results: the server gets none of a command
\* that did not run, and none leaves the agent's hands but to the server or for a cause.
ResultsAreForwarded == ResultRelay!Forward

\* Once things are quiet the loop does its two jobs: a session lasts, and the rows
\* queued for its transport go out.
QuietChannelWorks == SessionLasts /\ OutboxDrains

\* runtime.go:180: "Reload forces the active connection to close, causing a
\* reconnect with updated config."
ReloadTakesEffect == sessionConfig < config ~> sessionConfig = config
=============================================================================
