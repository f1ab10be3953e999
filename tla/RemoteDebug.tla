----------------------------- MODULE RemoteDebug -----------------------------
(***************************************************************************)
(* The remote debug manager (app/remote_debug.go) on top of the log buffer *)
(* (app/logging.go).  A start command opens transports, subscribes to the  *)
(* log buffer, becomes the active session and stops the one before it; a   *)
(* stop command and the timer of every session that was ever started take  *)
(* the active session out BY ITS ID.  Commands run in goroutines of their  *)
(* own.  A session's loop publishes queued lines; what fails is logged,    *)
(* and a logged line comes back through the subscription.                  *)
(*                                                                         *)
(* Lines are counted, not named: those under the session's level change    *)
(* nothing and are left out.  The manager's own lines are of level info:   *)
(* the sessions modelled let them through.                                 *)
(***************************************************************************)
EXTENDS Naturals, FiniteSets

CONSTANTS
    SessionId,        \* ids a start command may carry
    MaxSessions,      \* bound: start commands
    DebugQueueSize,   \* remoteDebugQueueSize
    Transports,       \* publishers a session opens: nats, nats-wss, signalr
    MaxCalls,         \* bound: pending callbacks of one goroutine, saturating
    MaxLines          \* bound: lines the rest of the agent logs

ASSUME RemoteDebugAssumption ==
    /\ MaxSessions \in Nat \ {0}
    /\ DebugQueueSize \in Nat \ {0}
    /\ Transports \in Nat \ {0}
    /\ MaxCalls \in Nat \ {0}
    /\ MaxLines \in Nat

VARIABLES
    activeSession,  \* m.activeSession: a session, or 0 for nil
    session,        \* the sessions, in the order their commands came
    stopping,       \* taken out of activeSession, stopGivenSession still to run
    calls,          \* callbacks of the log buffer a goroutine has still to run
    linesLogged     \* lines logged by the rest of the agent

debugVars == <<activeSession, session, stopping, calls, linesLogged>>

Session == 1 .. MaxSessions
\* The goroutines that log: the loop of each session, and all the others as 0.
Logger == 0 .. MaxSessions

SessionRecord ==
    [id : SessionId \cup {"none"}, step : {"none", "opened", "swapped", "started"},
     replaced : Logger, subscribed : BOOLEAN, cancelled : BOOLEAN, closed : BOOLEAN,
     transport : 1 .. Transports + 1, queue : 0 .. DebugQueueSize,
     loop : {"none", "running", "ended"}, timer : {"none", "armed", "fired"}]

RemoteDebugTypeOK ==
    /\ activeSession \in Logger
    /\ session \in [Session -> SessionRecord]
    /\ stopping \subseteq Session
    /\ calls \in [Logger -> [SessionId -> 0 .. MaxCalls]]
    /\ linesLogged \in 0 .. MaxLines

InitRemoteDebug ==
    /\ activeSession = 0
    /\ session = [s \in Session |->
                    [id |-> "none", step |-> "none", replaced |-> 0, subscribed |-> FALSE,
                     cancelled |-> FALSE, closed |-> FALSE, transport |-> 1, queue |-> 0,
                     loop |-> "none", timer |-> "none"]]
    /\ stopping = {}
    /\ calls = [g \in Logger |-> [id \in SessionId |-> 0]]
    /\ linesLogged = 0

-----------------------------------------------------------------------------
AtMost(bound, n) == IF n > bound THEN bound ELSE n

\* logBuffer.append: every subscriber of now is to be called with the line; the
\* callback knows its session by the id alone.
CallbacksFor(pending, lines) ==
    [id \in SessionId |->
        AtMost(MaxCalls, pending[id] + lines *
            Cardinality({s \in Session : session[s].subscribed /\ session[s].id = id}))]

NoCallLeft(g) == \A id \in SessionId : calls[g][id] = 0

\* The rest of the agent logs a line.
AppendLine ==
    /\ linesLogged < MaxLines
    /\ linesLogged' = linesLogged + 1
    /\ calls' = [calls EXCEPT ![0] = CallbacksFor(@, 1)]
    /\ UNCHANGED <<activeSession, session, stopping>>

\* enqueueToSession, by goroutine g, which has `rest` callbacks left: a full queue
\* drops the line and LOGS that it did, which calls the subscribers again.
EnqueueToActive(g, rest) ==
    LET s == activeSession IN
    IF session[s].queue < DebugQueueSize
    THEN /\ session' = [session EXCEPT ![s].queue = @ + 1]
         /\ calls' = [calls EXCEPT ![g] = rest]
    ELSE /\ calls' = [calls EXCEPT ![g] = CallbacksFor(rest, 1)]
         /\ UNCHANGED session

\* enqueueWithSession: the callback of a subscriber with this id.
RunCallback(g, id) ==
    /\ calls[g][id] > 0
    /\ LET rest == [calls[g] EXCEPT ![id] = @ - 1] IN
       IF activeSession # 0 /\ session[activeSession].id = id
       THEN EnqueueToActive(g, rest)
       ELSE calls' = [calls EXCEPT ![g] = rest] /\ UNCHANGED session
    /\ UNCHANGED <<activeSession, stopping, linesLogged>>

\* OnCommandOutput: a line of a command's output goes to whatever session is active.
CommandOutput ==
    /\ linesLogged < MaxLines
    /\ activeSession # 0
    /\ linesLogged' = linesLogged + 1
    /\ EnqueueToActive(0, calls[0])
    /\ UNCHANGED <<activeSession, stopping>>

-----------------------------------------------------------------------------
\* buildRemoteDebugPublishers: those of the transports that connect, in their order; the
\* others are left out, as if they had been given up.
FirstOfOpened == {Transports + 1 - opened : opened \in 1 .. Transports}

\* startSession, up to the subscription: credentials present, at least one
\* transport opened (a start that fails before leaves nothing behind).
OpenSession(s, id) ==
    /\ session[s].step = "none"
    /\ \A t \in 1 .. s - 1 : session[t].step # "none"
    /\ \E first \in FirstOfOpened :
        session' = [session EXCEPT ![s].step = "opened", ![s].id = id, ![s].subscribed = TRUE,
                                   ![s].transport = first]
    /\ UNCHANGED <<activeSession, stopping, calls, linesLogged>>

\* Faulty form: a session started again under the same id is taken for the same.
SwapSessionKeepsSameId(s) ==
    /\ session[s].step = "opened"
    /\ activeSession' = s
    /\ stopping' = IF activeSession # 0 /\ session[activeSession].id # session[s].id
                   THEN stopping \cup {activeSession} ELSE stopping
    /\ session' = [session EXCEPT ![s].step = "swapped", ![s].replaced = activeSession]
    /\ UNCHANGED <<calls, linesLogged>>

\* The exchange under the lock.
SwapSession(s) ==
    /\ session[s].step = "opened"
    /\ activeSession' = s
    /\ stopping' = stopping \cup ({activeSession} \ {0})
    /\ session' = [session EXCEPT ![s].step = "swapped", ![s].replaced = activeSession]
    /\ UNCHANGED <<calls, linesLogged>>

\* Faulty form: a deadline that has passed before the launch arms no timer.
LaunchSessionSkipsPastDeadline(s) ==
    /\ session[s].step = "swapped"
    /\ session[s].replaced \notin stopping
    /\ \E timer \in {"armed", "fired"} :
        session' = [session EXCEPT ![s].step = "started", ![s].loop = "running",
                                   ![s].timer = timer]
    /\ calls' = [calls EXCEPT ![0] = CallbacksFor(@, 1)]
    /\ UNCHANGED <<activeSession, stopping, linesLogged>>

\* Once the session before is stopped: log, publishLoop and autoStopAtDeadline.
LaunchSession(s) ==
    /\ session[s].step = "swapped"
    /\ session[s].replaced \notin stopping
    /\ session' = [session EXCEPT ![s].step = "started", ![s].loop = "running",
                                  ![s].timer = "armed"]
    /\ calls' = [calls EXCEPT ![0] = CallbacksFor(@, 1)]
    /\ UNCHANGED <<activeSession, stopping, linesLogged>>

\* stopSession with an id, "" for any: only the lock's part, stopGivenSession follows.
TakeActive(id) ==
    IF activeSession # 0 /\ id \in {"", session[activeSession].id}
    THEN activeSession' = 0 /\ stopping' = stopping \cup {activeSession}
    ELSE UNCHANGED <<activeSession, stopping>>

StopCommand(id) ==
    /\ TakeActive(id)
    /\ UNCHANGED <<session, calls, linesLogged>>

\* autoStopAtDeadline: nothing ever cancels the timer of a session that is over.
DeadlinePasses(s) ==
    /\ session[s].timer = "armed"
    /\ session' = [session EXCEPT ![s].timer = "fired"]
    /\ TakeActive(session[s].id)
    /\ UNCHANGED <<calls, linesLogged>>

\* stopGivenSession: unsubscribe, cancel, close every publisher, log.
StopGivenSession(s) ==
    /\ s \in stopping
    /\ stopping' = stopping \ {s}
    /\ session' = [session EXCEPT ![s].subscribed = FALSE, ![s].cancelled = TRUE,
                                  ![s].closed = TRUE]
    /\ calls' = [calls EXCEPT ![0] = CallbacksFor(@, 1)]
    /\ UNCHANGED <<activeSession, linesLogged>>

-----------------------------------------------------------------------------
\* Publish: how many of the transports left may refuse a line, in their order.  Those of a
\* stopped session are closed, and all refuse.
Refusals(this) == LET left == Transports + 1 - this.transport IN
                  IF this.closed THEN {left} ELSE 0 .. left

\* publishLoop and publishWithFallback: `failed` transports in a row refuse the
\* line and are given up for good; each refusal is logged, and so is a line no
\* transport took.
PublishLine(s) ==
    LET this == session[s] IN
    /\ this.loop = "running" /\ NoCallLeft(s) /\ this.queue > 0
    /\ \E failed \in Refusals(this) :
        LET lost == this.transport + failed > Transports IN
        /\ session' = [session EXCEPT ![s].queue = @ - 1,
                                      ![s].transport = this.transport + failed]
        /\ calls' = [calls EXCEPT ![s] = CallbacksFor(@, failed + (IF lost THEN 1 ELSE 0))]
    /\ UNCHANGED <<activeSession, stopping, linesLogged>>

\* The other branch of the loop's select.
LoopEnds(s) ==
    /\ session[s].loop = "running" /\ NoCallLeft(s) /\ session[s].cancelled
    /\ session' = [session EXCEPT ![s].loop = "ended"]
    /\ UNCHANGED <<activeSession, stopping, calls, linesLogged>>

RemoteDebugSteps ==
    \/ \E s \in Session : \/ SwapSession(s) \/ LaunchSession(s) \/ StopGivenSession(s)
                          \/ DeadlinePasses(s) \/ PublishLine(s) \/ LoopEnds(s)
    \/ \E g \in Logger, id \in SessionId : RunCallback(g, id)

NextRemoteDebug ==
    \/ RemoteDebugSteps
    \/ AppendLine \/ CommandOutput
    \/ \E s \in Session, id \in SessionId : OpenSession(s, id)
    \/ \E id \in SessionId \cup {""} : StopCommand(id)

-----------------------------------------------------------------------------
\* A session that is no longer active has been stopped, or somebody is about to:
\* however starts, stops and timers interleave, none is left subscribed, running
\* and connected with nobody to stop it (startSession's exchange of the active
\* session, stopSession, stopGivenSession).
NoOrphanSession ==
    \A s \in Session :
        session[s].step \in {"swapped", "started"} /\ s # activeSession /\ s \notin stopping =>
            ~session[s].subscribed /\ session[s].cancelled /\ session[s].closed

\* No session outlives its deadline: without a stop command, and although the lines
\* that could not be sent come back as new lines, everything comes to rest, because
\* some timer of the id takes the session out (autoStopAtDeadline, publishLoop).
DebugComesToRest ==
    <>[](/\ activeSession = 0
         /\ \A g \in Logger : NoCallLeft(g)
         /\ \A s \in Session : session[s].loop # "running")

\* Started, replaced, stopped by command, by failure or by a timer: every session
\* ends, and none is left behind by the one that took its place.
DebugSessionsEnd == DebugComesToRest /\ [][NoOrphanSession']_debugVars
=============================================================================
