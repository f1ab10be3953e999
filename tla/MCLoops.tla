------------------------------- MODULE MCLoops -------------------------------
(***************************************************************************)
(* Components that must keep going: the watchdog, the remote debug         *)
(* sessions, the MeshCentral flow, the telemetry outbox, and the calls     *)
(* behind a notification and a chat message.  They share no state that one *)
(* of these properties is about, and are checked side by side: a behaviour *)
(* runs the one it has in focus, and the others stay as they began.        *)
(***************************************************************************)
EXTENDS Watchdog, RemoteDebug, MeshInstall, TelemetryOutbox, NotificationCenter, ChatStream

TwoComponents == {"inventory", "agent"}
InventoryIsSlower ==
    [c \in TwoComponents |-> IF c = "inventory" THEN [degraded |-> 2, unhealthy |-> 3]
                                                ELSE [degraded |-> 0, unhealthy |-> 0]]

VARIABLE focus

watchdogVars == vars
callVars == <<notificationVars, chatVars>>
loopVars == <<focus, watchdogVars, debugVars, meshVars, telemetryVars, callVars>>

\* A component out of focus begins in one of its initial states only.
LoopsInit ==
    /\ focus \in {"watchdog", "debug", "mesh", "telemetry", "notification", "chat"}
    /\ Init /\ InitRemoteDebug
    /\ InitMesh /\ (meshEnabled => focus = "mesh")
    /\ InitTelemetry
    /\ InitNotification /\ InitChat

RunWatchdog ==
    /\ focus = "watchdog" /\ Next
    /\ UNCHANGED <<focus, debugVars, meshVars, telemetryVars, callVars>>
RunRemoteDebug ==
    /\ focus = "debug" /\ NextRemoteDebug
    /\ UNCHANGED <<focus, watchdogVars, meshVars, telemetryVars, callVars>>
RunMesh ==
    /\ focus = "mesh" /\ NextMesh
    /\ UNCHANGED <<focus, watchdogVars, debugVars, telemetryVars, callVars>>
RunTelemetry ==
    /\ focus = "telemetry" /\ NextTelemetry
    /\ UNCHANGED <<focus, watchdogVars, debugVars, meshVars, callVars>>
RunNotification ==
    /\ focus = "notification" /\ NextNotification
    /\ UNCHANGED <<focus, watchdogVars, debugVars, meshVars, telemetryVars, chatVars>>
RunChat ==
    /\ focus = "chat" /\ NextChat
    /\ UNCHANGED <<focus, watchdogVars, debugVars, meshVars, telemetryVars, notificationVars>>

LoopsNext ==
    \/ RunWatchdog \/ RunRemoteDebug \/ RunMesh \/ RunTelemetry
    \/ RunNotification \/ RunChat

-----------------------------------------------------------------------------
\* Fairness is each component's own, for the behaviours that run it.
WatchdogRuns ==
    /\ WF_vars(focus = "watchdog" /\ Tick) /\ WF_vars(focus = "watchdog" /\ Round)
    /\ \A c \in Component : /\ WF_vars(focus = "watchdog" /\ Beat(c))
                            /\ WF_vars(focus = "watchdog" /\ Start(c))

\* The goroutines of a session go on, and its timer fires.
DebugRuns ==
    /\ \A s \in Session :
          /\ WF_debugVars(focus = "debug" /\ (SwapSession(s) \/ LaunchSession(s)))
          /\ WF_debugVars(focus = "debug" /\ StopGivenSession(s))
          /\ WF_debugVars(focus = "debug" /\ DeadlinePasses(s))
          /\ WF_debugVars(focus = "debug" /\ PublishLine(s))
          /\ WF_debugVars(focus = "debug" /\ LoopEnds(s))
    /\ \A g \in Logger, id \in SessionId : WF_debugVars(focus = "debug" /\ RunCallback(g, id))

\* The flow goes on, and configurations come in again and again.
MeshRuns ==
    /\ SF_meshVars(focus = "mesh" /\ TriggerMesh(TRUE))
    /\ WF_meshVars(focus = "mesh" /\ FlowSteps)

\* Both loops go on, and time passes for their limits and the rows' next attempts.
TelemetryRuns ==
    /\ \A s \in Sender : /\ WF_telemetryVars(focus = "telemetry" /\ TelemetrySteps(s))
                         /\ WF_telemetryVars(focus = "telemetry" /\ RateLimitPasses(s))
    /\ \A p \in Payload : WF_telemetryVars(focus = "telemetry" /\ BackoffPasses(p))

\* A call goes on, its timers are ready when nothing comes, and a lock is let go.
CallsRun ==
    /\ \A d \in Dispatch :
          /\ WF_notificationVars(focus = "notification" /\ CheckDispatch(d))
          /\ WF_notificationVars(focus = "notification" /\ DispatchGoesOn(d))
          /\ WF_notificationVars(focus = "notification" /\ SendDecision(d))
    /\ \A c \in ChatCall : WF_chatVars(focus = "chat" /\ ChatSteps(c))

LoopsSpec ==
    LoopsInit /\ [][LoopsNext]_loopVars
        /\ WatchdogRuns /\ DebugRuns /\ MeshRuns /\ TelemetryRuns /\ CallsRun

-----------------------------------------------------------------------------
\* The ranges of the variables of all six.
LoopsTypeOK ==
    /\ TypeOK /\ RemoteDebugTypeOK /\ MeshTypeOK
    /\ TelemetryTypeOK
    /\ NotificationTypeOK /\ ChatTypeOK

\* What the MeshCentral flow writes back of the entry it loaded undoes no report and
\* keeps no pause, but for the overlap it leaves open.
MeshStateHolds == ReportedIsKept /\ []<>(focus # "mesh" \/ MeshNotPaused)

\* A call for a notification and one for an answer of the assistant come to an end,
\* whoever is silent, and leave nothing behind (their timers).
UserCallsReturn == DispatchesReturn /\ ChatCallsEnd
=============================================================================
