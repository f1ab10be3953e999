--------------------------- MODULE MCCommandChannel ---------------------------
(***************************************************************************)
(* What the server has the agent do and hears of it: the results of the    *)
(* commands over the sessions that came up, how a session comes up at all, *)
(* and what is reported of a package task.  The three share no state; they *)
(* are checked side by side, a behaviour running one of them.              *)
(***************************************************************************)
EXTENDS CommandChannel, HubSession, PackageInstall

OneCommand == {"c1"}
NatsThenHub == <<"nats", "signalr">>
WssThenHub == <<"nats-wss", "signalr">>

\* Settings of a production agent, of one in a laboratory without TLS (moved to a remote
\* server by the configuration, or not) and of one with a NATS server the configuration
\* replaces by an external one.
ByTLS == [by |-> "tls", local |-> FALSE]
Clear(local) == [by |-> "clear", local |-> local]
HubSettings(api, nats, wss, host, external, pinned) ==
    [api |-> api, nats |-> nats, wss |-> wss, host |-> host, external |-> external,
     guid |-> TRUE, context |-> TRUE, token |-> TRUE,
     apiPin |-> IF pinned THEN "A" ELSE "none", natsPin |-> "none", enforce |-> pinned]
FourSettings ==
    {HubSettings(ByTLS, NoServer, ByTLS, "none", FALSE, TRUE),
     HubSettings(Clear(TRUE), Clear(TRUE), NoServer, "remote", FALSE, FALSE),
     HubSettings(Clear(TRUE), NoServer, NoServer, "none", FALSE, FALSE),
     HubSettings(ByTLS, Clear(FALSE), NoServer, "remote", TRUE, FALSE)}

\* One task per tool; and two policies of PSADT, peers' installers being tried with the
\* one that falls back.
PackageTaskFor(by, action, approval) == [by |-> by, action |-> action, approval |-> approval]
FourTasks ==
    {PackageTaskFor("psadt", "both", FALSE), PackageTaskFor("winget", "update", FALSE),
     PackageTaskFor("choco", "remove", FALSE), PackageTaskFor("msi", "install", TRUE)}
Lenient == [fallback |-> TRUE, timeout |-> "ignore", unknownIsFatal |-> FALSE, ignores |-> TRUE]
Strict == [fallback |-> FALSE, timeout |-> "fail", unknownIsFatal |-> TRUE, ignores |-> FALSE]
PackagePolicies == {Lenient, Strict}

VARIABLE focus

connectionVars == <<focus, vars, hubVars, packageVars>>

ConnectionInit ==
    /\ focus \in {"results", "handshakes", "packages"}
    /\ Init /\ InitHub
    /\ focus # "handshakes" => inUse.enforce
    /\ InitPackages /\ (p2pInstalls <=> psadtPolicy = Lenient)
    /\ focus # "packages" => psadtPolicy = Strict

RunChannel == focus = "results" /\ Next /\ UNCHANGED <<focus, hubVars, packageVars>>
RunHub == focus = "handshakes" /\ NextHub /\ UNCHANGED <<focus, vars, packageVars>>
RunPackages == focus = "packages" /\ NextPackages /\ UNCHANGED <<focus, vars, hubVars>>
ConnectionNext == RunChannel \/ RunHub \/ RunPackages

\* Fairness is each one's own, for the behaviours that run it.
ChannelRuns ==
    /\ WF_vars(focus = "results" /\ Connection)
    /\ WF_vars(focus = "results" /\ (NatsReconnects \/ SessionEnds))
    /\ \A c \in Commands, n \in 1..MaxDeliveries : WF_vars(focus = "results" /\ Task(c, n))
    /\ WF_vars(focus = "results" /\ Drain) /\ WF_vars(focus = "results" /\ Network)
    /\ WF_vars(focus = "results" /\ ProcessStarts)

\* The handshake's deadline comes, and the session's goroutines go on.
HubRuns ==
    /\ WF_hubVars(focus = "handshakes" /\ TimePasses)
    /\ WF_hubVars(focus = "handshakes" /\ DeadlineIsUp)
    /\ WF_hubVars(focus = "handshakes" /\ HandshakeBreaks)
    /\ WF_hubVars(focus = "handshakes" /\ Register)
    /\ WF_hubVars(focus = "handshakes" /\ ReadFrame)
    /\ WF_hubVars(focus = "handshakes" /\ HandleFrame)

ConnectionSpec ==
    ConnectionInit /\ [][ConnectionNext]_connectionVars /\ ChannelRuns /\ HubRuns

-----------------------------------------------------------------------------
\* Once things are quiet every handshake ends (HandshakesEnd), and a session lasts and the
\* outbox empties (QuietChannelWorks, of the behaviours that run it).
ChannelWorks == HandshakesEnd /\ (focus = "results" => QuietChannelWorks)
=============================================================================
