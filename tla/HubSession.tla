----------------------------- MODULE HubSession -----------------------------
(***************************************************************************)
(* How the agent's connection comes up: which transports a round tries,    *)
(* what each must pass, and the handshakes with the SignalR hub.           *)
(*                                                                         *)
(* Run loads the settings, refuses remote servers without TLS and tries    *)
(* the usable transports in turn; a session that ends with an error hands  *)
(* over to the next.  The hub's messages are records in frames: the first  *)
(* frame is taken for the answer to the agent's hello, the next ones are   *)
(* searched for the secure handshake until one deadline, and what follows  *)
(* goes to the session's loop through the reader goroutine.  A websocket   *)
(* that failed a read, with a timeout too, fails every read after it.      *)
(*                                                                         *)
(* CommandChannel has the sessions that came up, and the results.          *)
(* Source: internal/agentconn/runtime.go, runtime_security.go,             *)
(* runtime_protocol.go.                                                    *)
(***************************************************************************)
EXTENDS Naturals, Sequences, SequencesExt

CONSTANTS
    Settings,      \* what LoadConfig may return (see ConnectionSettings)
    HubCommand,    \* commands the hub sends, each at most once
    HubPatience,   \* bound: steps of a handshake's deadline
    InboxSize,     \* msgCh: 8 in the code
    WireSize       \* bound: frames on their way to the agent

\* Servers: whether there is one, how it is reached, whether it is local.
\* A host from the configuration replaces that of both NATS servers.
Certificate == {"none", "A", "B"}
Server == [by: {"none", "clear", "tls", "odd"}, local: BOOLEAN]
ConnectionSettings ==
    [api: Server, nats: Server, wss: Server, host: {"none", "local", "remote"},
     external: BOOLEAN, guid: BOOLEAN, context: BOOLEAN, token: BOOLEAN,
     apiPin: Certificate, natsPin: Certificate, enforce: BOOLEAN]

\* What the hub sends that is no command.
HubRecord == {"ack", "rejected", "challenge", "accepted", "refused", "ping", "close"}

ASSUME HubSessionAssumption ==
    /\ HubCommand \cap HubRecord = {} /\ "error" \notin HubCommand
    /\ Settings # {} /\ Settings \subseteq ConnectionSettings
    /\ {HubPatience, InboxSize, WireSize} \subseteq Nat \ {0}

VARIABLES
    inUse,      \* the settings of the round
    round,      \* the transports left in it, the one under way first
    stage,      \* of the session under way
    observed,   \* the certificate seen before the session's connection
    unread,       \* frames from the hub, unread
    inbox,      \* frames the reader goroutine passed on, or its error
    deaf,       \* a read failed
    patience,   \* what is left of the handshake's deadline
    challenge,  \* the secure handshake: "none", "seen" (and answered), "accepted"
    hub,        \* what the hub has said in this session
    alone,      \* commands sent in a frame of their own, in this session
    launched    \* how often each command was launched

linkVars == <<unread, inbox, deaf, patience, challenge, hub, alone>>
hubVars == <<inUse, round, stage, observed, linkVars, launched>>

Records == HubRecord \cup HubCommand
Frames == {f \in Seq(Records) : Len(f) \in {1, 2}}
ReadError == <<"error">>

HubTypeOK ==
    /\ inUse \in ConnectionSettings
    /\ round \in Seq({"nats", "nats-wss", "signalr"}) /\ Len(round) <= 3
    /\ stage \in {"waiting", "try", "dial", "hello", "secure", "register", "up"}
    /\ observed \in Certificate
    /\ unread \in Seq(Frames) /\ Len(unread) <= WireSize
    /\ inbox \in Seq(Frames \cup {ReadError}) /\ Len(inbox) <= InboxSize
    /\ deaf \in BOOLEAN /\ patience \in 0..HubPatience
    /\ challenge \in {"none", "seen", "accepted"}
    /\ hub \subseteq {"ack", "challenge", "verdict", "close"}
    /\ alone \subseteq HubCommand /\ launched \in [HubCommand -> 0..2]

-----------------------------------------------------------------------------
(* The settings of a round: Run, runSession, runtime_security.go.          *)

NoServer == [by |-> "none", local |-> FALSE]

\* rewriteNATSHost keeps the scheme and the port.
Rehosted(server, host) ==
    IF server.by = "none" \/ host = "none" THEN server
    ELSE [server EXCEPT !.local = (host = "local")]

\* buildExternalNATSWSSURL: only wss, at the host.
Effective(s) ==
    [s EXCEPT
       !.wss = IF s.external /\ s.host # "none" THEN [by |-> "tls", local |-> s.host = "local"]
               ELSE Rehosted(s.wss, s.host),
       !.nats = IF s.external /\ s.host # "none" THEN NoServer ELSE Rehosted(s.nats, s.host),
       !.api = IF s.api.by = "odd" THEN NoServer ELSE s.api]

\* isLocalTarget decides; anything else must be https or wss.
TransportIsSafe(server) == server.by \in {"none", "tls"} \/ server.local
SettingsAreSafe(s) == \A server \in {s.api, s.nats, s.wss} : TransportIsSafe(server)

\* validateCanonicalNATSContext: a GUID, and a client and site to name the subjects.
CanonicalContext(s) == s.guid /\ s.context

Usable(s, transport) ==
    CASE transport = "nats" -> s.nats.by # "none" /\ CanonicalContext(s)
      [] transport = "nats-wss" -> s.wss.by # "none" /\ CanonicalContext(s)
      [] transport = "signalr" -> s.api.by # "none"
IfUsable(s, transport) == IF Usable(s, transport) THEN <<transport>> ELSE <<>>
UsableTransports(s) == IfUsable(s, "nats") \o IfUsable(s, "nats-wss") \o IfUsable(s, "signalr")

Transport == Head(round)
ServerOf(s, t) == CASE t = "nats" -> s.nats [] t = "nats-wss" -> s.wss [] t = "signalr" -> s.api
PinOf(s, t) == IF t = "signalr" THEN s.apiPin ELSE s.natsPin

\* evaluateTLSPinPolicy. (Faulty form: what could not be observed passes.)
PinAllowsUnseen(s, t, seen) ==
    ~s.enforce \/ (PinOf(s, t) # "none" /\ seen \in {"none", PinOf(s, t)})
PinAllows(s, t, seen) == ~s.enforce \/ (PinOf(s, t) # "none" /\ seen = PinOf(s, t))

-----------------------------------------------------------------------------
(* Rounds.                                                                 *)

SessionOver ==
    /\ unread' = <<>> /\ inbox' = <<>> /\ deaf' = FALSE /\ patience' = HubPatience
    /\ challenge' = "none" /\ hub' = {} /\ alone' = {} /\ observed' = "none"

\* The next transport of the round, or the wait before the next round.
NextTransport ==
    /\ round' = Tail(round)
    /\ stage' = IF Tail(round) = <<>> THEN "waiting" ELSE "try"
    /\ SessionOver
    /\ UNCHANGED <<inUse, launched>>

\* Settings that are not safe, or that name no server, are waited out.
BeginRound(s) ==
    /\ stage = "waiting"
    /\ SettingsAreSafe(Effective(s)) /\ UsableTransports(Effective(s)) # <<>>
    /\ inUse' = Effective(s) /\ round' = UsableTransports(Effective(s)) /\ stage' = "try"
    /\ UNCHANGED <<observed, linkVars, launched>>

\* A TLS connection of its own sees the certificate, or fails to (nothing is seen of a
\* server without TLS); what the policy blocks is over before it began.
Observe(seen) ==
    /\ stage = "try"
    /\ ServerOf(inUse, Transport).by = "clear" => seen = "none"
    /\ Transport = "signalr" => inUse.token
    /\ ServerOf(inUse, Transport).by = "tls" => PinAllows(inUse, Transport, seen)
    /\ observed' = seen /\ stage' = "dial"
    /\ UNCHANGED <<inUse, round, linkVars, launched>>

\* No credentials for the hub, a certificate the policy blocks, or no connection.
AttemptIsOver == stage \in {"try", "dial"} /\ NextTransport

\* runNATSSession up to its subscriptions; CommandChannel has the rest.
NatsComesUp ==
    /\ stage = "dial" /\ Transport # "signalr"
    /\ stage' = "up"
    /\ UNCHANGED <<inUse, round, observed, linkVars, launched>>

NatsEnds == stage = "up" /\ Transport # "signalr" /\ NextTransport

-----------------------------------------------------------------------------
(* The hub.                                                                *)

InHubSession == stage \in {"hello", "secure", "register", "up"} /\ Transport = "signalr"

\* connectSignalR and sendHandshake.
HubConnects ==
    /\ stage = "dial" /\ Transport = "signalr"
    /\ stage' = "hello" /\ patience' = HubPatience
    /\ UNCHANGED <<inUse, round, observed, unread, inbox, deaf, challenge, hub, alone, launched>>

\* What the hub may say next, and what it remembers of it.
MaySay(record) ==
    CASE record \in {"ack", "rejected"} -> "ack" \notin hub
      [] record = "challenge" -> "ack" \in hub /\ "challenge" \notin hub
      [] record \in {"accepted", "refused"} ->
            challenge # "none" /\ "verdict" \notin hub
      [] OTHER -> "ack" \in hub /\ "close" \notin hub
Said(record) ==
    CASE record \in {"ack", "rejected"} -> {"ack"}
      [] record = "challenge" -> {"challenge"}
      [] record \in {"accepted", "refused"} -> {"verdict"}
      [] record = "close" -> {"close"}
      [] OTHER -> {}

Unsent(c) == launched[c] = 0 /\ c \notin alone /\ \A f \in Range(unread \o inbox) : ~Contains(f, c)

\* A frame has one record, or one with a command behind it.
HubSays(record) ==
    /\ InHubSession /\ MaySay(record) /\ Len(unread) < WireSize
    /\ record \in HubCommand => Unsent(record)
    /\ unread' = Append(unread, <<record>>) /\ hub' = hub \cup Said(record)
    /\ alone' = IF record \in HubCommand THEN alone \cup {record} ELSE alone
    /\ UNCHANGED <<inUse, round, stage, observed, inbox, deaf, patience, challenge, launched>>

HubSaysBoth(record, c) ==
    /\ InHubSession /\ MaySay(record) /\ record \notin HubCommand
    /\ Len(unread) < WireSize /\ Unsent(c)
    /\ unread' = Append(unread, <<record, c>>) /\ hub' = hub \cup Said(record)
    /\ UNCHANGED <<inUse, round, stage, observed, inbox, deaf, patience, challenge, alone, launched>>

\* The connection breaks: the reads and writes that follow fail.
HubGone ==
    /\ InHubSession /\ deaf' = TRUE
    /\ UNCHANGED <<inUse, round, stage, observed, unread, inbox, patience, challenge, hub, alone, launched>>

-----------------------------------------------------------------------------
(* The handshakes: waitHandshakeAck, completeSecureHandshake.              *)

Listening == stage \in {"hello", "secure"} /\ ~deaf

\* waitHandshakeAck looks at one frame and drops what is behind its first answer.
ReadAck ==
    /\ stage = "hello" /\ Listening /\ unread # <<>>
    /\ IF Contains(Head(unread), "rejected")
       THEN NextTransport
       ELSE /\ stage' = "secure" /\ patience' = HubPatience /\ unread' = Tail(unread)
            /\ UNCHANGED <<inUse, round, observed, inbox, deaf, challenge, hub, alone, launched>>

\* One record of a frame, in the search for the secure handshake: what the wait has
\* come to, whether the challenge was seen, and what was launched.
Waiting == [is |-> "on", seen |-> challenge # "none", run |-> {}]
Searched(at, record) ==
    IF at.is # "on" \/ record = "ping" THEN at
    ELSE CASE record = "challenge" ->
            IF observed = "none" THEN [at EXCEPT !.is = "failed"] ELSE [at EXCEPT !.seen = TRUE]
      [] record = "accepted" -> [at EXCEPT !.is = "accepted"]
      [] record \in {"refused", "close"} -> [at EXCEPT !.is = "failed"]
      [] OTHER -> [at EXCEPT !.is = IF at.seen THEN "on" ELSE "passed",
                             !.run = @ \cup ({record} \cap HubCommand)]

SearchOf(frame) ==
    LET first == Searched(Waiting, Head(frame))
    IN  IF Len(frame) = 1 THEN first ELSE Searched(first, frame[2])

Launch(cs) == launched' = [c \in HubCommand |-> launched[c] + IF c \in cs THEN 1 ELSE 0]

\* The time left stays what it was. (Faulty form: each frame renews the deadline.)
RenewedDeadline == HubPatience
SameDeadline == patience

\* A challenge is answered with the certificate observed, and the search goes on; any
\* other message of a hub that has not challenged is handled and ends the search, with
\* what is behind it in the frame unread.
\* (Faulty form: a message that is not of the handshake is dropped.)
SearchDropping ==
    /\ stage = "secure" /\ Listening /\ unread # <<>>
    /\ LET end == SearchOf(Head(unread))
       IN  IF end.is = "failed" THEN NextTransport
           ELSE /\ stage' = IF end.is = "on" THEN "secure" ELSE "register"
                /\ challenge' = IF end.is = "accepted" THEN "accepted"
                                ELSE IF end.seen THEN "seen" ELSE "none"
                /\ patience' = SameDeadline
                /\ unread' = Tail(unread)
                /\ UNCHANGED <<inUse, round, observed, inbox, deaf, hub, alone, launched>>
Search ==
    /\ stage = "secure" /\ Listening /\ unread # <<>>
    /\ LET end == SearchOf(Head(unread))
       IN  IF end.is = "failed" THEN NextTransport
           ELSE /\ stage' = IF end.is = "on" THEN "secure" ELSE "register"
                /\ challenge' = IF end.is = "accepted" THEN "accepted"
                                ELSE IF end.seen THEN "seen" ELSE "none"
                /\ patience' = SameDeadline
                /\ unread' = Tail(unread)
                /\ Launch(end.run)
                /\ UNCHANGED <<inUse, round, observed, inbox, deaf, hub, alone>>

TimePasses ==
    /\ stage \in {"hello", "secure"} /\ patience > 0
    /\ patience' = patience - 1
    /\ UNCHANGED <<inUse, round, stage, observed, unread, inbox, deaf, challenge, hub, alone, launched>>

\* A hub that has not challenged by the deadline is taken for one that never will.
DeadlineIsUp ==
    /\ stage \in {"hello", "secure"} /\ patience = 0
    /\ IF stage = "hello" \/ challenge = "seen"
       THEN NextTransport
       ELSE /\ stage' = "register" /\ deaf' = TRUE
            /\ UNCHANGED <<inUse, round, observed, unread, inbox, patience, challenge, hub, alone, launched>>

\* A read of the handshake fails for another reason.
HandshakeBreaks == stage \in {"hello", "secure"} /\ deaf /\ NextTransport

-----------------------------------------------------------------------------
(* The session: runSignalRSession, handleSignalRPayload.                   *)

\* RegisterAgent, and the status says connected.
Register ==
    /\ stage = "register"
    /\ stage' = "up"
    /\ UNCHANGED <<inUse, round, observed, linkVars, launched>>

RegisterFails == stage = "register" /\ deaf /\ NextTransport

HubIsUp == stage = "up" /\ Transport = "signalr"

\* The reader goroutine, which ends with its first error.
ReadFrame ==
    /\ HubIsUp /\ Len(inbox) < InboxSize
    /\ ReadError \notin Range(inbox)
    /\ IF deaf THEN inbox' = Append(inbox, ReadError) /\ UNCHANGED unread
       ELSE unread # <<>> /\ inbox' = Append(inbox, Head(unread)) /\ unread' = Tail(unread)
    /\ UNCHANGED <<inUse, round, stage, observed, deaf, patience, challenge, hub, alone, launched>>

\* Commands are launched; a challenge that comes now is nobody's, and the error a
\* record "close" makes is only logged.
Handled(frame) ==
    LET upToClose == IF Contains(frame, "close") THEN <<>> ELSE frame
    IN  Range(upToClose) \cap HubCommand
HandleFrame ==
    /\ HubIsUp /\ inbox # <<>>
    /\ IF Head(inbox) = ReadError THEN NextTransport
       ELSE /\ Launch(Handled(Head(inbox))) /\ inbox' = Tail(inbox)
            /\ UNCHANGED <<inUse, round, stage, observed, unread, deaf, patience, challenge, hub, alone>>

\* A heartbeat cannot be written.
HeartbeatFails == HubIsUp /\ deaf /\ NextTransport

-----------------------------------------------------------------------------
InitHub ==
    /\ inUse \in Settings /\ round = <<>> /\ stage = "waiting" /\ observed = "none"
    /\ unread = <<>> /\ inbox = <<>> /\ deaf = FALSE /\ patience = HubPatience
    /\ challenge = "none" /\ hub = {} /\ alone = {} /\ launched = [c \in HubCommand |-> 0]

AgentReads ==
    \/ ReadAck \/ Search \/ DeadlineIsUp \/ HandshakeBreaks
    \/ Register \/ RegisterFails \/ ReadFrame \/ HandleFrame

NextHub ==
    \/ \E s \in Settings : BeginRound(s)
    \/ \E seen \in Certificate : Observe(seen)
    \/ AttemptIsOver \/ NatsComesUp \/ NatsEnds \/ HubConnects
    \/ \E record \in Records : HubSays(record)
    \/ \E record \in Records, c \in HubCommand : HubSaysBoth(record, c)
    \/ HubGone \/ TimePasses \/ AgentReads \/ HeartbeatFails

HubSpec ==
    /\ InitHub /\ [][NextHub]_hubVars
    /\ WF_hubVars(TimePasses) /\ WF_hubVars(DeadlineIsUp) /\ WF_hubVars(HandshakeBreaks)
    /\ WF_hubVars(ReadFrame) /\ WF_hubVars(HandleFrame) /\ WF_hubVars(Register)

-----------------------------------------------------------------------------
(* Properties.                                                             *)

\* No session runs with a remote server that is not reached by TLS, nor, with the pins
\* enforced, with one whose certificate was not seen to be the expected one; and once
\* the hub has challenged, the agent registers only after it accepted.
SessionsAreTrusted ==
    stage \in {"dial", "hello", "secure", "register", "up"} =>
        /\ TransportIsSafe(ServerOf(inUse, Transport))
        /\ (inUse.enforce /\ ServerOf(inUse, Transport).by = "tls") =>
              PinOf(inUse, Transport) # "none" /\ observed = PinOf(inUse, Transport)
        /\ stage \in {"register", "up"} => challenge # "seen"

\* A command the hub sent in a frame of its own is launched, and once, whichever part of
\* the agent reads it: the search for the handshake, or the session's loop.
CommandsAreHeard ==
    \A c \in alone : <<c>> \notin Range(unread \o inbox) => launched[c] = 1

\* A handshake ends however long the hub pings or keeps silent, and the session of a hub
\* that kept silent, which is registered but can read nothing, ends as well.
HandshakesEnd ==
    /\ (stage \in {"hello", "secure"}) ~> (stage \notin {"hello", "secure"})
    /\ (stage = "up" /\ Transport = "signalr" /\ deaf) ~> (stage # "up")
=============================================================================
