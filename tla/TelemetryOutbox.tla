--------------------------- MODULE TelemetryOutbox ---------------------------
(***************************************************************************)
(* P2P telemetry: the window of the consolidation engine                   *)
(* (app/consolidation_engine.go), the post (app/p2p_api.go) and the outbox *)
(* a failed post goes to (app/p2p_telemetry_outbox.go).  The page's        *)
(* process and the service each run StartP2PTelemetryLoop over the same    *)
(* database.  Only the page's process receives the agent configuration:    *)
(* the service's engine stays disabled, its queue in its default mode.     *)
(*                                                                         *)
(* A payload holds the second it was collected in, so no two have the same *)
(* hash and the search for a queued twin finds none: payloads are numbers. *)
(***************************************************************************)
EXTENDS Naturals, Sequences, FiniteSetsExt

CONSTANTS
    MaxPayloads,  \* bound: payloads collected
    DrainLimit,   \* p2pTelemetryDrainLimit
    MaxConfigs    \* bound: configurations received

ASSUME TelemetryAssumption ==
    MaxPayloads \in Nat /\ DrainLimit \in Nat \ {0} /\ MaxConfigs \in Nat

Sender == {"gui", "service"}
QueueMode == {"logging_only", "enqueue_only", "enqueue_and_drain"}

VARIABLES
    guiWindowed,   \* the engine of the page's process is enabled with a window
    guiMode,       \* Rollout.P2PTelemetryOfflineMode there
    configs,       \* configurations received
    windowState,   \* consolidation_window_state: [found, startRecent, flushRecent]
    sender,        \* each loop: [step, payload, windowed, overtaken, rows]
    telemetryRow,  \* p2p_telemetry_outbox: payload -> [state: none | waiting | due]
    limited,       \* p2pTelemetryRateLimitUntil is ahead, per process
    telemetryUp,   \* the server answers
    collected,     \* payloads built
    delivered,     \* payloads the server took
    givenUp        \* payloads not kept: logging_only, or expired after 14 days

telemetryVars == <<guiWindowed, guiMode, configs, windowState, sender, telemetryRow,
                   limited, telemetryUp, collected, delivered, givenUp>>

Payload == 1 .. MaxPayloads

TelemetryTypeOK ==
    /\ guiWindowed \in BOOLEAN /\ guiMode \in QueueMode /\ telemetryUp \in BOOLEAN
    /\ configs \in 0 .. MaxConfigs
    /\ windowState \in [found : BOOLEAN, startRecent : BOOLEAN, flushRecent : BOOLEAN]
    /\ sender \in [Sender -> [step : {"idle", "post", "enqueue", "record", "drain", "send"},
                              payload : 0 .. MaxPayloads, windowed : BOOLEAN,
                              overtaken : BOOLEAN, rows : Seq(Payload)]]
    /\ telemetryRow \in [Payload -> {"none", "waiting", "due"}]
    /\ limited \in [Sender -> BOOLEAN]
    /\ collected \in 0 .. MaxPayloads
    /\ delivered \subseteq Payload /\ givenUp \subseteq Payload

InitTelemetry ==
    /\ guiWindowed = FALSE /\ guiMode = "enqueue_and_drain" /\ configs = 0
    /\ telemetryUp = FALSE
    /\ windowState = [found |-> FALSE, startRecent |-> FALSE, flushRecent |-> FALSE]
    /\ sender = [s \in Sender |-> [step |-> "idle", payload |-> 0, windowed |-> FALSE,
                                   overtaken |-> FALSE, rows |-> <<>>]]
    /\ telemetryRow = [p \in Payload |-> "none"]
    /\ limited = [s \in Sender |-> FALSE]
    /\ collected = 0 /\ delivered = {} /\ givenUp = {}

unchangedPolicy == <<guiWindowed, guiMode, configs, telemetryUp>>
unchangedStore == <<telemetryRow, delivered, givenUp>>

Windowed(s) == s = "gui" /\ guiWindowed
ModeOf(s) == IF s = "gui" THEN guiMode ELSE "enqueue_and_drain"
WindowOpen == windowState.found /\ windowState.flushRecent

-----------------------------------------------------------------------------
\* ApplyAgentConfig, and the rollout that governs the queue.
ApplyConsolidationConfig ==
    /\ configs < MaxConfigs
    /\ configs' = configs + 1
    /\ \E windowed \in BOOLEAN, mode \in QueueMode :
        guiWindowed' = windowed /\ guiMode' = mode
    /\ UNCHANGED <<windowState, sender, limited, collected, telemetryUp>>
    /\ UNCHANGED unchangedStore

\* Faulty form: the age of the window is measured from its start.
ShouldFlushFromStart(s) == ~Windowed(s) \/ ~windowState.found \/ ~windowState.startRecent

ShouldFlush(s) == ~Windowed(s) \/ ~WindowOpen

\* A tick of five minutes: the payload is built and posted if the window allows it.
TelemetryTick(s) ==
    /\ sender[s].step = "idle"
    /\ IF ShouldFlush(s) /\ collected < MaxPayloads
       THEN /\ collected' = collected + 1
            /\ sender' = [sender EXCEPT ![s] = [@ EXCEPT !.step = "post",
                            !.payload = collected + 1, !.windowed = Windowed(s),
                            !.overtaken = FALSE]]
       ELSE sender' = [sender EXCEPT ![s].step = "drain"] /\ UNCHANGED collected
    /\ UNCHANGED <<windowState, limited>> /\ UNCHANGED unchangedPolicy
    /\ UNCHANGED unchangedStore

\* p2pRetryAfterFromResponse: a 429 with a time starts a limit, kept in memory.
RateLimited(s, limit) == limited' = [limited EXCEPT ![s] = @ \/ limit]

\* postP2PTelemetryPayload: a process under a rate limit does not try.  An answer that
\* is lost leaves the payload with the server all the same.
Posted(s, payload, taken, answered, limit) ==
    /\ IF limited[s] THEN ~taken /\ ~answered /\ ~limit
       ELSE /\ answered => taken
            /\ limit => ~taken
            /\ telemetryUp => answered
            /\ ~telemetryUp => ~answered
    /\ delivered' = IF taken THEN delivered \cup {payload} ELSE delivered
    /\ RateLimited(s, limit)

PostP2PTelemetry(s) ==
    /\ sender[s].step = "post"
    /\ \E taken, answered, limit \in BOOLEAN :
        /\ Posted(s, sender[s].payload, taken, answered, limit)
        /\ sender' = [sender EXCEPT ![s].step = IF answered THEN "record" ELSE "enqueue"]
    /\ UNCHANGED <<windowState, telemetryRow, collected, givenUp>>
    /\ UNCHANGED unchangedPolicy

\* EnqueueP2PTelemetryOutbox: the row is due at once.
InsertTelemetryRow(p) == telemetryRow' = [telemetryRow EXCEPT ![p] = "due"]

EnqueueTelemetry(s) ==
    /\ sender[s].step = "enqueue"
    /\ IF ModeOf(s) = "logging_only"
       THEN givenUp' = givenUp \cup {sender[s].payload} /\ UNCHANGED telemetryRow
       ELSE InsertTelemetryRow(sender[s].payload) /\ UNCHANGED givenUp
    /\ sender' = [sender EXCEPT ![s].step = "drain", ![s].payload = 0, ![s].windowed = FALSE,
                                ![s].overtaken = FALSE]
    /\ UNCHANGED <<windowState, limited, collected, delivered>> /\ UNCHANGED unchangedPolicy

\* UpsertConsolidationWindowState, with the start RecordFlush found.
UpsertWindow ==
    windowState' = [found |-> TRUE, flushRecent |-> TRUE,
                    startRecent |-> windowState.startRecent \/ ~windowState.found]

\* RecordFlush keeps the start of the window and sets the last flush.
RecordFlush(s) ==
    /\ sender[s].step = "record"
    /\ UpsertWindow
    /\ sender' = [t \in Sender |->
                    IF t = s THEN [sender[s] EXCEPT !.step = "drain", !.payload = 0]
                    ELSE [sender[t] EXCEPT !.overtaken = @ \/ sender[t].step = "post"]]
    /\ UNCHANGED <<limited, collected>> /\ UNCHANGED unchangedPolicy
    /\ UNCHANGED unchangedStore

\* The loop with the rows it has still to send: none, and it waits for its next tick.
AfterRows(s, rows) ==
    [sender EXCEPT ![s].rows = rows, ![s].step = IF rows = <<>> THEN "idle" ELSE "send",
                   ![s].windowed = FALSE, ![s].overtaken = FALSE]

\* ListDueP2PTelemetryOutbox: as many rows that are due as the limit allows.
DueRows ==
    LET due == {p \in Payload : telemetryRow[p] = "due"}
        n   == Min({DrainLimit, Cardinality(due)})
    IN  {rows \in [1 .. n -> due] : \A i, j \in 1 .. n : rows[i] = rows[j] => i = j}

\* drainP2PTelemetryOutbox lists them,
ListDue(s) ==
    /\ sender[s].step = "drain"
    /\ \E rows \in IF ModeOf(s) = "enqueue_and_drain" THEN DueRows ELSE {<<>>} :
        sender' = AfterRows(s, rows)
    /\ UNCHANGED <<windowState, limited, collected>> /\ UNCHANGED unchangedPolicy
    /\ UNCHANGED unchangedStore

\* Faulty form: a row is removed whether or not it was taken.
SendRowOnce(s) ==
    /\ sender[s].step = "send"
    /\ \E taken, answered, limit \in BOOLEAN :
        /\ Posted(s, Head(sender[s].rows), taken, answered, limit)
        /\ telemetryRow' = [telemetryRow EXCEPT ![Head(sender[s].rows)] = "none"]
    /\ sender' = AfterRows(s, Tail(sender[s].rows))
    /\ UNCHANGED <<windowState, collected, givenUp>> /\ UNCHANGED unchangedPolicy

\* RescheduleP2PTelemetryOutbox, or MarkSentP2PTelemetryOutbox.
RowAfterPost(p, answered) ==
    telemetryRow' = [telemetryRow EXCEPT ![p] =
                        IF answered \/ @ = "none" THEN "none" ELSE "waiting"]

\* and posts each: a row that went is deleted, another waits for its backoff, and one
\* the other process has deleted stays deleted.
SendRow(s) ==
    /\ sender[s].step = "send"
    /\ LET p == Head(sender[s].rows) IN
       \E taken, answered, limit \in BOOLEAN :
        /\ Posted(s, p, taken, answered, limit)
        /\ RowAfterPost(p, answered)
    /\ sender' = AfterRows(s, Tail(sender[s].rows))
    /\ UNCHANGED <<windowState, collected, givenUp>> /\ UNCHANGED unchangedPolicy

TelemetrySteps(s) ==
    \/ TelemetryTick(s) \/ PostP2PTelemetry(s) \/ EnqueueTelemetry(s) \/ RecordFlush(s)
    \/ ListDue(s) \/ SendRow(s)

-----------------------------------------------------------------------------
\* p2pTelemetryRetryBackoff: 30 s, doubled up to 5 min.
BackoffPasses(p) ==
    /\ telemetryRow[p] = "waiting"
    /\ telemetryRow' = [telemetryRow EXCEPT ![p] = "due"]
    /\ UNCHANGED <<windowState, sender, limited, collected, delivered, givenUp>>
    /\ UNCHANGED unchangedPolicy

\* Faulty form: it takes an accepted post to lift the limit.
RateLimitPassesOnSuccess(s) ==
    /\ limited[s] /\ sender[s].step = "record"
    /\ limited' = [limited EXCEPT ![s] = FALSE]
    /\ UNCHANGED <<windowState, sender, collected>> /\ UNCHANGED unchangedPolicy
    /\ UNCHANGED unchangedStore

RateLimitPasses(s) ==
    /\ limited[s]
    /\ limited' = [limited EXCEPT ![s] = FALSE]
    /\ UNCHANGED <<windowState, sender, collected>> /\ UNCHANGED unchangedPolicy
    /\ UNCHANGED unchangedStore

\* One or five minutes after the last flush; the start is never the younger.
FlushAges ==
    /\ windowState.flushRecent
    /\ windowState' = [windowState EXCEPT !.startRecent = FALSE,
                                          !.flushRecent = FALSE]
    /\ UNCHANGED <<sender, limited, collected>> /\ UNCHANGED unchangedPolicy
    /\ UNCHANGED unchangedStore

StartAges ==
    /\ windowState.startRecent
    /\ windowState' = [windowState EXCEPT !.startRecent = FALSE]
    /\ UNCHANGED <<sender, limited, collected>> /\ UNCHANGED unchangedPolicy
    /\ UNCHANGED unchangedStore

\* Fourteen days: the row is not listed any more, and CleanupExpiredP2PTelemetryOutbox
\* deletes it.
RowExpires(p) ==
    /\ telemetryRow[p] # "none"
    /\ telemetryRow' = [telemetryRow EXCEPT ![p] = "none"]
    /\ givenUp' = givenUp \cup {p}
    /\ UNCHANGED <<windowState, sender, limited, collected, delivered>>
    /\ UNCHANGED unchangedPolicy

TelemetryServerTurns ==
    /\ telemetryUp' = ~telemetryUp
    /\ UNCHANGED <<guiWindowed, guiMode, configs, windowState, sender, limited, collected>>
    /\ UNCHANGED unchangedStore

NextTelemetry ==
    \/ \E s \in Sender : TelemetrySteps(s) \/ RateLimitPasses(s)
    \/ \E p \in Payload : BackoffPasses(p) \/ RowExpires(p)
    \/ ApplyConsolidationConfig \/ FlushAges \/ StartAges \/ TelemetryServerTurns

-----------------------------------------------------------------------------
\* No payload disappears: it is with the server, in the outbox, on its way there, or was
\* given up by a policy or by its age (PostP2PTelemetry, drainP2PTelemetryOutbox), also
\* with two processes at one outbox.
NoTelemetryLost ==
    \A p \in 1 .. collected :
        \/ p \in delivered \cup givenUp
        \/ telemetryRow[p] # "none"
        \/ \E s \in Sender : sender[s].payload = p

\* A window is flushed early only by a loop whose look at the window came before the
\* other process recorded its flush (ShouldFlush, RecordFlush).
EarlyFlushNeedsOverlap ==
    \A s \in Sender :
        sender[s].step = "post" /\ sender[s].windowed /\ WindowOpen => sender[s].overtaken

\* With the server answering for good, the outbox empties (drainP2PTelemetryOutbox).
TelemetryDrains ==
    <>[]telemetryUp => <>[](\A p \in Payload : telemetryRow[p] = "none")

\* The rows a process listed and has yet to send.
Listed(s) == {sender[s].rows[i] : i \in 1 .. Len(sender[s].rows)}

\* A payload is owed from when it is built: with the process that built it, in the outbox,
\* or with a process that listed its row and has not posted it yet.
TelemetryOwed ==
    {p \in Payload : \/ telemetryRow[p] # "none"
                     \/ \E s \in Sender : sender[s].payload = p \/ p \in Listed(s)}
TelemetryRelay == INSTANCE StoreAndForward WITH
        Items <- Payload, owed <- TelemetryOwed, arrived <- delivered, abandoned <- givenUp
TelemetryIsForwarded == TelemetryRelay!Forward

\* The one outbox of two processes loses nothing and empties, and the window they share
\* is flushed early by nobody who could have known.
TelemetryIsKept ==
    TelemetryIsForwarded /\ [](NoTelemetryLost /\ EarlyFlushNeedsOverlap) /\ TelemetryDrains
=============================================================================
