--------------------------- MODULE SyncCoordinator ---------------------------
(***************************************************************************)
(* The synchronisation of the agent with the server's resources: pings     *)
(* that announce a revision, the manifest that is polled, the coalescing   *)
(* queue between them and the coordinator's goroutine, and the revisions   *)
(* it records.                                                             *)
(*                                                                         *)
(*   app/sync.go, app/app.go (NewApp, startup), app/agent_config.go        *)
(*                                                                         *)
(* A resource is a key of resource and variant.  Revisions are opaque to   *)
(* the agent; here they are numbered in the order the server made them, 0  *)
(* being none.  A trigger travels in the channel or, when that is full, in *)
(* a goroutine of its own: it may be received in any order.                *)
(***************************************************************************)
EXTENDS Naturals

CONSTANTS
    Resources,      \* keys of the manifest
    Kind,           \* per resource, the case of processTrigger it falls in
    MaxRevision,    \* bound: revisions the server makes
    MaxDeliveries,  \* bound: deliveries of pings
    MaxFailures,    \* bound: requests that fail, or whose answer is not applied
    MaxRestarts     \* bound: ends of the process

Kinds == {"appstore", "automationpolicy", "configuration", "agentupdate", "other"}
Revisions == 0..MaxRevision
None == MaxRevision + 1     \* no trigger

ASSUME SyncAssumption ==
    /\ MaxRevision \in Nat \ {0} /\ MaxDeliveries \in Nat /\ MaxFailures \in Nat
    /\ MaxRestarts \in Nat
    /\ Kind \in [Resources -> Kinds]

VARIABLES
    server,     \* revision of every resource on the server
    pings,      \* pings that were published: resource, event, revision (or 0)
    processed,  \* processedEvents
    queued,     \* queuedByKey: the revision of the trigger, or None
    inflight,   \* triggers in the channel or on their way into it: their revisions
    recorded,   \* revisions
    held,       \* revision of the content that the agent works with
    cache,      \* revision of agent_configuration_raw in the database
    pc,         \* Run: reconcile, idle, process, record
    manifest,   \* the manifest that is reconciled
    todo,       \* resources of the manifest that are left
    current,    \* the trigger that is processed: resource and revision
    fetched,    \* newest revision for which this process got an answer
    skipped,    \* resources whose last answer was not applied
    used        \* per bound, how often its event happened

queueVars == <<processed, queued, inflight>>
runVars == <<pc, manifest, todo, current>>
dataVars == <<recorded, held, cache, fetched, skipped>>
serverVars == <<server, pings>>
vars == <<serverVars, queueVars, dataVars, runVars, used>>

Bounds == {"deliveries", "failures", "restarts"}
Spend(b, limit) == used[b] < limit /\ used' = [used EXCEPT ![b] = @ + 1]
Events == Resources \X (Revisions \ {0})
Content == {r \in Resources : Kind[r] \in {"appstore", "automationpolicy", "configuration"}}

-----------------------------------------------------------------------------
(* Triggers.                                                               *)

\* enqueue. A trigger for a key that is queued is merged into it: the last revision
\* wins, be it older.
Enqueue(r, rev) ==
    IF queued[r] # None
    THEN /\ queued' = [queued EXCEPT ![r] = IF rev # 0 THEN rev ELSE @]
         /\ UNCHANGED inflight
    ELSE /\ queued' = [queued EXCEPT ![r] = rev]
         /\ inflight' = [inflight EXCEPT ![r] = @ \cup {rev}]

\* HandlePing. A ping with an event that was seen is dropped, and an event is seen
\* before anything came of it.
HandlePing(p) ==
    /\ Spend("deliveries", MaxDeliveries)
    /\ IF <<p.resource, p.event>> \in processed THEN UNCHANGED queueVars
       ELSE /\ processed' = processed \cup {<<p.resource, p.event>>}
            /\ Enqueue(p.resource, p.revision)
    /\ UNCHANGED <<serverVars, dataVars, runVars>>

\* isProcessedEvent drops what is older than processedEventTTL.
Forget(e) ==
    /\ e \in processed /\ processed' = processed \ {e}
    /\ UNCHANGED <<serverVars, queued, inflight, dataVars, runVars, used>>

-----------------------------------------------------------------------------
(* The coordinator's goroutine.                                            *)

\* A manifest arrives: at startup, and at every tick of the poll.
Poll ==
    /\ pc = "idle"
    /\ manifest' = server /\ todo' = Resources /\ pc' = "reconcile"
    /\ UNCHANGED <<serverVars, queueVars, dataVars, current, used>>

PollFails ==
    /\ pc = "idle" /\ Spend("failures", MaxFailures)
    /\ UNCHANGED <<serverVars, queueVars, dataVars, runVars>>

\* reconcileFromManifest, one resource, of which the manifest is then done with. (Faulty form: only unknown ones are queued.)
ReconcileUnknown(r) ==
    /\ pc = "reconcile" /\ r \in todo
    /\ todo' = todo \ {r} /\ manifest' = [manifest EXCEPT ![r] = 0]
    /\ pc' = IF todo' = {} THEN "idle" ELSE pc
    /\ IF manifest[r] # 0 /\ recorded[r] # 0 THEN UNCHANGED <<queued, inflight>>
       ELSE Enqueue(r, manifest[r])
    /\ UNCHANGED <<serverVars, processed, dataVars, current, used>>
Reconcile(r) ==
    /\ pc = "reconcile" /\ r \in todo
    /\ todo' = todo \ {r} /\ manifest' = [manifest EXCEPT ![r] = 0]
    /\ pc' = IF todo' = {} THEN "idle" ELSE pc
    /\ IF manifest[r] # 0 /\ recorded[r] = manifest[r] THEN UNCHANGED <<queued, inflight>>
       ELSE Enqueue(r, manifest[r])
    /\ UNCHANGED <<serverVars, processed, dataVars, current, used>>

\* processTrigger takes the merged trigger, or the one received if there is none.
\* (Faulty form: it leaves the key in the map.)
DequeueLeavesKey(r, rev) ==
    /\ pc = "idle" /\ rev \in inflight[r]
    /\ inflight' = [inflight EXCEPT ![r] = @ \ {rev}]
    /\ current' = [resource |-> r, revision |-> IF queued[r] = None THEN rev ELSE queued[r]]
    /\ pc' = "process"
    /\ UNCHANGED <<serverVars, processed, queued, dataVars, manifest, todo, used>>
Dequeue(r, rev) ==
    /\ pc = "idle" /\ rev \in inflight[r]
    /\ inflight' = [inflight EXCEPT ![r] = @ \ {rev}]
    /\ current' = [resource |-> r, revision |-> IF queued[r] = None THEN rev ELSE queued[r]]
    /\ queued' = [queued EXCEPT ![r] = None]
    /\ pc' = "process"
    /\ UNCHANGED <<serverVars, processed, dataVars, manifest, todo, used>>

\* processTrigger returns, and its trigger is gone.
Return == pc' = "idle" /\ current' = [current EXCEPT !.revision = 0]

Answered(r) == fetched' = [fetched EXCEPT ![r] = server[r]]

\* The content is fetched and applied, or the service is asked for an update check;
\* a configuration is cached first.
\* (Faulty form: only the first one is cached.)
FetchCachesOnce ==
    LET r == current.resource IN
    /\ pc = "process" /\ Kind[r] # "other"
    /\ held' = [held EXCEPT ![r] = server[r]]
    /\ cache' = IF Kind[r] = "configuration" /\ cache[r] = 0
                THEN [cache EXCEPT ![r] = server[r]] ELSE cache
    /\ skipped' = skipped \ {r}
    /\ Answered(r) /\ pc' = "record"
    /\ UNCHANGED <<serverVars, queueVars, recorded, manifest, todo, current, used>>
Fetch ==
    LET r == current.resource IN
    /\ pc = "process" /\ Kind[r] # "other"
    /\ held' = [held EXCEPT ![r] = server[r]]
    /\ cache' = IF Kind[r] = "configuration" THEN [cache EXCEPT ![r] = server[r]] ELSE cache
    /\ skipped' = skipped \ {r}
    /\ Answered(r) /\ pc' = "record"
    /\ UNCHANGED <<serverVars, queueVars, recorded, manifest, todo, current, used>>

\* No error, and nothing applied: an update check the policy does not want, an
\* automation service without credentials, a configuration that cannot be parsed.
Skip ==
    LET r == current.resource IN
    /\ pc = "process" /\ Spend("failures", MaxFailures)
    /\ Kind[r] \in {"agentupdate", "automationpolicy", "configuration"}
    /\ skipped' = skipped \cup {r}
    /\ Answered(r) /\ pc' = "record"
    /\ UNCHANGED <<serverVars, queueVars, recorded, held, cache, manifest, todo, current>>

\* fullResync: everything is fetched, and the first error is returned at the end.
FullResync(done) ==
    LET r == current.resource IN
    /\ pc = "process" /\ Kind[r] = "other" /\ done \subseteq Content
    /\ held' = [c \in Resources |-> IF c \in done \cup {r} THEN server[c] ELSE held[c]]
    /\ cache' = [c \in Resources |->
                    IF c \in done /\ Kind[c] = "configuration" THEN server[c] ELSE cache[c]]
    /\ skipped' = skipped \ done
    /\ IF done = Content
       THEN Answered(r) /\ pc' = "record" /\ UNCHANGED <<current, used>>
       ELSE Spend("failures", MaxFailures) /\ Return /\ UNCHANGED fetched
    /\ UNCHANGED <<serverVars, queueVars, recorded, manifest, todo>>

\* The request fails and nothing is recorded; the cached configuration is loaded.
\* (Faulty form: the revision is recorded all the same.)
FetchFailsRecorded ==
    LET r == current.resource IN
    /\ pc = "process" /\ Kind[r] # "other" /\ Spend("failures", MaxFailures)
    /\ pc' = "record"
    /\ UNCHANGED <<serverVars, queueVars, dataVars, manifest, todo, current>>
FetchFails ==
    LET r == current.resource IN
    /\ pc = "process" /\ Kind[r] # "other" /\ Spend("failures", MaxFailures)
    /\ held' = IF Kind[r] = "configuration" /\ cache[r] # 0
               THEN [held EXCEPT ![r] = cache[r]] ELSE held
    /\ Return
    /\ UNCHANGED <<serverVars, queueVars, recorded, cache, fetched, skipped, manifest, todo>>

\* setRevision.
Record ==
    /\ pc = "record" /\ Return
    /\ recorded' = IF current.revision = 0 THEN recorded
                   ELSE [recorded EXCEPT ![current.resource] = current.revision]
    /\ UNCHANGED <<serverVars, queueVars, held, cache, fetched, skipped, manifest, todo, used>>

-----------------------------------------------------------------------------
(* The server, and the end and the start of the process.                   *)

\* A new revision is announced, with its number or without.
Publish(r) ==
    /\ server[r] < MaxRevision
    /\ server' = [server EXCEPT ![r] = @ + 1]
    /\ \E rev \in {0, server[r] + 1} :
          pings' = pings \cup {[resource |-> r, event |-> server[r] + 1, revision |-> rev]}
    /\ UNCHANGED <<queueVars, dataVars, runVars, used>>

\* NewApp makes the coordinator before startup opens the database, so that
\* loadPersistedRevisions loads none. The configuration was only in memory; the
\* others are loaded from the database. (Faulty form: the revisions are loaded.)
RestartLoadsRevisions ==
    /\ Spend("restarts", MaxRestarts)
    /\ processed' = {} /\ queued' = [r \in Resources |-> None]
    /\ inflight' = [r \in Resources |-> {}]
    /\ UNCHANGED recorded
    /\ held' = [r \in Resources |-> IF Kind[r] = "configuration" THEN 0 ELSE held[r]]
    /\ fetched' = [r \in Resources |-> 0] /\ skipped' = {}
    /\ Return /\ todo' = {} /\ manifest' = [r \in Resources |-> 0]
    /\ UNCHANGED <<serverVars, cache>>
Restart ==
    /\ Spend("restarts", MaxRestarts)
    /\ processed' = {} /\ queued' = [r \in Resources |-> None]
    /\ inflight' = [r \in Resources |-> {}]
    /\ recorded' = [r \in Resources |-> 0]
    /\ held' = [r \in Resources |-> IF Kind[r] = "configuration" THEN 0 ELSE held[r]]
    /\ fetched' = [r \in Resources |-> 0] /\ skipped' = {}
    /\ Return /\ todo' = {} /\ manifest' = [r \in Resources |-> 0]
    /\ UNCHANGED <<serverVars, cache>>

-----------------------------------------------------------------------------
Init ==
    /\ server = [r \in Resources |-> 1] /\ pings = {} /\ processed = {}
    /\ queued = [r \in Resources |-> None] /\ inflight = [r \in Resources |-> {}]
    /\ recorded = [r \in Resources |-> 0] /\ held = [r \in Resources |-> 0]
    /\ cache = [r \in Resources |-> 0] /\ fetched = [r \in Resources |-> 0] /\ skipped = {}
    /\ pc = "idle" /\ manifest = [r \in Resources |-> 0] /\ todo = {}
    /\ current \in [resource : Resources, revision : {0}]
    /\ used = [b \in Bounds |-> 0]

Receive == \E r \in Resources : \E rev \in inflight[r] : Dequeue(r, rev)
Process == \/ Fetch \/ Skip \/ FetchFails \/ Record
           \/ \E done \in SUBSET Content : FullResync(done)
Step == Process \/ \E r \in Resources : Reconcile(r)

Next == \/ Poll \/ PollFails \/ Receive \/ Step \/ Restart
        \/ \E p \in pings : HandlePing(p)
        \/ \E e \in processed : Forget(e)
        \/ \E r \in Resources : Publish(r)

Spec == Init /\ [][Next]_vars

\* The goroutine runs; its select takes the ticker and the channel alike in the end.
Fairness == WF_vars(Step) /\ SF_vars(Poll) /\ SF_vars(Receive)

FairSpec == Spec /\ Fairness

-----------------------------------------------------------------------------
(* Properties.                                                             *)

\* Every variable stays in its range.
TypeOK ==
    /\ server \in [Resources -> Revisions]
    /\ pings \subseteq [resource : Resources, event : Revisions \ {0}, revision : Revisions]
    /\ processed \subseteq Events
    /\ queued \in [Resources -> Revisions \cup {None}]
    /\ inflight \in [Resources -> SUBSET Revisions]
    /\ recorded \in [Resources -> Revisions] /\ held \in [Resources -> Revisions]
    /\ cache \in [Resources -> Revisions] /\ fetched \in [Resources -> Revisions]
    /\ skipped \subseteq Resources
    /\ pc \in {"idle", "reconcile", "process", "record"}
    /\ manifest \in [Resources -> Revisions] /\ todo \subseteq Resources
    /\ current \in [resource : Resources, revision : Revisions]
    /\ used \in [Bounds -> Nat]

\* A key is in the map if and only if one trigger for it is on its way: none is lost,
\* and the channel never holds more triggers than there are keys.
OneTriggerPerKey ==
    \A r \in Resources : /\ queued[r] = None <=> inflight[r] = {}
                         /\ \A a, b \in inflight[r] : a = b

\* What is recorded was answered for in this process, at that revision or a later
\* one: whatever the order of pings and manifests, no revision is recorded unseen.
RecordedWasFetched == \A r \in Resources : recorded[r] <= fetched[r]

\* The key of a trigger and what the trigger leads to are in step with each other, from
\* enqueue to the record.
TriggersAreSound == OneTriggerPerKey /\ RecordedWasFetched

\* However pings are lost, repeated, late or merged into older ones, the agent ends
\* up with the server's revisions recorded, and with their content unless the last
\* answer was one that is not applied.
Converges ==
    \A r \in Resources :
        <>[](recorded[r] = server[r] /\ (held[r] = server[r] \/ r \in skipped))

\* The content never goes back but by a restart, cached configurations included.
ContentNeverGoesBack ==
    [][\A r \in Resources : held'[r] < held[r] => used'["restarts"] > used["restarts"]]_vars
=============================================================================
