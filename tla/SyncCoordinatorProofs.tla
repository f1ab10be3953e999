------------------------ MODULE SyncCoordinatorProofs ------------------------
(***************************************************************************)
(* Proofs about SyncCoordinator, for every set of resources and bound: the *)
(* types, one trigger per key, no revision recorded unseen, and content    *)
(* that never goes back.                                                   *)
(***************************************************************************)
EXTENDS SyncCoordinator, TLAPS

\* Every revision that the agent handles was made by the server.
MadeByServer ==
    /\ \A p \in pings : p.revision <= server[p.resource]
    /\ \A r \in Resources :
          /\ queued[r] # None => queued[r] <= server[r]
          /\ \A rev \in inflight[r] : rev <= server[r]
          /\ manifest[r] <= server[r] /\ fetched[r] <= server[r]
          /\ cache[r] <= server[r] /\ held[r] <= server[r]

\* The trigger that is processed is the server's, and answered before it is recorded.
CurrentAnswered ==
    /\ current.revision <= server[current.resource]
    /\ pc = "record" => current.revision <= fetched[current.resource]

\* The configuration in memory is not newer than the cached one.
CacheIsAhead == \A r \in Resources : Kind[r] = "configuration" => held[r] <= cache[r]

Inv == TypeOK /\ OneTriggerPerKey /\ MadeByServer /\ CurrentAnswered /\ CacheIsAhead
       /\ RecordedWasFetched

-----------------------------------------------------------------------------
\* What the proofs need of the constants.
LEMMA Sizes == MaxRevision \in Nat /\ MaxRevision >= 1 /\ Kind \in [Resources -> Kinds]
BY SyncAssumption DEF SyncAssumption

\* The initial state satisfies the invariant.
LEMMA InitInv == Init => Inv
<1> SUFFICES ASSUME Init PROVE Inv
  OBVIOUS
<1>1. TypeOK
  BY Sizes DEF Init, TypeOK, Revisions, None, Events, Bounds
<1>2. OneTriggerPerKey
  BY DEF Init, OneTriggerPerKey
<1>3. MadeByServer
  BY DEF Init, MadeByServer
<1>4. CurrentAnswered /\ CacheIsAhead /\ RecordedWasFetched
  BY DEF Init, CurrentAnswered, CacheIsAhead, RecordedWasFetched
<1> QED BY <1>1, <1>2, <1>3, <1>4 DEF Inv

\* Counting an event keeps the counters in their range.
LEMMA SpendType ==
  ASSUME used \in [Bounds -> Nat], NEW b \in Bounds, NEW limit, Spend(b, limit)
  PROVE  used' \in [Bounds -> Nat]
BY DEF Spend

\* A trigger of the server's joins the queue, or is merged into the one that waits.
LEMMA EnqueueKeeps ==
  ASSUME Inv, NEW r \in Resources, NEW rev \in Revisions, rev <= server[r],
         Enqueue(r, rev), UNCHANGED server
  PROVE  /\ queued' \in [Resources -> Revisions \cup {None}]
         /\ inflight' \in [Resources -> SUBSET Revisions]
         /\ OneTriggerPerKey'
         /\ \A q \in Resources : /\ queued'[q] # None => queued'[q] <= server'[q]
                                 /\ \A w \in inflight'[q] : w <= server'[q]
<1> USE DEF Inv
<1>0. MaxRevision \in Nat /\ rev # None /\ queued[r] \in Revisions \cup {None} /\ server[r] \in Revisions
  BY Sizes DEF Revisions, None, TypeOK
<1>1. CASE queued[r] # None
  <2>1. /\ queued' = [queued EXCEPT ![r] = IF rev # 0 THEN rev ELSE queued[r]]
        /\ inflight' = inflight
    BY <1>1 DEF Enqueue
  <2>2. queued'[r] # None /\ queued'[r] \in Revisions
    BY <1>0, <1>1, <2>1 DEF TypeOK
  <2>3. \A q \in Resources : (queued'[q] = None) <=> (queued[q] = None)
    BY <1>1, <2>1, <2>2 DEF TypeOK
  <2>4. OneTriggerPerKey'
    BY <2>1, <2>3 DEF OneTriggerPerKey
  <2> QED BY <1>0, <1>1, <2>1, <2>2, <2>4 DEF TypeOK, MadeByServer
<1>2. CASE queued[r] = None
  <2>1. queued' = [queued EXCEPT ![r] = rev] /\ inflight' = [inflight EXCEPT ![r] = inflight[r] \cup {rev}]
    BY <1>2 DEF Enqueue
  <2>2. inflight[r] = {}
    BY <1>2 DEF OneTriggerPerKey
  <2>3. inflight'[r] = {rev} /\ queued'[r] = rev
    BY <2>1, <2>2 DEF TypeOK
  <2>4. \A q \in Resources \ {r} : queued'[q] = queued[q] /\ inflight'[q] = inflight[q]
    BY <2>1 DEF TypeOK
  <2>5. OneTriggerPerKey'
    BY <1>0, <2>3, <2>4 DEF OneTriggerPerKey
  <2> QED BY <1>0, <2>1, <2>3, <2>4, <2>5 DEF TypeOK, MadeByServer
<1> QED BY <1>1, <1>2

-----------------------------------------------------------------------------
(* Every action preserves the invariant.                                   *)

\* Variables that the invariant's parts are about, when they are left alone.
LEMMA Stutter == Inv /\ UNCHANGED vars => Inv'
BY DEF Inv, TypeOK, OneTriggerPerKey, MadeByServer, CurrentAnswered, CacheIsAhead,
       RecordedWasFetched, vars, serverVars, queueVars, dataVars, runVars

\* A ping: an event that was seen changes nothing, another one is enqueued.
LEMMA HandlePingInv ==
  ASSUME Inv, NEW p \in pings, HandlePing(p)
  PROVE  Inv'
<1> USE DEF Inv
<1>0. /\ UNCHANGED <<serverVars, dataVars, runVars>> /\ used' \in [Bounds -> Nat]
      /\ p.resource \in Resources /\ p.event \in Revisions \ {0} /\ p.revision \in Revisions
      /\ p.revision <= server[p.resource]
  BY SpendType DEF HandlePing, TypeOK, Bounds, MadeByServer
<1>1. CASE <<p.resource, p.event>> \in processed
  BY <1>0, <1>1 DEF HandlePing, TypeOK, OneTriggerPerKey, MadeByServer, CurrentAnswered,
     CacheIsAhead, RecordedWasFetched, serverVars, queueVars, dataVars, runVars
<1>2. CASE <<p.resource, p.event>> \notin processed
  <2>1. processed' = processed \cup {<<p.resource, p.event>>} /\ Enqueue(p.resource, p.revision)
    BY <1>2 DEF HandlePing
  <2>2. processed' \subseteq Events
    BY <1>0, <2>1 DEF TypeOK, Events
  <2>3. UNCHANGED server
    BY <1>0 DEF serverVars
  <2>4. /\ queued' \in [Resources -> Revisions \cup {None}]
        /\ inflight' \in [Resources -> SUBSET Revisions]
        /\ OneTriggerPerKey'
        /\ \A q \in Resources : /\ queued'[q] # None => queued'[q] <= server'[q]
                                /\ \A w \in inflight'[q] : w <= server'[q]
    BY <1>0, <2>1, <2>3, EnqueueKeeps
  <2> QED BY <1>0, <2>2, <2>4 DEF TypeOK, MadeByServer, CurrentAnswered,
             CacheIsAhead, RecordedWasFetched, serverVars, dataVars, runVars
<1> QED BY <1>1, <1>2

\* A resource of the manifest is passed over or enqueued.
LEMMA ReconcileInv ==
  ASSUME Inv, NEW r \in Resources, Reconcile(r)
  PROVE  Inv'
<1> USE DEF Inv
<1>0. /\ UNCHANGED <<serverVars, processed, dataVars, current, used>>
      /\ todo' = todo \ {r} /\ manifest' = [manifest EXCEPT ![r] = 0]
      /\ pc = "reconcile" /\ pc' \in {"idle", "reconcile"}
      /\ manifest[r] \in Revisions /\ manifest[r] <= server[r]
  BY DEF Reconcile, TypeOK, MadeByServer
<1>1. MaxRevision \in Nat /\ manifest' \in [Resources -> Revisions]
      /\ \A q \in Resources : manifest'[q] <= server[q]
  BY <1>0, Sizes DEF TypeOK, MadeByServer, Revisions
<1>2. /\ queued' \in [Resources -> Revisions \cup {None}]
      /\ inflight' \in [Resources -> SUBSET Revisions]
      /\ OneTriggerPerKey'
      /\ \A q \in Resources : /\ queued'[q] # None => queued'[q] <= server'[q]
                              /\ \A w \in inflight'[q] : w <= server'[q]
  <2>1. UNCHANGED server
    BY <1>0 DEF serverVars
  <2>2. CASE manifest[r] # 0 /\ recorded[r] = manifest[r]
    <3>1. UNCHANGED <<queued, inflight>>
      BY <2>2 DEF Reconcile
    <3> QED BY <2>1, <3>1 DEF TypeOK, OneTriggerPerKey, MadeByServer
  <2>3. CASE ~(manifest[r] # 0 /\ recorded[r] = manifest[r])
    <3>1. Enqueue(r, manifest[r])
      BY <2>3 DEF Reconcile
    <3> QED BY <1>0, <2>1, <3>1, EnqueueKeeps
  <2> QED BY <2>2, <2>3
<1> QED BY <1>0, <1>1, <1>2 DEF TypeOK, MadeByServer, CurrentAnswered, CacheIsAhead,
           RecordedWasFetched, serverVars, dataVars

\* A trigger is taken from the queue, and its key from the map.
LEMMA DequeueInv ==
  ASSUME Inv, NEW r \in Resources, NEW rev \in inflight[r], Dequeue(r, rev)
  PROVE  Inv'
<1> USE DEF Inv
<1>0. /\ inflight' = [inflight EXCEPT ![r] = inflight[r] \ {rev}]
      /\ queued' = [queued EXCEPT ![r] = None] /\ pc' = "process"
      /\ UNCHANGED <<serverVars, processed, dataVars, manifest, todo, used>>
  BY DEF Dequeue
<1>1. rev \in Revisions /\ rev <= server[r] /\ queued[r] \in Revisions \cup {None}
      /\ (queued[r] # None => queued[r] <= server[r])
  BY DEF TypeOK, MadeByServer
<1>2. \E w \in Revisions : w <= server[r] /\ current' = [resource |-> r, revision |-> w]
  <2>1. CASE queued[r] = None
    BY <1>1, <2>1 DEF Dequeue
  <2>2. CASE queued[r] # None
    BY <1>1, <2>2 DEF Dequeue
  <2> QED BY <2>1, <2>2
<1>3. inflight'[r] = {} /\ queued'[r] = None
  BY <1>0 DEF TypeOK, OneTriggerPerKey
<1>4. \A q \in Resources \ {r} : inflight'[q] = inflight[q] /\ queued'[q] = queued[q]
  BY <1>0 DEF TypeOK
<1>5. OneTriggerPerKey'
  BY <1>3, <1>4 DEF OneTriggerPerKey
<1>6. TypeOK'
  BY <1>0, <1>2 DEF TypeOK, serverVars, dataVars
<1>7. MadeByServer'
  BY <1>0, <1>3, <1>4 DEF MadeByServer, serverVars, dataVars
<1> QED BY <1>0, <1>2, <1>5, <1>6, <1>7 DEF CurrentAnswered, CacheIsAhead, RecordedWasFetched,
           serverVars, dataVars

\* An answer, of whatever kind, is at the server's revision.
LEMMA AnsweredInv ==
  ASSUME Inv, pc = "process", pc' = "record",
         UNCHANGED <<serverVars, queueVars, recorded, manifest, todo, current>>,
         Answered(current.resource), skipped' \subseteq Resources, used' \in [Bounds -> Nat],
         held' \in [Resources -> Revisions], cache' \in [Resources -> Revisions],
         \A r \in Resources : held'[r] <= server[r] /\ cache'[r] <= server[r],
         CacheIsAhead'
  PROVE  Inv'
<1> USE DEF Inv
<1>1. /\ fetched' = [fetched EXCEPT ![current.resource] = server[current.resource]]
      /\ current.resource \in Resources /\ current.revision \in Revisions
      /\ current.revision <= server[current.resource]
  BY DEF Answered, TypeOK, CurrentAnswered
<1>2. fetched' \in [Resources -> Revisions]
      /\ fetched'[current.resource] = server[current.resource]
      /\ \A r \in Resources : fetched[r] <= fetched'[r] /\ fetched'[r] <= server[r]
  BY <1>1, Sizes DEF TypeOK, MadeByServer, Revisions
<1>3. TypeOK'
  BY <1>2 DEF TypeOK, serverVars, queueVars
<1>4. OneTriggerPerKey' /\ MadeByServer' /\ CurrentAnswered'
  BY <1>1, <1>2 DEF OneTriggerPerKey, MadeByServer, CurrentAnswered, serverVars, queueVars
<1>5. RecordedWasFetched'
  <2> SUFFICES ASSUME NEW r \in Resources PROVE recorded'[r] <= fetched'[r]
    BY DEF RecordedWasFetched
  <2>1. recorded[r] <= fetched[r] /\ fetched[r] <= fetched'[r] /\ recorded'[r] = recorded[r]
    BY <1>2 DEF RecordedWasFetched
  <2>2. {recorded[r], fetched[r], fetched'[r]} \subseteq Nat
    BY <1>2, Sizes DEF TypeOK, Revisions
  <2> QED BY <2>1, <2>2
<1> QED BY <1>3, <1>4, <1>5

\* The content is fetched.
LEMMA FetchInv == Inv /\ Fetch => Inv'
<1> SUFFICES ASSUME Inv, Fetch PROVE Inv'
  OBVIOUS
<1> DEFINE r == current.resource
<1>0. /\ r \in Resources /\ pc = "process" /\ pc' = "record" /\ Answered(r)
      /\ UNCHANGED <<serverVars, queueVars, recorded, manifest, todo, current, used>>
      /\ held' = [held EXCEPT ![r] = server[r]] /\ skipped' = skipped \ {r}
      /\ cache' = IF Kind[r] = "configuration" THEN [cache EXCEPT ![r] = server[r]] ELSE cache
  BY DEF Fetch, Inv, TypeOK
<1>1. held' \in [Resources -> Revisions] /\ cache' \in [Resources -> Revisions]
      /\ \A q \in Resources : held'[q] <= server[q] /\ cache'[q] <= server[q]
  BY <1>0, Sizes DEF Inv, TypeOK, MadeByServer, Revisions
<1>2. CacheIsAhead'
  BY <1>0, Sizes DEF Inv, TypeOK, CacheIsAhead, Revisions
<1>3. skipped' \subseteq Resources /\ used' \in [Bounds -> Nat]
  BY <1>0 DEF Inv, TypeOK
<1> QED BY <1>0, <1>1, <1>2, <1>3, AnsweredInv

\* The answer is accepted and not applied.
LEMMA SkipInv == Inv /\ Skip => Inv'
<1> SUFFICES ASSUME Inv, Skip PROVE Inv'
  OBVIOUS
<1> DEFINE r == current.resource
<1>0. /\ r \in Resources /\ pc = "process" /\ pc' = "record" /\ Answered(r)
      /\ UNCHANGED <<serverVars, queueVars, recorded, held, cache, manifest, todo, current>>
      /\ skipped' = skipped \cup {r} /\ Spend("failures", MaxFailures)
  BY DEF Skip, Inv, TypeOK
<1>1. used' \in [Bounds -> Nat]
  BY <1>0, SpendType DEF Inv, TypeOK, Bounds
<1>2. CacheIsAhead' /\ held' \in [Resources -> Revisions] /\ cache' \in [Resources -> Revisions]
      /\ \A q \in Resources : held'[q] <= server[q] /\ cache'[q] <= server[q]
      /\ skipped' \subseteq Resources
  BY <1>0 DEF Inv, TypeOK, MadeByServer, CacheIsAhead
<1> QED BY <1>0, <1>1, <1>2, AnsweredInv

\* A full resync: the content fetched is the server's, whatever failed.
LEMMA FullResyncInv ==
  ASSUME Inv, NEW done \in SUBSET Content, FullResync(done)
  PROVE  Inv'
<1> DEFINE r == current.resource
<1>0. /\ r \in Resources /\ pc = "process" /\ Kind[r] = "other"
      /\ held' = [c \in Resources |-> IF c \in done \cup {r} THEN server[c] ELSE held[c]]
      /\ cache' = [c \in Resources |->
                      IF c \in done /\ Kind[c] = "configuration" THEN server[c] ELSE cache[c]]
      /\ skipped' = skipped \ done
      /\ UNCHANGED <<serverVars, queueVars, recorded, manifest, todo>>
  BY DEF FullResync, Inv, TypeOK
<1>1. held' \in [Resources -> Revisions] /\ cache' \in [Resources -> Revisions]
      /\ \A q \in Resources : held'[q] <= server[q] /\ cache'[q] <= server[q]
  BY <1>0, Sizes DEF Inv, TypeOK, MadeByServer, Revisions
<1>2. CacheIsAhead' /\ skipped' \subseteq Resources
  BY <1>0, Sizes DEF Inv, TypeOK, CacheIsAhead, Revisions
<1>3. CASE done = Content
  <2>1. Answered(r) /\ pc' = "record" /\ UNCHANGED <<current, used>>
    BY <1>3 DEF FullResync
  <2>2. used' \in [Bounds -> Nat]
    BY <2>1 DEF Inv, TypeOK
  <2> QED BY <1>0, <1>1, <1>2, <2>1, <2>2, AnsweredInv
<1>4. CASE done # Content
  <2>1. Spend("failures", MaxFailures) /\ Return /\ UNCHANGED fetched
    BY <1>4 DEF FullResync
  <2>2. used' \in [Bounds -> Nat]
    BY <2>1, SpendType DEF Inv, TypeOK, Bounds
  <2>3. current' = [current EXCEPT !.revision = 0] /\ pc' = "idle"
    BY <2>1 DEF Return
  <2>4. current' \in [resource : Resources, revision : Revisions]
        /\ current'.resource = r /\ current'.revision = 0
    BY <2>3, Sizes DEF Inv, TypeOK, Revisions
  <2>5. TypeOK'
    BY <1>0, <1>1, <1>2, <2>1, <2>2, <2>3, <2>4 DEF Inv, TypeOK, serverVars, queueVars
  <2>6. CurrentAnswered'
    BY <1>0, <2>3, <2>4, Sizes DEF Inv, TypeOK, CurrentAnswered, serverVars, Revisions
  <2> QED BY <1>0, <1>1, <1>2, <2>1, <2>5, <2>6
          DEF Inv, OneTriggerPerKey, MadeByServer, RecordedWasFetched, serverVars, queueVars
<1> QED BY <1>3, <1>4

\* A request that fails: the cached configuration is loaded.
LEMMA FetchFailsInv == Inv /\ FetchFails => Inv'
<1> SUFFICES ASSUME Inv, FetchFails PROVE Inv'
  OBVIOUS
<1> DEFINE r == current.resource
<1>0. /\ r \in Resources /\ Spend("failures", MaxFailures) /\ Return
      /\ UNCHANGED <<serverVars, queueVars, recorded, cache, fetched, skipped, manifest, todo>>
      /\ held' = IF Kind[r] = "configuration" /\ cache[r] # 0
                 THEN [held EXCEPT ![r] = cache[r]] ELSE held
  BY DEF FetchFails, Inv, TypeOK
<1>1. held' \in [Resources -> Revisions] /\ CacheIsAhead'
      /\ \A q \in Resources : held'[q] <= server[q]
  BY <1>0, Sizes DEF Inv, TypeOK, MadeByServer, CacheIsAhead, Revisions
<1>2. used' \in [Bounds -> Nat]
  BY <1>0, SpendType DEF Inv, TypeOK, Bounds
<1>3. current' = [current EXCEPT !.revision = 0] /\ pc' = "idle"
  BY <1>0 DEF Return
<1>4. current' \in [resource : Resources, revision : Revisions]
      /\ current'.resource = r /\ current'.revision = 0
  BY <1>3, Sizes DEF Inv, TypeOK, Revisions
<1>5. TypeOK'
  BY <1>0, <1>1, <1>2, <1>3, <1>4 DEF Inv, TypeOK, serverVars, queueVars
<1>6. CurrentAnswered'
  BY <1>0, <1>3, <1>4, Sizes DEF Inv, TypeOK, CurrentAnswered, serverVars, Revisions
<1> QED BY <1>0, <1>1, <1>5, <1>6
        DEF Inv, OneTriggerPerKey, MadeByServer, RecordedWasFetched, serverVars, queueVars

\* The revision of an answered trigger is recorded.
LEMMA RecordInv == Inv /\ Record => Inv'
<1> SUFFICES ASSUME Inv, Record PROVE Inv'
  OBVIOUS
<1> DEFINE r == current.resource
<1>0. /\ r \in Resources /\ current.revision \in Revisions /\ current.revision <= fetched[r]
      /\ recorded' = IF current.revision = 0 THEN recorded
                     ELSE [recorded EXCEPT ![r] = current.revision]
      /\ UNCHANGED <<serverVars, queueVars, held, cache, fetched, skipped, manifest, todo, used>>
      /\ pc' = "idle" /\ current' = [current EXCEPT !.revision = 0]
  BY DEF Record, Return, Inv, TypeOK, CurrentAnswered
<1>1. recorded' \in [Resources -> Revisions] /\ RecordedWasFetched'
  BY <1>0 DEF Inv, TypeOK, RecordedWasFetched
<1>2. current' \in [resource : Resources, revision : Revisions]
      /\ current'.resource = r /\ current'.revision = 0
  BY <1>0, Sizes DEF Inv, TypeOK, Revisions
<1>3. TypeOK'
  BY <1>0, <1>1, <1>2 DEF Inv, TypeOK, serverVars, queueVars
<1>4. CurrentAnswered'
  BY <1>0, <1>2, Sizes DEF Inv, TypeOK, CurrentAnswered, serverVars, Revisions
<1> QED BY <1>0, <1>1, <1>3, <1>4
        DEF Inv, OneTriggerPerKey, MadeByServer, CacheIsAhead, serverVars, queueVars

\* The server makes a revision and announces it.
LEMMA PublishInv ==
  ASSUME Inv, NEW r \in Resources, Publish(r)
  PROVE  Inv'
<1> USE DEF Inv
<1>0. /\ server[r] < MaxRevision /\ server' = [server EXCEPT ![r] = server[r] + 1]
      /\ UNCHANGED <<queueVars, dataVars, runVars, used>>
  BY DEF Publish
<1>1. PICK rev \in {0, server[r] + 1} :
         pings' = pings \cup {[resource |-> r, event |-> server[r] + 1, revision |-> rev]}
  BY DEF Publish
<1>2. /\ server' \in [Resources -> Revisions] /\ server'[r] = server[r] + 1
      /\ server[r] + 1 \in Revisions \ {0} /\ 0 \in Revisions
      /\ \A q \in Resources : \A w \in Nat : w <= server[q] => w <= server'[q]
  BY <1>0, Sizes DEF TypeOK, Revisions
<1>3. TypeOK'
  BY <1>0, <1>1, <1>2 DEF TypeOK, queueVars, dataVars, runVars
<1>4. \A p \in pings' : p.revision <= server'[p.resource]
  <2>1. \A p \in pings : p.resource \in Resources /\ p.revision \in Nat
    BY Sizes DEF TypeOK, Revisions
  <2>2. rev <= server'[r]
    BY <1>1, <1>2, Sizes DEF Revisions
  <2> QED BY <1>1, <1>2, <2>1, <2>2 DEF MadeByServer
<1>5. MadeByServer'
  <2> SUFFICES ASSUME NEW q \in Resources
               PROVE  /\ queued'[q] # None => queued'[q] <= server'[q]
                      /\ \A w \in inflight'[q] : w <= server'[q]
                      /\ manifest'[q] <= server'[q] /\ fetched'[q] <= server'[q]
                      /\ cache'[q] <= server'[q] /\ held'[q] <= server'[q]
    BY <1>4 DEF MadeByServer
  <2>1. /\ queued[q] # None => queued[q] \in Nat
        /\ \A w \in inflight[q] : w \in Nat
        /\ {manifest[q], fetched[q], cache[q], held[q]} \subseteq Nat
    BY Sizes DEF TypeOK, Revisions
  <2> QED BY <1>0, <1>2, <2>1 DEF MadeByServer, queueVars, dataVars, runVars
<1>6. CurrentAnswered'
  <2>1. current.resource \in Resources /\ current.revision \in Nat
    BY Sizes DEF TypeOK, Revisions
  <2> QED BY <1>0, <1>2, <2>1 DEF CurrentAnswered, dataVars, runVars
<1> QED BY <1>0, <1>3, <1>5, <1>6 DEF OneTriggerPerKey, CacheIsAhead, RecordedWasFetched,
           queueVars, dataVars

\* The end of the process empties the queue and forgets what was recorded.
LEMMA RestartInv == Inv /\ Restart => Inv'
<1> SUFFICES ASSUME Inv, Restart PROVE Inv'
  OBVIOUS
<1> USE DEF Inv
<1>0. /\ processed' = {} /\ queued' = [r \in Resources |-> None]
      /\ inflight' = [r \in Resources |-> {}] /\ recorded' = [r \in Resources |-> 0]
      /\ held' = [r \in Resources |-> IF Kind[r] = "configuration" THEN 0 ELSE held[r]]
      /\ fetched' = [r \in Resources |-> 0] /\ skipped' = {} /\ todo' = {}
      /\ manifest' = [r \in Resources |-> 0] /\ UNCHANGED <<serverVars, cache>>
      /\ pc' = "idle" /\ current' = [current EXCEPT !.revision = 0]
      /\ Spend("restarts", MaxRestarts)
  BY DEF Restart, Return
<1>1. used' \in [Bounds -> Nat]
  BY <1>0, SpendType DEF TypeOK, Bounds
<1>2. current' \in [resource : Resources, revision : Revisions]
      /\ current'.resource = current.resource /\ current'.revision = 0
  BY <1>0, Sizes DEF TypeOK, Revisions
<1>3. TypeOK'
  BY <1>0, <1>1, <1>2, Sizes DEF TypeOK, serverVars, Revisions
<1>4. OneTriggerPerKey' /\ RecordedWasFetched'
  BY <1>0 DEF OneTriggerPerKey, RecordedWasFetched
<1>5. MadeByServer' /\ CacheIsAhead'
  BY <1>0, Sizes DEF TypeOK, MadeByServer, CacheIsAhead, serverVars, Revisions
<1>6. CurrentAnswered'
  BY <1>0, <1>2, Sizes DEF TypeOK, CurrentAnswered, serverVars, Revisions
<1> QED BY <1>3, <1>4, <1>5, <1>6

\* The steps that touch little: the start of a reconciliation, a manifest that does
\* not arrive, an event that is forgotten.
LEMMA SmallStepsInv ==
  ASSUME Inv, Poll \/ PollFails \/ \E e \in processed : Forget(e)
  PROVE  Inv'
<1> USE DEF Inv
<1>1. CASE Poll
  <2>1. /\ manifest' = server /\ todo' = Resources /\ pc' = "reconcile"
        /\ UNCHANGED <<serverVars, queueVars, dataVars, current, used>>
    BY <1>1 DEF Poll
  <2>2. \A r \in Resources : server[r] <= server[r]
    BY Sizes DEF TypeOK, Revisions
  <2> QED BY <2>1, <2>2 DEF TypeOK, OneTriggerPerKey, MadeByServer, CurrentAnswered, CacheIsAhead,
             RecordedWasFetched, serverVars, queueVars, dataVars
<1>2. CASE PollFails
  <2>1. used' \in [Bounds -> Nat] /\ UNCHANGED <<serverVars, queueVars, dataVars, runVars>>
    BY <1>2, SpendType DEF PollFails, TypeOK, Bounds
  <2> QED BY <2>1 DEF TypeOK, OneTriggerPerKey, MadeByServer, CurrentAnswered, CacheIsAhead,
             RecordedWasFetched, serverVars, queueVars, dataVars, runVars
<1>3. CASE \E e \in processed : Forget(e)
  BY <1>3 DEF Forget, TypeOK, OneTriggerPerKey, MadeByServer, CurrentAnswered, CacheIsAhead,
     RecordedWasFetched, serverVars, dataVars, runVars
<1> QED BY <1>1, <1>2, <1>3

\* Every step preserves the invariant.
LEMMA NextInv == Inv /\ [Next]_vars => Inv'
<1> SUFFICES ASSUME Inv, [Next]_vars PROVE Inv'
  OBVIOUS
<1>1. ASSUME Receive PROVE Inv'
  BY <1>1, DequeueInv DEF Receive
<1>2. ASSUME Process PROVE Inv'
  BY <1>2, FetchInv, SkipInv, FetchFailsInv, RecordInv, FullResyncInv
     DEF Process
<1>3. ASSUME Step PROVE Inv'
  BY <1>2, <1>3, ReconcileInv DEF Step
<1> QED BY <1>1, <1>3, SmallStepsInv, RestartInv, HandlePingInv, PublishInv, Stutter DEF Next

-----------------------------------------------------------------------------
\* The invariant holds in every behaviour.
THEOREM Invariance == Spec => []Inv
BY InitInv, NextInv, PTL DEF Spec

\* Every variable stays in its range, for all resources and bounds.
THEOREM TypeCorrect == Spec => []TypeOK
<1>1. Inv => TypeOK
  BY DEF Inv
<1> QED BY <1>1, Invariance, PTL

\* The map of queued keys and the triggers on their way agree: no trigger of enqueue
\* is lost, none is doubled.
THEOREM TriggersAgree == Spec => []OneTriggerPerKey
<1>1. Inv => OneTriggerPerKey
  BY DEF Inv
<1> QED BY <1>1, Invariance, PTL

\* No revision is recorded that the server did not answer for in this process.
THEOREM NothingRecordedUnseen == Spec => []RecordedWasFetched
<1>1. Inv => RecordedWasFetched
  BY DEF Inv
<1> QED BY <1>1, Invariance, PTL

\* Both: no trigger is lost or doubled, and none ends in a record without an answer.
THEOREM TriggersStaySound == Spec => []TriggersAreSound
<1>1. Inv => TriggersAreSound
  BY DEF Inv, TriggersAreSound
<1> QED BY <1>1, Invariance, PTL

\* A step other than a restart takes no content back.
LEMMA StepKeepsContent ==
  ASSUME Inv, [Next]_vars, NEW r \in Resources, held'[r] < held[r]
  PROVE  used'["restarts"] > used["restarts"]
<1> USE DEF Inv
<1>0. held[r] \in Nat /\ server[r] \in Nat /\ held[r] <= server[r] /\ held'[r] # held[r]
      /\ (Kind[r] = "configuration" => held[r] <= cache[r] /\ cache[r] \in Nat)
  BY Sizes DEF TypeOK, MadeByServer, CacheIsAhead, Revisions
<1>1. CASE Restart
  BY <1>1 DEF Restart, Spend, TypeOK, Bounds
<1>2. ASSUME Fetch PROVE FALSE
  <2>1. held' = [held EXCEPT ![current.resource] = server[current.resource]]
    BY <1>2 DEF Fetch
  <2> QED BY <1>0, <2>1 DEF TypeOK
<1>3. ASSUME FetchFails PROVE FALSE
  BY <1>0, <1>3 DEF FetchFails, TypeOK
<1>4. ASSUME NEW done \in SUBSET Content, FullResync(done) PROVE FALSE
  BY <1>0, <1>4 DEF FullResync
<1>5. ASSUME Skip \/ Record \/ Poll \/ PollFails \/ UNCHANGED vars PROVE FALSE
  BY <1>0, <1>5 DEF Skip, Record, Poll, PollFails, dataVars, vars
<1>6. ASSUME NEW q \in Resources, Reconcile(q) \/ Publish(q) PROVE FALSE
  BY <1>0, <1>6 DEF Reconcile, Publish, dataVars
<1>7. ASSUME NEW q \in Resources, NEW rev \in inflight[q], Dequeue(q, rev) PROVE FALSE
  BY <1>0, <1>7 DEF Dequeue, dataVars
<1>8. ASSUME NEW p \in pings, HandlePing(p) PROVE FALSE
  BY <1>0, <1>8 DEF HandlePing, dataVars
<1>9. ASSUME NEW e \in processed, Forget(e) PROVE FALSE
  BY <1>0, <1>9 DEF Forget, dataVars
<1> QED BY <1>1, <1>2, <1>3, <1>4, <1>5, <1>6, <1>7, <1>8, <1>9 DEF Next, Step, Process, Receive

\* The content the agent works with never goes back, but by a restart.
THEOREM ContentIsKept == Spec => ContentNeverGoesBack
<1>1. Inv /\ [Next]_vars =>
        [\A r \in Resources : held'[r] < held[r] => used'["restarts"] > used["restarts"]]_vars
  BY StepKeepsContent
<1> QED BY <1>1, Invariance, PTL DEF Spec, ContentNeverGoesBack
=============================================================================
