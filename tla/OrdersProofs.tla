---------------------------- MODULE OrdersProofs ----------------------------
(***************************************************************************)
(* Proofs about the executions of the agent's tasks and their callbacks,   *)
(* which implement StoreAndForward (TaskExecution), and about how the      *)
(* agent comes by its credentials (Provisioning), by the rest of its       *)
(* configuration (AgentConfig) and by its neighbours (PeerDiscovery).      *)
(* Each component is taken by itself, for every set of tasks, processes,   *)
(* configurations and neighbours and every bound.                          *)
(***************************************************************************)
EXTENDS TaskExecution, MCProvisioning, FiniteSetTheorems, TLAPS

-----------------------------------------------------------------------------
(* TaskExecution.                                                          *)

Stages == ActiveStages \cup {"unused", "gated", "deferred", "done", "gone"}
Homes == {"gui", "service"}
Counts == 0..DeferTimes
RunRecord == [stage : Stages, proc : Homes, task : Tasks, trigger : Triggers,
              count : Counts, timed : BOOLEAN]
RunBounds == {"triggers", "faults", "restarts"}

\* An execution of the task that the GUI has under way.
Mine(i, t) == runs[i].stage \in ActiveStages /\ runs[i].proc = "gui" /\ runs[i].task = t

\* Only the GUI asks.  Until it has gone past the rows of the database it executes
\* nothing, and no timer of its own is left.
GuiInv ==
    \A i \in Runs :
        /\ runs[i].stage = "asking" => runs[i].proc = "gui"
        /\ "gui" \notin loaded /\ runs[i].proc = "gui" => runs[i].stage \notin ActiveStages /\ i \notin timers

\* Of a task whose count is not disturbed the GUI executes one at a time, and wherever
\* the next count is taken from, it stands at the deferrals made or beyond.
CountInv ==
    \A t \in Tasks \ disturbed :
        /\ \A i, j \in Runs : Mine(i, t) /\ Mine(j, t) => i = j
        /\ \A i \in Runs : Mine(i, t) /\ runs[i].stage \in {"starting", "asking"} => chain[t] <= runs[i].count
        /\ chain[t] <= rows[t]
        /\ "gui" \in loaded => chain[t] <= defers["gui"][t]
        /\ "gui" \notin loaded /\ reading["gui"] # Nothing => chain[t] <= reading["gui"][t]

ExecutionInv == TypeOK /\ GuiInv /\ CountInv /\ CallbacksAccounted

\* The typed state, as the steps use it.
LEMMA RunTypes ==
  ASSUME TypeOK
  PROVE  /\ runs \in [Runs -> RunRecord]
         /\ \A i \in Runs : /\ runs[i] \in RunRecord /\ runs[i].stage \in Stages /\ runs[i].proc \in Homes
                            /\ runs[i].task \in Tasks /\ runs[i].trigger \in Triggers /\ runs[i].count \in Counts
         /\ defers \in [Homes -> [Tasks -> Counts]] /\ rows \in [Tasks -> Counts]
         /\ reading \in [Homes -> [Tasks -> Counts]]
         /\ \A p \in Homes : \A t \in Tasks : defers[p][t] \in Counts /\ reading[p][t] \in Counts
         /\ \A t \in Tasks : chain[t] \in Nat /\ rows[t] \in Counts
         /\ DeferTimes \in Nat
<1>1. runs \in [Runs -> RunRecord]
  BY DEF TypeOK, RunRecord, Stages, Homes, Counts
<1>2. defers \in [Homes -> [Tasks -> Counts]] /\ rows \in [Tasks -> Counts]
      /\ reading \in [Homes -> [Tasks -> Counts]] /\ chain \in [Tasks -> Nat]
  BY DEF TypeOK, Homes, Counts
<1>3. \A i \in Runs : /\ runs[i] \in RunRecord /\ runs[i].stage \in Stages /\ runs[i].proc \in Homes
                      /\ runs[i].task \in Tasks /\ runs[i].trigger \in Triggers /\ runs[i].count \in Counts
  BY <1>1 DEF RunRecord
<1>4. /\ \A p \in Homes : \A t \in Tasks : defers[p][t] \in Counts /\ reading[p][t] \in Counts
      /\ \A t \in Tasks : chain[t] \in Nat /\ rows[t] \in Counts
  BY <1>2
<1> QED BY <1>1, <1>2, <1>3, <1>4, TaskAssumption DEF TaskAssumption

LEMMA ExecutionFacts ==
  /\ Nothing \in [Tasks -> Counts] /\ \A t \in Tasks : Nothing[t] = 0
  /\ NoRun \in RunRecord /\ NoRun.stage = "unused"
  /\ Processes \subseteq Homes /\ Processes # {}
<1>1. (CHOOSE t \in Tasks : TRUE) \in Tasks
  BY TaskAssumption DEF TaskAssumption
<1>2. 0 \in Counts
  BY TaskAssumption DEF TaskAssumption, Counts
<1> QED BY <1>1, <1>2 DEF Nothing, NoRun, RunRecord, Stages, Homes, Triggers, Processes

\* The executions that were started are among those there are; the next has a number.
LEMMA NextRun ==
  ASSUME Started # Runs
  PROVE  Cardinality(Started) + 1 \in Runs
<1>1. MaxRuns \in Nat /\ Runs = 1..MaxRuns /\ Started \subseteq Runs
  BY TaskAssumption DEF TaskAssumption, Runs, Started
<1>2. IsFiniteSet(Runs) /\ Cardinality(Runs) = MaxRuns
  BY <1>1, FS_Interval
<1>3. IsFiniteSet(Started) /\ Cardinality(Started) <= Cardinality(Runs)
      /\ (Cardinality(Started) = Cardinality(Runs) => Started = Runs)
  BY <1>1, <1>2, FS_Subset
<1>4. Cardinality(Started) \in Nat
  BY <1>3, FS_CardinalityType
<1> QED BY <1>1, <1>2, <1>3, <1>4

LEMMA ExecutionInit == Init => ExecutionInv
<1> SUFFICES ASSUME Init PROVE ExecutionInv
  OBVIOUS
<1>1. /\ runs \in [Runs -> RunRecord] /\ \A i \in Runs : runs[i].stage = "unused"
      /\ defers \in [Homes -> [Tasks -> Counts]] /\ rows \in [Tasks -> Counts]
      /\ reading \in [Homes -> [Tasks -> Counts]] /\ chain \in [Tasks -> Nat]
      /\ \A t \in Tasks : chain[t] = 0 /\ rows[t] = 0 /\ defers["gui"][t] = 0
  BY ExecutionFacts DEF Init, Homes, Nothing
<1>2. used \in [RunBounds -> Nat]
  BY DEF Init, RunBounds
<1>3. TypeOK
  BY <1>1, <1>2 DEF Init, TypeOK, RunRecord, Stages, Homes, Counts, RunBounds
<1>4. GuiInv /\ CountInv /\ CallbacksAccounted
  BY <1>1 DEF Init, GuiInv, CountInv, CallbacksAccounted, Mine, ActiveStages
<1> QED BY <1>3, <1>4 DEF ExecutionInv

LEMMA ExecutionSpend ==
  ASSUME TypeOK, NEW b \in RunBounds, NEW limit, Spend(b, limit)
  PROVE  used' \in [RunBounds -> Nat]
BY DEF Spend, TypeOK, RunBounds

\* One execution goes from a stage to another; the rest of it, and the others, stay.
LEMMA StageStep ==
  ASSUME TypeOK, NEW i \in Runs, NEW from, NEW to \in Stages, Stage(i, from, to)
  PROVE  /\ runs[i].stage = from /\ runs' \in [Runs -> RunRecord]
         /\ runs'[i].stage = to /\ runs'[i].proc = runs[i].proc /\ runs'[i].task = runs[i].task
         /\ runs'[i].count = runs[i].count
         /\ \A j \in Runs : j # i => runs'[j] = runs[j]
<1>1. runs \in [Runs -> RunRecord] /\ runs[i] \in RunRecord
  BY RunTypes
<1>2. runs[i].stage = from /\ runs' = [runs EXCEPT ![i].stage = to]
  BY DEF Stage
<1>3. [runs[i] EXCEPT !.stage = to] \in RunRecord
  BY <1>1 DEF RunRecord
<1> QED BY <1>1, <1>2, <1>3 DEF RunRecord

\* What is sent is told, and what is not sent is queued or lost: nothing is taken back.
LEMMA SendStep ==
  ASSUME TypeOK, NEW i \in Runs, NEW kind \in {"ack", "result"}, SendOrQueue(i, kind)
  PROVE  /\ told' \subseteq Callbacks /\ queue' \subseteq Callbacks /\ lost' \subseteq Callbacks
         /\ told \subseteq told' /\ queue \subseteq queue' /\ lost \subseteq lost'
         /\ <<i, kind>> \in told' \cup queue' \cup lost'
         /\ used' \in [RunBounds -> Nat]
<1>1. <<i, kind>> \in Callbacks /\ told \subseteq Callbacks /\ queue \subseteq Callbacks /\ lost \subseteq Callbacks
  BY DEF Callbacks, TypeOK
<1>2. used \in [RunBounds -> Nat]
  BY DEF TypeOK, RunBounds
<1>3. CASE told' = told \cup {<<i, kind>>} /\ UNCHANGED <<queue, lost, used>>
  BY <1>1, <1>2, <1>3
<1>4. CASE /\ Spend("faults", MaxFaults) /\ queue' = queue \cup {<<i, kind>>}
           /\ told' \in {told, told \cup {<<i, kind>>}} /\ UNCHANGED lost
  BY <1>1, <1>4, ExecutionSpend DEF RunBounds
<1>5. CASE /\ used' = [used EXCEPT !["faults"] = @ + 2]
           /\ lost' = lost \cup {<<i, kind>>} /\ UNCHANGED <<queue, told>>
  BY <1>1, <1>2, <1>5 DEF RunBounds
<1> QED BY <1>3, <1>4, <1>5 DEF SendOrQueue

\* The counts are covered as long as no execution begins, nor one of them is deferred.
LEMMA CountKept ==
  ASSUME ExecutionInv, chain' = chain, rows' = rows, defers' = defers, loaded' = loaded,
         reading' = reading, disturbed' = disturbed,
         \A t \in Tasks : \A i \in Runs : Mine(i, t)' => Mine(i, t),
         \A i \in Runs : /\ runs'[i].count = runs[i].count
                         /\ runs'[i].stage \in {"starting", "asking"} => runs[i].stage \in {"starting", "asking"}
  PROVE  CountInv'
<1>1. ASSUME NEW t \in Tasks \ disturbed
      PROVE  /\ \A i, j \in Runs : Mine(i, t)' /\ Mine(j, t)' => i = j
             /\ \A i \in Runs : Mine(i, t)' /\ runs'[i].stage \in {"starting", "asking"} => chain[t] <= runs'[i].count
             /\ chain[t] <= rows[t]
             /\ "gui" \in loaded => chain[t] <= defers["gui"][t]
             /\ "gui" \notin loaded /\ reading["gui"] # Nothing => chain[t] <= reading["gui"][t]
  <2>1. /\ \A i, j \in Runs : Mine(i, t) /\ Mine(j, t) => i = j
        /\ \A i \in Runs : Mine(i, t) /\ runs[i].stage \in {"starting", "asking"} => chain[t] <= runs[i].count
        /\ chain[t] <= rows[t]
        /\ "gui" \in loaded => chain[t] <= defers["gui"][t]
        /\ "gui" \notin loaded /\ reading["gui"] # Nothing => chain[t] <= reading["gui"][t]
    BY DEF ExecutionInv, CountInv
  <2> QED BY <2>1
<1>2. Nothing' = Nothing
  BY DEF Nothing
<1> QED BY <1>1, <1>2 DEF CountInv

\* An execution that goes on without touching the counts.
LEMMA GoesOn ==
  ASSUME ExecutionInv, NEW i \in Runs,
         Gated(i) \/ Dispatch(i) \/ Proceed(i) \/ Acknowledge(i) \/ Report(i)
  PROVE  ExecutionInv'
<1>0. TypeOK /\ runs[i].proc \in Homes
  BY RunTypes DEF ExecutionInv
<1>1. PICK from \in {"starting", "asking", "acking", "running"}, to \in Stages :
          /\ Stage(i, from, to) /\ to \notin {"unused", "starting", "done"}
          /\ to = "asking" => from = "starting" /\ runs[i].proc = "gui"
          /\ to = "running" => from = "acking" /\ Acknowledge(i)
          /\ to = "closing" => from = "running" /\ Report(i)
  <2> USE DEF Stages, ActiveStages
  <2>1. CASE Gated(i)
    BY <2>1 DEF Gated
  <2>2. CASE Dispatch(i)
    <3>1. CASE runs[i].proc = "gui"
      BY <2>2, <3>1 DEF Dispatch
    <3>2. CASE runs[i].proc # "gui"
      BY <2>2, <3>2 DEF Dispatch
    <3> QED BY <3>1, <3>2
  <2>3. CASE Proceed(i)
    BY <2>3 DEF Proceed
  <2>4. CASE Acknowledge(i)
    BY <2>4 DEF Acknowledge
  <2>5. CASE Report(i)
    BY <2>5 DEF Report
  <2> QED BY <2>1, <2>2, <2>3, <2>4, <2>5
<1>2. /\ mode' = mode /\ defers' = defers /\ rows' = rows /\ timers' = timers /\ reading' = reading
      /\ loaded' = loaded /\ chain' = chain /\ disturbed' = disturbed /\ swallowed' = swallowed
  BY DEF Gated, Dispatch, Proceed, Acknowledge, Report, deferVars, history
<1>3. /\ told' \subseteq Callbacks /\ queue' \subseteq Callbacks /\ lost' \subseteq Callbacks
      /\ told \subseteq told' /\ queue \subseteq queue' /\ lost \subseteq lost'
      /\ used' \in [RunBounds -> Nat]
  <2>1. CASE Acknowledge(i)
    BY <1>0, <2>1, SendStep DEF Acknowledge
  <2>2. CASE Report(i)
    BY <1>0, <2>2, SendStep DEF Report
  <2>3. CASE Gated(i) \/ Dispatch(i) \/ Proceed(i)
    BY <1>0, <2>3 DEF Gated, Dispatch, Proceed, callbackVars, TypeOK, RunBounds
  <2> QED BY <2>1, <2>2, <2>3
<1>4. /\ runs[i].stage = from /\ runs' \in [Runs -> RunRecord]
      /\ runs'[i].stage = to /\ runs'[i].proc = runs[i].proc /\ runs'[i].task = runs[i].task
      /\ runs'[i].count = runs[i].count
      /\ \A j \in Runs : j # i => runs'[j] = runs[j]
  BY <1>0, <1>1, StageStep
<1>5. TypeOK'
  BY <1>2, <1>3, <1>4 DEF ExecutionInv, TypeOK, RunRecord, Stages, Homes, Counts, RunBounds
<1>6. GuiInv'
  <2>1. runs[i].stage \in ActiveStages
    BY <1>1, <1>4 DEF ActiveStages
  <2> QED BY <1>1, <1>2, <1>4, <2>1 DEF ExecutionInv, GuiInv
<1>7. CountInv'
  <2>1. \A t \in Tasks : \A j \in Runs : Mine(j, t)' => Mine(j, t)
    BY <1>1, <1>4 DEF Mine, ActiveStages
  <2>2. \A j \in Runs : /\ runs'[j].count = runs[j].count
                        /\ runs'[j].stage \in {"starting", "asking"} => runs[j].stage \in {"starting", "asking"}
    BY <1>1, <1>4
  <2> QED BY <1>2, <2>1, <2>2, CountKept
<1>8. CallbacksAccounted'
  <2> SUFFICES ASSUME NEW j \in Runs
               PROVE  /\ runs'[j].stage \in {"running", "closing", "done"} => <<j, "ack">> \in told' \cup queue' \cup lost'
                      /\ runs'[j].stage \in {"closing", "done"} => <<j, "result">> \in told' \cup queue' \cup lost'
    BY DEF CallbacksAccounted
  <2>1. CASE j # i
    BY <1>3, <1>4, <2>1 DEF ExecutionInv, CallbacksAccounted
  <2>2. CASE j = i
    <3>1. CASE to = "running"
      <4>1. <<i, "ack">> \in told' \cup queue' \cup lost'
        BY <1>0, <1>1, <3>1, SendStep DEF Acknowledge
      <4> QED BY <1>4, <2>2, <3>1, <4>1
    <3>2. CASE to = "closing"
      <4>1. <<i, "result">> \in told' \cup queue' \cup lost'
        BY <1>0, <1>1, <3>2, SendStep DEF Report
      <4>2. <<i, "ack">> \in told' \cup queue' \cup lost'
        BY <1>1, <1>3, <1>4, <3>2 DEF ExecutionInv, CallbacksAccounted
      <4> QED BY <2>2, <4>1, <4>2
    <3>3. CASE to \notin {"running", "closing"}
      BY <1>1, <1>4, <2>2, <3>3
    <3> QED BY <3>1, <3>2, <3>3
  <2> QED BY <2>1, <2>2
<1> QED BY <1>5, <1>6, <1>7, <1>8 DEF ExecutionInv

\* An execution is put off, is told that it may not be, or is closed: its count is written.
LEMMA CountWritten ==
  ASSUME ExecutionInv, NEW i \in Runs, Defer(i) \/ DeferIgnored(i) \/ Close(i)
  PROVE  ExecutionInv'
<1>a. PICK p \in Homes, t \in Tasks : p = runs[i].proc /\ t = runs[i].task
  BY RunTypes DEF ExecutionInv
<1>0. /\ TypeOK /\ runs[i].count \in Counts
      /\ defers \in [Homes -> [Tasks -> Counts]] /\ rows \in [Tasks -> Counts] /\ chain \in [Tasks -> Nat]
      /\ DeferTimes \in Nat /\ \A u \in Tasks : defers[p][u] \in Counts
  BY RunTypes DEF ExecutionInv, TypeOK
<1>1. PICK from \in {"asking", "closing"}, to \in {"deferred", "acking", "done"}, n \in Counts :
          /\ Stage(i, from, to)
          /\ defers' = [defers EXCEPT ![p][t] = n] /\ rows' = [rows EXCEPT ![t] = n]
          /\ \/ from = "asking" /\ to = "deferred" /\ n = runs[i].count + 1
                /\ chain' = [chain EXCEPT ![t] = @ + 1] /\ timers' = timers \cup {i}
             \/ from = "asking" /\ to = "acking" /\ n = runs[i].count /\ chain' = chain /\ timers' = timers
             \/ from = "closing" /\ to = "done" /\ n = 0 /\ chain' = [chain EXCEPT ![t] = 0] /\ timers' = timers
  <2>1. CASE Defer(i)
    <3>1. runs[i].count + 1 \in Counts
      BY <1>0, <2>1 DEF Defer, MayDefer, Counts
    <3> QED BY <1>a, <2>1, <3>1 DEF Defer
  <2>2. CASE DeferIgnored(i)
    BY <1>a, <1>0, <2>2 DEF DeferIgnored, history
  <2>3. CASE Close(i)
    <3>1. 0 \in Counts
      BY <1>0 DEF Counts
    <3> QED BY <1>a, <2>3, <3>1 DEF Close
  <2> QED BY <2>1, <2>2, <2>3
<1>2. /\ mode' = mode /\ reading' = reading /\ loaded' = loaded /\ disturbed' = disturbed
      /\ swallowed' = swallowed /\ queue' = queue /\ told' = told /\ lost' = lost /\ used' = used
  BY DEF Defer, DeferIgnored, Close, callbackVars, history
<1>3. /\ runs[i].stage = from /\ runs' \in [Runs -> RunRecord]
      /\ runs'[i].stage = to /\ runs'[i].proc = p /\ runs'[i].task = t
      /\ runs'[i].count = runs[i].count
      /\ \A j \in Runs : j # i => runs'[j] = runs[j]
  <2>1. to \in Stages
    BY DEF Stages, ActiveStages
  <2> QED BY <1>a, <1>0, <1>1, <2>1, StageStep
<1>4. /\ defers' \in [Homes -> [Tasks -> Counts]] /\ rows' \in [Tasks -> Counts]
      /\ chain' \in [Tasks -> Nat] /\ timers' \subseteq Runs
  BY <1>0, <1>1 DEF TypeOK
<1>5. TypeOK'
  BY <1>2, <1>3, <1>4 DEF ExecutionInv, TypeOK, RunRecord, Stages, Homes, Counts, RunBounds
<1>6. runs[i].stage \in ActiveStages
  BY <1>1, <1>3 DEF ActiveStages
<1>7. GuiInv'
  BY <1>a, <1>1, <1>2, <1>3, <1>6 DEF ExecutionInv, GuiInv
<1>8. CallbacksAccounted'
  BY <1>1, <1>2, <1>3 DEF ExecutionInv, CallbacksAccounted
<1>9. /\ rows'[t] = n /\ defers'[p][t] = n
      /\ \A u \in Tasks : u # t => rows'[u] = rows[u] /\ chain'[u] = chain[u] /\ defers'["gui"][u] = defers["gui"][u]
      /\ p # "gui" => defers'["gui"] = defers["gui"]
  BY <1>0, <1>1 DEF Homes
<1> DEFINE Covered(u) ==
             /\ \A j, k \in Runs : Mine(j, u)' /\ Mine(k, u)' => j = k
             /\ \A j \in Runs : Mine(j, u)' /\ runs'[j].stage \in {"starting", "asking"} => chain'[u] <= runs'[j].count
             /\ chain'[u] <= rows'[u]
             /\ "gui" \in loaded => chain'[u] <= defers'["gui"][u]
             /\ "gui" \notin loaded /\ reading["gui"] # Nothing => chain'[u] <= reading["gui"][u]
<1>10. \A u \in Tasks : \A j \in Runs : Mine(j, u)' => Mine(j, u)
  BY <1>a, <1>1, <1>3, <1>6 DEF Mine
<1>11. \A j \in Runs : /\ runs'[j].count = runs[j].count
                       /\ runs'[j].stage \in {"starting", "asking"} => j # i /\ runs[j].stage \in {"starting", "asking"}
  BY <1>1, <1>3
<1>12. ASSUME NEW u \in Tasks \ disturbed, u # t PROVE Covered(u)
  <2>1. /\ \A j, k \in Runs : Mine(j, u) /\ Mine(k, u) => j = k
        /\ \A j \in Runs : Mine(j, u) /\ runs[j].stage \in {"starting", "asking"} => chain[u] <= runs[j].count
        /\ chain[u] <= rows[u]
        /\ "gui" \in loaded => chain[u] <= defers["gui"][u]
        /\ "gui" \notin loaded /\ reading["gui"] # Nothing => chain[u] <= reading["gui"][u]
    BY DEF ExecutionInv, CountInv
  <2>2. rows'[u] = rows[u] /\ chain'[u] = chain[u] /\ defers'["gui"][u] = defers["gui"][u]
    BY <1>9, <1>12
  <2> QED BY <1>10, <1>11, <2>1, <2>2
<1>13. ASSUME t \notin disturbed PROVE Covered(t)
  <2>1. /\ \A j, k \in Runs : Mine(j, t) /\ Mine(k, t) => j = k
        /\ \A j \in Runs : Mine(j, t) /\ runs[j].stage \in {"starting", "asking"} => chain[t] <= runs[j].count
    BY <1>0, <1>13 DEF ExecutionInv, CountInv
  <2>2. from = "asking" => Mine(i, t) /\ "gui" \in loaded /\ p = "gui"
    BY <1>a, <1>0, <1>1, <1>3, <1>6 DEF ExecutionInv, GuiInv, Mine
  <2>3. \A j \in Runs : Mine(j, t)' /\ runs'[j].stage \in {"starting", "asking"} /\ from = "asking" => FALSE
    BY <1>10, <1>11, <2>1, <2>2
  <2>4. chain'[t] \in Nat /\ chain[t] \in Nat /\ n \in Nat
    BY <1>0, <1>4 DEF Counts
  <2>5. CASE from = "asking"
    <3>1. chain[t] <= runs[i].count
      BY <1>3, <2>1, <2>2, <2>5
    <3>2. chain'[t] <= n
      BY <1>0, <1>1, <2>4, <2>5, <3>1 DEF Counts
    <3> QED BY <1>9, <1>10, <2>1, <2>2, <2>3, <2>5, <3>2
  <2>6. CASE from = "closing"
    <3>1. chain'[t] = 0
      BY <1>0, <1>1, <2>6
    <3>2. \A j \in Runs : runs'[j].count \in Counts
      BY <1>3 DEF RunRecord
    <3>3. defers'["gui"][t] \in Counts /\ reading["gui"][t] \in Counts /\ rows'[t] \in Counts
      BY <1>0, <1>4, RunTypes DEF Homes
    <3>4. \A c \in Counts : 0 <= c
      BY DEF Counts
    <3> QED BY <1>10, <2>1, <3>1, <3>2, <3>3, <3>4
  <2> QED BY <2>5, <2>6
<1>14. CountInv'
  <2>1. \A u \in Tasks \ disturbed : Covered(u)
    BY <1>12, <1>13
  <2>2. Nothing' = Nothing
    BY DEF Nothing
  <2> QED BY <1>2, <2>1, <2>2 DEF CountInv
<1> QED BY <1>5, <1>7, <1>8, <1>14 DEF ExecutionInv

\* An execution begins with the count of its process; beside another of its task, and the
\* count of that task is disturbed.
LEMMA LaunchInv ==
  ASSUME ExecutionInv, NEW p \in Homes, p = "gui" => "gui" \in loaded,
         NEW t \in Tasks, NEW trigger \in Triggers, NEW timed \in BOOLEAN,
         Launch(p, t, trigger, timed), mode' = mode, chain' = chain, rows' = rows, defers' = defers,
         loaded' = loaded, reading' = reading, queue' = queue, told' = told, lost' = lost,
         timers' \subseteq timers, used' \in [RunBounds -> Nat], swallowed' \subseteq Runs
  PROVE  ExecutionInv'
<1>0. /\ TypeOK /\ runs \in [Runs -> RunRecord] /\ defers \in [Homes -> [Tasks -> Counts]]
      /\ timers' \subseteq Runs
  BY RunTypes DEF ExecutionInv, TypeOK
<1>1. CASE Busy(p, t, trigger)
  <2>1. runs' = runs /\ disturbed' = disturbed
    BY <1>1 DEF Launch
  <2>2. TypeOK'
    BY <1>0, <2>1 DEF TypeOK, RunBounds
  <2>3. GuiInv' /\ CallbacksAccounted'
    BY <2>1 DEF ExecutionInv, GuiInv, CallbacksAccounted
  <2>4. CountInv'
    BY <2>1, CountKept DEF Mine
  <2> QED BY <2>2, <2>3, <2>4 DEF ExecutionInv
<1>2. CASE ~Busy(p, t, trigger)
  <2>1. PICK n \in Runs :
          /\ runs' = [runs EXCEPT ![n] = [stage |-> "starting", proc |-> p, task |-> t, trigger |-> trigger,
                                          count |-> defers[p][t], timed |-> timed]]
          /\ disturbed' = IF ActiveOf(p, t) = {} THEN disturbed ELSE disturbed \cup {t}
    BY <1>2, NextRun DEF Launch
  <2>2. PICK c \in Counts : c = defers[p][t]
    BY <1>0
  <2>3. [stage |-> "starting", proc |-> p, task |-> t, trigger |-> trigger,
         count |-> c, timed |-> timed] \in RunRecord
    BY DEF RunRecord, Stages, ActiveStages
  <2>4. /\ runs' \in [Runs -> RunRecord]
        /\ runs'[n].stage = "starting" /\ runs'[n].proc = p /\ runs'[n].task = t /\ runs'[n].count = c
        /\ \A j \in Runs : j # n => runs'[j] = runs[j]
    BY <1>0, <2>1, <2>2, <2>3
  <2>5. TypeOK'
    BY <1>0, <2>1, <2>4 DEF TypeOK, RunRecord, Stages, Homes, Counts, RunBounds
  <2>6. GuiInv'
    BY <2>4 DEF ExecutionInv, GuiInv
  <2>7. CallbacksAccounted'
    BY <2>4 DEF ExecutionInv, CallbacksAccounted
  <2>8. \A u \in Tasks : \A j \in Runs : Mine(j, u)' => Mine(j, u) \/ (j = n /\ u = t /\ p = "gui")
    BY <2>4 DEF Mine
  <2>9. ASSUME NEW u \in Tasks, u \notin disturbed'
        PROVE  /\ \A i, j \in Runs : Mine(i, u)' /\ Mine(j, u)' => i = j
               /\ \A i \in Runs : Mine(i, u)' /\ runs'[i].stage \in {"starting", "asking"} => chain[u] <= runs'[i].count
    <3>0. u \notin disturbed
      BY <2>1, <2>9
    <3>1. /\ \A i, j \in Runs : Mine(i, u) /\ Mine(j, u) => i = j
          /\ \A i \in Runs : Mine(i, u) /\ runs[i].stage \in {"starting", "asking"} => chain[u] <= runs[i].count
          /\ "gui" \in loaded => chain[u] <= defers["gui"][u]
      BY <3>0 DEF ExecutionInv, CountInv
    <3>2. CASE u = t /\ p = "gui"
      <4>1. ActiveOf(p, t) = {}
        BY <2>1, <2>9, <3>2
      <4>2. \A j \in Runs : ~Mine(j, t)
        BY <3>2, <4>1 DEF ActiveOf, Mine
      <4>3. \A j \in Runs : Mine(j, u)' => j = n
        BY <2>8, <3>2, <4>2
      <4>4. chain[u] <= c
        BY <2>2, <3>1, <3>2
      <4> QED BY <2>4, <4>3, <4>4
    <3>3. CASE ~(u = t /\ p = "gui")
      <4>1. \A j \in Runs : Mine(j, u)' => Mine(j, u) /\ j # n
        BY <2>4, <2>8, <3>3 DEF Mine
      <4> QED BY <2>4, <3>1, <4>1
    <3> QED BY <3>2, <3>3
  <2>10. \A u \in Tasks \ disturbed' :
           /\ chain[u] <= rows[u]
           /\ "gui" \in loaded => chain[u] <= defers["gui"][u]
           /\ "gui" \notin loaded /\ reading["gui"] # Nothing => chain[u] <= reading["gui"][u]
    BY <2>1 DEF ExecutionInv, CountInv
  <2>11. CountInv'
    <3>1. Nothing' = Nothing
      BY DEF Nothing
    <3> QED BY <2>9, <2>10, <3>1 DEF CountInv
  <2> QED BY <2>5, <2>6, <2>7, <2>11 DEF ExecutionInv
<1> QED BY <1>1, <1>2

LEMMA BeginsInv ==
  ASSUME ExecutionInv,
         \/ \E p \in Processes, t \in Tasks, trigger \in Triggers : Triggered(p, t, trigger)
         \/ \E i \in Runs : TimerFires(i)
  PROVE  ExecutionInv'
<1>0. TypeOK
  BY DEF ExecutionInv
<1>1. ASSUME NEW p \in Processes, NEW t \in Tasks, NEW trigger \in Triggers, Triggered(p, t, trigger)
      PROVE  ExecutionInv'
  <2>1. /\ p \in Homes /\ p \in loaded /\ Spend("triggers", MaxTriggers) /\ Launch(p, t, trigger, FALSE)
        /\ UNCHANGED <<mode, deferVars, callbackVars, chain, swallowed>>
    BY <1>1, ExecutionFacts DEF Triggered
  <2>2. used' \in [RunBounds -> Nat]
    BY <1>0, <2>1, ExecutionSpend DEF RunBounds
  <2>3. swallowed' \subseteq Runs
    BY <1>0, <2>1 DEF TypeOK
  <2> QED BY <2>1, <2>2, <2>3, LaunchInv DEF deferVars, callbackVars
<1>2. ASSUME NEW i \in Runs, TimerFires(i)
      PROVE  ExecutionInv'
  <2>1. PICK p \in Homes, t \in Tasks, trigger \in Triggers :
            p = runs[i].proc /\ t = runs[i].task /\ trigger = runs[i].trigger
    BY <1>0, RunTypes
  <2>2. /\ i \in timers /\ timers' = timers \ {i} /\ Launch(p, t, trigger, TRUE)
        /\ swallowed' \in {swallowed, swallowed \cup {i}}
        /\ UNCHANGED <<mode, defers, rows, reading, loaded, callbackVars, chain, used>>
    BY <1>2, <2>1 DEF TimerFires, ByTimer
  <2>3. p = "gui" => "gui" \in loaded
    BY <2>1, <2>2 DEF ExecutionInv, GuiInv
  <2>4. used' \in [RunBounds -> Nat] /\ swallowed' \subseteq Runs
    BY <1>0, <2>2 DEF TypeOK, RunBounds
  <2> QED BY <2>2, <2>3, <2>4, LaunchInv DEF callbackVars
<1> QED BY <1>1, <1>2

-----------------------------------------------------------------------------
\* The rows are read, or cannot be, and are applied: what the GUI goes on from covers the
\* deferrals made, of a task that is not disturbed.
LEMMA RowsInv ==
  ASSUME ExecutionInv, NEW p \in Processes, ReadRows(p) \/ ReadFails(p) \/ ApplyRows(p)
  PROVE  ExecutionInv'
<1>0. /\ TypeOK /\ p \in Homes /\ rows \in [Tasks -> Counts] /\ defers \in [Homes -> [Tasks -> Counts]]
      /\ reading \in [Homes -> [Tasks -> Counts]] /\ chain \in [Tasks -> Nat]
      /\ Nothing \in [Tasks -> Counts] /\ \A t \in Tasks : Nothing[t] = 0
      /\ "gui" \in Homes
  BY RunTypes, ExecutionFacts DEF ExecutionInv, TypeOK, Homes
<1>1. /\ mode' = mode /\ runs' = runs /\ rows' = rows /\ timers' = timers /\ chain' = chain
      /\ swallowed' = swallowed /\ queue' = queue /\ told' = told /\ lost' = lost
      /\ loaded \subseteq loaded' /\ loaded' \subseteq loaded \cup {p} /\ disturbed \subseteq disturbed'
  BY DEF ReadRows, ReadFails, ApplyRows, callbackVars, history
<1>2. GuiInv' /\ CallbacksAccounted'
  BY <1>1 DEF ExecutionInv, GuiInv, CallbacksAccounted
<1>3. /\ \A t \in Tasks : \A j \in Runs : Mine(j, t)' <=> Mine(j, t)
      /\ Nothing' = Nothing
  BY <1>1 DEF Mine, Nothing
<1>4. ASSUME NEW t \in Tasks \ disturbed
      PROVE  /\ \A i, j \in Runs : Mine(i, t) /\ Mine(j, t) => i = j
             /\ \A i \in Runs : Mine(i, t) /\ runs[i].stage \in {"starting", "asking"} => chain[t] <= runs[i].count
             /\ chain[t] <= rows[t]
             /\ "gui" \in loaded => chain[t] <= defers["gui"][t]
             /\ "gui" \notin loaded /\ reading["gui"] # Nothing => chain[t] <= reading["gui"][t]
  BY DEF ExecutionInv, CountInv
<1>5. \A t \in Tasks : /\ chain[t] \in Nat /\ rows[t] \in Nat
                       /\ defers["gui"][t] \in Nat /\ reading["gui"][t] \in Nat
  <2>1. Counts \subseteq Nat
    BY DEF Counts
  <2> QED BY <1>0, <2>1
<1>6. CASE ReadRows(p)
  <2>1. /\ reading[p] = Nothing /\ reading' = [reading EXCEPT ![p] = rows] /\ used' = used
        /\ loaded' = IF rows = Nothing THEN loaded \cup {p} ELSE loaded
        /\ disturbed' = disturbed /\ defers' = defers
    BY <1>6 DEF ReadRows, history
  <2>2. TypeOK'
    BY <1>0, <1>1, <2>1 DEF TypeOK, Homes, Counts
  <2>3. ASSUME NEW t \in Tasks \ disturbed
        PROVE  /\ "gui" \in loaded' => chain[t] <= defers["gui"][t]
               /\ "gui" \notin loaded' /\ reading'["gui"] # Nothing => chain[t] <= reading'["gui"][t]
    <3>1. CASE p = "gui"
      <4>1. reading'["gui"] = rows
        BY <1>0, <2>1, <3>1
      <4>2. CASE rows = Nothing
        BY <1>0, <1>4, <1>5, <2>1, <3>1, <4>1, <4>2
      <4>3. CASE rows # Nothing
        BY <1>4, <2>1, <4>1, <4>3
      <4> QED BY <4>2, <4>3
    <3>2. CASE p # "gui"
      BY <1>0, <1>4, <2>1, <3>2
    <3> QED BY <3>1, <3>2
  <2>4. CountInv'
    BY <1>1, <1>3, <1>4, <2>1, <2>3 DEF CountInv
  <2> QED BY <1>2, <2>2, <2>4 DEF ExecutionInv
<1>7. CASE ReadFails(p)
  <2>1. /\ loaded' = loaded \cup {p} /\ disturbed' = disturbed \cup {t \in Tasks : rows[t] > 0}
        /\ defers' = defers /\ reading' = reading /\ Spend("faults", MaxFaults)
    BY <1>7 DEF ReadFails
  <2>2. used' \in [RunBounds -> Nat]
    BY <1>0, <2>1, ExecutionSpend DEF RunBounds
  <2>3. TypeOK'
    BY <1>0, <1>1, <2>1, <2>2 DEF TypeOK, Homes, Counts, RunBounds
  <2>4. ASSUME NEW t \in Tasks \ disturbed'
        PROVE  /\ "gui" \in loaded' => chain[t] <= defers["gui"][t]
               /\ "gui" \notin loaded' /\ reading["gui"] # Nothing => chain[t] <= reading["gui"][t]
    <3>1. t \notin disturbed /\ ~(rows[t] > 0)
      BY <2>1
    <3> QED BY <1>4, <1>5, <3>1
  <2>5. CountInv'
    <3>1. \A t \in Tasks \ disturbed' : t \in Tasks \ disturbed
      BY <1>1
    <3> QED BY <1>1, <1>3, <1>4, <2>1, <2>4, <3>1 DEF CountInv
  <2> QED BY <1>2, <2>3, <2>5 DEF ExecutionInv
<1>8. CASE ApplyRows(p)
  <2> DEFINE read == {t \in Tasks : reading[p][t] > 0}
  <2>1. /\ defers' = [defers EXCEPT ![p] = [t \in Tasks |-> IF t \in read THEN reading[p][t] ELSE defers[p][t]]]
        /\ reading' = [reading EXCEPT ![p] = Nothing] /\ loaded' = loaded \cup {p} /\ used' = used
        /\ disturbed' = disturbed \cup
             {t \in read : reading[p][t] # rows[t] \/ defers[p][t] > reading[p][t]}
        /\ read # {}
    BY <1>8 DEF ApplyRows
  <2>2. [t \in Tasks |-> IF t \in read THEN reading[p][t] ELSE defers[p][t]] \in [Tasks -> Counts]
    BY <1>0
  <2>3. TypeOK'
    BY <1>0, <1>1, <2>1, <2>2 DEF TypeOK, Homes, Counts
  <2>4. ASSUME NEW t \in Tasks \ disturbed'
        PROVE  /\ "gui" \in loaded' => chain[t] <= defers'["gui"][t]
               /\ "gui" \notin loaded' /\ reading'["gui"] # Nothing => chain[t] <= reading'["gui"][t]
    <3>1. t \notin disturbed
      BY <2>1
    <3>2. CASE p = "gui"
      <4>1. defers'["gui"][t] = IF t \in read THEN reading["gui"][t] ELSE defers["gui"][t]
        BY <1>0, <2>1, <3>2
      <4>2. CASE t \in read
        <5>1. reading["gui"][t] = rows[t]
          BY <2>1, <2>4, <3>2, <4>2
        <5> QED BY <1>4, <2>1, <3>1, <3>2, <4>1, <4>2, <5>1
      <4>3. CASE t \notin read
        <5>1. ~(reading["gui"][t] > 0)
          BY <3>2, <4>3
        <5>2. reading["gui"] # Nothing
          BY <1>0, <2>1, <3>2
        <5> QED BY <1>4, <1>5, <2>1, <3>1, <3>2, <4>1, <4>3, <5>1, <5>2
      <4> QED BY <4>2, <4>3
    <3>3. CASE p # "gui"
      BY <1>0, <1>4, <2>1, <3>1, <3>3
    <3> QED BY <3>2, <3>3
  <2>5. CountInv'
    <3>1. \A t \in Tasks \ disturbed' : t \in Tasks \ disturbed
      BY <1>1
    <3> QED BY <1>1, <1>3, <1>4, <2>4, <3>1 DEF CountInv
  <2> QED BY <1>2, <2>3, <2>5 DEF ExecutionInv
<1> QED BY <1>6, <1>7, <1>8

\* A callback of the queue reaches the server, or stays.
LEMMA PollInv ==
  ASSUME ExecutionInv, NEW row \in queue, Poll(row)
  PROVE  ExecutionInv'
<1>1. /\ mode' = mode /\ runs' = runs /\ defers' = defers /\ rows' = rows /\ timers' = timers
      /\ reading' = reading /\ loaded' = loaded /\ chain' = chain /\ disturbed' = disturbed
      /\ swallowed' = swallowed /\ lost' = lost
  BY DEF Poll, deferVars, history
<1>2. /\ queue' \subseteq queue /\ told' \subseteq told \cup {row} /\ told \cup queue \subseteq told' \cup queue'
      /\ used' \in [RunBounds -> Nat]
  <2>1. TypeOK
    BY DEF ExecutionInv
  <2> QED BY <2>1, ExecutionSpend DEF Poll, TypeOK, RunBounds
<1>3. TypeOK'
  BY <1>1, <1>2 DEF ExecutionInv, TypeOK, RunBounds
<1>4. GuiInv'
  BY <1>1 DEF ExecutionInv, GuiInv
<1>5. CountInv'
  BY <1>1, CountKept DEF Mine
<1>6. CallbacksAccounted'
  BY <1>1, <1>2 DEF ExecutionInv, CallbacksAccounted
<1> QED BY <1>3, <1>4, <1>5, <1>6 DEF ExecutionInv

\* A process ends with its executions and timers, and forgets its counts; the rows stay.
LEMMA ProcessEnds ==
  ASSUME ExecutionInv, NEW p \in Processes, Restart(p)
  PROVE  ExecutionInv'
<1> DEFINE mine == {i \in Runs : runs[i].proc = p /\ (runs[i].stage \in ActiveStages \/ i \in timers)}
<1>0. /\ TypeOK /\ p \in Homes /\ defers \in [Homes -> [Tasks -> Counts]]
      /\ reading \in [Homes -> [Tasks -> Counts]] /\ runs \in [Runs -> RunRecord]
      /\ Nothing \in [Tasks -> Counts] /\ "gui" \in Homes /\ timers \subseteq Runs
  BY RunTypes, ExecutionFacts DEF ExecutionInv, TypeOK, Homes
<1>1. /\ runs' = [i \in Runs |-> IF i \in mine THEN [runs[i] EXCEPT !.stage = "gone"] ELSE runs[i]]
      /\ timers' = timers \ mine
      /\ defers' = [defers EXCEPT ![p] = Nothing] /\ reading' = [reading EXCEPT ![p] = Nothing]
      /\ loaded' = loaded \ {p} /\ Spend("restarts", MaxRestarts)
      /\ mode' = mode /\ rows' = rows /\ queue' = queue /\ told' = told /\ lost' = lost
      /\ chain' = chain /\ disturbed' = disturbed /\ swallowed' = swallowed
  BY DEF Restart, callbackVars, history
<1>2. used' \in [RunBounds -> Nat]
  BY <1>0, <1>1, ExecutionSpend DEF RunBounds
<1>3. /\ runs' \in [Runs -> RunRecord]
      /\ \A i \in Runs : i \in mine => runs'[i].stage = "gone"
      /\ \A i \in Runs : i \notin mine => runs'[i] = runs[i]
      /\ \A i \in Runs : runs'[i].proc = runs[i].proc /\ runs'[i].task = runs[i].task
  <2>1. ASSUME NEW i \in Runs
        PROVE  /\ [runs[i] EXCEPT !.stage = "gone"] \in RunRecord
               /\ [runs[i] EXCEPT !.stage = "gone"].stage = "gone"
               /\ [runs[i] EXCEPT !.stage = "gone"].proc = runs[i].proc
               /\ [runs[i] EXCEPT !.stage = "gone"].task = runs[i].task
    <3>1. runs[i] \in RunRecord
      BY <1>0
    <3> QED BY <3>1 DEF RunRecord, Stages
  <2> HIDE DEF mine
  <2> QED BY <1>0, <1>1, <2>1
<1>4. TypeOK'
  BY <1>0, <1>1, <1>2, <1>3 DEF TypeOK, RunRecord, Stages, Homes, Counts, RunBounds
<1>5. CallbacksAccounted'
  BY <1>1, <1>3 DEF ExecutionInv, CallbacksAccounted
<1>6. GuiInv'
  <2>1. ASSUME NEW i \in Runs
        PROVE  /\ runs'[i].stage = "asking" => runs'[i].proc = "gui"
               /\ "gui" \notin loaded' /\ runs'[i].proc = "gui" => runs'[i].stage \notin ActiveStages /\ i \notin timers'
    <3>1. CASE i \in mine
      BY <1>1, <1>3, <3>1 DEF ActiveStages
    <3>2. CASE i \notin mine
      BY <1>1, <1>3, <3>2 DEF ExecutionInv, GuiInv
    <3> QED BY <3>1, <3>2
  <2> QED BY <2>1 DEF GuiInv
<1>7. CountInv'
  <2>1. \A t \in Tasks : \A j \in Runs : Mine(j, t)' => Mine(j, t) /\ runs'[j] = runs[j]
    BY <1>3 DEF Mine, ActiveStages
  <2>2. Nothing' = Nothing
    BY DEF Nothing
  <2>3. ASSUME NEW t \in Tasks \ disturbed
        PROVE  /\ \A i, j \in Runs : Mine(i, t) /\ Mine(j, t) => i = j
               /\ \A i \in Runs : Mine(i, t) /\ runs[i].stage \in {"starting", "asking"} => chain[t] <= runs[i].count
               /\ chain[t] <= rows[t]
               /\ "gui" \in loaded => chain[t] <= defers["gui"][t]
               /\ "gui" \notin loaded /\ reading["gui"] # Nothing => chain[t] <= reading["gui"][t]
    BY DEF ExecutionInv, CountInv
  <2>4. ASSUME NEW t \in Tasks \ disturbed
        PROVE  /\ "gui" \in loaded' => chain[t] <= defers'["gui"][t]
               /\ "gui" \notin loaded' /\ reading'["gui"] # Nothing => chain[t] <= reading'["gui"][t]
    <3>1. CASE p = "gui"
      BY <1>0, <1>1, <3>1
    <3>2. CASE p # "gui"
      <4>1. ("gui" \in loaded' <=> "gui" \in loaded) /\ defers'["gui"] = defers["gui"] /\ reading'["gui"] = reading["gui"]
        BY <1>0, <1>1, <3>2
      <4> QED BY <2>3, <4>1
    <3> QED BY <3>1, <3>2
  <2> QED BY <1>1, <2>1, <2>2, <2>3, <2>4 DEF CountInv
<1> QED BY <1>4, <1>5, <1>6, <1>7 DEF ExecutionInv

LEMMA ExecutionNext == ExecutionInv /\ [Next]_vars => ExecutionInv'
<1> SUFFICES ASSUME ExecutionInv, [Next]_vars PROVE ExecutionInv'
  OBVIOUS
<1>1. ASSUME NEW p \in Processes,
             \/ ReadRows(p) \/ ReadFails(p) \/ ApplyRows(p) \/ Restart(p)
             \/ \E t \in Tasks, trigger \in Triggers : Triggered(p, t, trigger)
      PROVE  ExecutionInv'
  BY <1>1, RowsInv, ProcessEnds, BeginsInv
<1>2. ASSUME NEW i \in Runs, Run(i) \/ Defer(i) \/ DeferIgnored(i) \/ TimerFires(i)
      PROVE  ExecutionInv'
  BY <1>2, GoesOn, CountWritten, BeginsInv DEF Run
<1>3. ASSUME NEW row \in queue, Poll(row)
      PROVE  ExecutionInv'
  BY <1>3, PollInv
<1>4. CASE UNCHANGED vars
  <2>1. /\ mode' = mode /\ runs' = runs /\ defers' = defers /\ rows' = rows /\ timers' = timers
        /\ reading' = reading /\ loaded' = loaded /\ queue' = queue /\ told' = told /\ lost' = lost
        /\ chain' = chain /\ disturbed' = disturbed /\ swallowed' = swallowed /\ used' = used
    BY <1>4 DEF vars, deferVars, callbackVars, history
  <2>2. TypeOK' /\ GuiInv' /\ CallbacksAccounted'
    BY <2>1 DEF ExecutionInv, TypeOK, GuiInv, CallbacksAccounted
  <2>3. CountInv'
    BY <2>1, CountKept DEF Mine
  <2> QED BY <2>2, <2>3 DEF ExecutionInv
<1> QED BY <1>1, <1>2, <1>3, <1>4 DEF Next

\* The inductive invariant of the executions.
THEOREM ExecutionInvariant == Spec => []ExecutionInv
<1> QED BY ExecutionInit, ExecutionNext, PTL DEF Spec

\* The ranges of the variables of the executions.
THEOREM ExecutionTypes == Spec => []TypeOK
<1>1. ExecutionInv => TypeOK
  BY DEF ExecutionInv
<1> QED BY <1>1, ExecutionInvariant, PTL

\* No acknowledgement and no result is forgotten: it reached the server, is queued, or the
\* database failed as well; and a task is deferred at most as often as it may be, unless
\* its count was written from a stale value.
THEOREM ExecutionAccounts == Spec => []ExecutionIsAccounted
<1>1. ExecutionInv => ExecutionIsAccounted
  <2> SUFFICES ASSUME ExecutionInv PROVE DeferralsBounded
    BY DEF ExecutionInv, ExecutionIsAccounted
  <2>1. ASSUME NEW t \in Tasks, t \notin disturbed PROVE chain[t] <= DeferTimes
    <3>1. chain[t] <= rows[t]
      BY <2>1 DEF ExecutionInv, CountInv
    <3>2. chain[t] \in Nat /\ rows[t] \in 0..DeferTimes /\ DeferTimes \in Nat
      BY RunTypes DEF ExecutionInv, Counts
    <3> QED BY <3>1, <3>2
  <2> QED BY <2>1 DEF DeferralsBounded
<1> QED BY <1>1, ExecutionInvariant, PTL

-----------------------------------------------------------------------------
(* The callbacks implement StoreAndForward.                                *)

\* The executions are numbered in the order in which they were started, and a timer is of
\* one of them: so what ended with its process is not begun again.
NumberInv ==
    /\ \E n \in 0..MaxRuns : Started = 1..n
    /\ timers \subseteq Started

Moves == {<<"starting", "gated">>, <<"starting", "asking">>, <<"starting", "acking">>,
          <<"asking", "acking">>, <<"asking", "deferred">>, <<"acking", "running">>,
          <<"running", "closing">>, <<"closing", "done">>}

\* What a step may do to the executions.
Moved == \E i \in Runs : \E m \in Moves : Stage(i, m[1], m[2])
Added ==
    /\ Started # Runs
    /\ \E r \in RunRecord :
          r.stage = "starting" /\ runs' = [runs EXCEPT ![Cardinality(Started) + 1] = r]
Ended == \E p \in Processes : Restart(p)

LEMMA HowRunsMove ==
  ASSUME TypeOK, [Next]_vars
  PROVE  \/ runs' = runs /\ timers' \subseteq timers
         \/ Moved /\ (timers' \subseteq timers \/ \E i \in Runs : timers' = timers \cup {i} /\ Stage(i, "asking", "deferred"))
         \/ Added /\ timers' \subseteq timers
         \/ Ended
<1>0. /\ \A i \in Runs : runs[i].task \in Tasks /\ runs[i].proc \in Homes /\ runs[i].trigger \in Triggers
      /\ \A p \in Homes, t \in Tasks : defers[p][t] \in Counts
      /\ Processes \subseteq Homes
  BY RunTypes, ExecutionFacts
<1>1. ASSUME NEW p \in Homes, NEW t \in Tasks, NEW trigger \in Triggers, NEW timed \in BOOLEAN,
             Launch(p, t, trigger, timed)
      PROVE  runs' = runs \/ Added
  <2> DEFINE r == [stage |-> "starting", proc |-> p, task |-> t, trigger |-> trigger,
                   count |-> defers[p][t], timed |-> timed]
  <2>1. r \in RunRecord
    BY <1>0 DEF RunRecord, Stages, ActiveStages
  <2> QED BY <1>1, <2>1 DEF Launch, Added
<1>2. CASE \E p \in Processes, t \in Tasks, trigger \in Triggers : Triggered(p, t, trigger)
  BY <1>0, <1>1, <1>2 DEF Triggered, deferVars
<1>3. CASE \E i \in Runs : TimerFires(i)
  BY <1>0, <1>1, <1>3 DEF TimerFires, ByTimer
<1>4. CASE \E i \in Runs : Run(i) \/ DeferIgnored(i)
  <2>1. PICK i \in Runs : Run(i) \/ DeferIgnored(i)
    BY <1>4
  <2>2. \E m \in Moves : Stage(i, m[1], m[2])
    <3>1. \/ Stage(i, "starting", "gated") \/ Stage(i, "starting", "asking") \/ Stage(i, "starting", "acking")
          \/ Stage(i, "asking", "acking") \/ Stage(i, "acking", "running")
          \/ Stage(i, "running", "closing") \/ Stage(i, "closing", "done")
      BY <2>1 DEF Run, Gated, Dispatch, Proceed, Acknowledge, Report, Close, DeferIgnored
    <3> QED BY <3>1 DEF Moves
  <2>3. timers' = timers
    BY <2>1 DEF Run, Gated, Dispatch, Proceed, Acknowledge, Report, Close, DeferIgnored, deferVars
  <2> QED BY <2>2, <2>3 DEF Moved
<1>5. CASE \E i \in Runs : Defer(i)
  <2>1. PICK i \in Runs : timers' = timers \cup {i} /\ Stage(i, "asking", "deferred")
    BY <1>5 DEF Defer
  <2>2. \E m \in Moves : Stage(i, m[1], m[2])
    BY <2>1 DEF Moves
  <2> QED BY <2>1, <2>2 DEF Moved
<1>6. CASE \/ \E p \in Processes : ReadRows(p) \/ ReadFails(p) \/ ApplyRows(p)
           \/ \E row \in queue : Poll(row)
           \/ UNCHANGED vars
  BY <1>6 DEF ReadRows, ReadFails, ApplyRows, Poll, vars, deferVars
<1> QED BY <1>2, <1>3, <1>4, <1>5, <1>6 DEF Next, Ended

\* An execution goes forward from stage to stage, or ends with its process; one is begun
\* only under the next number.
LEMMA StagesMove ==
  ASSUME TypeOK, NumberInv, [Next]_vars
  PROVE  /\ NumberInv'
         /\ \A i \in Runs : /\ runs[i].stage = "gone" => runs'[i].stage = "gone"
                            /\ runs[i].stage = "acking" => runs'[i].stage \in {"acking", "running", "gone"}
                            /\ runs[i].stage = "running" => runs'[i].stage \in {"running", "closing", "gone"}
<1>0. /\ runs \in [Runs -> RunRecord] /\ MaxRuns \in Nat /\ Runs = 1..MaxRuns
      /\ \A i \in Runs : runs[i] \in RunRecord
  BY RunTypes, TaskAssumption DEF Runs, TaskAssumption
<1>1. PICK n \in 0..MaxRuns : Started = 1..n
  BY DEF NumberInv
<1>2. timers \subseteq Started
  BY DEF NumberInv
<1>3. CASE runs' = runs /\ timers' \subseteq timers
  BY <1>1, <1>2, <1>3 DEF NumberInv, Started
<1>4. CASE Moved /\ (timers' \subseteq timers \/ \E i \in Runs : timers' = timers \cup {i} /\ Stage(i, "asking", "deferred"))
  <2>1. PICK i \in Runs, m \in Moves : Stage(i, m[1], m[2])
    BY <1>4 DEF Moved
  <2>2. m[2] \in Stages
    BY DEF Moves, Stages, ActiveStages
  <2>3. /\ runs[i].stage = m[1] /\ runs'[i].stage = m[2]
        /\ \A j \in Runs : j # i => runs'[j] = runs[j]
    BY <2>1, <2>2, StageStep
  <2>4. \A j \in Runs : /\ runs'[j].stage = "unused" <=> runs[j].stage = "unused"
                        /\ runs[j].stage = "gone" => runs'[j].stage = "gone"
                        /\ runs[j].stage = "acking" => runs'[j].stage \in {"acking", "running", "gone"}
                        /\ runs[j].stage = "running" => runs'[j].stage \in {"running", "closing", "gone"}
    BY <2>3 DEF Moves
  <2>5. Started' = Started
    BY <2>4 DEF Started
  <2>6. timers' \subseteq Started'
    <3>1. ASSUME NEW j \in Runs, timers' = timers \cup {j}, Stage(j, "asking", "deferred")
          PROVE  timers' \subseteq Started'
      <4>1. j \in Started
        BY <3>1 DEF Stage, Started
      <4> QED BY <1>2, <2>5, <3>1, <4>1
    <3> QED BY <1>2, <1>4, <2>5, <3>1
  <2> QED BY <1>1, <2>4, <2>5, <2>6 DEF NumberInv
<1>5. CASE Added /\ timers' \subseteq timers
  <2>1. Cardinality(Started) = n
    BY <1>1, FS_Interval
  <2>2. n + 1 \in Runs
    <3>1. n # MaxRuns
      BY <1>0, <1>1, <1>5 DEF Added
    <3> QED BY <1>0, <1>1, <3>1
  <2>3. PICK r \in RunRecord : r.stage = "starting" /\ runs' = [runs EXCEPT ![n + 1] = r]
    BY <1>5, <2>1 DEF Added
  <2>4. runs'[n + 1].stage = "starting" /\ \A j \in Runs : j # n + 1 => runs'[j] = runs[j]
    BY <1>0, <2>2, <2>3
  <2>5. runs[n + 1].stage = "unused"
    <3>1. n + 1 \notin Started
      BY <1>1
    <3> QED BY <2>2, <3>1 DEF Started
  <2>6. Started' = Started \cup {n + 1}
    BY <2>2, <2>4 DEF Started
  <2>7. Started' = 1..(n + 1) /\ n + 1 \in 0..MaxRuns
    BY <1>0, <1>1, <2>2, <2>6
  <2>8. NumberInv'
    BY <1>2, <1>5, <2>6, <2>7 DEF NumberInv
  <2> QED BY <2>4, <2>5, <2>8
<1>6. CASE Ended
  <2>1. PICK p \in Processes : Restart(p)
    BY <1>6 DEF Ended
  <2> DEFINE mine == {i \in Runs : runs[i].proc = p /\ (runs[i].stage \in ActiveStages \/ i \in timers)}
  <2>2. /\ runs' = [i \in Runs |-> IF i \in mine THEN [runs[i] EXCEPT !.stage = "gone"] ELSE runs[i]]
        /\ timers' = timers \ mine
    BY <2>1 DEF Restart
  <2>3. \A i \in Runs : [runs[i] EXCEPT !.stage = "gone"].stage = "gone"
    BY <1>0 DEF RunRecord
  <2>4. mine \subseteq Started
    BY <1>2 DEF Started, ActiveStages
  <2> HIDE DEF mine
  <2>5. \A i \in Runs : /\ i \in mine => runs'[i].stage = "gone"
                        /\ i \notin mine => runs'[i] = runs[i]
    BY <2>2, <2>3
  <2>6. Started' = Started
    BY <2>4, <2>5 DEF Started
  <2>7. NumberInv'
    BY <1>1, <1>2, <2>2, <2>6 DEF NumberInv
  <2> QED BY <2>5, <2>7
<1> QED BY <1>3, <1>4, <1>5, <1>6, HowRunsMove

\* What the server gets was owed, nothing leaves the queue but to the server, and what is
\* told or lost stays so.
LEMMA CallbacksMove ==
  ASSUME TypeOK, [Next]_vars
  PROVE  /\ told \subseteq told' /\ told' \subseteq told \cup CallbacksOwed
         /\ queue \subseteq queue' \cup told' /\ lost \subseteq lost'
<1>1. ASSUME NEW i \in Runs, Acknowledge(i) \/ Report(i)
      PROVE  /\ told \subseteq told' /\ told' \subseteq told \cup CallbacksOwed
             /\ queue \subseteq queue' /\ lost \subseteq lost'
  <2>1. PICK kind \in {"ack", "result"} : SendOrQueue(i, kind) /\ <<i, kind>> \in CallbacksOwed
    BY <1>1 DEF Acknowledge, Report, Stage, CallbacksOwed
  <2>2. told \subseteq told' /\ queue \subseteq queue' /\ lost \subseteq lost'
    BY <2>1, SendStep
  <2>3. told' \subseteq told \cup {<<i, kind>>}
    BY <2>1 DEF SendOrQueue
  <2> QED BY <2>1, <2>2, <2>3
<1>2. ASSUME NEW row \in queue, Poll(row)
      PROVE  /\ told \subseteq told' /\ told' \subseteq told \cup CallbacksOwed
             /\ queue \subseteq queue' \cup told' /\ lost \subseteq lost'
  BY <1>2 DEF Poll, CallbacksOwed
<1>3. CASE \/ UNCHANGED vars
           \/ \E p \in Processes : \/ ReadRows(p) \/ ReadFails(p) \/ ApplyRows(p) \/ Restart(p)
                                   \/ \E t \in Tasks, trigger \in Triggers : Triggered(p, t, trigger)
           \/ \E i \in Runs : Gated(i) \/ Dispatch(i) \/ Proceed(i) \/ Close(i) \/ Defer(i) \/ DeferIgnored(i) \/ TimerFires(i)
  <2>1. UNCHANGED callbackVars
    BY <1>3 DEF vars, ReadRows, ReadFails, ApplyRows, Restart, Triggered, Gated, Dispatch, Proceed, Close,
                Defer, DeferIgnored, TimerFires
  <2> QED BY <2>1 DEF callbackVars
<1> QED BY <1>1, <1>2, <1>3 DEF Next, Run

LEMMA ForwardStep ==
  ASSUME ExecutionInv, ExecutionInv', NumberInv, [Next]_vars
  PROVE  CallbackRelay!ForwardNext
<1>0. TypeOK /\ TypeOK' /\ CallbacksAccounted'
  BY DEF ExecutionInv
<1>1. /\ told \subseteq told' /\ told' \subseteq told \cup CallbacksOwed
      /\ queue \subseteq queue' \cup told' /\ lost \subseteq lost'
  BY <1>0, CallbacksMove
<1>2. \A i \in Runs : /\ runs[i].stage = "gone" => runs'[i].stage = "gone"
                      /\ runs[i].stage = "acking" => runs'[i].stage \in {"acking", "running", "gone"}
                      /\ runs[i].stage = "running" => runs'[i].stage \in {"running", "closing", "gone"}
  BY <1>0, StagesMove
<1>3. CallbacksOwed' \subseteq Callbacks
  BY <1>0 DEF TypeOK, CallbacksOwed, Callbacks
<1>4. CallbacksAbandoned \subseteq CallbacksAbandoned'
  <2>1. \A c \in Callbacks : c[1] \in Runs
    BY DEF Callbacks
  <2> QED BY <1>1, <1>2, <2>1 DEF CallbacksAbandoned
<1>5. CallbacksOwed \subseteq CallbacksOwed' \cup told' \cup CallbacksAbandoned'
  <2>1. ASSUME NEW i \in Runs, runs[i].stage = "acking"
        PROVE  <<i, "ack">> \in CallbacksOwed' \cup told' \cup CallbacksAbandoned'
    <3>0. <<i, "ack">> \in Callbacks
      BY DEF Callbacks
    <3>1. CASE runs'[i].stage = "acking"
      BY <3>1 DEF CallbacksOwed
    <3>2. CASE runs'[i].stage = "running"
      <4>1. <<i, "ack">> \in told' \cup queue' \cup lost'
        BY <1>0, <3>2 DEF CallbacksAccounted
      <4> QED BY <4>1 DEF CallbacksOwed, CallbacksAbandoned
    <3>3. CASE runs'[i].stage = "gone"
      BY <3>0, <3>3 DEF CallbacksAbandoned
    <3> QED BY <1>2, <2>1, <3>1, <3>2, <3>3
  <2>2. ASSUME NEW i \in Runs, runs[i].stage = "running"
        PROVE  <<i, "result">> \in CallbacksOwed' \cup told' \cup CallbacksAbandoned'
    <3>0. <<i, "result">> \in Callbacks
      BY DEF Callbacks
    <3>1. CASE runs'[i].stage = "running"
      BY <3>1 DEF CallbacksOwed
    <3>2. CASE runs'[i].stage = "closing"
      <4>1. <<i, "result">> \in told' \cup queue' \cup lost'
        BY <1>0, <3>2 DEF CallbacksAccounted
      <4> QED BY <4>1 DEF CallbacksOwed, CallbacksAbandoned
    <3>3. CASE runs'[i].stage = "gone"
      BY <3>0, <3>3 DEF CallbacksAbandoned
    <3> QED BY <1>2, <2>2, <3>1, <3>2, <3>3
  <2>3. queue \subseteq CallbacksOwed' \cup told'
    BY <1>1 DEF CallbacksOwed
  <2>4. CallbacksOwed = queue \cup {<<i, "ack">> : i \in {j \in Runs : runs[j].stage = "acking"}}
                              \cup {<<i, "result">> : i \in {j \in Runs : runs[j].stage = "running"}}
    BY DEF CallbacksOwed
  <2> HIDE DEF CallbacksOwed, CallbacksAbandoned
  <2> QED BY <2>1, <2>2, <2>3, <2>4
<1> QED BY <1>1, <1>3, <1>4, <1>5
    DEF CallbackRelay!ForwardNext, CallbackRelay!OnlyOwedArrive, CallbackRelay!NothingIsUndone,
        CallbackRelay!NothingIsForgotten

\* The callbacks of executions implement StoreAndForward: an acknowledgement or a result
\* leaves the agent's hands only by reaching the server, by a failure of the server and of
\* the database at once, or with the process that ends before it is sent.
THEOREM CallbacksImplementForwarding == Spec => CallbacksAreForwarded
<1>1. Init => NumberInv
  <2> SUFFICES ASSUME Init PROVE NumberInv
    OBVIOUS
  <2>1. \A i \in Runs : runs[i].stage = "unused"
    BY ExecutionFacts DEF Init
  <2>2. Started = 1..0 /\ 0 \in 0..MaxRuns /\ timers = {}
    BY <2>1, TaskAssumption DEF Started, Init, TaskAssumption
  <2> QED BY <2>2 DEF NumberInv
<1>2. Init => CallbackRelay!ForwardInit
  <2> SUFFICES ASSUME Init PROVE CallbackRelay!ForwardInit
    OBVIOUS
  <2>1. \A i \in Runs : runs[i].stage = "unused"
    BY ExecutionFacts DEF Init
  <2>2. \A c \in Callbacks : c[1] \in Runs
    BY DEF Callbacks
  <2> QED BY <2>1, <2>2 DEF Init, CallbackRelay!ForwardInit, CallbacksOwed, CallbacksAbandoned
<1>3. ExecutionInv /\ NumberInv /\ [Next]_vars => NumberInv'
  BY StagesMove DEF ExecutionInv
<1>4. ExecutionInv /\ ExecutionInv' /\ NumberInv /\ [Next]_vars
         => [CallbackRelay!ForwardNext]_CallbackRelay!forwardVars
  BY ForwardStep
<1> QED BY <1>1, <1>2, <1>3, <1>4, ExecutionInvariant, PTL
        DEF Spec, CallbacksAreForwarded, CallbackRelay!Forward

-----------------------------------------------------------------------------
(* AgentConfig.                                                            *)

RefreshRecord ==
    [at: {"start", "idle", "store", "copy", "switch", "secure", "hand", "context", "again"},
     of: SomeConfiguration, copy: P2PSettings, fresh: BOOLEAN,
     moved: BOOLEAN, repeats: BOOLEAN, reloads: 0..3]

\* The connection's security is as the configuration has it.
Follows(conn, c) == conn.hash = c.hash /\ Follow(c.enforce, conn.enforce) = conn.enforce

\* A refresh past its first step applies the configuration in memory, which a process that
\* starts has not.
StageInv ==
    /\ refresh.at \in {"copy", "switch", "secure", "hand", "context", "again"} =>
         configuration # None /\ refresh.of = configuration
    /\ refresh.at = "store" => refresh.of # None
    /\ refresh.at = "start" => configuration = None

\* SettingsFollow setting by setting, at the stages of a refresh at which each holds.
FollowInv ==
    /\ configuration # None =>
         /\ "security" \notin overridden /\ refresh.at \in {"idle", "store", "hand", "context", "again"} =>
              Follows(connection, configuration.of)
         /\ "p2p" \notin overridden /\ refresh.at \notin {"copy", "switch"} =>
              p2p.enabled = Follow(configuration.of.p2p, p2p.enabled)
    /\ refresh.at \notin {"copy", "switch", "secure", "hand"} => handed = configuration
    /\ "tuning" \notin overridden => p2p.tuning = filedTuning

\* A refresh that repeats found the connection as it would leave it, and nobody has
\* written it since.
RepeatInv ==
    refresh.repeats =>
      /\ configuration # None /\ configuration = refresh.of /\ Follows(connection, configuration.of)
      /\ ~refresh.moved /\ (refresh.of.of.handshake # "off" => refresh.reloads = 0)

\* A refresh reloads for the security of its configuration, for the site, and for the
\* security once more; the bootstrap writes what it read.
StepsInv ==
    /\ refresh.at \in {"store", "copy", "switch", "secure"} => refresh.reloads = 0
    /\ refresh.at \in {"hand", "context"} => refresh.reloads <= 1
    /\ refresh.at = "again" => refresh.reloads <= 2
    /\ boot.at = "write" => boot.left > 0

\* No number is beyond the server's; and unless a row was not written, the row is no older
\* than the configuration in memory nor than the one a refresh brings, and that one no
\* older than the one it replaces.
NewestInv ==
    /\ answer.number = published
    /\ configuration.number <= published /\ filed.number <= published
    /\ refresh.of.number <= published
    /\ ~missedRow =>
         /\ IsConfiguration(filed) =>
              /\ filed.number >= configuration.number
              /\ refresh.at = "store" => filed.number >= refresh.of.number
         /\ refresh.at = "store" => refresh.of.number >= configuration.number

\* The first half of FallbackIsNewest.
RowIsUsed == refresh.at = "idle" /\ configuration = None => ~IsConfiguration(filed)

ConfigInv ==
    /\ AgentConfigTypeOK /\ StageInv /\ FollowInv /\ RepeatInv /\ StepsInv
    /\ NewestInv /\ RowIsUsed

\* What a configuration of the server is, and what stands for none.
LEMMA ConfigurationFacts ==
  /\ None \in SomeConfiguration /\ None.number = 0 /\ Resting \in RefreshRecord
  /\ \A x \in SomeConfiguration :
       /\ x.number \in 0..MaxPublished
       /\ x # None => /\ x.number > 0 /\ x.of \in Configuration /\ x # Unparsable /\ IsConfiguration(x)
<1>1. None.number = 0 /\ Unparsable.number = 0 /\ MaxPublished \in Nat \ {0} /\ MaxSaves \in Nat
  BY ConfigurationsAssumption DEF None, Unparsable, ConfigurationsAssumption
<1>2. None \in SomeConfiguration
  BY DEF SomeConfiguration
<1>3. Resting \in RefreshRecord
  BY <1>1, <1>2 DEF Resting, RefreshRecord, P2PSettings
<1>4. ASSUME NEW x \in SomeConfiguration, x # None
      PROVE  x.number \in 1..MaxPublished /\ x.of \in Configuration
  <2>1. PICK n \in 1..MaxPublished, c \in Configurations : x = Numbered(n, c)
    BY <1>4 DEF SomeConfiguration
  <2>2. Numbered(n, c).number = n /\ Numbered(n, c).of = c
    BY DEF Numbered
  <2> QED BY <2>1, <2>2, ConfigurationsAssumption DEF ConfigurationsAssumption
<1>5. ASSUME NEW x \in SomeConfiguration, x # None
      PROVE  x # Unparsable
  BY <1>1, <1>4, <1>5
<1> QED BY <1>1, <1>2, <1>3, <1>4, <1>5 DEF IsConfiguration

\* The typed state, as the steps use it.
LEMMA ConfigTypes ==
  ASSUME AgentConfigTypeOK
  PROVE  /\ refresh \in RefreshRecord /\ connection \in Connection /\ p2p \in P2PSettings
         /\ refresh.of \in SomeConfiguration /\ refresh.copy \in P2PSettings
         /\ refresh.reloads \in 0..3 /\ refresh.moved \in BOOLEAN /\ refresh.repeats \in BOOLEAN
         /\ connection.hash \in {"", "A", "B"} /\ connection.enforce \in BOOLEAN
         /\ connection.known \in BOOLEAN
         /\ p2p.enabled \in BOOLEAN /\ p2p.tuning \in 0..MaxSaves
         /\ configuration \in SomeConfiguration /\ answer \in SomeConfiguration /\ handed \in SomeConfiguration
         /\ filed \in SomeConfiguration \cup {Unparsable} /\ filedTuning \in 0..MaxSaves
         /\ boot.copy \in Connection /\ boot.left \in 0..2
         /\ published \in Nat /\ published > 0 /\ MaxSaves \in Nat
         /\ configuration.number \in Nat /\ answer.number \in Nat
<1>1. /\ refresh \in RefreshRecord /\ connection \in Connection /\ p2p \in P2PSettings
      /\ boot \in [copy: Connection, at: {"read", "write", "over"}, left: 0..2]
      /\ configuration \in SomeConfiguration /\ answer \in SomeConfiguration /\ handed \in SomeConfiguration
      /\ filed \in SomeConfiguration \cup {Unparsable} /\ filedTuning \in 0..MaxSaves
      /\ published \in 1..MaxPublished
  BY DEF AgentConfigTypeOK, RefreshRecord
<1>2. /\ refresh.of \in SomeConfiguration /\ refresh.copy \in P2PSettings
      /\ refresh.reloads \in 0..3 /\ refresh.moved \in BOOLEAN /\ refresh.repeats \in BOOLEAN
  BY <1>1 DEF RefreshRecord
<1>3. /\ connection.hash \in {"", "A", "B"} /\ connection.enforce \in BOOLEAN
      /\ connection.known \in BOOLEAN
  BY <1>1 DEF Connection
<1>4. p2p.enabled \in BOOLEAN /\ p2p.tuning \in 0..MaxSaves
  BY <1>1 DEF P2PSettings
<1>5. boot.copy \in Connection /\ boot.left \in 0..2
  BY <1>1
<1>6. published \in Nat /\ published > 0 /\ MaxSaves \in Nat /\ MaxPublished \in Nat
  BY <1>1, ConfigurationsAssumption DEF ConfigurationsAssumption
<1>7. configuration.number \in Nat /\ answer.number \in Nat
  <2>1. configuration.number \in 0..MaxPublished /\ answer.number \in 0..MaxPublished
    BY <1>1, ConfigurationFacts
  <2> QED BY <1>6, <2>1
<1> QED BY <1>1, <1>2, <1>3, <1>4, <1>5, <1>6, <1>7

\* What a configuration makes of the connection follows it, and is what it was when it did.
LEMMA SecuredFollows ==
  ASSUME NEW conn \in Connection, NEW c \in Configuration
  PROVE  /\ Secured(conn, c) \in Connection /\ Follows(Secured(conn, c), c)
         /\ Follows(conn, c) => Secured(conn, c) = conn
<1>1. c.hash \in {"", "A", "B"} /\ Follow(c.enforce, conn.enforce) \in BOOLEAN
  BY DEF Configuration, Connection, Follow
<1>2. Secured(conn, c) = [conn EXCEPT !.hash = c.hash, !.enforce = Follow(c.enforce, conn.enforce)]
  BY DEF Secured, Connection
<1>3. /\ Secured(conn, c) \in Connection /\ Secured(conn, c).hash = c.hash
      /\ Secured(conn, c).enforce = Follow(c.enforce, conn.enforce)
  BY <1>1, <1>2 DEF Connection
<1>4. Follow(c.enforce, Follow(c.enforce, conn.enforce)) = Follow(c.enforce, conn.enforce)
  BY DEF Follow
<1>5. Follows(Secured(conn, c), c)
  BY <1>3, <1>4 DEF Follows
<1>6. ASSUME Follows(conn, c) PROVE Secured(conn, c) = conn
  BY <1>2, <1>6 DEF Follows, Connection
<1> QED BY <1>3, <1>5, <1>6

LEMMA AgentConfigInit == InitAgentConfig => ConfigInv
<1> SUFFICES ASSUME InitAgentConfig PROVE ConfigInv
  OBVIOUS
<1>0. MaxPublished \in Nat \ {0} /\ MaxSaves \in Nat /\ MaxMishaps \in Nat /\ MaxAgentStarts \in Nat
  BY ConfigurationsAssumption DEF ConfigurationsAssumption
<1>a. /\ published = 1 /\ answer \in {Numbered(1, c) : c \in Configurations}
      /\ configuration = None /\ filed = None /\ handed = None /\ filedTuning = 0
      /\ refresh = [Resting EXCEPT !.at = "start"]
      /\ boot = [copy |-> connection, at |-> "read", left |-> 2]
      /\ configUsed = [saves |-> 0, mishaps |-> 0, starts |-> 0]
      /\ overridden = {}
  BY DEF InitAgentConfig
<1>c. connection \in [known: BOOLEAN, hash: {""}, enforce: {FALSE}]
  BY DEF InitAgentConfig
<1>d. p2p = [enabled |-> TRUE, tuning |-> 0]
  BY DEF InitAgentConfig
<1>e. missedRow \in BOOLEAN
  BY DEF InitAgentConfig
<1>1. /\ refresh \in RefreshRecord /\ refresh.at = "start" /\ refresh.of = None /\ ~refresh.repeats
      /\ refresh.reloads = 0
  BY <1>a, ConfigurationFacts DEF RefreshRecord, Resting
<1>2. connection \in Connection
  <2>1. FALSE \in BOOLEAN
    OBVIOUS
  <2>2. {FALSE} \subseteq BOOLEAN /\ {""} \subseteq {"", "A", "B"}
    BY <2>1
  <2> QED BY <1>c, <2>2 DEF Connection
<1>b. p2p \in P2PSettings /\ p2p.tuning = 0
  BY <1>0, <1>d DEF P2PSettings
<1>3. answer \in SomeConfiguration /\ answer.number = 1
  <2>1. PICK c \in Configurations : answer = Numbered(1, c)
    BY <1>a
  <2> QED BY <1>0, <2>1 DEF SomeConfiguration, Numbered
<1>4. boot \in [copy: Connection, at: {"read", "write", "over"}, left: 0..2] /\ boot.at = "read"
  BY <1>a, <1>2
<1>5. configUsed \in [saves: 0..MaxSaves, mishaps: 0..MaxMishaps, starts: 0..MaxAgentStarts]
  BY <1>0, <1>a
<1>6. AgentConfigTypeOK
  <2>1. missedRow \in BOOLEAN /\ overridden \subseteq {"security", "p2p", "tuning"}
    BY <1>a, <1>e
  <2>2. published \in 1..MaxPublished /\ filedTuning \in 0..MaxSaves
    BY <1>0, <1>a
  <2>3. configuration \in SomeConfiguration /\ handed \in SomeConfiguration /\ filed \in SomeConfiguration
    BY <1>a, ConfigurationFacts
  <2> QED BY <1>1, <1>2, <1>b, <1>3, <1>4, <1>5, <2>1, <2>2, <2>3 DEF AgentConfigTypeOK, RefreshRecord
<1>7. StageInv /\ RepeatInv /\ StepsInv
  BY <1>a, <1>1, <1>4 DEF StageInv, RepeatInv, StepsInv
<1>8. FollowInv /\ RowIsUsed
  BY <1>a, <1>1, <1>b DEF FollowInv, RowIsUsed, IsConfiguration
<1>9. NewestInv
  BY <1>a, <1>1, <1>3, ConfigurationFacts DEF NewestInv, IsConfiguration
<1> QED BY <1>6, <1>7, <1>8, <1>9 DEF ConfigInv

ConfigBounds == [saves: 0..MaxSaves, mishaps: 0..MaxMishaps, starts: 0..MaxAgentStarts]
BootRecord == [copy: Connection, at: {"read", "write", "over"}, left: 0..2]

\* A refresh begins with x: with an answer, or with the row.
LEMMA ApplyStep ==
  ASSUME ConfigInv, CanFetch, NEW x \in SomeConfiguration, x # None, x.number <= published, Apply(x, TRUE) \/ Apply(x, FALSE),
         published' = published, answer' = answer, configuration' = configuration,
         connection' = connection, p2p' = p2p, filedTuning' = filedTuning, handed' = handed,
         boot' = boot, overridden' = overridden,
         filed' \in SomeConfiguration \cup {Unparsable}, missedRow' \in BOOLEAN, configUsed' \in ConfigBounds,
         filed'.number <= published,
         ~missedRow' =>
           /\ x.number >= configuration.number
           /\ IsConfiguration(filed') =>
                filed'.number >= configuration.number /\ filed'.number >= x.number
  PROVE  ConfigInv'
<1>0. AgentConfigTypeOK /\ Resting \in RefreshRecord /\ refresh.at \in {"start", "idle"}
  BY ConfigurationFacts DEF ConfigInv, CanFetch
<1>1. InForce(x) \in BOOLEAN
  BY DEF InForce
<1>2. /\ refresh' \in RefreshRecord /\ refresh'.at = "store" /\ refresh'.of = x
      /\ refresh'.repeats <=> InForce(x)
      /\ ~refresh'.moved /\ refresh'.reloads = 0
  BY <1>0, <1>1 DEF Apply, RefreshRecord, Resting
<1>3. AgentConfigTypeOK'
  BY <1>0, <1>2 DEF AgentConfigTypeOK, RefreshRecord, ConfigBounds
<1>4. StageInv' /\ StepsInv' /\ RowIsUsed'
  BY <1>2 DEF ConfigInv, StageInv, StepsInv, RowIsUsed
<1>5. refresh.at = "idle" \/ configuration = None
  BY <1>0 DEF ConfigInv, StageInv
<1>6. FollowInv'
  BY <1>0, <1>2, <1>5 DEF ConfigInv, FollowInv, Follows
<1>7. RepeatInv'
  BY <1>0, <1>2, <1>5 DEF ConfigInv, FollowInv, RepeatInv, Follows, InForce
<1>8. NewestInv'
  BY <1>2 DEF ConfigInv, NewestInv, IsConfiguration
<1> QED BY <1>3, <1>4, <1>6, <1>7, <1>8 DEF ConfigInv

\* A refresh ends before it began: there is no configuration to apply.
LEMMA GiveUpStep ==
  ASSUME ConfigInv, CanFetch, GiveUp,
         published' = published, answer' = answer, configuration' = configuration,
         connection' = connection, p2p' = p2p, filedTuning' = filedTuning, handed' = handed,
         boot' = boot, overridden' = overridden,
         filed' \in SomeConfiguration \cup {Unparsable}, missedRow' \in BOOLEAN, configUsed' \in ConfigBounds,
         filed'.number <= published, ~IsConfiguration(filed')
  PROVE  ConfigInv'
<1>0. AgentConfigTypeOK /\ Resting \in RefreshRecord /\ refresh.at \in {"start", "idle"}
  BY ConfigurationFacts DEF ConfigInv, CanFetch
<1>2. /\ refresh' \in RefreshRecord /\ refresh'.at = "idle" /\ ~refresh'.repeats
      /\ refresh'.of = None
  BY <1>0 DEF GiveUp, RefreshRecord, Resting
<1>3. AgentConfigTypeOK'
  BY <1>0, <1>2 DEF AgentConfigTypeOK, RefreshRecord, ConfigBounds
<1>4. StageInv' /\ StepsInv' /\ RowIsUsed' /\ RepeatInv'
  BY <1>2 DEF ConfigInv, StageInv, StepsInv, RowIsUsed, IsConfiguration, RepeatInv
<1>5. refresh.at = "idle" \/ configuration = None
  BY <1>0 DEF ConfigInv, StageInv
<1>6. FollowInv'
  BY <1>0, <1>2, <1>5 DEF ConfigInv, FollowInv, Follows
<1>8. NewestInv'
  <2>1. published \in Nat /\ None.number = 0
    BY <1>0, ConfigTypes, ConfigurationFacts
  <2>2. refresh'.of.number <= published
    BY <1>2, <2>1
  <2> QED BY <1>2, <2>2 DEF ConfigInv, NewestInv, IsConfiguration
<1> QED BY <1>3, <1>4, <1>6, <1>8 DEF ConfigInv

\* The configuration is fetched, or the row takes its place.
LEMMA FetchInv ==
  ASSUME ConfigInv, FetchConfiguration \/ FetchUnparsable \/ FetchWithoutRow \/ FetchFallsBack
  PROVE  ConfigInv'
<1>0. /\ AgentConfigTypeOK /\ configUsed \in ConfigBounds /\ missedRow \in BOOLEAN
      /\ filed \in SomeConfiguration \cup {Unparsable} /\ answer \in SomeConfiguration
      /\ MaxMishaps \in Nat
  BY ConfigurationsAssumption DEF ConfigInv, AgentConfigTypeOK, ConfigBounds, ConfigurationsAssumption
<1>1. /\ CanFetch
      /\ published' = published /\ answer' = answer /\ configuration' = configuration
      /\ connection' = connection /\ p2p' = p2p /\ filedTuning' = filedTuning /\ handed' = handed
      /\ boot' = boot /\ overridden' = overridden
  BY DEF FetchConfiguration, FetchUnparsable, FetchWithoutRow, FetchFallsBack, Fetched,
         settings, serverVars, bookkeeping
<1>2. /\ answer # None /\ answer # Unparsable
      /\ answer.number >= configuration.number /\ answer.number >= answer.number
      /\ answer.number <= published /\ filed.number <= published /\ Unparsable.number <= published
  <2>1. published \in Nat /\ published > 0 /\ configuration.number \in Nat /\ answer.number \in Nat
    BY <1>0, ConfigTypes
  <2>2. answer.number = published /\ configuration.number <= published /\ filed.number <= published
    BY DEF ConfigInv, NewestInv
  <2>4. Unparsable.number = 0
    BY DEF Unparsable
  <2>3. answer # None /\ answer # Unparsable
    BY <1>0, <2>1, <2>2, ConfigurationFacts
  <2> QED BY <2>1, <2>2, <2>3, <2>4
<1>3. Mishap => configUsed' \in ConfigBounds
  BY <1>0 DEF Mishap, ConfigBounds
<1>4. CASE FetchConfiguration
  <2>1. /\ filed' = answer /\ ~missedRow' /\ Apply(answer, TRUE) /\ configUsed' = configUsed
        /\ missedRow' \in BOOLEAN
    BY <1>2, <1>4 DEF FetchConfiguration, Fetched
  <2> QED BY <1>0, <1>1, <1>2, <2>1, ApplyStep
<1>5. CASE FetchUnparsable
  <2>1. filed' = Unparsable /\ missedRow' \in BOOLEAN /\ GiveUp /\ Mishap
    BY <1>5 DEF FetchUnparsable, Fetched
  <2> QED BY <1>0, <1>1, <1>2, <1>3, <2>1, GiveUpStep DEF IsConfiguration
<1>6. CASE FetchWithoutRow
  <2>1. /\ filed' = filed /\ Apply(answer, TRUE) /\ Mishap /\ missedRow' \in BOOLEAN
        /\ ~missedRow' => filed = answer \/ filed = Unparsable
    BY <1>2, <1>6 DEF FetchWithoutRow, Fetched
  <2>2. ~missedRow' /\ IsConfiguration(filed) => filed = answer
    BY <2>1 DEF IsConfiguration
  <2> QED BY <1>0, <1>1, <1>2, <1>3, <2>1, <2>2, ApplyStep
<1>7. CASE FetchFallsBack
  <2>1. filed' = filed /\ configUsed' = configUsed /\ missedRow' = missedRow
    BY <1>7 DEF FetchFallsBack, bookkeeping
  <2>2. CASE IsConfiguration(filed)
    <3>1. Apply(filed, FALSE) /\ filed \in SomeConfiguration /\ filed # None
      BY <1>0, <1>7, <2>2 DEF FetchFallsBack, IsConfiguration
    <3>2. ~missedRow => filed.number >= configuration.number
      BY <2>2 DEF ConfigInv, NewestInv
    <3>3. filed.number >= filed.number
      BY <3>1, ConfigurationFacts
    <3> QED BY <1>0, <1>1, <1>2, <2>1, <3>1, <3>2, <3>3, ApplyStep
  <2>3. CASE ~IsConfiguration(filed)
    <3>1. GiveUp
      BY <1>7, <2>3 DEF FetchFallsBack
    <3> QED BY <1>0, <1>1, <1>2, <2>1, <2>3, <3>1, GiveUpStep
  <2> QED BY <2>2, <2>3
<1> QED BY <1>4, <1>5, <1>6, <1>7

\* What a refresh brings replaces the configuration in memory.
LEMMA StoreInv ==
  ASSUME ConfigInv, StoreConfiguration
  PROVE  ConfigInv'
<1>0. AgentConfigTypeOK /\ refresh \in RefreshRecord /\ refresh.at = "store" /\ refresh.of \in SomeConfiguration
  BY ConfigTypes DEF ConfigInv, StoreConfiguration
<1>1. /\ published' = published /\ answer' = answer /\ filed' = filed
      /\ connection' = connection /\ p2p' = p2p /\ filedTuning' = filedTuning /\ handed' = handed
      /\ boot' = boot /\ overridden' = overridden /\ configUsed' = configUsed /\ missedRow' = missedRow
      /\ configuration' = refresh.of
  BY DEF StoreConfiguration, settings, serverVars, bookkeeping
<1>2. /\ refresh.of # None /\ refresh.of.of \in Configuration /\ refresh.reloads = 0
      /\ refresh.of.number <= published
  <2>1. refresh.of # None /\ refresh.reloads = 0
    BY <1>0 DEF ConfigInv, StageInv, StepsInv
  <2> QED BY <1>0, <2>1, ConfigurationFacts DEF ConfigInv, NewestInv
<1>3. PICK b \in BOOLEAN, to \in {"secure", "copy"} :
          /\ refresh' = [refresh EXCEPT !.at = to, !.moved = b]
          /\ to = "secure" => refresh.of.of.p2p = "absent"
          /\ b => configuration = None \/ configuration.of.site # refresh.of.of.site
  BY DEF StoreConfiguration
<1>4. /\ refresh' \in RefreshRecord /\ refresh'.at = to /\ refresh'.of = refresh.of
      /\ refresh'.repeats = refresh.repeats /\ refresh'.reloads = refresh.reloads /\ refresh'.moved = b
  BY <1>0, <1>3 DEF RefreshRecord
<1>5. AgentConfigTypeOK'
  BY <1>0, <1>1, <1>4 DEF AgentConfigTypeOK, RefreshRecord
<1>6. StageInv' /\ StepsInv' /\ RowIsUsed'
  BY <1>1, <1>2, <1>4 DEF ConfigInv, StageInv, StepsInv, RowIsUsed
<1>7. FollowInv'
  <2>1. p2p.enabled \in BOOLEAN
    BY <1>0, ConfigTypes
  <2> QED BY <1>1, <1>3, <1>4, <2>1 DEF ConfigInv, FollowInv, Follow
<1>8. RepeatInv'
  BY <1>0, <1>1, <1>3, <1>4 DEF ConfigInv, RepeatInv, Follows
<1>9. NewestInv'
  BY <1>0, <1>1, <1>2, <1>4 DEF ConfigInv, NewestInv, IsConfiguration
<1> QED BY <1>5, <1>6, <1>7, <1>8, <1>9 DEF ConfigInv

\* The switch of the P2P settings is set on a copy, which is written back.
LEMMA P2PInv ==
  ASSUME ConfigInv, CopyP2P \/ SwitchP2P
  PROVE  ConfigInv'
<1>0. AgentConfigTypeOK /\ refresh \in RefreshRecord
  BY ConfigTypes DEF ConfigInv
<1>1. /\ published' = published /\ answer' = answer /\ filed' = filed /\ configuration' = configuration
      /\ connection' = connection /\ filedTuning' = filedTuning /\ handed' = handed
      /\ boot' = boot /\ configUsed' = configUsed /\ missedRow' = missedRow
  BY DEF CopyP2P, SwitchP2P, settings, serverVars, bookkeeping
<1>2. PICK from \in {"copy", "switch"}, to \in {"switch", "secure"} :
          /\ refresh.at = from /\ (from = "copy" <=> to = "switch")
          /\ refresh' \in RefreshRecord /\ refresh'.at = to /\ refresh'.of = refresh.of
          /\ refresh'.repeats = refresh.repeats /\ refresh'.reloads = refresh.reloads
          /\ refresh'.moved = refresh.moved
          /\ from = "copy" => CopyP2P
          /\ from = "switch" => SwitchP2P
  <2>1. CASE CopyP2P
    <3>1. refresh.at = "copy" /\ refresh' = [refresh EXCEPT !.at = "switch", !.copy = p2p] /\ p2p \in P2PSettings
      BY <1>0, <2>1, ConfigTypes DEF CopyP2P
    <3> QED BY <1>0, <2>1, <3>1 DEF RefreshRecord
  <2>2. CASE SwitchP2P
    <3>1. refresh.at = "switch" /\ refresh' = [refresh EXCEPT !.at = "secure"]
      BY <2>2 DEF SwitchP2P, NextStage
    <3> QED BY <1>0, <2>2, <3>1 DEF RefreshRecord
  <2> QED BY <2>1, <2>2
<1>3. /\ configuration # None /\ refresh.of = configuration /\ refresh.reloads = 0
      /\ configuration.of \in Configuration
  <2>1. configuration # None /\ refresh.of = configuration /\ refresh.reloads = 0
    BY <1>2 DEF ConfigInv, StageInv, StepsInv
  <2> QED BY <1>0, <2>1, ConfigTypes, ConfigurationFacts
<1>4. /\ p2p' \in P2PSettings /\ overridden' \subseteq {"security", "p2p", "tuning"}
      /\ "security" \in overridden' <=> "security" \in overridden
      /\ "tuning" \notin overridden' => "tuning" \notin overridden /\ p2p'.tuning = p2p.tuning
      /\ from = "switch" => p2p'.enabled = Follow(configuration.of.p2p, p2p'.enabled)
  <2>1. CASE from = "copy"
    <3>1. p2p' = p2p /\ overridden' = overridden
      BY <1>2, <2>1 DEF CopyP2P, settings, bookkeeping
    <3> QED BY <1>0, <2>1, <3>1 DEF AgentConfigTypeOK
  <2>2. CASE from = "switch"
    <3> DEFINE on == Follow(configuration.of.p2p, refresh.copy.enabled)
    <3>1. /\ p2p' = [refresh.copy EXCEPT !.enabled = on]
          /\ overridden' = (overridden \ {"p2p"})
                             \cup (IF refresh.copy.tuning # p2p.tuning THEN {"tuning"} ELSE {})
      BY <1>0, <1>2, <1>3, <2>2, ConfigTypes DEF SwitchP2P, P2PSettings
    <3>2. refresh.copy \in P2PSettings /\ on \in BOOLEAN
      BY <1>0, ConfigTypes DEF Follow, P2PSettings
    <3>3. p2p' \in P2PSettings /\ p2p'.enabled = on /\ p2p'.tuning = refresh.copy.tuning
      BY <3>1, <3>2 DEF P2PSettings
    <3>4. on = Follow(configuration.of.p2p, on)
      BY DEF Follow
    <3>5. overridden \subseteq {"security", "p2p", "tuning"}
      BY <1>0 DEF AgentConfigTypeOK
    <3> HIDE DEF on
    <3> QED BY <3>1, <3>3, <3>4, <3>5
  <2> QED BY <2>1, <2>2
<1>5. AgentConfigTypeOK'
  BY <1>0, <1>1, <1>2, <1>4 DEF AgentConfigTypeOK, RefreshRecord
<1>6. StageInv' /\ StepsInv' /\ RowIsUsed' /\ NewestInv'
  <2>1. StageInv' /\ StepsInv' /\ RowIsUsed'
    BY <1>1, <1>2, <1>3 DEF ConfigInv, StageInv, StepsInv, RowIsUsed
  <2>2. NewestInv'
    BY <1>1, <1>2 DEF ConfigInv, NewestInv, IsConfiguration
  <2> QED BY <2>1, <2>2
<1>7. FollowInv'
  BY <1>1, <1>2, <1>4 DEF ConfigInv, FollowInv
<1>8. RepeatInv'
  BY <1>1, <1>2 DEF ConfigInv, RepeatInv, Follows
<1> QED BY <1>5, <1>6, <1>7, <1>8 DEF ConfigInv

\* The security of the configuration is applied; it reloads only when that changes it.
LEMMA SecurityInv ==
  ASSUME ConfigInv, ApplySecurity("secure", "hand") \/ ApplySecurity("again", "idle")
  PROVE  ConfigInv'
<1>0. AgentConfigTypeOK /\ refresh \in RefreshRecord /\ connection \in Connection /\ refresh.reloads \in 0..3
  BY ConfigTypes DEF ConfigInv
<1>1. PICK from \in {"secure", "again"}, to \in {"hand", "idle"} :
          ApplySecurity(from, to) /\ (from = "secure" <=> to = "hand")
  OBVIOUS
<1>2. /\ published' = published /\ answer' = answer /\ filed' = filed /\ configuration' = configuration
      /\ p2p' = p2p /\ filedTuning' = filedTuning /\ handed' = handed
      /\ boot' = boot /\ configUsed' = configUsed /\ missedRow' = missedRow
      /\ refresh.at = from /\ connection' = Secured(connection, refresh.of.of)
      /\ overridden' = overridden \ {"security"}
  BY <1>1 DEF ApplySecurity, serverVars
<1>3. /\ configuration # None /\ refresh.of = configuration
      /\ configuration.of \in Configuration
      /\ from = "secure" => refresh.reloads = 0
      /\ from = "again" => refresh.reloads <= 2
  <2>1. /\ configuration # None /\ refresh.of = configuration
        /\ from = "secure" => refresh.reloads = 0
        /\ from = "again" => refresh.reloads <= 2
    BY <1>2 DEF ConfigInv, StageInv, StepsInv
  <2> QED BY <1>0, <2>1, ConfigTypes, ConfigurationFacts
<1>4. connection' \in Connection /\ Follows(connection', configuration'.of)
  BY <1>0, <1>2, <1>3, SecuredFollows
<1>5. PICK n \in {0, 1} :
          /\ refresh' = [refresh EXCEPT !.at = to, !.reloads = refresh.reloads + n]
          /\ n = 1 => SecurityChanges(connection, configuration.of)
  <2>1. refresh' = [refresh EXCEPT !.at = to, !.reloads =
                     refresh.reloads + IF SecurityChanges(connection, refresh.of.of) THEN 1 ELSE 0]
    BY <1>0, <1>1 DEF ApplySecurity, RefreshRecord
  <2>2. CASE SecurityChanges(connection, configuration.of)
    BY <1>3, <2>1, <2>2
  <2>3. CASE ~SecurityChanges(connection, configuration.of)
    BY <1>3, <2>1, <2>3
  <2> QED BY <2>2, <2>3
<1>6. refresh.reloads + n \in 0..3
  BY <1>0, <1>3
<1>7. /\ refresh' \in RefreshRecord /\ refresh'.at = to /\ refresh'.of = refresh.of
      /\ refresh'.repeats = refresh.repeats /\ refresh'.reloads = refresh.reloads + n
      /\ refresh'.moved = refresh.moved
  BY <1>0, <1>5, <1>6 DEF RefreshRecord
<1>8. AgentConfigTypeOK'
  BY <1>0, <1>2, <1>4, <1>7 DEF AgentConfigTypeOK, RefreshRecord
<1>9. StageInv' /\ StepsInv' /\ RowIsUsed' /\ NewestInv'
  <2>1. StageInv' /\ StepsInv' /\ RowIsUsed'
    BY <1>1, <1>2, <1>3, <1>6, <1>7 DEF ConfigInv, StageInv, StepsInv, RowIsUsed
  <2>2. NewestInv'
    BY <1>1, <1>2, <1>7 DEF ConfigInv, NewestInv, IsConfiguration
  <2> QED BY <2>1, <2>2
<1>10. FollowInv'
  BY <1>1, <1>2, <1>4, <1>7 DEF ConfigInv, FollowInv
<1>11. RepeatInv'
  <2> SUFFICES ASSUME refresh'.repeats
               PROVE  /\ configuration' # None /\ configuration' = refresh'.of
                      /\ Follows(connection', configuration'.of) /\ ~refresh'.moved
                      /\ (refresh'.of.of.handshake # "off" => refresh'.reloads = 0)
    BY DEF RepeatInv, Follows
  <2>1. /\ Follows(connection, configuration.of) /\ ~refresh.moved
        /\ refresh.of.of.handshake # "off" => refresh.reloads = 0
    BY <1>7 DEF ConfigInv, RepeatInv
  <2>2. configuration.of.handshake # "off" => n = 0
    BY <1>0, <1>3, <1>5, <2>1, SecuredFollows DEF SecurityChanges
  <2> QED BY <1>2, <1>3, <1>4, <1>7, <2>1, <2>2
<1> QED BY <1>8, <1>9, <1>10, <1>11 DEF ConfigInv

\* The other components are handed the configuration, and the subjects follow the site.
LEMMA HandInv ==
  ASSUME ConfigInv, HandOut \/ FollowContext
  PROVE  ConfigInv'
<1>0. AgentConfigTypeOK /\ refresh \in RefreshRecord /\ refresh.of \in SomeConfiguration /\ refresh.reloads \in 0..3
  BY ConfigTypes DEF ConfigInv
<1>1. /\ published' = published /\ answer' = answer /\ filed' = filed /\ configuration' = configuration
      /\ connection' = connection /\ p2p' = p2p /\ filedTuning' = filedTuning
      /\ boot' = boot /\ overridden' = overridden /\ configUsed' = configUsed /\ missedRow' = missedRow
  BY DEF HandOut, FollowContext, settings, serverVars, bookkeeping
<1>2. /\ refresh.at \in {"hand", "context"} /\ refresh.reloads <= 1
      /\ configuration # None /\ refresh.of = configuration
  <2>1. refresh.at \in {"hand", "context"}
    BY DEF HandOut, FollowContext, NextStage
  <2> QED BY <2>1 DEF ConfigInv, StageInv, StepsInv
<1>3. handed' \in SomeConfiguration /\ handed' = configuration
  BY <1>0, <1>2 DEF HandOut, FollowContext, settings, ConfigInv, FollowInv, AgentConfigTypeOK
<1>4. /\ refresh' \in RefreshRecord /\ refresh'.of = refresh.of /\ refresh'.repeats = refresh.repeats
      /\ refresh'.moved = refresh.moved
      /\ \/ refresh'.at = "context" /\ refresh'.reloads <= 1
         \/ refresh'.at \in {"again", "idle"} /\ refresh'.reloads <= 2
      /\ ~refresh.moved => refresh'.reloads = refresh.reloads
  <2>1. CASE HandOut
    <3>1. refresh' = [refresh EXCEPT !.at = "context"]
      BY <2>1 DEF HandOut, NextStage
    <3> QED BY <1>0, <1>2, <3>1 DEF RefreshRecord
  <2>2. CASE FollowContext
    <3>1. PICK n \in {0, 1}, to \in {"again", "idle"} :
              /\ refresh' = [refresh EXCEPT !.at = to, !.reloads = refresh.reloads + n]
              /\ ~refresh.moved => n = 0
      <4>1. PICK to \in {"again", "idle"} :
                refresh' = [refresh EXCEPT !.at = to, !.reloads = refresh.reloads + IF refresh.moved THEN 1 ELSE 0]
        BY <1>0, <2>2 DEF FollowContext, RefreshRecord
      <4>2. CASE refresh.moved
        BY <4>1, <4>2
      <4>3. CASE ~refresh.moved
        BY <4>1, <4>3
      <4> QED BY <4>2, <4>3
    <3>2. refresh.reloads + n \in 0..3 /\ refresh.reloads + n <= 2 /\ refresh.reloads + 0 = refresh.reloads
      BY <1>0, <1>2
    <3> QED BY <1>0, <3>1, <3>2 DEF RefreshRecord
  <2> QED BY <2>1, <2>2
<1>5. AgentConfigTypeOK'
  BY <1>0, <1>1, <1>3, <1>4 DEF AgentConfigTypeOK, RefreshRecord
<1>6. StageInv' /\ StepsInv' /\ RowIsUsed'
  BY <1>1, <1>2, <1>4 DEF ConfigInv, StageInv, StepsInv, RowIsUsed
<1>7. FollowInv'
  BY <1>1, <1>2, <1>3, <1>4 DEF ConfigInv, FollowInv, Follows
<1>8. RepeatInv'
  BY <1>1, <1>4 DEF ConfigInv, RepeatInv, Follows
<1>9. NewestInv'
  BY <1>1, <1>4 DEF ConfigInv, NewestInv, IsConfiguration
<1> QED BY <1>5, <1>6, <1>7, <1>8, <1>9 DEF ConfigInv

\* The row expires, the server has a new configuration, or the bootstrap reads.
LEMMA OutsideInv ==
  ASSUME ConfigInv,
         \/ RowExpires \/ BootstrapReads \/ UNCHANGED configVars
         \/ \E c \in Configurations : PublishConfiguration(c)
  PROVE  ConfigInv'
<1>0. /\ AgentConfigTypeOK /\ published \in 1..MaxPublished /\ MaxPublished \in Nat
      /\ answer \in SomeConfiguration /\ filed \in SomeConfiguration \cup {Unparsable}
      /\ filed.number \in Nat /\ configuration.number \in Nat /\ refresh.of.number \in Nat
  <2>1. AgentConfigTypeOK /\ published \in 1..MaxPublished /\ MaxPublished \in Nat
    BY ConfigurationsAssumption DEF ConfigInv, AgentConfigTypeOK, ConfigurationsAssumption
  <2>2. /\ answer \in SomeConfiguration /\ filed \in SomeConfiguration \cup {Unparsable}
        /\ configuration \in SomeConfiguration /\ refresh.of \in SomeConfiguration
    BY <2>1, ConfigTypes
  <2>3. Unparsable.number = 0
    BY DEF Unparsable
  <2>4. \A x \in SomeConfiguration : x.number \in 0..MaxPublished
    BY ConfigurationFacts
  <2> QED BY <2>1, <2>2, <2>3, <2>4
<1>1. /\ configuration' = configuration /\ connection' = connection /\ p2p' = p2p /\ filedTuning' = filedTuning
      /\ handed' = handed /\ refresh' = refresh /\ overridden' = overridden /\ configUsed' = configUsed
      /\ missedRow' = missedRow
  BY DEF RowExpires, BootstrapReads, PublishConfiguration, configVars, settings, serverVars, bookkeeping
<1>2. boot' \in BootRecord /\ (boot'.at = "write" => boot'.left > 0)
  <2>1. CASE BootstrapReads
    <3>1. /\ boot \in BootRecord /\ boot.at = "read" /\ boot.left > 0 /\ connection \in Connection
          /\ boot' = [boot EXCEPT !.at = "write", !.copy = connection]
      BY <1>0, <2>1 DEF BootstrapReads, AgentConfigTypeOK, BootRecord
    <3> QED BY <3>1 DEF BootRecord
  <2>2. CASE ~BootstrapReads
    <3>1. boot' = boot
      BY <2>2 DEF RowExpires, PublishConfiguration, configVars
    <3> QED BY <1>0, <3>1 DEF ConfigInv, StepsInv, AgentConfigTypeOK, BootRecord
  <2> QED BY <2>1, <2>2
<1>3. filed' = filed \/ filed' = None
  BY DEF RowExpires, BootstrapReads, PublishConfiguration, configVars, serverVars
<1>4. /\ published' \in 1..MaxPublished /\ published' >= published
      /\ answer' \in SomeConfiguration /\ answer'.number = published'
  <2>1. ASSUME NEW c \in Configurations, PublishConfiguration(c)
        PROVE  /\ published' \in 1..MaxPublished /\ published' >= published
               /\ answer' \in SomeConfiguration /\ answer'.number = published'
    <3>1. published' = published + 1 /\ published < MaxPublished /\ answer' = Numbered(published + 1, c)
      BY <2>1 DEF PublishConfiguration
    <3>2. published + 1 \in 1..MaxPublished
      BY <1>0, <3>1
    <3>3. Numbered(published + 1, c) \in SomeConfiguration /\ Numbered(published + 1, c).number = published + 1
      BY <3>2 DEF SomeConfiguration, Numbered
    <3> QED BY <1>0, <3>1, <3>2, <3>3
  <2>2. CASE RowExpires \/ BootstrapReads \/ UNCHANGED configVars
    <3>1. published' = published /\ answer' = answer
      BY <2>2 DEF RowExpires, BootstrapReads, configVars, serverVars
    <3> QED BY <1>0, <3>1 DEF ConfigInv, NewestInv
  <2> QED BY <2>1, <2>2
<1>5. None \in SomeConfiguration /\ None.number = 0 /\ ~IsConfiguration(None)
  BY ConfigurationFacts DEF IsConfiguration
<1>6. AgentConfigTypeOK'
  BY <1>0, <1>1, <1>2, <1>3, <1>4, <1>5 DEF AgentConfigTypeOK, BootRecord
<1>7. StageInv' /\ StepsInv' /\ RepeatInv'
  BY <1>1, <1>2 DEF ConfigInv, StageInv, StepsInv, RepeatInv, Follows
<1>8. FollowInv'
  BY <1>1 DEF ConfigInv, FollowInv, Follows
<1>9. RowIsUsed'
  BY <1>1, <1>3, <1>5 DEF ConfigInv, RowIsUsed, IsConfiguration
<1>10. NewestInv'
  <2>1. /\ configuration.number <= published' /\ filed'.number <= published'
        /\ refresh.of.number <= published'
    <3>1. configuration.number <= published /\ filed.number <= published /\ refresh.of.number <= published
      BY DEF ConfigInv, NewestInv
    <3> QED BY <1>0, <1>3, <1>4, <1>5, <3>1
  <2> QED BY <1>1, <1>3, <1>4, <1>5, <2>1 DEF ConfigInv, NewestInv, IsConfiguration
<1> QED BY <1>6, <1>7, <1>8, <1>9, <1>10 DEF ConfigInv

LEMMA RepeatsNoMore ==
  ASSUME AgentConfigTypeOK, refresh' = [refresh EXCEPT !.repeats = FALSE]
  PROVE  /\ refresh' \in RefreshRecord /\ refresh'.at = refresh.at /\ refresh'.of = refresh.of
         /\ ~refresh'.repeats /\ refresh'.reloads = refresh.reloads
<1>1. refresh \in RefreshRecord
  BY ConfigTypes
<1> QED BY <1>1 DEF RefreshRecord

\* The bootstrap and the debug screen write the connection.
LEMMA ConnectionWritten ==
  ASSUME ConfigInv, BootstrapWrites \/ SaveDebugScreen
  PROVE  ConfigInv'
<1>0. /\ AgentConfigTypeOK /\ connection \in Connection /\ boot.copy \in Connection
      /\ boot \in BootRecord /\ boot.left \in 0..2 /\ configUsed \in ConfigBounds
      /\ overridden \subseteq {"security", "p2p", "tuning"} /\ MaxSaves \in Nat
  <2>1. AgentConfigTypeOK
    BY DEF ConfigInv
  <2>2. /\ boot \in BootRecord /\ configUsed \in ConfigBounds
        /\ overridden \subseteq {"security", "p2p", "tuning"}
    BY <2>1 DEF AgentConfigTypeOK, BootRecord, ConfigBounds
  <2> QED BY <2>1, <2>2, ConfigTypes
<1>1. /\ published' = published /\ answer' = answer /\ filed' = filed /\ configuration' = configuration
      /\ p2p' = p2p /\ filedTuning' = filedTuning /\ handed' = handed /\ missedRow' = missedRow
  BY DEF BootstrapWrites, SaveDebugScreen, serverVars
<1>2. /\ refresh' \in RefreshRecord /\ refresh'.at = refresh.at /\ refresh'.of = refresh.of
      /\ ~refresh'.repeats /\ refresh'.reloads = refresh.reloads
  BY <1>0, RepeatsNoMore DEF BootstrapWrites, SaveDebugScreen
<1>3. /\ connection' \in Connection
      /\ "security" \notin overridden' => /\ overridden' = overridden
                                          /\ connection'.hash = connection.hash
                                          /\ connection'.enforce = connection.enforce
      /\ overridden' \in {overridden, overridden \cup {"security"}}
  <2>1. CASE SaveDebugScreen
    <3>1. connection' = [known |-> TRUE, hash |-> "", enforce |-> FALSE]
      BY <2>1 DEF SaveDebugScreen
    <3>2. connection' \in Connection
      BY <3>1 DEF Connection
    <3>3. overridden' = overridden \cup {"security"}
      BY <2>1 DEF SaveDebugScreen
    <3> QED BY <3>2, <3>3
  <2>2. CASE BootstrapWrites
    <3> DEFINE now == [connection EXCEPT !.known = TRUE]
    <3>1. /\ connection' = [boot.copy EXCEPT !.known = TRUE]
          /\ overridden' = overridden \cup (IF connection' # now THEN {"security"} ELSE {})
      BY <2>2 DEF BootstrapWrites
    <3>2. connection' \in Connection /\ now.hash = connection.hash /\ now.enforce = connection.enforce
      BY <1>0, <3>1 DEF Connection
    <3> HIDE DEF now
    <3> QED BY <3>1, <3>2
  <2> QED BY <2>1, <2>2
<1>4. boot' \in BootRecord /\ (boot'.at = "write" => boot'.left > 0)
  <2>1. CASE SaveDebugScreen
    <3>1. boot' = boot
      BY <2>1 DEF SaveDebugScreen
    <3> QED BY <1>0, <3>1 DEF ConfigInv, StepsInv
  <2>2. CASE BootstrapWrites
    <3>1. boot.left > 0
      BY <2>2 DEF BootstrapWrites, ConfigInv, StepsInv
    <3>2. PICK to \in {"read", "over"} : boot' = [boot EXCEPT !.at = to, !.left = boot.left - 1]
      BY <1>0, <2>2 DEF BootstrapWrites, BootRecord
    <3>3. boot.left - 1 \in 0..2
      BY <1>0, <3>1
    <3> QED BY <1>0, <3>2, <3>3 DEF BootRecord
  <2> QED BY <2>1, <2>2
<1>5. configUsed' \in ConfigBounds
  <2>1. CASE SaveDebugScreen
    <3>1. Saving
      BY <2>1 DEF SaveDebugScreen
    <3>2. configUsed.saves + 1 \in 0..MaxSaves
      BY <1>0, <3>1 DEF Saving, ConfigBounds
    <3> QED BY <1>0, <3>1, <3>2 DEF Saving, ConfigBounds
  <2>2. CASE BootstrapWrites
    BY <1>0, <2>2 DEF BootstrapWrites
  <2> QED BY <2>1, <2>2
<1>6. AgentConfigTypeOK'
  BY <1>0, <1>1, <1>2, <1>3, <1>4, <1>5 DEF AgentConfigTypeOK, RefreshRecord, BootRecord, ConfigBounds
<1>7. StageInv' /\ StepsInv' /\ RowIsUsed' /\ RepeatInv'
  BY <1>1, <1>2, <1>4 DEF ConfigInv, StageInv, StepsInv, RowIsUsed, RepeatInv
<1>8. FollowInv'
  BY <1>1, <1>2, <1>3 DEF ConfigInv, FollowInv, Follows
<1>9. NewestInv'
  BY <1>1, <1>2 DEF ConfigInv, NewestInv, IsConfiguration
<1> QED BY <1>6, <1>7, <1>8, <1>9 DEF ConfigInv

\* The P2P screen writes the P2P settings.
LEMMA P2PWritten ==
  ASSUME ConfigInv, NEW enabled \in BOOLEAN, SaveP2PScreen(enabled)
  PROVE  ConfigInv'
<1>0. AgentConfigTypeOK /\ configUsed \in ConfigBounds /\ MaxSaves \in Nat
      /\ overridden \subseteq {"security", "p2p", "tuning"}
  BY ConfigurationsAssumption DEF ConfigInv, AgentConfigTypeOK, ConfigBounds, ConfigurationsAssumption
<1>1. /\ published' = published /\ answer' = answer /\ filed' = filed /\ configuration' = configuration
      /\ connection' = connection /\ handed' = handed /\ missedRow' = missedRow
      /\ refresh' = refresh /\ boot' = boot
      /\ overridden' = (overridden \cup {"p2p"}) \ {"tuning"}
  BY DEF SaveP2PScreen, serverVars
<1>2. configUsed.saves + 1 \in 0..MaxSaves /\ configUsed' \in ConfigBounds
  BY <1>0 DEF SaveP2PScreen, Saving, ConfigBounds
<1>3. p2p' \in P2PSettings /\ p2p'.tuning = filedTuning' /\ filedTuning' \in 0..MaxSaves
  BY <1>2 DEF SaveP2PScreen, P2PSettings
<1>4. AgentConfigTypeOK'
  BY <1>0, <1>1, <1>2, <1>3 DEF AgentConfigTypeOK, ConfigBounds
<1>5. StageInv' /\ StepsInv' /\ RowIsUsed'
  BY <1>1 DEF ConfigInv, StageInv, StepsInv, RowIsUsed
<1>6. RepeatInv' /\ NewestInv'
  BY <1>1 DEF ConfigInv, RepeatInv, Follows, NewestInv, IsConfiguration
<1>7. FollowInv'
  BY <1>1, <1>3 DEF ConfigInv, FollowInv, Follows
<1> QED BY <1>4, <1>5, <1>6, <1>7 DEF ConfigInv

\* The process starts with neither configuration nor security; the row is still there.
LEMMA StartedInv ==
  ASSUME ConfigInv, ProcessStarts
  PROVE  ConfigInv'
<1>0. /\ AgentConfigTypeOK /\ configUsed \in ConfigBounds /\ MaxAgentStarts \in Nat
      /\ connection.known \in BOOLEAN /\ filedTuning \in 0..MaxSaves
      /\ None \in SomeConfiguration /\ None.number = 0 /\ Resting \in RefreshRecord
      /\ published \in Nat
  <2>1. AgentConfigTypeOK /\ configUsed \in ConfigBounds /\ MaxAgentStarts \in Nat
    BY ConfigurationsAssumption DEF ConfigInv, AgentConfigTypeOK, ConfigBounds, ConfigurationsAssumption
  <2> QED BY <2>1, ConfigTypes, ConfigurationFacts
<1>1. /\ published' = published /\ answer' = answer /\ filed' = filed /\ filedTuning' = filedTuning
      /\ missedRow' = missedRow /\ configuration' = None /\ handed' = None /\ overridden' = {}
      /\ refresh' = [Resting EXCEPT !.at = "start"]
      /\ boot' = [copy |-> connection', at |-> "read", left |-> 2]
  BY DEF ProcessStarts, AgentStarted, serverVars
<1>2. connection' \in Connection
  <2>1. connection' = [known |-> connection.known, hash |-> "", enforce |-> FALSE]
    BY DEF ProcessStarts, AgentStarted
  <2> QED BY <1>0, <2>1 DEF Connection
<1>3. p2p' \in P2PSettings /\ p2p'.tuning = filedTuning
  BY <1>0 DEF ProcessStarts, AgentStarted, P2PSettings
<1>4. /\ refresh' \in RefreshRecord /\ refresh'.at = "start" /\ refresh'.of = None /\ ~refresh'.repeats
      /\ refresh'.reloads = 0
  BY <1>0, <1>1 DEF RefreshRecord, Resting
<1>5. boot' \in BootRecord /\ boot'.at = "read"
  BY <1>1, <1>2 DEF BootRecord
<1>6. configUsed' \in ConfigBounds
  BY <1>0 DEF ProcessStarts, ConfigBounds
<1>7. AgentConfigTypeOK'
  BY <1>0, <1>1, <1>2, <1>3, <1>4, <1>5, <1>6 DEF AgentConfigTypeOK, RefreshRecord, BootRecord, ConfigBounds
<1>8. StageInv' /\ StepsInv' /\ RowIsUsed' /\ RepeatInv'
  BY <1>1, <1>4, <1>5 DEF StageInv, StepsInv, RowIsUsed, RepeatInv
<1>9. FollowInv'
  BY <1>1, <1>3, <1>4 DEF FollowInv
<1>10. NewestInv'
  <2>1. IsConfiguration(filed) => filed.number >= 0
    <3>1. IsConfiguration(filed) => filed \in SomeConfiguration
      BY <1>0, ConfigTypes DEF IsConfiguration
    <3>2. \A x \in SomeConfiguration : x.number \in 0..MaxPublished
      BY ConfigurationFacts
    <3> QED BY <3>1, <3>2
  <2>2. answer.number = published /\ filed.number <= published
    BY DEF ConfigInv, NewestInv
  <2>3. refresh'.of.number = 0 /\ configuration'.number = 0
    BY <1>0, <1>1, <1>4
  <2> QED BY <1>0, <1>1, <1>4, <2>1, <2>2, <2>3 DEF NewestInv, IsConfiguration
<1> QED BY <1>7, <1>8, <1>9, <1>10 DEF ConfigInv

LEMMA ConfigNext == ConfigInv /\ [NextAgentConfig]_configVars => ConfigInv'
BY FetchInv, StoreInv, P2PInv, SecurityInv, HandInv, OutsideInv, ConnectionWritten, P2PWritten, StartedInv
   DEF NextAgentConfig, RefreshSteps

\* The inductive invariant of the configuration.
THEOREM ConfigInvariant == AgentConfigSpec => []ConfigInv
<1> QED BY AgentConfigInit, ConfigNext, PTL DEF AgentConfigSpec

\* The ranges of the variables of the configuration.
THEOREM ConfigTypesHold == AgentConfigSpec => []AgentConfigTypeOK
<1>1. ConfigInv => AgentConfigTypeOK
  BY DEF ConfigInv
<1> QED BY <1>1, ConfigInvariant, PTL

\* Between refreshes the settings are those of the configuration in memory, but for what
\* another writer overwrote, and a refresh that brings nothing new reloads nothing.
THEOREM ConfigFollowed == AgentConfigSpec => []ConfigurationIsFollowed
<1>1. ConfigInv => ConfigurationIsFollowed
  <2> SUFFICES ASSUME ConfigInv PROVE ConfigurationIsFollowed
    OBVIOUS
  <2>1. /\ configuration # None => configuration.of \in Configuration
        /\ connection \in Connection
    BY ConfigTypes, ConfigurationFacts DEF ConfigInv
  <2>2. \A c \in Configuration : Follows(connection, c) =>
             connection.hash = c.hash /\ Secured(connection, c).enforce = connection.enforce
    BY <2>1, SecuredFollows DEF Follows
  <2>3. RefreshesAreQuiet
    BY DEF ConfigInv, RepeatInv, RefreshesAreQuiet
  <2>4. SettingsFollow
    BY <2>1, <2>2 DEF ConfigInv, FollowInv, SettingsFollow
  <2> QED BY <2>3, <2>4 DEF ConfigurationIsFollowed
<1> QED BY <1>1, ConfigInvariant, PTL

\* An agent that could not fetch runs on the row it has, and no refresh brings an older
\* configuration back unless the newer one's row was not written.
THEOREM FallbackHolds == AgentConfigSpec => FallbackIsNewest
<1>1. ConfigInv => (refresh.at = "idle" /\ configuration = None => ~IsConfiguration(filed))
  BY DEF ConfigInv, RowIsUsed
<1>2. ConfigInv /\ [NextAgentConfig]_configVars =>
        [configuration'.number >= configuration.number \/ missedRow \/ configuration' = None]_configVars
  <2> SUFFICES ASSUME ConfigInv, NextAgentConfig
               PROVE  configuration'.number >= configuration.number \/ missedRow \/ configuration' = None
    OBVIOUS
  <2>1. configuration.number >= configuration.number
    <3>1. configuration.number \in Nat
      BY ConfigTypes DEF ConfigInv
    <3> QED BY <3>1
  <2>2. CASE StoreConfiguration
    BY <2>2 DEF StoreConfiguration, ConfigInv, NewestInv
  <2>3. CASE ProcessStarts
    BY <2>3 DEF ProcessStarts, AgentStarted
  <2>4. CASE ~StoreConfiguration /\ ~ProcessStarts
    <3>1. configuration' = configuration
      BY <2>4 DEF NextAgentConfig, RefreshSteps, FetchConfiguration, FetchUnparsable, FetchWithoutRow,
                  FetchFallsBack, Fetched, CopyP2P, SwitchP2P, ApplySecurity, HandOut, FollowContext,
                  RowExpires, BootstrapReads, BootstrapWrites, SaveDebugScreen, SaveP2PScreen,
                  PublishConfiguration
    <3> QED BY <2>1, <3>1
  <2> QED BY <2>2, <2>3, <2>4
<1> QED BY <1>1, <1>2, ConfigInvariant, PTL DEF AgentConfigSpec, FallbackIsNewest

-----------------------------------------------------------------------------
(* Provisioning: the credentials in config.json, and its six writers.      *)

\* The parts of the job of a writer that ProvisioningTypeOK bounds.
JobRecord ==
    [pc : {"off", "over", "down", "idle", "starting", "registering", "merging",
           "holding", "filling", "scrubbing"},
     copy : Content, new : 0..MaxRegistrations, stale : BOOLEAN]

Writing(w) == jobs[w].pc \in {"holding", "filling"}

\* No token of the UI's, in the file or in a copy of it, is ahead of the server; who has
\* new credentials is about to write them.
TokensInv ==
    /\ file.data.schema = "ui" => file.data.token <= regs
    /\ \A w \in Writers : jobs[w].new <= regs /\ (jobs[w].new > 0 => jobs[w].pc = "merging" \/ Writing(w))
    /\ jobs["settings"].new = 0 /\ jobs["saver"].new = 0
    /\ \A w \in Writers \ {"saver"} : jobs[w].copy.schema = "ui" /\ jobs[w].copy.token <= regs

\* A copy that is not stale is one of the file as it is; and what a start of a process
\* writes is then at least as new.
CopiesInv ==
    /\ \A w \in Onboarders \cup {"settings"} :
          Writing(w) /\ ~jobs[w].stale => jobs[w].copy.token = file.data.token
    /\ \A b \in Boots :
          Writing(b) /\ ~jobs[b].stale /\ file.data.schema = "ui" => jobs[b].new >= file.data.token

\* Without an excuse: the file is the UI's, whoever registers is alone in it and the
\* first, and credentials that the server has made are in the file or on their way there.
TheFirst ==
    /\ file.data.schema = "ui"
    /\ regs <= 1
    /\ \A w \in Writers : jobs[w].pc = "registering" => regs = 0 /\ ~Ordered(w)
    /\ \A w \in Onboarders \cup Boots : jobs[w].pc = "merging" \/ Writing(w) => jobs[w].new > 0
    /\ regs = 1 => file.data.token = 1 \/ \E w \in Writers : jobs[w].new > 0
FirstInv == ~excused => TheFirst

CredentialsInv == ProvisioningTypeOK /\ TokensInv /\ CopiesInv /\ FirstInv

\* A step of one writer, by what it makes of its job.
LEMMA WriterStep ==
  ASSUME CredentialsInv, NEW w \in Writers, NEW job \in JobRecord, Becomes(w, job),
         UNCHANGED <<others, regs>>, file' \in [torn : BOOLEAN, data : Content],
         file'.data = file.data, override' \in {"none", "key", "scrubbed"},
         events' \in 0..MaxEvents, excused' \in BOOLEAN, excused => excused',
         w \in {"settings", "saver"} => job.new = 0, job.new <= regs, job.new > 0 => job.pc \in {"merging", "holding", "filling"},
         w # "saver" => job.copy.schema = "ui" /\ job.copy.token <= regs,
         job.pc \in {"holding", "filling"} /\ ~job.stale =>
             /\ w \in Onboarders \cup {"settings"} => job.copy.token = file.data.token
             /\ w \in Boots /\ file.data.schema = "ui" => job.new >= file.data.token,
         ~excused' =>
             /\ job.pc = "registering" => regs = 0 /\ ~Ordered(w)
             /\ w \in Onboarders \cup Boots /\ job.pc \in {"merging", "holding", "filling"} => job.new > 0
             /\ jobs[w].new > 0 => job.new > 0
             /\ job.pc \in {"registering", "merging"} \/ job.new > 0 =>
                   \A v \in Writers \ {w} : jobs[v].pc # "registering"
  PROVE  CredentialsInv'
<1>0. regs' = regs /\ (Onboarders \cup Boots) \cup {"settings"} \subseteq Writers
  BY DEF Writers
<1>1. jobs \in [Writers -> JobRecord]
  BY DEF CredentialsInv, ProvisioningTypeOK, JobRecord
<1>2. /\ jobs' \in [Writers -> JobRecord]
      /\ jobs'[w] = job /\ \A v \in Writers \ {w} : jobs'[v] = jobs[v]
  BY <1>1 DEF Becomes
<1>3. ProvisioningTypeOK'
  BY <1>2 DEF CredentialsInv, ProvisioningTypeOK, JobRecord, others
<1>4. TokensInv'
  <2>1. \A v \in Writers :
           jobs'[v].new <= regs /\ (jobs'[v].new > 0 => jobs'[v].pc \in {"merging", "holding", "filling"})
    BY <1>2 DEF CredentialsInv, TokensInv, Writing
  <2>2. \A v \in Writers \ {"saver"} : jobs'[v].copy.schema = "ui" /\ jobs'[v].copy.token <= regs
    BY <1>2 DEF CredentialsInv, TokensInv
  <2>3. jobs'["settings"].new = 0 /\ jobs'["saver"].new = 0
    BY <1>2 DEF CredentialsInv, TokensInv, Writers
  <2> QED BY <1>0, <2>1, <2>2, <2>3 DEF CredentialsInv, TokensInv, Writing
<1>5. CopiesInv'
  BY <1>0, <1>2 DEF CredentialsInv, CopiesInv, Writing
<1>6. FirstInv'
  <2> SUFFICES ASSUME ~excused' PROVE TheFirst'
    BY DEF FirstInv
  <2>1. TheFirst
    BY DEF CredentialsInv, FirstInv
  <2>2. \A v \in Writers : jobs'[v].pc = "registering" => regs = 0 /\ ~Ordered(v)'
    <3> SUFFICES ASSUME NEW v \in Writers, jobs'[v].pc = "registering"
                 PROVE  regs = 0 /\ ~Ordered(v)'
      OBVIOUS
    <3>1. CASE v = w
      BY <1>2, <3>1 DEF Ordered
    <3>2. CASE v # w
      BY <1>0, <1>2, <2>1, <3>2 DEF Ordered, TheFirst
    <3> QED BY <3>1, <3>2
  <2>3. \A v \in Onboarders \cup Boots : jobs'[v].pc \in {"merging", "holding", "filling"} => jobs'[v].new > 0
    BY <1>0, <1>2, <2>1 DEF TheFirst, Writing
  <2>4. regs = 1 => file.data.token = 1 \/ \E v \in Writers : jobs'[v].new > 0
    BY <1>2, <2>1 DEF TheFirst
  <2> QED BY <1>0, <2>1, <2>2, <2>3, <2>4 DEF TheFirst, Writing
<1> QED BY <1>3, <1>4, <1>5, <1>6 DEF CredentialsInv

\* The server makes an agent for the writer that asked.
LEMMA RegisterStep ==
  ASSUME CredentialsInv, NEW w \in Onboarders \cup Boots, NEW next \in {"holding", "merging"},
         jobs[w].pc = "registering", w \in Onboarders => next = "merging",
         Register(w, [jobs[w] EXCEPT !.pc = next]), UNCHANGED <<file, override, others, excused>>
  PROVE  CredentialsInv'
<1> DEFINE job == [jobs[w] EXCEPT !.pc = next, !.new = regs + 1]
<1>0. w \in Writers /\ w # "saver" /\ w # "settings" /\ ("settings" \notin Boots) /\ Onboarders \cap Boots = {}
      /\ (Onboarders \cup Boots) \cup {"settings"} \subseteq Writers
  BY DEF Writers, Onboarders, Boots
<1>1. /\ jobs \in [Writers -> JobRecord] /\ jobs[w] \in JobRecord
      /\ regs \in 0..MaxRegistrations /\ MaxRegistrations \in Nat
  BY <1>0, ProvisioningAssumption DEF CredentialsInv, ProvisioningTypeOK, JobRecord
<1>2. CASE regs < MaxRegistrations /\ regs' = regs + 1 /\ Becomes(w, job) /\ UNCHANGED events
  <2>0. regs + 1 \in 0..MaxRegistrations
    BY <1>1, <1>2
  <2>1. /\ job \in JobRecord /\ job.pc = next /\ job.new = regs + 1
        /\ job.copy = jobs[w].copy /\ job.stale = jobs[w].stale
    BY <1>1, <2>0 DEF JobRecord
  <2> HIDE DEF job
  <2>2. /\ jobs' \in [Writers -> JobRecord]
        /\ jobs'[w] = job /\ \A v \in Writers \ {w} : jobs'[v] = jobs[v]
    BY <1>0, <1>1, <1>2, <2>1 DEF Becomes
  <2>3. regs' \in 0..MaxRegistrations /\ regs' > regs /\ regs' > 0
    BY <1>1, <1>2
  <2>4. ProvisioningTypeOK'
    BY <1>2, <2>2, <2>3 DEF CredentialsInv, ProvisioningTypeOK, JobRecord, others
  <2>5. \A v \in Writers : jobs[v].new \in Nat /\ jobs[v].copy.token \in Nat
    BY <1>1, ProvisioningAssumption DEF JobRecord, Content, Tokens, KeyAsToken
  <2>6. file.data.token \in Nat
    BY ProvisioningAssumption DEF CredentialsInv, ProvisioningTypeOK, Content, Tokens, KeyAsToken
  <2>7. TokensInv'
    <3>1. \A v \in Writers :
             jobs'[v].new <= regs' /\ (jobs'[v].new > 0 => jobs'[v].pc \in {"merging", "holding", "filling"})
      BY <1>1, <1>2, <2>1, <2>2, <2>5 DEF CredentialsInv, TokensInv, Writing
    <3>2. \A v \in Writers \ {"saver"} : jobs'[v].copy.schema = "ui" /\ jobs'[v].copy.token <= regs'
      BY <1>0, <1>1, <1>2, <2>1, <2>2, <2>5 DEF CredentialsInv, TokensInv
    <3>3. file'.data.schema = "ui" => file'.data.token <= regs'
      BY <1>1, <1>2, <2>6 DEF CredentialsInv, TokensInv
    <3>4. jobs'["settings"].new = 0 /\ jobs'["saver"].new = 0
      BY <1>0, <2>2 DEF CredentialsInv, TokensInv, Writers
    <3> QED BY <3>1, <3>2, <3>3, <3>4 DEF TokensInv, Writing
  <2>8. CopiesInv'
    <3>1. w \in Boots /\ file.data.schema = "ui" => job.new >= file.data.token
      BY <1>1, <2>1, <2>6 DEF CredentialsInv, TokensInv
    <3> QED BY <1>0, <2>1, <2>2, <3>1 DEF CredentialsInv, CopiesInv, Writing
  <2>9. FirstInv'
    <3> SUFFICES ASSUME ~excused' PROVE TheFirst'
      BY DEF FirstInv
    <3>1. TheFirst /\ regs = 0 /\ ~Ordered(w)
      BY <1>0 DEF CredentialsInv, FirstInv, TheFirst
    <3>2. \A v \in Writers : jobs'[v].pc # "registering"
      BY <2>1, <2>2, <3>1 DEF Ordered
    <3>3. \A v \in Onboarders \cup Boots : jobs'[v].pc \in {"merging", "holding", "filling"} => jobs'[v].new > 0
      BY <1>0, <2>1, <2>2, <2>3, <1>2, <3>1 DEF TheFirst, Writing
    <3>4. \E v \in Writers : jobs'[v].new > 0
      BY <1>0, <1>2, <2>1, <2>2, <2>3
    <3>5. regs' = 1
      BY <1>2, <3>1
    <3> QED BY <3>1, <3>2, <3>3, <3>4, <3>5 DEF TheFirst, Writing
  <2> QED BY <2>4, <2>7, <2>8, <2>9 DEF CredentialsInv
<1>3. CASE Event /\ Becomes(w, NoWrite) /\ UNCHANGED regs
  <2>1. /\ NoWrite \in JobRecord /\ NoWrite.pc = "idle" /\ NoWrite.new = 0 /\ NoWrite.stale = FALSE
        /\ NoWrite.copy.schema = "ui" /\ NoWrite.copy.token = 0
    BY <1>1 DEF NoWrite, Blank, JobRecord, Content, Tokens, KeyAsToken
  <2>2. events' \in 0..MaxEvents
    BY <1>3, ProvisioningAssumption DEF Event, CredentialsInv, ProvisioningTypeOK
  <2>3. jobs[w].new = 0
    BY <1>0, <1>1 DEF CredentialsInv, TokensInv, Writing, JobRecord
  <2> HIDE DEF NoWrite
  <2> QED BY <1>0, <1>1, <1>3, <2>1, <2>2, <2>3, WriterStep DEF CredentialsInv, ProvisioningTypeOK, others
<1> QED BY <1>2, <1>3 DEF Register

\* The constants that the steps use.
LEMMA Jobs ==
  ASSUME ProvisioningTypeOK
  PROVE  /\ jobs \in [Writers -> JobRecord] /\ \A w \in Writers : jobs[w] \in JobRecord
         /\ regs \in Nat /\ file.data \in Content /\ file.data.token \in Nat
         /\ NoWrite \in JobRecord /\ NoWrite.pc = "idle" /\ NoWrite.new = 0 /\ NoWrite.stale = FALSE
         /\ NoWrite.copy = Blank
         /\ Blank \in Content /\ Blank.schema = "ui" /\ Blank.token = 0 /\ Blank.key = FALSE
<1>1. KeyAsToken \in Nat /\ \A t \in Tokens : t \in Nat
  BY ProvisioningAssumption DEF KeyAsToken, Tokens
<1>2. /\ Blank \in Content /\ Blank.schema = "ui" /\ Blank.token = 0 /\ Blank.key = FALSE
  BY <1>1 DEF Blank, Content, Tokens
<1>3. 0 \in 0..MaxRegistrations
  BY ProvisioningAssumption
<1> QED BY <1>1, <1>2, <1>3, ProvisioningAssumption DEF ProvisioningTypeOK, JobRecord, Content, NoWrite

\* What the UI makes of the file.
LEMMA Reads ==
  ASSUME CredentialsInv
  PROVE  /\ UiReads \in Content /\ UiReads.schema = "ui" /\ UiReads.token <= regs
         /\ ~Foreign => UiReads.token = file.data.token
         /\ Foreign => UiReads.token = 0
         /\ ~Foreign /\ ~UiCanRead => file.data.token = 0
         /\ Configured => file.data.schema = "ui" /\ file.data.token > 0 /\ ~file.torn
         /\ ~file.torn /\ file.data.schema = "ui" /\ file.data.token > 0 => Configured
<1>1. ProvisioningTypeOK /\ TokensInv
  BY DEF CredentialsInv
<1>2. /\ regs \in Nat /\ file.data \in Content /\ file.data.token \in Nat
      /\ Blank \in Content /\ Blank.schema = "ui" /\ Blank.token = 0
      /\ file.torn \in BOOLEAN
  BY <1>1, Jobs DEF ProvisioningTypeOK
<1> DEFINE data == IF Foreign THEN Blank ELSE file.data
<1>3. /\ data \in Content /\ data.schema = "ui" /\ data.token <= regs
      /\ ~Foreign => data = file.data
      /\ Foreign => data.token = 0
  BY <1>1, <1>2 DEF Foreign, TokensInv, Content
<1>4. UiReads = [data EXCEPT !.key = @ \/ override = "key"]
  BY DEF UiReads
<1> HIDE DEF data
<1>5. UiReads \in Content /\ UiReads.schema = data.schema /\ UiReads.token = data.token
  <2>1. (data.key \/ override = "key") \in BOOLEAN
    BY <1>3 DEF Content
  <2> QED BY <1>3, <1>4, <2>1 DEF Content
<1>6. Foreign \in BOOLEAN /\ (Foreign <=> file.torn \/ file.data.schema # "ui")
  BY <1>2 DEF Foreign, Content
<1>7. ~Foreign /\ ~UiCanRead => file.data.token = 0
  BY <1>2, <1>6 DEF UiCanRead
<1>8. Configured => ~Foreign /\ file.data.token > 0
  BY <1>2, <1>3, <1>5, <1>6 DEF Configured
<1>9. ~Foreign /\ file.data.token > 0 => Configured
  BY <1>2, <1>3, <1>5, <1>6 DEF Configured, UiCanRead
<1> QED BY <1>3, <1>5, <1>6, <1>7, <1>8, <1>9

\* A file is written as a whole, of a copy or of new credentials.
LEMMA FillStep ==
  ASSUME CredentialsInv, NEW w \in Writers, Fill(w)
  PROVE  CredentialsInv'
<1>1. /\ ProvisioningTypeOK /\ TokensInv /\ CopiesInv /\ jobs[w].pc = "filling"
      /\ regs' = regs /\ UNCHANGED <<others, override, regs, events>>
  BY DEF CredentialsInv, Fill
<1>2. /\ jobs \in [Writers -> JobRecord] /\ \A v \in Writers : jobs[v] \in JobRecord
      /\ regs \in Nat /\ Blank \in Content /\ Blank.schema = "ui" /\ Blank.token = 0
      /\ NoWrite \in JobRecord /\ NoWrite.new = 0 /\ NoWrite.copy = Blank
  BY <1>1, Jobs
<1> DEFINE after == IF w \in Boots /\ override # "none" THEN "scrubbing" ELSE "idle"
           data == WrittenData(w)
<1>3. /\ jobs' \in [Writers -> JobRecord]
      /\ jobs'[w].pc \in {"scrubbing", "idle"} /\ jobs'[w].new = 0 /\ jobs'[w].copy = Blank
      /\ \A v \in Writers \ {w} :
            /\ jobs'[v].pc = jobs[v].pc /\ jobs'[v].copy = jobs[v].copy /\ jobs'[v].new = jobs[v].new
            /\ Writing(v) => jobs'[v].stale
  <2>1. \A v \in Writers : [jobs[v] EXCEPT !.stale = @ \/ jobs[v].pc \in {"registering", "holding", "filling"}] \in JobRecord
    BY <1>2 DEF JobRecord
  <2>2. [NoWrite EXCEPT !.pc = after] \in JobRecord
    BY <1>2 DEF JobRecord
  <2>3. jobs' = [v \in Writers |->
                   IF v = w THEN [NoWrite EXCEPT !.pc = after]
                   ELSE [jobs[v] EXCEPT !.stale = @ \/ jobs[v].pc \in {"registering", "holding", "filling"}]]
    BY DEF Fill
  <2>4. jobs' \in [Writers -> JobRecord] /\ jobs'[w] = [NoWrite EXCEPT !.pc = after]
    BY <2>1, <2>2, <2>3
  <2>5. \A v \in Writers \ {w} :
           jobs'[v] = [jobs[v] EXCEPT !.stale = @ \/ jobs[v].pc \in {"registering", "holding", "filling"}]
    BY <2>3
  <2> QED BY <1>2, <2>4, <2>5 DEF JobRecord, Writing
<1>4. /\ data \in Content /\ file'.data = data /\ file' \in [torn : BOOLEAN, data : Content]
      /\ w = "saver" <=> data.schema = "service"
      /\ w # "saver" => data.schema = "ui"
      /\ w = "settings" => data.token = jobs[w].copy.token
      /\ w \notin {"saver", "settings"} => data.token = jobs[w].new
  <2>1. /\ jobs[w].copy \in Content /\ jobs[w].new \in Tokens
        /\ w # "saver" => jobs[w].copy.schema = "ui"
    BY <1>1, <1>2, ProvisioningAssumption DEF JobRecord, Tokens, KeyAsToken, TokensInv
  <2>2. CASE w = "saver"
    <3>1. data = [Blank EXCEPT !.schema = "service", !.token = jobs[w].copy.token]
      BY <2>2 DEF WrittenData
    <3> HIDE DEF data
    <3>2. data \in Content /\ data.schema = "service"
      BY <1>2, <2>1, <3>1 DEF Content
    <3> QED BY <2>2, <3>2 DEF Fill, data
  <2>3. CASE w = "settings"
    <3>1. data = [jobs[w].copy EXCEPT !.mesh = TRUE]
      BY <2>3 DEF WrittenData
    <3> HIDE DEF data
    <3>2. data \in Content /\ data.schema = "ui" /\ data.token = jobs[w].copy.token
      BY <2>1, <2>3, <3>1 DEF Content
    <3> QED BY <2>3, <3>2 DEF Fill, data
  <2>4. CASE w \notin {"saver", "settings"}
    <3>1. data = [jobs[w].copy EXCEPT !.token = jobs[w].new, !.key = FALSE]
      BY <2>4 DEF WrittenData
    <3> HIDE DEF data
    <3>2. data \in Content /\ data.schema = "ui" /\ data.token = jobs[w].new
      BY <2>1, <2>4, <3>1 DEF Content
    <3> QED BY <2>4, <3>2 DEF Fill, data
  <2> QED BY <2>2, <2>3, <2>4
<1> HIDE DEF data, after
<1>5. excused' \in BOOLEAN /\ (excused => excused') /\ (~excused' => w # "saver" /\ ~jobs[w].stale)
  BY <1>1, <1>2 DEF Fill, ProvisioningTypeOK, JobRecord
<1>6. ProvisioningTypeOK'
  BY <1>1, <1>3, <1>4, <1>5 DEF ProvisioningTypeOK, JobRecord, others
<1>7. TokensInv'
  <2>1. data.schema = "ui" => data.token <= regs
    BY <1>1, <1>4 DEF TokensInv
  <2>2. \A v \in Writers : jobs'[v].new <= regs /\ (jobs'[v].new > 0 => jobs'[v].pc \in {"merging", "holding", "filling"})
    BY <1>1, <1>2, <1>3 DEF TokensInv, Writing
  <2>3. \A v \in Writers \ {"saver"} : jobs'[v].copy.schema = "ui" /\ jobs'[v].copy.token <= regs
    BY <1>1, <1>2, <1>3 DEF TokensInv
  <2>4. jobs'["settings"].new = 0 /\ jobs'["saver"].new = 0
    BY <1>1, <1>3 DEF TokensInv, Writers
  <2> QED BY <1>1, <1>4, <2>1, <2>2, <2>3, <2>4 DEF TokensInv, Writing
<1>8. CopiesInv'
  <2>1. \A v \in Writers : jobs'[v].pc \in {"holding", "filling"} => jobs'[v].stale
    BY <1>3 DEF Writing
  <2> QED BY <2>1 DEF CopiesInv, Writing, Writers
<1>9. FirstInv'
  <2> SUFFICES ASSUME ~excused' PROVE TheFirst'
    BY DEF FirstInv
  <2>1. TheFirst /\ w # "saver" /\ ~jobs[w].stale
    BY <1>5 DEF CredentialsInv, FirstInv
  <2>2. \A v \in Writers : jobs'[v].pc = "registering" => regs = 0 /\ ~Ordered(v)'
    BY <1>3, <2>1 DEF TheFirst, Ordered
  <2>3. \A v \in Onboarders \cup Boots : jobs'[v].pc \in {"merging", "holding", "filling"} => jobs'[v].new > 0
    BY <1>3, <2>1 DEF TheFirst, Writing, Writers
  <2>4. regs = 1 => data.token = 1 \/ \E v \in Writers : jobs'[v].new > 0
    <3>1. CASE w = "settings"
      <4>1. data.token = file.data.token
        BY <1>1, <1>4, <2>1, <3>1 DEF CopiesInv, Writing
      <4>2. jobs[w].new = 0
        BY <1>1, <3>1 DEF TokensInv
      <4> QED BY <1>3, <2>1, <4>1, <4>2 DEF TheFirst
    <3>2. CASE w # "settings"
      <4>1. jobs[w].new > 0 /\ jobs[w].new <= regs /\ jobs[w].new \in Nat
        BY <1>1, <1>2, <2>1, <3>2 DEF TheFirst, Writing, Writers, Onboarders, Boots, TokensInv, JobRecord
      <4> QED BY <1>2, <1>4, <2>1, <3>2, <4>1
    <3> QED BY <3>1, <3>2
  <2> QED BY <1>1, <1>4, <2>1, <2>2, <2>3, <2>4 DEF TheFirst, Writing
<1> QED BY <1>6, <1>7, <1>8, <1>9 DEF CredentialsInv

\* A process ends, and starts again: what its writers held is gone.
LEMMA CrashStep ==
  ASSUME CredentialsInv, NEW p \in AgentProcesses, Crash(p)
  PROVE  CredentialsInv'
<1>1. /\ ProvisioningTypeOK /\ TokensInv /\ CopiesInv
      /\ file' = file /\ regs' = regs /\ UNCHANGED <<override, outbox, life>>
      /\ Onboarders \cup Boots \cup {"settings", "saver"} = Writers
  BY DEF CredentialsInv, Crash, Writers
<1>2. /\ jobs \in [Writers -> JobRecord] /\ \A v \in Writers : jobs[v] \in JobRecord
      /\ regs \in Nat /\ Blank.schema = "ui" /\ Blank.token = 0 /\ Blank \in Content
      /\ NoWrite \in JobRecord /\ NoWrite.new = 0 /\ NoWrite.copy = Blank
  BY <1>1, Jobs
<1> DEFINE fresh == StartedJobs(~file.torn)
<1>3. /\ fresh \in [Writers -> JobRecord]
      /\ \A v \in Writers : /\ fresh[v].pc \in {"starting", "down", "off", "idle"}
                            /\ fresh[v].new = 0 /\ fresh[v].copy = Blank
  <2>1. \A pc \in {"starting", "down", "off", "idle"} :
           /\ [NoWrite EXCEPT !.pc = pc] \in JobRecord
           /\ [NoWrite EXCEPT !.pc = pc].pc = pc /\ [NoWrite EXCEPT !.pc = pc].new = 0
           /\ [NoWrite EXCEPT !.pc = pc].copy = Blank
    BY <1>2 DEF JobRecord
  <2> DEFINE pcOf(v) == CASE v = "bootService" -> IF ~file.torn THEN "starting" ELSE "down"
                          [] v = "bootUi"      -> "starting"
                          [] v = "loop"        -> "off"
                          [] OTHER             -> "idle"
  <2>2. \A v \in Writers : pcOf(v) \in {"starting", "down", "off", "idle"}
    BY DEF Writers, Onboarders, Boots
  <2>3. fresh = [v \in Writers |-> [NoWrite EXCEPT !.pc = pcOf(v)]]
    BY DEF StartedJobs
  <2> HIDE DEF pcOf, fresh
  <2> QED BY <2>1, <2>2, <2>3
<1>4. /\ jobs' = [v \in Writers |-> IF HomeOf[v] = p THEN fresh[v] ELSE jobs[v]]
      /\ excused' = (excused \/ \E v \in Writers : HomeOf[v] = p /\ (jobs[v].new > 0 \/ jobs[v].pc = "filling"))
  BY DEF Crash
<1>5. events' \in 0..MaxEvents
  BY <1>1, ProvisioningAssumption DEF Crash, Event, ProvisioningTypeOK
<1>6. config' \in Tokens /\ loader' \in [pc : {"idle", "parsing"}, torn : BOOLEAN, data : Content]
  <2>1. /\ file.data.token \in Tokens /\ 0 \in Tokens /\ KeyAsToken \in Tokens
    BY <1>1, ProvisioningAssumption DEF ProvisioningTypeOK, Content, Tokens, KeyAsToken
  <2>2. NoLoad \in [pc : {"idle", "parsing"}, torn : BOOLEAN, data : Content]
    BY <1>2 DEF NoLoad
  <2> QED BY <1>1, <2>1, <2>2 DEF Crash, ServiceReads, ProvisioningTypeOK
<1> HIDE DEF fresh
<1>7. /\ jobs' \in [Writers -> JobRecord]
      /\ \A v \in Writers : jobs'[v] = jobs[v] \/ jobs'[v] = fresh[v]
      /\ ~excused' => \A v \in Writers : jobs[v].new > 0 => jobs'[v] = jobs[v]
  BY <1>2, <1>3, <1>4
<1>8. ProvisioningTypeOK'
  BY <1>1, <1>4, <1>5, <1>6, <1>7 DEF ProvisioningTypeOK, JobRecord
<1>9. TokensInv'
  <2>1. \A v \in Writers : jobs'[v].new <= regs /\ (jobs'[v].new > 0 => jobs'[v].pc \in {"merging", "holding", "filling"})
    BY <1>1, <1>2, <1>3, <1>7 DEF TokensInv, Writing
  <2>2. \A v \in Writers \ {"saver"} : jobs'[v].copy.schema = "ui" /\ jobs'[v].copy.token <= regs
    BY <1>1, <1>2, <1>3, <1>7 DEF TokensInv
  <2>3. jobs'["settings"].new = 0 /\ jobs'["saver"].new = 0
    BY <1>1, <1>3, <1>7 DEF TokensInv
  <2> QED BY <1>1, <2>1, <2>2, <2>3 DEF TokensInv, Writing
<1>10. CopiesInv'
  <2>1. \A v \in Writers : jobs'[v].pc \in {"holding", "filling"} => jobs'[v] = jobs[v]
    BY <1>3, <1>7
  <2>2. \A v \in Writers : (Writing(v))' => Writing(v) /\ jobs'[v] = jobs[v]
    BY <2>1 DEF Writing
  <2> QED BY <1>1, <2>2 DEF CopiesInv
<1>11. FirstInv'
  <2> SUFFICES ASSUME ~excused' PROVE TheFirst'
    BY DEF FirstInv
  <2>1. TheFirst
    BY <1>4 DEF CredentialsInv, FirstInv
  <2>2. \A v \in Writers : jobs'[v].pc = "registering" => regs = 0 /\ ~Ordered(v)'
    BY <1>3, <1>7, <2>1 DEF TheFirst, Ordered
  <2>3. \A v \in Onboarders \cup Boots : jobs'[v].pc \in {"merging", "holding", "filling"} => jobs'[v].new > 0
    BY <1>1, <1>3, <1>7, <2>1 DEF TheFirst, Writing
  <2>4. regs = 1 => file.data.token = 1 \/ \E v \in Writers : jobs'[v].new > 0
    BY <1>7, <2>1 DEF TheFirst
  <2> QED BY <1>1, <2>1, <2>2, <2>3, <2>4 DEF TheFirst, Writing
<1> QED BY <1>8, <1>9, <1>10, <1>11 DEF CredentialsInv

\* What the steps of a writer make of its job.
LEMMA WriterSteps ==
  ASSUME CredentialsInv, NEW w \in Writers,
         \/ Truncate(w) \/ (w \in Boots /\ (Boot(w) \/ Scrub(w)))
         \/ (w \in Onboarders /\ (Offer(w) \/ Merge(w)))
         \/ (w = "loop" /\ (LoopStarts \/ LoopEnds))
         \/ (w = "settings" /\ Settings) \/ (w = "saver" /\ Save)
  PROVE  CredentialsInv'
<1>0. /\ ProvisioningTypeOK /\ TokensInv /\ CopiesInv
      /\ Boots \cap Onboarders = {} /\ "loop" \in Onboarders
      /\ {"settings", "saver"} \cap (Boots \cup Onboarders) = {}
  BY DEF CredentialsInv, Boots, Onboarders
<1>1. /\ jobs \in [Writers -> JobRecord] /\ jobs[w] \in JobRecord
      /\ regs \in Nat /\ file.data \in Content /\ file.data.token \in Nat
      /\ NoWrite \in JobRecord /\ NoWrite.pc = "idle" /\ NoWrite.new = 0 /\ NoWrite.stale = FALSE
      /\ NoWrite.copy = Blank
      /\ Blank \in Content /\ Blank.schema = "ui" /\ Blank.token = 0 /\ Blank.key = FALSE
  BY <1>0, Jobs
<1>2. /\ file \in [torn : BOOLEAN, data : Content] /\ override \in {"none", "key", "scrubbed"}
      /\ events \in 0..MaxEvents /\ excused \in BOOLEAN
      /\ (Event => events' \in 0..MaxEvents)
  BY <1>0, ProvisioningAssumption DEF ProvisioningTypeOK, Event
<1>3. jobs[w].pc \in {"starting", "scrubbing", "idle", "off", "registering"} => jobs[w].new = 0
  BY <1>0, <1>1 DEF TokensInv, Writing, JobRecord
<1>4. Truncate(w) => CredentialsInv'
  <2> SUFFICES ASSUME Truncate(w) PROVE CredentialsInv'
    OBVIOUS
  <2> DEFINE job == [jobs[w] EXCEPT !.pc = "filling"]
  <2>1. /\ job \in JobRecord /\ job.pc = "filling" /\ job.new = jobs[w].new
        /\ job.copy = jobs[w].copy /\ job.stale = jobs[w].stale /\ jobs[w].pc = "holding"
    BY <1>1 DEF JobRecord, Truncate
  <2>2. Becomes(w, job)
    BY <1>1 DEF Truncate, Becomes
  <2>3. file' \in [torn : BOOLEAN, data : Content] /\ file'.data = file.data
    BY <1>2 DEF Truncate
  <2>4. /\ UNCHANGED <<others, regs>> /\ override' = override /\ events' = events /\ excused' = excused
    BY DEF Truncate
  <2> HIDE DEF job
  <2>5. job.new <= regs /\ (w # "saver" => job.copy.schema = "ui" /\ job.copy.token <= regs)
        /\ (w \in {"settings", "saver"} => job.new = 0)
    BY <1>0, <2>1 DEF TokensInv
  <2>6. ~job.stale => /\ w \in Onboarders \cup {"settings"} => job.copy.token = file.data.token
                      /\ w \in Boots /\ file.data.schema = "ui" => job.new >= file.data.token
    BY <1>0, <2>1 DEF CopiesInv, Writing
  <2>7. ~excused => /\ w \in Onboarders \cup Boots => job.new > 0
                    /\ job.new > 0 => \A v \in Writers \ {w} : jobs[v].pc # "registering"
    BY <2>1 DEF CredentialsInv, FirstInv, TheFirst, Writing, Ordered
  <2> QED BY <1>2, <2>1, <2>2, <2>3, <2>4, <2>5, <2>6, <2>7, WriterStep

<1>5. ASSUME NEW pc \in {"idle", "over"}, Becomes(w, [NoWrite EXCEPT !.pc = pc]), jobs[w].new = 0,
             UNCHANGED <<file, others, regs>>, override' \in {"none", "key", "scrubbed"},
             events' \in 0..MaxEvents, excused' = excused
      PROVE  CredentialsInv'
  <2> DEFINE job == [NoWrite EXCEPT !.pc = pc]
  <2>1. job \in JobRecord /\ job.pc = pc /\ job.new = 0 /\ job.copy = Blank
    BY <1>1 DEF JobRecord
  <2>2. Becomes(w, job) /\ UNCHANGED <<others, regs>> /\ file' = file
    BY <1>5
  <2> HIDE DEF job
  <2> QED BY <1>1, <1>2, <1>5, <2>1, <2>2, WriterStep
<1>6. ~excused /\ ~Ordered(w) /\ jobs[w].new = 0 /\ file.data.token # 1 => regs = 0
  BY <1>0, <1>1 DEF CredentialsInv, FirstInv, TheFirst, Ordered
<1>7. ASSUME NEW copy \in Content, copy.schema = "ui", copy.token <= regs, w \in Boots \cup Onboarders,
             Becomes(w, [Holds(copy) EXCEPT !.pc = "registering"]), jobs[w].new = 0,
             UNCHANGED <<file, override, others, regs>>, events' \in 0..MaxEvents, excused' \in BOOLEAN,
             excused => excused', ~excused' => ~Ordered(w) /\ file.data.token # 1
      PROVE  CredentialsInv'
  <2> DEFINE job == [Holds(copy) EXCEPT !.pc = "registering"]
  <2>1. job \in JobRecord /\ job.pc = "registering" /\ job.new = 0 /\ job.copy = copy
    BY <1>1, <1>7 DEF JobRecord, Holds
  <2>3. Becomes(w, job) /\ UNCHANGED <<others, regs>> /\ file' = file
    BY <1>7
  <2> HIDE DEF job
  <2>2. ~excused' => regs = 0 /\ ~Ordered(w) /\ \A v \in Writers \ {w} : jobs[v].pc # "registering"
    BY <1>6, <1>7 DEF Ordered
  <2> QED BY <1>0, <1>1, <1>2, <1>7, <2>1, <2>2, <2>3, WriterStep
<1>8. ASSUME NEW copy \in Content, copy.schema = "ui", copy.token <= regs, NEW new \in 0..MaxRegistrations,
             NEW stale \in BOOLEAN, Becomes(w, [Holds(copy) EXCEPT !.new = new, !.stale = stale]),
             UNCHANGED <<file, override, others, regs>>, events' \in 0..MaxEvents, excused' = excused,
             new <= regs, w \in {"settings", "saver"} => new = 0, jobs[w].new > 0 => new > 0,
             ~stale => /\ w \in Onboarders \cup {"settings"} => copy.token = file.data.token
                       /\ w \in Boots /\ file.data.schema = "ui" => new >= file.data.token,
             ~excused => /\ w \in Onboarders \cup Boots => new > 0
                         /\ new > 0 => \A v \in Writers \ {w} : jobs[v].pc # "registering"
      PROVE  CredentialsInv'
  <2> DEFINE job == [Holds(copy) EXCEPT !.new = new, !.stale = stale]
  <2>1. job \in JobRecord /\ job.pc = "holding" /\ job.new = new /\ job.copy = copy /\ job.stale = stale
    BY <1>1, <1>8 DEF JobRecord, Holds
  <2>2. Becomes(w, job) /\ UNCHANGED <<others, regs>> /\ file' = file
    BY <1>8
  <2> HIDE DEF job
  <2> QED BY <1>1, <1>2, <1>8, <2>1, <2>2, WriterStep
<1>9. /\ UiReads \in Content /\ UiReads.schema = "ui" /\ UiReads.token <= regs /\ UiReads.token \in Nat
      /\ ~Foreign => UiReads.token = file.data.token
      /\ Foreign => UiReads.token = 0
      /\ ~Foreign /\ ~UiCanRead => file.data.token = 0
      /\ ~file.torn /\ file.data.schema = "ui" /\ file.data.token > 0 => Configured
  BY <1>1, Reads, ProvisioningAssumption DEF Content, Tokens, KeyAsToken
<1> DEFINE read == IF UiCanRead THEN UiReads ELSE Blank
<1>10. /\ read \in Content /\ read.schema = "ui" /\ read.token <= regs
       /\ ~Foreign => read.token = file.data.token
       /\ Foreign \in BOOLEAN
  BY <1>1, <1>2, <1>9 DEF Foreign, Content
<1>11. ~excused => file.data.schema = "ui" /\ \A v \in Writers : jobs[v].pc = "registering" => regs = 0 /\ ~Ordered(v)
  BY DEF CredentialsInv, FirstInv, TheFirst
<1>12. Holds(UiReads) = [Holds(UiReads) EXCEPT !.new = 0, !.stale = FALSE]
  BY <1>1 DEF Holds, NoWrite
<1>13. \A b \in Boots : w = b /\ Boot(b) => CredentialsInv'
  <2> SUFFICES ASSUME w \in Boots, Boot(w) PROVE CredentialsInv'
    OBVIOUS
  <2>1. jobs[w].new = 0 /\ UNCHANGED <<file, override, others, regs>>
    BY <1>3 DEF Boot
  <2>2. NoWrite = [NoWrite EXCEPT !.pc = "idle"]
    BY <1>1 DEF NoWrite
  <2>3. CASE Becomes(w, NoWrite) /\ UNCHANGED <<excused, events>>
    BY <1>2, <1>5, <2>1, <2>2, <2>3
  <2>4. CASE /\ UiCanRead /\ UiReads.token > 0 /\ UiReads.key
             /\ Becomes(w, [Holds(UiReads) EXCEPT !.new = UiReads.token]) /\ UNCHANGED <<excused, events>>
    <3>1. UiReads.token \in 0..MaxRegistrations /\ regs > 0 /\ ~Foreign
      BY <1>0, <1>1, <1>9, <2>4, ProvisioningAssumption DEF ProvisioningTypeOK
    <3>2. [Holds(UiReads) EXCEPT !.new = UiReads.token]
            = [Holds(UiReads) EXCEPT !.new = UiReads.token, !.stale = FALSE]
      BY <1>1 DEF Holds, NoWrite
    <3>3. ~excused => \A v \in Writers : jobs[v].pc # "registering"
      BY <1>11, <3>1
    <3>4. /\ w \notin {"settings", "saver"} /\ w \notin Onboarders \cup {"settings"}
          /\ ~(jobs[w].new > 0) /\ UiReads.token >= file.data.token /\ events' \in 0..MaxEvents
          /\ excused' = excused /\ FALSE \in BOOLEAN
          /\ Becomes(w, [Holds(UiReads) EXCEPT !.new = UiReads.token, !.stale = FALSE])
      BY <1>0, <1>1, <1>2, <1>9, <2>1, <2>4, <3>1, <3>2
    <3> QED BY <1>8, <1>9, <2>1, <2>4, <3>1, <3>3, <3>4
  <2>5. CASE /\ UiCanRead /\ Event /\ excused' = TRUE
             /\ Becomes(w, [Holds(UiReads) EXCEPT !.pc = "registering"])
    BY <1>2, <1>7, <1>9, <2>1, <2>5
  <2>6. CASE /\ UiCanRead /\ UiReads.token = 0 /\ Becomes(w, [Holds(UiReads) EXCEPT !.pc = "registering"])
             /\ excused' = (excused \/ Ordered(w)) /\ UNCHANGED events
    <3>1. excused' \in BOOLEAN /\ (excused => excused') /\ (~excused' => ~Ordered(w) /\ ~excused)
      BY <1>2, <2>6 DEF Ordered
    <3>2. ~excused /\ ~Foreign => file.data.token # 1
      BY <1>9, <2>6
    <3>3. ~excused => ~Foreign
      BY <1>1, <1>2, <1>11, <2>6 DEF Foreign, UiCanRead, Content
    <3> QED BY <1>2, <1>7, <1>9, <2>1, <2>6, <3>1, <3>2, <3>3
  <2> QED BY <2>3, <2>4, <2>5, <2>6 DEF Boot, BootOf
<1>14. w \in Boots /\ Scrub(w) => CredentialsInv'
  <2> SUFFICES ASSUME w \in Boots, Scrub(w) PROVE CredentialsInv'
    OBVIOUS
  <2>1. NoWrite = [NoWrite EXCEPT !.pc = "idle"]
    BY <1>1 DEF NoWrite
  <2>2. jobs[w].new = 0 /\ Becomes(w, NoWrite)
    BY <1>3 DEF Scrub
  <2> QED BY <1>2, <1>5, <2>1, <2>2 DEF Scrub
<1>15. w = "loop" /\ (LoopStarts \/ LoopEnds) => CredentialsInv'
  <2> SUFFICES ASSUME w = "loop", LoopStarts \/ LoopEnds PROVE CredentialsInv'
    OBVIOUS
  <2>1. PICK pc \in {"idle", "over"} : Becomes(w, [NoWrite EXCEPT !.pc = pc])
    BY DEF LoopStarts, LoopEnds
  <2>2. jobs[w].new = 0 /\ UNCHANGED <<file, override, others, regs, excused, events>>
    BY <1>3 DEF LoopStarts, LoopEnds
  <2> QED BY <1>2, <1>5, <2>1, <2>2
<1>16. w \in Onboarders /\ Offer(w) => CredentialsInv'
  <2> SUFFICES ASSUME w \in Onboarders, Offer(w) PROVE CredentialsInv'
    OBVIOUS
  <2>1. [NoWrite EXCEPT !.pc = "registering"] = [Holds(Blank) EXCEPT !.pc = "registering"]
    BY <1>1 DEF Holds, NoWrite
  <2>2. /\ jobs[w].new = 0 /\ UNCHANGED <<file, override, others, regs>> /\ Event
        /\ Becomes(w, [NoWrite EXCEPT !.pc = "registering"])
    BY <1>3 DEF Offer
  <2>3. excused' \in BOOLEAN /\ (excused => excused') /\ (~excused' => ~Ordered(w) /\ ~excused /\ ~file.torn)
    BY <1>2 DEF Offer, Ordered
  <2>4. ~excused' => file.data.token # 1
    BY <1>1, <1>9, <1>11, <2>3 DEF Offer, TakesOffer
  <2> QED BY <1>1, <1>2, <1>7, <2>1, <2>2, <2>3, <2>4
<1>17. w \in Onboarders /\ Merge(w) => CredentialsInv'
  <2> SUFFICES ASSUME w \in Onboarders, Merge(w) PROVE CredentialsInv'
    OBVIOUS
  <2>1. /\ Becomes(w, [Holds(read) EXCEPT !.new = jobs[w].new, !.stale = Foreign])
        /\ UNCHANGED <<file, override, others, regs, excused, events>> /\ jobs[w].pc = "merging"
    BY DEF Merge
  <2>2. jobs[w].new \in 0..MaxRegistrations /\ jobs[w].new <= regs
    BY <1>0, <1>1 DEF TokensInv, JobRecord
  <2>3. ~excused => jobs[w].new > 0 /\ \A v \in Writers \ {w} : jobs[v].pc # "registering"
    BY <2>1 DEF CredentialsInv, FirstInv, TheFirst, Ordered
  <2> HIDE DEF read
  <2> QED BY <1>0, <1>2, <1>8, <1>10, <2>1, <2>2, <2>3
<1>18. w = "settings" /\ Settings => CredentialsInv'
  <2> SUFFICES ASSUME w = "settings", Settings PROVE CredentialsInv'
    OBVIOUS
  <2>1. [Holds(read) EXCEPT !.stale = Foreign] = [Holds(read) EXCEPT !.new = 0, !.stale = Foreign]
    BY <1>1 DEF Holds, NoWrite
  <2>2. /\ Becomes(w, [Holds(read) EXCEPT !.new = 0, !.stale = Foreign]) /\ Event
        /\ UNCHANGED <<file, override, others, regs, excused>> /\ jobs[w].new = 0
    BY <1>3, <2>1 DEF Settings
  <2> HIDE DEF read
  <2>3. /\ w \notin Boots \cup Onboarders /\ 0 \in 0..MaxRegistrations /\ 0 <= regs
        /\ ~(jobs[w].new > 0) /\ ~(0 > 0) /\ events' \in 0..MaxEvents /\ excused' = excused
    BY <1>0, <1>1, <1>2, <2>2, ProvisioningAssumption
  <2> QED BY <1>8, <1>10, <2>2, <2>3
<1>19. w = "saver" /\ Save => CredentialsInv'
  <2> SUFFICES ASSUME w = "saver", Save PROVE CredentialsInv'
    OBVIOUS
  <2> DEFINE job == Holds([Blank EXCEPT !.token = config])
  <2>1. job \in JobRecord /\ job.pc = "holding" /\ job.new = 0
    BY <1>0, <1>1 DEF ProvisioningTypeOK, JobRecord, Holds, Content
  <2>2. Becomes(w, job) /\ UNCHANGED <<file, override, others, regs, excused>> /\ Event /\ jobs[w].new = 0
    BY <1>3 DEF Save
  <2> HIDE DEF job
  <2> QED BY <1>0, <1>1, <1>2, <2>1, <2>2, WriterStep
<1> QED BY <1>4, <1>13, <1>14, <1>15, <1>16, <1>17, <1>18, <1>19

\* The steps that no writer and no file takes part in.
LEMMA QuietStep ==
  ASSUME CredentialsInv, UNCHANGED <<file, override, jobs, regs, excused>>, ProvisioningTypeOK'
  PROVE  CredentialsInv'
<1>1. TokensInv'
  BY DEF CredentialsInv, TokensInv, Writing
<1>2. CopiesInv'
  BY DEF CredentialsInv, CopiesInv, Writing
<1>3. TheFirst => TheFirst'
  BY DEF TheFirst, Ordered, Writing
<1> QED BY <1>1, <1>2, <1>3 DEF CredentialsInv, FirstInv

LEMMA CredentialsInit == InitProvisioning => CredentialsInv
<1> SUFFICES ASSUME InitProvisioning PROVE CredentialsInv
  OBVIOUS
<1>0. /\ 0 \in 0..MaxRegistrations /\ 1 \in 0..MaxRegistrations /\ 0 \in 0..MaxEvents
      /\ KeyAsToken \in Tokens /\ 0 \in Tokens /\ 1 \in Tokens
  BY ProvisioningAssumption DEF KeyAsToken, Tokens
<1>1. PICK token \in {0, 1}, key \in BOOLEAN :
         file = [torn |-> FALSE, data |-> [Blank EXCEPT !.token = token, !.key = key]] /\ regs = token
  BY DEF InitProvisioning
<1>2. /\ file \in [torn : BOOLEAN, data : Content] /\ file.data.token = token
      /\ file.data.schema = "ui" /\ file.data.key = key /\ file.data.token \in Tokens
  <2>1. Blank \in Content /\ Blank.schema = "ui"
    BY <1>0 DEF Blank, Content
  <2> DEFINE data == [Blank EXCEPT !.token = token, !.key = key]
  <2>2. data \in Content /\ data.token = token /\ data.schema = "ui" /\ data.key = key
    BY <1>0, <1>1, <2>1 DEF Content
  <2> HIDE DEF data
  <2>3. file = [torn |-> FALSE, data |-> data] /\ data.token \in Tokens
    BY <1>0, <1>1, <2>2 DEF data
  <2> QED BY <2>2, <2>3
<1>3. /\ NoWrite \in JobRecord /\ Blank.schema = "ui" /\ Blank.token = 0
  BY <1>0 DEF NoWrite, Blank, JobRecord, Content
<1>4. /\ jobs \in [Writers -> JobRecord]
      /\ \A v \in Writers : /\ jobs[v].pc \in {"starting", "off", "idle"}
                            /\ jobs[v].new = 0 /\ jobs[v].copy = Blank
  <2>1. \A pc \in {"starting", "off", "idle"} :
           /\ [NoWrite EXCEPT !.pc = pc] \in JobRecord
           /\ [NoWrite EXCEPT !.pc = pc].pc = pc /\ [NoWrite EXCEPT !.pc = pc].new = 0
           /\ [NoWrite EXCEPT !.pc = pc].copy = Blank
    <3> TAKE pc \in {"starting", "off", "idle"}
    <3>1. NoWrite.new = 0 /\ NoWrite.copy = Blank
      BY DEF NoWrite
    <3> QED BY <1>3, <3>1 DEF JobRecord
  <2> DEFINE pcOf(v) == CASE v = "bootService" -> IF TRUE THEN "starting" ELSE "down"
                          [] v = "bootUi"      -> "starting"
                          [] v = "loop"        -> "off"
                          [] OTHER             -> "idle"
  <2>2. \A v \in Writers : pcOf(v) \in {"starting", "off", "idle"}
    BY DEF Writers, Onboarders, Boots
  <2>3. jobs = [v \in Writers |-> [NoWrite EXCEPT !.pc = pcOf(v)]]
    BY DEF InitProvisioning, StartedJobs
  <2> HIDE DEF pcOf
  <2> QED BY <2>1, <2>2, <2>3
<1>5. config \in Tokens /\ loader \in [pc : {"idle", "parsing"}, torn : BOOLEAN, data : Content]
  <2>1. NoLoad \in [pc : {"idle", "parsing"}, torn : BOOLEAN, data : Content]
    BY <1>0 DEF NoLoad, Blank, Content
  <2> QED BY <1>0, <1>2, <2>1 DEF InitProvisioning, ServiceReads
<1>6. ProvisioningTypeOK
  BY <1>0, <1>1, <1>2, <1>4, <1>5 DEF InitProvisioning, ProvisioningTypeOK, JobRecord
<1>7. Writers = (Onboarders \cup Boots) \cup {"settings", "saver"}
  BY DEF Writers
<1>8. TokensInv
  BY <1>1, <1>2, <1>3, <1>4, <1>7 DEF TokensInv
<1>9. CopiesInv
  BY <1>4, <1>7 DEF CopiesInv, Writing
<1>10. TheFirst
  BY <1>1, <1>2, <1>4, <1>7 DEF TheFirst, Writing
<1> QED BY <1>6, <1>8, <1>9, <1>10 DEF CredentialsInv, FirstInv

LEMMA CredentialsStep == CredentialsInv /\ [NextProvisioning]_provisioningVars => CredentialsInv'
<1> SUFFICES ASSUME CredentialsInv, [NextProvisioning]_provisioningVars PROVE CredentialsInv'
  OBVIOUS
<1>0. ProvisioningTypeOK /\ Onboarders \cup Boots \cup {"settings", "saver"} = Writers /\ "loop" \in Writers
  BY DEF CredentialsInv, Writers, Onboarders
<1>1. ASSUME NEW w \in Writers, Truncate(w) \/ Fill(w) PROVE CredentialsInv'
  BY <1>1, FillStep, WriterSteps
<1>2. ASSUME NEW b \in Boots, Boot(b) \/ BootRegisters(b) \/ Scrub(b) PROVE CredentialsInv'
  <2>1. CASE BootRegisters(b)
    <3>1. b \notin Onboarders
      BY DEF Boots, Onboarders
    <3> QED BY <2>1, <3>1, RegisterStep DEF BootRegisters
  <2>2. CASE Boot(b) \/ Scrub(b)
    BY <1>0, <2>2, WriterSteps
  <2> QED BY <1>2, <2>1, <2>2
<1>3. ASSUME NEW o \in Onboarders, Offer(o) \/ OfferRegisters(o) \/ Merge(o) PROVE CredentialsInv'
  <2>1. CASE OfferRegisters(o)
    BY <2>1, RegisterStep DEF OfferRegisters
  <2>2. CASE Offer(o) \/ Merge(o)
    BY <1>0, <2>2, WriterSteps
  <2> QED BY <1>3, <2>1, <2>2
<1>4. CASE LoopStarts \/ LoopEnds
  BY <1>0, <1>4, WriterSteps
<1>5. CASE Settings \/ Save
  BY <1>0, <1>5, WriterSteps
<1>6. CASE LoadBegins \/ LoadEnds
  <2>1. /\ 0 \in Tokens /\ KeyAsToken \in Tokens /\ file.data.token \in Tokens
        /\ loader.data.token \in Tokens /\ Blank \in Content
    BY <1>0, ProvisioningAssumption DEF ProvisioningTypeOK, Tokens, KeyAsToken, Content, Blank
  <2>2. NoLoad \in [pc : {"idle", "parsing"}, torn : BOOLEAN, data : Content]
    BY <2>1 DEF NoLoad
  <2>3. config' \in Tokens
    BY <1>0, <1>6, <2>1 DEF LoadBegins, LoadEnds, ServiceReads, ProvisioningTypeOK
  <2>4. loader' \in [pc : {"idle", "parsing"}, torn : BOOLEAN, data : Content]
    BY <1>0, <1>6, <2>2 DEF LoadBegins, LoadEnds, ProvisioningTypeOK
  <2>5. events' \in 0..MaxEvents
    BY <1>0, <1>6, ProvisioningAssumption DEF LoadBegins, LoadEnds, Event, ProvisioningTypeOK
  <2>6. UNCHANGED <<file, override, jobs, regs, excused, outbox, life>>
    BY <1>6 DEF LoadBegins, LoadEnds
  <2>7. ProvisioningTypeOK'
    BY <1>0, <2>3, <2>4, <2>5, <2>6 DEF ProvisioningTypeOK
  <2> QED BY <2>6, <2>7, QuietStep
<1>7. CASE \E p \in AgentProcesses : Crash(p)
  BY <1>7, CrashStep
<1>8. CASE Remove
  <2>1. ProvisioningTypeOK'
    BY <1>0, <1>8 DEF Remove, ProvisioningTypeOK
  <2> QED BY <1>8, <2>1, QuietStep DEF Remove
<1>9. CASE UNCHANGED provisioningVars
  <2>1. ProvisioningTypeOK'
    BY <1>0, <1>9 DEF provisioningVars, ProvisioningTypeOK
  <2> QED BY <1>9, <2>1, QuietStep DEF provisioningVars
<1> QED BY <1>1, <1>2, <1>3, <1>4, <1>5, <1>6, <1>7, <1>8, <1>9 DEF NextProvisioning, Working

\* Types, tokens, copies and the first registration, in every behaviour.
THEOREM CredentialsInvariant == ProvisioningSpec => []CredentialsInv
<1> QED BY CredentialsInit, CredentialsStep, PTL DEF ProvisioningSpec

\* The ranges of the variables of Provisioning hold.
THEOREM CredentialTypes == ProvisioningSpec => []ProvisioningTypeOK
<1>1. CredentialsInv => ProvisioningTypeOK
  BY DEF CredentialsInv
<1> QED BY <1>1, CredentialsInvariant, PTL

\* What is written over credentials in the UI's keys is as new as they are, or the
\* exception is one that the property names.
LEMMA LossStep ==
  ASSUME CredentialsInv, NEW w \in Writers, Fill(w), file.data.schema = "ui", file.data.token > 0
  PROVE  \/ file'.data.schema = "ui" /\ file'.data.token >= file.data.token
         \/ w = "saver" \/ jobs[w].stale \/ (w \in Onboarders /\ jobs[w].copy.token > 0)
<1> SUFFICES ASSUME w # "saver", ~jobs[w].stale, w \in Onboarders => ~(jobs[w].copy.token > 0)
             PROVE  file'.data.schema = "ui" /\ file'.data.token >= file.data.token
  OBVIOUS
<1>1. /\ ProvisioningTypeOK /\ CopiesInv /\ TokensInv /\ Writing(w) /\ file'.data = WrittenData(w)
  BY DEF CredentialsInv, Fill, Writing
<1>2. /\ file.data.token \in Nat /\ jobs[w].copy \in Content /\ jobs[w].copy.schema = "ui"
      /\ jobs[w].new \in Nat /\ jobs[w].new \in Tokens
  BY <1>1, Jobs, ProvisioningAssumption DEF JobRecord, TokensInv, Tokens, KeyAsToken
<1>3. CASE w = "settings"
  <2>1. WrittenData(w) = [jobs[w].copy EXCEPT !.mesh = TRUE]
    BY <1>3 DEF WrittenData
  <2>2. jobs[w].copy.token = file.data.token
    BY <1>1, <1>3 DEF CopiesInv
  <2> QED BY <1>1, <1>2, <2>1, <2>2 DEF Content
<1>4. CASE w \in Onboarders
  BY <1>1, <1>2, <1>4 DEF CopiesInv
<1>5. CASE w \in Boots
  <2>1. WrittenData(w) = [jobs[w].copy EXCEPT !.token = jobs[w].new, !.key = FALSE]
    BY <1>5 DEF WrittenData, Boots
  <2>2. jobs[w].new >= file.data.token
    BY <1>1, <1>5 DEF CopiesInv
  <2> QED BY <1>1, <1>2, <2>1, <2>2 DEF Content
<1> QED BY <1>3, <1>4, <1>5 DEF Writers

\* An agent registers once, and no writer loses its credentials, but for the overlaps
\* that are named (the six writers of config.json).
THEOREM CredentialsKept == ProvisioningSpec => CredentialsAreKept
<1>1. CredentialsInv => regs <= 1 \/ excused
  BY DEF CredentialsInv, FirstInv, TheFirst
<1>2. CredentialsInv =>
        [\A w \in Writers :
          (Fill(w) /\ file.data.schema = "ui" /\ file.data.token > 0)
             => \/ file'.data.schema = "ui" /\ file'.data.token >= file.data.token
                \/ w = "saver" \/ jobs[w].stale \/ (w \in Onboarders /\ jobs[w].copy.token > 0)]_provisioningVars
  BY LossStep
<1> QED BY <1>1, <1>2, CredentialsInvariant, PTL DEF CredentialsAreKept, LossNeedsOverlap

-----------------------------------------------------------------------------
(* PeerDiscovery: the identities, lists and catalogues of the neighbours.  *)

DiscoverySpec == InitDiscovery /\ [][NextDiscovery]_discoveryVars

\* Who is blocked calls itself an agent of which another identity is registered.
BlockedInv ==
    \A a \in Agent : \A id \in blocklist[a] : registry[a][id[1]] \notin {0, id[2]}

\* The loop asks peers, and a peer that is new was seen lately.
AskedInv ==
    \A w \in wanted : /\ w.for = "loop" => w.of \in peers[w.at]
                      /\ w.for = "new" => w.of \in peers[w.at] \ unseen[w.at]

DiscoveryInv == DiscoveryTypeOK /\ BlockedInv /\ AskedInv

LEMMA HostNumbers ==
  /\ \A n \in HostNumber : n \in Nat /\ n # 0
  /\ \A a \in Agent : 1 \in HostNumber /\ \A n \in 1..MaxHosts[a] : n \in HostNumber
<1>1. \A a \in Agent : MaxHosts[a] \in Nat \ {0}
  BY DiscoveryAssumption
<1> QED BY <1>1 DEF HostNumber

LEMMA DiscoveryInit == InitDiscovery => DiscoveryInv
<1> SUFFICES ASSUME InitDiscovery PROVE DiscoveryInv
  OBVIOUS
<1>1. finds \in 0..MaxFinds
  BY DiscoveryAssumption DEF InitDiscovery
<1>2. host \in [Agent -> HostNumber]
  BY HostNumbers DEF InitDiscovery
<1> QED BY <1>1, <1>2 DEF InitDiscovery, DiscoveryInv, DiscoveryTypeOK, BlockedInv, AskedInv, Unregistered

LEMMA DiscoveryStep == DiscoveryInv /\ [NextDiscovery]_discoveryVars => DiscoveryInv'
<1> SUFFICES ASSUME DiscoveryInv, [NextDiscovery]_discoveryVars PROVE DiscoveryInv'
  OBVIOUS
<1> USE DEF DiscoveryInv
<1>1. ASSUME NEW a \in Agent, NEW for \in {"loop", "refresh"}, RefreshPeerArtifactIndex(a, for)
      PROVE  DiscoveryInv'
  <2>1. DiscoveryTypeOK'
    BY <1>1 DEF RefreshPeerArtifactIndex, DiscoveryTypeOK, Want, Requester
  <2>2. BlockedInv'
    BY <1>1 DEF RefreshPeerArtifactIndex, BlockedInv
  <2>3. AskedInv'
    BY <1>1 DEF RefreshPeerArtifactIndex, AskedInv
  <2> QED BY <2>1, <2>2, <2>3
<1>2. ASSUME NEW a \in Agent, DiscoveryTick(a) PROVE DiscoveryInv'
  <2>1. DiscoveryTypeOK'
    BY <1>2 DEF DiscoveryTick, DiscoveryTypeOK
  <2>2. BlockedInv'
    BY <1>2 DEF DiscoveryTick, BlockedInv
  <2>3. AskedInv'
    BY <1>2 DEF DiscoveryTick, LoopIsFree, AskedInv, DiscoveryTypeOK
  <2> QED BY <2>1, <2>2, <2>3
<1>3. ASSUME NEW a \in Agent, AgentStops(a) PROVE DiscoveryInv'
  <2>1. DiscoveryTypeOK'
    BY <1>3 DEF AgentStops, DiscoveryTypeOK, Unregistered
  <2>2. BlockedInv'
    BY <1>3 DEF AgentStops, BlockedInv, DiscoveryTypeOK
  <2>3. AskedInv'
    BY <1>3 DEF AgentStops, AskedInv, DiscoveryTypeOK
  <2> QED BY <2>1, <2>2, <2>3
<1>4. ASSUME NEW a \in Agent, AgentStarts(a) PROVE DiscoveryInv'
  <2>1. host[a] + 1 \in HostNumber
    <3>1. host[a] \in Nat /\ MaxHosts[a] \in Nat
      BY HostNumbers, DiscoveryAssumption DEF DiscoveryTypeOK
    <3>2. host[a] + 1 \in 1..MaxHosts[a]
      BY <1>4, <3>1 DEF AgentStarts
    <3> QED BY <3>2, HostNumbers
  <2>2. DiscoveryTypeOK'
    BY <1>4, <2>1 DEF AgentStarts, DiscoveryTypeOK
  <2>3. BlockedInv' /\ AskedInv'
    BY <1>4 DEF AgentStarts, BlockedInv, AskedInv
  <2> QED BY <2>2, <2>3
<1>5. ASSUME NEW a \in Agent, NEW b \in Agent, HandlePeerFound(a, b) PROVE DiscoveryInv'
  <2>1. /\ Self(a) \in Identity /\ Self(b) \in Identity
    BY DEF Self, Identity, DiscoveryTypeOK
  <2>2. finds' \in 0..MaxFinds
    BY <1>5, DiscoveryAssumption DEF HandlePeerFound, DiscoveryTypeOK
  <2>3. heard' \subseteq Hello
    BY <1>5, <2>1 DEF HandlePeerFound, DiscoveryTypeOK, Hello
  <2>4. DiscoveryTypeOK'
    BY <1>5, <2>2, <2>3 DEF HandlePeerFound, DiscoveryTypeOK
  <2>5. BlockedInv' /\ AskedInv'
    BY <1>5 DEF HandlePeerFound, BlockedInv, AskedInv
  <2> QED BY <2>4, <2>5
<1>6. ASSUME NEW a \in Agent, NEW b \in Agent, TwoMinutesPass(a, b) PROVE DiscoveryInv'
  <2>1. DiscoveryTypeOK'
    BY <1>6 DEF TwoMinutesPass, DiscoveryTypeOK
  <2>2. BlockedInv'
    BY <1>6 DEF TwoMinutesPass, BlockedInv
  <2>3. AskedInv'
    BY <1>6 DEF TwoMinutesPass, AskedInv, DiscoveryTypeOK
  <2> QED BY <2>1, <2>2, <2>3
<1>7. ASSUME NEW h \in heard, GreetingLost(h) \/ Registers(h) \/ ResponderBlocks(h) \/ InitiatorClosesPeer(h)
      PROVE  DiscoveryInv'
  <2>1. /\ h \in Hello /\ h.at \in Agent /\ h.from \in Identity
        /\ h.from[1] \in Agent /\ h.from[2] \in HostNumber /\ h.from[2] # 0
        /\ h.from = <<h.from[1], h.from[2]>>
    BY HostNumbers DEF DiscoveryTypeOK, Hello, Identity
  <2>2. CASE GreetingLost(h)
    BY <2>2 DEF GreetingLost, DiscoveryTypeOK, BlockedInv, AskedInv
  <2>3. CASE InitiatorClosesPeer(h)
    BY <2>3 DEF InitiatorClosesPeer, DiscoveryTypeOK, BlockedInv, AskedInv
  <2>4. CASE ResponderBlocks(h)
    <3>1. DiscoveryTypeOK'
      BY <2>1, <2>4 DEF ResponderBlocks, DiscoveryTypeOK
    <3>2. BlockedInv'
      BY <2>1, <2>4 DEF ResponderBlocks, Conflicts, BlockedInv, DiscoveryTypeOK
    <3>3. AskedInv'
      BY <2>4 DEF ResponderBlocks, AskedInv
    <3> QED BY <3>1, <3>2, <3>3
  <2>5. CASE Registers(h)
    <3> DEFINE b == h.from[1]
               w == [at |-> h.at, of |-> b, for |-> "new"]
    <3>1. w \in Want
      BY <2>1 DEF Want, Requester
    <3>2. wanted' \subseteq wanted \cup {w} /\ wanted' \subseteq Want
      BY <2>5, <3>1 DEF Registers, DiscoveryTypeOK
    <3>3. /\ registry' = [registry EXCEPT ![h.at][b] = h.from[2]]
          /\ registry \in [Agent -> [Agent -> HostNumber \cup {0}]]
      BY <2>5 DEF Registers, DiscoveryTypeOK
    <3>4. registry' \in [Agent -> [Agent -> HostNumber \cup {0}]]
      BY <2>1, <3>3
    <3>5. DiscoveryTypeOK'
      BY <2>1, <2>5, <3>2, <3>4 DEF Registers, DiscoveryTypeOK
    <3>6. \A a \in Agent, c \in Agent : registry'[a][c] = registry[a][c] \/ (a = h.at /\ c = b /\ registry[a][c] = 0)
      BY <2>1, <2>5, <3>3 DEF Registers, Conflicts
    <3>7. BlockedInv'
      BY <2>5, <3>6 DEF Registers, BlockedInv, DiscoveryTypeOK, Identity
    <3>8. \A a \in Agent : /\ peers[a] \subseteq peers'[a] /\ (a = h.at => b \in peers'[a])
                           /\ unseen'[a] \subseteq unseen[a] /\ (a = h.at => b \notin unseen'[a])
      BY <2>1, <2>5 DEF Registers, DiscoveryTypeOK
    <3>9. AskedInv'
      <4> SUFFICES ASSUME NEW v \in wanted'
                   PROVE  /\ v.for = "loop" => v.of \in peers'[v.at]
                          /\ v.for = "new" => v.of \in peers'[v.at] \ unseen'[v.at]
        BY DEF AskedInv
      <4>1. v \in Want /\ v.at \in Agent
        BY <3>2 DEF Want
      <4>2. CASE v \in wanted
        BY <3>8, <4>1, <4>2 DEF AskedInv
      <4>3. CASE v = w
        BY <2>1, <3>8, <4>3
      <4> QED BY <3>2, <4>2, <4>3
    <3> QED BY <3>5, <3>7, <3>9
  <2> QED BY <1>7, <2>2, <2>3, <2>4, <2>5
<1>8. ASSUME NEW w \in wanted, PullPeers(w) \/ FetchFails(w) PROVE DiscoveryInv'
  <2>1. w \in Want /\ w.at \in Agent /\ w.of \in Agent
    BY DEF DiscoveryTypeOK, Want
  <2>2. CASE FetchFails(w)
    BY <2>2 DEF FetchFails, DiscoveryTypeOK, BlockedInv, AskedInv
  <2>3. CASE PullPeers(w)
    <3>1. artifacts' \in [Agent -> SUBSET Agent]
      BY <2>1, <2>3 DEF PullPeers, ApplyGossipResponse, UpsertPeerArtifacts, DiscoveryTypeOK
    <3>2. DiscoveryTypeOK'
      <4>1. /\ peers' \in [Agent -> SUBSET Agent] /\ unseen' \in [Agent -> SUBSET Agent]
            /\ \A a \in Agent : unseen'[a] \subseteq peers'[a]
        BY <2>1, <2>3 DEF PullPeers, ApplyGossipResponse, KnownPeers, DiscoveryTypeOK
      <4>2. links' \subseteq SUBSET Agent /\ wanted' \subseteq Want
        BY <2>1, <2>3 DEF PullPeers, DiscoveryTypeOK
      <4> QED BY <2>3, <3>1, <4>1, <4>2 DEF PullPeers, DiscoveryTypeOK
    <3>3. BlockedInv'
      BY <2>3 DEF PullPeers, BlockedInv
    <3>4. \A a \in Agent : peers[a] \subseteq peers'[a] /\ unseen'[a] \subseteq unseen[a]
      BY <2>1, <2>3 DEF PullPeers, ApplyGossipResponse, DiscoveryTypeOK
    <3>5. AskedInv'
      <4>1. wanted' \subseteq wanted /\ \A v \in wanted : v.at \in Agent
        BY <2>3 DEF PullPeers, DiscoveryTypeOK, Want
      <4> QED BY <3>4, <4>1 DEF AskedInv
    <3> QED BY <3>2, <3>3, <3>5
  <2> QED BY <1>8, <2>2, <2>3
<1>9. CASE UNCHANGED discoveryVars
  BY <1>9 DEF discoveryVars, DiscoveryTypeOK, BlockedInv, AskedInv
<1>10. \A a \in Agent : GossipTick(a) \/ RefreshP2PPeerCatalog(a) => DiscoveryInv'
  BY <1>1 DEF GossipTick, RefreshP2PPeerCatalog
<1> QED BY <1>2, <1>3, <1>4, <1>5, <1>6, <1>7, <1>8, <1>9, <1>10 DEF NextDiscovery

\* Types, who is blocked and who is asked, in every behaviour.
THEOREM DiscoveryInvariant == DiscoverySpec => []DiscoveryInv
<1> QED BY DiscoveryInit, DiscoveryStep, PTL DEF DiscoverySpec

\* A catalogue without a peer comes from an answer to a refresh.
LEMMA OrphanStep ==
  ASSUME DiscoveryInv, NextDiscovery, NEW a \in Agent, NEW b \in OrphanCatalogue(a)', b \notin OrphanCatalogue(a)
  PROVE  [at |-> a, of |-> b, for |-> "refresh"] \in wanted \ wanted'
<1>0. DiscoveryTypeOK /\ AskedInv
  BY DEF DiscoveryInv
<1>1. b \in artifacts'[a] /\ b \notin peers'[a] /\ (b \in artifacts[a] => b \in peers[a])
  BY DEF OrphanCatalogue
<1>2. CASE \E c \in Agent : DiscoveryTick(c) \/ AgentStops(c)
  BY <1>0, <1>1, <1>2 DEF DiscoveryTick, AgentStops, DiscoveryTypeOK
<1>3. CASE \E h \in heard : Registers(h)
  <2>1. artifacts' = artifacts /\ peers[a] \subseteq peers'[a]
    BY <1>0, <1>3 DEF Registers, DiscoveryTypeOK, Hello
  <2> QED BY <1>1, <2>1
<1>4. CASE \E w \in wanted : PullPeers(w)
  <2> PICK w \in wanted : PullPeers(w)
    BY <1>4
  <2>1. w \in Want /\ w.at \in Agent /\ w.of \in Agent /\ w.for \in Requester
    BY <1>0 DEF DiscoveryTypeOK, Want
  <2>2. peers[a] \subseteq peers'[a] /\ (b \in artifacts[a] \/ (a = w.at /\ b = w.of))
    BY <1>0, <1>1, <2>1 DEF PullPeers, ApplyGossipResponse, UpsertPeerArtifacts, DiscoveryTypeOK
  <2>3. a = w.at /\ b = w.of /\ b \notin peers[a]
    BY <1>1, <2>2
  <2>4. w.for = "refresh"
    BY <1>0, <2>1, <2>3 DEF AskedInv, Requester
  <2>5. w = [at |-> a, of |-> b, for |-> "refresh"]
    BY <2>1, <2>3, <2>4 DEF Want
  <2> QED BY <2>5 DEF PullPeers
<1>5. CASE peers' = peers /\ artifacts' = artifacts
  BY <1>1, <1>5
<1> QED BY <1>2, <1>3, <1>4, <1>5 DEF NextDiscovery, GossipTick, RefreshP2PPeerCatalog,
        RefreshPeerArtifactIndex, AgentStarts, HandlePeerFound, TwoMinutesPass, GreetingLost,
        ResponderBlocks, InitiatorClosesPeer, FetchFails

\* An agent does not refuse whom it asks, and what it knows of the others stays together
\* unless a user's refresh was waiting for the answer.
THEOREM NeighboursSound == DiscoverySpec => NeighboursAreSound
<1>1. DiscoveryInv /\ [NextDiscovery]_discoveryVars =>
        [\A a \in Agent : \A b \in OrphanCatalogue(a)' \ OrphanCatalogue(a) :
          [at |-> a, of |-> b, for |-> "refresh"] \in wanted \ wanted']_discoveryVars
  BY OrphanStep
<1>2. DiscoveryInv' => UsedIdentityIsNotBlocked'
  BY DEF DiscoveryInv, BlockedInv, UsedIdentityIsNotBlocked
<1> QED BY <1>1, <1>2, DiscoveryInvariant, PTL
        DEF DiscoverySpec, NeighboursAreSound, OrphanCatalogueNeedsRefresh

-----------------------------------------------------------------------------
(* The three of MCProvisioning side by side.                               *)

\* A behaviour of MCProvisioning is one of each component's specification: those out of
\* focus only wait.
THEOREM AgentPartsAreApart ==
  AgentSpec => ProvisioningSpec /\ AgentConfigSpec /\ DiscoverySpec
<1>1. AgentInit => InitProvisioning /\ InitAgentConfig /\ InitDiscovery
  BY DEF AgentInit
<1>2. ASSUME [RunProvisioning \/ RunAgentConfig \/ RunDiscovery]_agentVars
      PROVE  /\ [NextProvisioning]_provisioningVars /\ [NextAgentConfig]_configVars
             /\ [NextDiscovery]_discoveryVars
  <2>1. CASE RunProvisioning
    BY <2>1 DEF RunProvisioning
  <2>2. CASE RunAgentConfig
    BY <2>2 DEF RunAgentConfig
  <2>3. CASE RunDiscovery
    BY <2>3 DEF RunDiscovery
  <2>4. CASE UNCHANGED agentVars
    BY <2>4 DEF agentVars
  <2> QED BY <1>2, <2>1, <2>2, <2>3, <2>4
<1> QED BY <1>1, <1>2, PTL DEF AgentSpec, ProvisioningSpec, AgentConfigSpec, DiscoverySpec

\* What is checked of the three on one instance holds whatever the constants are: the
\* credentials, the configuration and the picture of the neighbours.
THEOREM AgentPartsKeepTheirWord ==
  AgentSpec => /\ CredentialsAreKept /\ []ConfigurationIsFollowed /\ FallbackIsNewest
               /\ NeighboursAreSound
<1> QED BY AgentPartsAreApart, CredentialsKept, ConfigFollowed, FallbackHolds, NeighboursSound, PTL
=============================================================================
