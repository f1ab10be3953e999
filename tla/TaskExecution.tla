---------------------------- MODULE TaskExecution ----------------------------
(***************************************************************************)
(* The execution of automation tasks: one per task and trigger at a time,  *)
(* the prompt and its deferral, the count of deferrals in memory and in    *)
(* the database, and the callbacks to the server with their queue.         *)
(*                                                                         *)
(*   internal/automation/service.go, service_state.go                      *)
(*   internal/database/sqlite_automation.go, sqlite_outbox_consolidation.go*)
(*                                                                         *)
(* What triggers a task is in PolicyRefresh; here any trigger may come at  *)
(* any time, but a task to be run at once comes once: its marker stays.    *)
(* With the service present both processes execute tasks, only the GUI     *)
(* prompts, and nobody runs the loop of the queue.                         *)
(***************************************************************************)
EXTENDS Naturals, FiniteSets

CONSTANTS
    Tasks,          \* tasks that a user may defer
    DeferTimes,     \* how often
    MaxTriggers,    \* bound: triggers other than the timer of a deferral
    MaxRuns,        \* bound: executions
    MaxFaults,      \* bound: failed calls to the server or the database
    MaxRestarts     \* bound: restarts of a process

ASSUME TaskAssumption ==
    /\ DeferTimes \in Nat \ {0} /\ MaxRuns \in Nat \ {0} /\ Tasks # {}
    /\ MaxTriggers \in Nat /\ MaxFaults \in Nat /\ MaxRestarts \in Nat

Runs == 1..MaxRuns
Triggers == {"immediate", "recurring"}      \* recurring: cron, check-in and login as well
Callbacks == Runs \X {"ack", "result"}

VARIABLES
    mode,       \* what the GUI found at startup: standalone, connected
    runs,       \* the executions: activeTasks, automation_execution_history
    defers,     \* per process and task, the count in deferByTask
    rows,       \* per task, the count in automation_defer_state (0: none is open)
    timers,     \* deferred executions whose time.AfterFunc is pending
    reading,    \* per process, the rows that a refresh read and did not yet apply
    loaded,     \* processes with a refresh that went past loadDeferStateForAgent
    queue,      \* automation_callback_queue
    told,       \* callbacks that reached the server
    lost,       \* callbacks that could not be queued either
    chain,      \* per task, deferrals since its last completion
    disturbed,  \* tasks whose count was written from a value that was no longer the last
    swallowed,  \* deferred executions whose timer met one that was about to be gated
    used        \* per bound, how often its event happened

deferVars == <<defers, rows, timers, reading, loaded>>
callbackVars == <<queue, told, lost>>
history == <<chain, disturbed, swallowed>>
vars == <<mode, runs, deferVars, callbackVars, history, used>>

Processes == IF mode = "connected" THEN {"gui", "service"} ELSE {"gui"}
Nothing == [t \in Tasks |-> 0]
NoRun == [stage |-> "unused", proc |-> "gui", task |-> CHOOSE t \in Tasks : TRUE,
          trigger |-> "recurring", count |-> 0, timed |-> FALSE]

ActiveStages == {"starting", "asking", "acking", "running", "closing"}
ActiveOf(p, t) == {i \in Runs : runs[i].stage \in ActiveStages /\ runs[i].proc = p /\ runs[i].task = t}
Started == {i \in Runs : runs[i].stage # "unused"}
Spend(b, limit) == used[b] < limit /\ used' = [used EXCEPT ![b] = @ + 1]

\* executeTaskAsync. One execution per task and trigger at a time; the deferral is
\* read under the lock.
Busy(p, t, trigger) == \E i \in ActiveOf(p, t) : runs[i].trigger = trigger
Launch(p, t, trigger, timed) ==
    IF Busy(p, t, trigger)
    THEN UNCHANGED <<runs, disturbed>>
    ELSE /\ Started # Runs
         /\ runs' = [runs EXCEPT ![Cardinality(Started) + 1] =
                        [stage |-> "starting", proc |-> p, task |-> t, trigger |-> trigger,
                         count |-> defers[p][t], timed |-> timed]]
         /\ disturbed' = IF ActiveOf(p, t) = {} THEN disturbed ELSE disturbed \cup {t}

Triggered(p, t, trigger) ==
    /\ p \in Processes \cap loaded /\ Spend("triggers", MaxTriggers)
    /\ trigger = "immediate" => \A i \in Started : runs[i].task # t \/ runs[i].trigger # trigger
    /\ Launch(p, t, trigger, FALSE)
    /\ UNCHANGED <<mode, deferVars, callbackVars, chain, swallowed>>

-----------------------------------------------------------------------------
(* loadDeferStateForAgent, at every refresh before any trigger: the rows   *)
(* are read, and those that are open are then put into the map.            *)

ReadRows(p) ==
    /\ p \in Processes /\ reading[p] = Nothing /\ (rows # Nothing \/ p \notin loaded)
    /\ reading' = [reading EXCEPT ![p] = rows]
    /\ loaded' = IF rows = Nothing THEN loaded \cup {p} ELSE loaded
    /\ UNCHANGED <<mode, runs, defers, rows, timers, callbackVars, history, used>>

\* A failure is logged, and the refresh goes on.
ReadFails(p) ==
    /\ p \in Processes \ loaded /\ reading[p] = Nothing /\ Spend("faults", MaxFaults)
    /\ loaded' = loaded \cup {p} /\ disturbed' = disturbed \cup {t \in Tasks : rows[t] > 0}
    /\ UNCHANGED <<mode, runs, defers, rows, timers, reading, callbackVars, chain, swallowed>>

ApplyRows(p) ==
    LET read == {t \in Tasks : reading[p][t] > 0} IN
    /\ read # {}
    /\ defers' = [defers EXCEPT ![p] = [t \in Tasks |-> IF t \in read THEN reading[p][t] ELSE @[t]]]
    /\ reading' = [reading EXCEPT ![p] = Nothing] /\ loaded' = loaded \cup {p}
    /\ disturbed' = disturbed \cup
          {t \in read : reading[p][t] # rows[t] \/ defers[p][t] > reading[p][t]}
    /\ UNCHANGED <<mode, runs, rows, timers, callbackVars, chain, swallowed, used>>

-----------------------------------------------------------------------------
(* One execution.                                                          *)

Stage(i, from, to) == runs[i].stage = from /\ runs' = [runs EXCEPT ![i].stage = to]

\* Before NextAttempt of the last deferral nothing happens. The timer of a deferral
\* comes after it, unless another deferral of the task was made since.
Gated(i) ==
    /\ runs[i].count > 0
    /\ runs[i].timed => \E j \in timers : runs[j].task = runs[i].task /\ runs[j].proc = runs[i].proc
    /\ Stage(i, "starting", "gated")
    /\ UNCHANGED <<mode, deferVars, callbackVars, history, used>>

\* It is recorded as dispatched. Only the GUI has a dispatcher and asks the user.
Dispatch(i) ==
    /\ Stage(i, "starting", IF runs[i].proc = "gui" THEN "asking" ELSE "acking")
    /\ UNCHANGED <<mode, deferVars, callbackVars, history, used>>

\* Every answer but a deferral lets it go on, that of the time-out included.
Proceed(i) ==
    /\ Stage(i, "asking", "acking")
    /\ UNCHANGED <<mode, deferVars, callbackVars, history, used>>

\* recordAndGetNextDefer counts from the copy that the execution was started with.
\* (Faulty form: it allows one more.)
MayDeferAgain(i) == runs[i].count <= DeferTimes
MayDefer(i) == runs[i].count < DeferTimes
Defer(i) ==
    LET p == runs[i].proc
        t == runs[i].task IN
    /\ MayDefer(i)
    /\ Stage(i, "asking", "deferred")
    /\ defers' = [defers EXCEPT ![p][t] = runs[i].count + 1]
    /\ rows' = [rows EXCEPT ![t] = runs[i].count + 1]
    /\ timers' = timers \cup {i}
    /\ chain' = [chain EXCEPT ![t] = @ + 1]
    /\ UNCHANGED <<mode, reading, loaded, callbackVars, disturbed, swallowed, used>>

\* Past the limit the answer is written down as exhausted, and it goes on.
DeferIgnored(i) ==
    LET p == runs[i].proc
        t == runs[i].task IN
    /\ ~MayDefer(i)
    /\ Stage(i, "asking", "acking")
    /\ defers' = [defers EXCEPT ![p][t] = runs[i].count]
    /\ rows' = [rows EXCEPT ![t] = runs[i].count]
    /\ UNCHANGED <<mode, timers, reading, loaded, callbackVars, history, used>>

\* The timer of a deferral, in the process that made it.
\* (Faulty form: the wait is as long again when it fires.)
ByChance == FALSE
ByTimer == TRUE
TimerFires(i) ==
    LET p == runs[i].proc
        t == runs[i].task IN
    /\ i \in timers /\ timers' = timers \ {i}
    /\ Launch(p, t, runs[i].trigger, ByTimer)
    /\ swallowed' = IF \E j \in ActiveOf(p, t) : runs[j].stage = "starting" /\ runs[j].trigger = runs[i].trigger
                    THEN swallowed \cup {i} ELSE swallowed
    /\ UNCHANGED <<mode, defers, rows, reading, loaded, callbackVars, chain, used>>

\* sendOrQueueCallback: sent; or not sent, or sent without an answer, and queued; or
\* not queued either. (Faulty form: what was not sent is not queued.)
SendOrForget(i, kind) ==
    \/ told' = told \cup {<<i, kind>>} /\ UNCHANGED <<queue, lost, used>>
    \/ Spend("faults", MaxFaults) /\ UNCHANGED callbackVars
SendOrQueue(i, kind) ==
    \/ told' = told \cup {<<i, kind>>} /\ UNCHANGED <<queue, lost, used>>
    \/ /\ Spend("faults", MaxFaults) /\ queue' = queue \cup {<<i, kind>>}
       /\ told' \in {told, told \cup {<<i, kind>>}} /\ UNCHANGED lost
    \/ /\ used["faults"] + 1 < MaxFaults /\ used' = [used EXCEPT !["faults"] = @ + 2]
       /\ lost' = lost \cup {<<i, kind>>} /\ UNCHANGED <<queue, told>>

Acknowledge(i) ==
    /\ Stage(i, "acking", "running") /\ SendOrQueue(i, "ack")
    /\ UNCHANGED <<mode, deferVars, history>>

\* executeTask, its row in automation_execution_history, and the result.
Report(i) ==
    /\ Stage(i, "running", "closing") /\ SendOrQueue(i, "result")
    /\ UNCHANGED <<mode, deferVars, history>>

\* clearDeferState, and the key is given back.
Close(i) ==
    LET t == runs[i].task IN
    /\ Stage(i, "closing", "done")
    /\ defers' = [defers EXCEPT ![runs[i].proc][t] = 0]
    /\ rows' = [rows EXCEPT ![t] = 0]
    /\ chain' = [chain EXCEPT ![t] = 0]
    /\ UNCHANGED <<mode, timers, reading, loaded, callbackVars, disturbed, swallowed, used>>

\* processCallbackQueue, in the loop that Run starts: the GUI has one only without the
\* service, and the service none. A row is sent and deleted, or stays: not sent, or sent
\* without an answer. (Faulty form: what was sent is not deleted.)
PollKeeps(row) ==
    /\ mode = "standalone" /\ row \in queue
    /\ told' = told \cup {row}
    /\ UNCHANGED <<mode, runs, deferVars, queue, lost, history, used>>
Poll(row) ==
    /\ mode = "standalone" /\ row \in queue
    /\ \/ told' = told \cup {row} /\ queue' = queue \ {row} /\ UNCHANGED used
       \/ /\ Spend("faults", MaxFaults) /\ UNCHANGED queue
          /\ told' \in {told, told \cup {row}}
    /\ UNCHANGED <<mode, runs, deferVars, lost, history>>

\* A process ends and starts again: its goroutines, timers and maps are gone.
Restart(p) ==
    LET mine == {i \in Runs : runs[i].proc = p /\ (runs[i].stage \in ActiveStages \/ i \in timers)} IN
    /\ p \in Processes /\ Spend("restarts", MaxRestarts)
    /\ runs' = [i \in Runs |-> IF i \in mine THEN [runs[i] EXCEPT !.stage = "gone"] ELSE runs[i]]
    /\ timers' = timers \ mine
    /\ defers' = [defers EXCEPT ![p] = Nothing] /\ reading' = [reading EXCEPT ![p] = Nothing]
    /\ loaded' = loaded \ {p}
    /\ UNCHANGED <<mode, rows, callbackVars, history>>

-----------------------------------------------------------------------------
Init ==
    /\ mode \in {"standalone", "connected"} /\ runs = [i \in Runs |-> NoRun]
    /\ defers = [p \in {"gui", "service"} |-> Nothing] /\ rows = Nothing
    /\ timers = {} /\ reading = [p \in {"gui", "service"} |-> Nothing]
    /\ loaded = {"gui", "service"}
    /\ queue = {} /\ told = {} /\ lost = {}
    /\ chain = Nothing /\ disturbed = {} /\ swallowed = {}
    /\ used = [b \in {"triggers", "faults", "restarts"} |-> 0]

Run(i) == Gated(i) \/ Dispatch(i) \/ Proceed(i) \/ Acknowledge(i) \/ Report(i) \/ Close(i)

Next ==
    \/ \E p \in Processes : \/ ReadRows(p) \/ ReadFails(p) \/ ApplyRows(p) \/ Restart(p)
                            \/ \E t \in Tasks, trigger \in Triggers : Triggered(p, t, trigger)
    \/ \E i \in Runs : Run(i) \/ Defer(i) \/ DeferIgnored(i) \/ TimerFires(i)
    \/ \E row \in queue : Poll(row)

Spec == Init /\ [][Next]_vars

\* The goroutines run, a prompt is answered or times out, timers fire, and the loop of
\* the queue comes again.
Fairness ==
    /\ \A i \in Runs : WF_vars(Run(i)) /\ WF_vars(TimerFires(i))
    /\ \A row \in Callbacks : WF_vars(Poll(row))
FairSpec == Spec /\ Fairness

-----------------------------------------------------------------------------
(* Properties.                                                             *)

\* The ranges of the variables.
TypeOK ==
    /\ mode \in {"standalone", "connected"}
    /\ runs \in [Runs -> [stage : ActiveStages \cup {"unused", "gated", "deferred", "done", "gone"},
                          proc : {"gui", "service"}, task : Tasks, trigger : Triggers,
                          count : 0..DeferTimes, timed : BOOLEAN]]
    /\ defers \in [{"gui", "service"} -> [Tasks -> 0..DeferTimes]] /\ rows \in [Tasks -> 0..DeferTimes]
    /\ timers \subseteq Runs /\ reading \in [{"gui", "service"} -> [Tasks -> 0..DeferTimes]]
    /\ loaded \subseteq {"gui", "service"}
    /\ queue \subseteq Callbacks /\ told \subseteq Callbacks /\ lost \subseteq Callbacks
    /\ chain \in [Tasks -> Nat] /\ disturbed \subseteq Tasks /\ swallowed \subseteq Runs
    /\ used \in [{"triggers", "faults", "restarts"} -> Nat]

\* Once the agent went past a callback, the server has it, or it is queued, unless
\* the database failed as well: no acknowledgement and no result is forgotten.
CallbacksAccounted ==
    \A i \in Runs :
        /\ runs[i].stage \in {"running", "closing", "done"} => <<i, "ack">> \in told \cup queue \cup lost
        /\ runs[i].stage \in {"closing", "done"} => <<i, "result">> \in told \cup queue \cup lost

\* The user defers a task at most DeferTimes times before it is completed, unless its
\* count was written from a stale value: by two executions of it at a time, or by a
\* refresh that had read the row before.
DeferralsBounded == \A t \in Tasks : chain[t] <= DeferTimes \/ t \in disturbed

\* A deferred task is executed at last, without another trigger, however often it is
\* deferred again, unless the process ends first, or its timer found the same trigger in
\* the moment before NextAttempt: then nothing brings it back.
Outstanding(i) ==
    /\ runs[i].stage = "deferred" /\ i \notin swallowed /\ Started # Runs
    /\ \A j \in Runs : j > i /\ runs[j].task = runs[i].task => runs[j].stage \notin {"done", "gone"}
DeferredComesBack == []<>(\A i \in Runs : ~Outstanding(i))

\* An execution is accounted for, with the server and with the user.
ExecutionIsAccounted == CallbacksAccounted /\ DeferralsBounded

\* Where the loop of callbacks runs the queue is emptied again, whatever was put there.
QueueDrains == []<>(mode = "standalone" => queue = {})

\* A callback is owed from the point of the execution that makes it; it is abandoned when
\* it can neither be sent nor queued, and with the process that ends before.
CallbacksOwed ==
    queue \cup {<<i, "ack">> : i \in {j \in Runs : runs[j].stage = "acking"}}
          \cup {<<i, "result">> : i \in {j \in Runs : runs[j].stage = "running"}}
CallbacksAbandoned == lost \cup {c \in Callbacks : runs[c[1]].stage = "gone"}
CallbackRelay == INSTANCE StoreAndForward WITH
        Items <- Callbacks, owed <- CallbacksOwed, arrived <- told,
        abandoned <- CallbacksAbandoned
CallbacksAreForwarded == CallbackRelay!Forward

\* What is put off comes: a deferred task, and a callback that could not be sent, which
\* is not forgotten meanwhile.
PutOffComes == CallbacksAreForwarded /\ DeferredComesBack /\ QueueDrains
=============================================================================
