---------------------------- MODULE PolicyRefresh ----------------------------
(***************************************************************************)
(* The automation policy: its refresh by several callers at a time, the    *)
(* copies of it in memory and on disk, the cron schedule made from it, and *)
(* the tasks a refresh starts at once.                                     *)
(*                                                                         *)
(*   internal/automation/service.go, service_state.go                      *)
(*   internal/database/sqlite_automation.go                                *)
(*   app/app.go, app/sync.go, internal/service/manager.go (who refreshes)  *)
(*                                                                         *)
(* An engine lives in the GUI and one in the service, over one database.   *)
(* Who refreshes depends on whether the GUI found the service at startup.  *)
(* What becomes of a task that was started is in TaskExecution.            *)
(***************************************************************************)
EXTENDS Naturals, Sequences

CONSTANTS
    Tasks,          \* the tasks of all policies
    TriggersOf,     \* per task, which of its triggers a refresh acts on itself
    Offered,        \* the policies of the server: the tasks of each
    MaxFaults,      \* bound: requests that fail
    MaxRestarts     \* bound: restarts of a process

Policies == 1..Len(Offered)     \* fingerprints of policies, in the order they are published
Processes == {"gui", "service"}
Callers == {"loop", "sync"}     \* the periodic refresh; the sync coordinator
Triggers == {"immediate", "recurring"}

ASSUME PolicyAssumption ==
    /\ Offered \in Seq(SUBSET Tasks) /\ Offered # <<>>
    /\ TriggersOf \in [Tasks -> SUBSET Triggers]
    /\ MaxFaults \in Nat /\ MaxRestarts \in Nat

VARIABLES
    mode,       \* what the GUI found at startup: standalone, connected
    server,     \* the policy on the server
    held,       \* per process, state.PolicyFingerprint and state.Tasks (0: none)
    saved,      \* automation_policy_state (0: none)
    markers,    \* automation_marker_state: tasks of a policy that were started at once
    call,       \* per caller, the refresh that is under way
    cron,       \* per process, the entries of the cron instance
    entries,    \* per process, cronEntries
    active,     \* activeTasks: tasks of a process that were started at once and still run
    starts,     \* tasks of a policy that were started at once: how often
    unstarted,  \* those that were marked and not started: still active, or a restart
    raced,      \* those whose marker two refreshes looked for at once
    overlapped, \* processes in which two refreshes rebuilt the schedule at once
    used        \* per bound, how often its event happened

policyVars == <<held, saved, markers>>
scheduleVars == <<cron, entries>>
history == <<starts, unstarted, raced, overlapped>>
vars == <<mode, server, policyVars, call, scheduleVars, active, history, used>>

Home(c) == IF c = "loop" /\ mode = "connected" THEN "service" ELSE "gui"
Spend(b, limit) == used[b] < limit /\ used' = [used EXCEPT ![b] = @ + 1]
TasksOf(v) == IF v = 0 THEN {} ELSE Offered[v]
Recurring(v) == {t \in TasksOf(v) : "recurring" \in TriggersOf[t]}

ToStart(v) == {t \in TasksOf(v) : "immediate" \in TriggersOf[t]}

NoCall == [pc |-> "idle", known |-> 0, base |-> 0, answer |-> 0, todo |-> {}]

-----------------------------------------------------------------------------
(* refreshPolicy, by each of its callers.                                  *)

Goto(c, from, to) == call[c].pc = from /\ call' = [call EXCEPT ![c].pc = to]

\* What the request names as known. (Faulty form: the policy that was saved.)
KnownOnDisk(p) == saved
Known(p) == held'[p]

\* loadPersistedForAgent, if nothing is held; the state is copied, and the server asked.
Ask(c) ==
    LET p == Home(c) IN
    /\ call[c].pc = "idle"
    /\ held' = [held EXCEPT ![p] = IF @ = 0 THEN saved ELSE @]
    /\ call' = [call EXCEPT ![c].pc = "asking", ![c].base = held'[p], ![c].known = Known(p)]
    /\ UNCHANGED <<mode, server, saved, markers, scheduleVars, active, history, used>>

\* "Up to date" stands for the tasks of the copy.
Answer(c) ==
    /\ call[c].pc = "asking"
    /\ call' = [call EXCEPT ![c].pc = "answered", ![c].known = 0, ![c].base = 0,
                            ![c].answer = IF call[c].known = server THEN call[c].base ELSE server]
    /\ UNCHANGED <<mode, server, policyVars, scheduleVars, active, history, used>>

AskFails(c) ==
    /\ call[c].pc = "asking" /\ Spend("faults", MaxFaults)
    /\ call' = [call EXCEPT ![c] = NoCall]
    /\ UNCHANGED <<mode, server, policyVars, scheduleVars, active, history>>

Save(c) ==
    /\ Goto(c, "answered", "saved")
    /\ saved' = call[c].answer
    /\ UNCHANGED <<mode, server, held, markers, scheduleVars, active, history, used>>

\* The whole state is replaced by what was made of the copy.
Store(c) ==
    /\ Goto(c, "saved", "stored")
    /\ held' = [held EXCEPT ![Home(c)] = call[c].answer]
    /\ UNCHANGED <<mode, server, saved, markers, scheduleVars, active, history, used>>

\* rebuildRecurringSchedules removes the entries it has on record, under the lock,
\* and adds those of its policy without it. (Faulty form: only the record goes.)
RemovedNone(p) == {}
Removed(p) == entries[p]
Unschedule(c) ==
    LET p == Home(c) IN
    /\ call[c].pc = "stored"
    /\ cron' = [cron EXCEPT ![p] = @ \ Removed(p)]
    /\ entries' = [entries EXCEPT ![p] = {}]
    /\ overlapped' = IF \E d \in Callers \ {c} : call[d].pc = "scheduling" /\ Home(d) = p
                     THEN overlapped \cup {p} ELSE overlapped
    /\ call' = [call EXCEPT ![c].pc = "scheduling", ![c].todo = Recurring(call[c].answer) \X {"recurring"}]
    /\ UNCHANGED <<mode, server, policyVars, active, starts, unstarted, raced, used>>

\* An entry is named by its task and by who added it; the record holds one per task.
Schedule(c, t) ==
    LET p == Home(c) IN
    /\ <<t, "recurring">> \in call[c].todo
    /\ cron' = [cron EXCEPT ![p] = @ \cup {<<t, c>>}]
    /\ entries' = [entries EXCEPT ![p] = {e \in @ : e[1] # t} \cup {<<t, c>>}]
    /\ call' = [call EXCEPT ![c].todo = @ \ {<<t, "recurring">>}]
    /\ UNCHANGED <<mode, server, policyVars, active, history, used>>

\* reconcilePolicy goes through the tasks. Those of a check-in and of the first login
\* start executions of their own, which are in TaskExecution.
Reconcile(c) ==
    /\ call[c].pc = "scheduling" /\ call[c].todo = {}
    /\ call' = [call EXCEPT ![c].pc = "triggering", ![c].todo = ToStart(call[c].answer) \X {"immediate"}]
    /\ UNCHANGED <<mode, server, policyVars, scheduleVars, active, history, used>>

\* triggerImmediate: the marker of this policy and task is looked for ...
LookForMarker(c, t) ==
    LET x == <<call[c].answer, t>>
        others == {d \in Callers \ {c} : <<t, "marking">> \in call[d].todo /\ call[d].answer = x[1]} IN
    /\ call[c].pc = "triggering" /\ <<t, "immediate">> \in call[c].todo
    /\ call' = [call EXCEPT ![c].todo =
                   (@ \ {<<t, "immediate">>}) \cup IF x \in markers THEN {} ELSE {<<t, "marking">>}]
    /\ raced' = IF x \notin markers /\ others # {} THEN raced \cup {x} ELSE raced
    /\ UNCHANGED <<mode, server, policyVars, scheduleVars, active, starts, unstarted, overlapped, used>>

\* ... set in a step of its own ...
\* (Faulty form: the marker is not written.)
UnmarkedBy(c, t) == markers
MarkedBy(c, t) == markers \cup {<<call[c].answer, t>>}
Mark(c, t) ==
    /\ <<t, "marking">> \in call[c].todo
    /\ markers' = MarkedBy(c, t)
    /\ call' = [call EXCEPT ![c].todo = (@ \ {<<t, "marking">>}) \cup {<<t, "starting">>}]
    /\ UNCHANGED <<mode, server, held, saved, scheduleVars, active, history, used>>

\* ... and executeTaskAsync starts the task, unless it still runs in this process.
\* (Faulty form: an execution in the other process counts as well.)
MayStartAlone(p, t) == \A q \in Processes : <<q, t>> \notin active
MayStart(p, t) == <<p, t>> \notin active
Start(c, t) ==
    LET p == Home(c)
        x == <<call[c].answer, t>> IN
    /\ <<t, "starting">> \in call[c].todo
    /\ IF MayStart(p, t)
       THEN /\ active' = active \cup {<<p, t>>} /\ starts' = [starts EXCEPT ![x] = @ + 1]
            /\ UNCHANGED unstarted
       ELSE /\ unstarted' = IF <<p, t>> \in active THEN unstarted \cup {x} ELSE unstarted
            /\ UNCHANGED <<active, starts>>
    /\ call' = [call EXCEPT ![c].todo = @ \ {<<t, "starting">>}]
    /\ UNCHANGED <<mode, server, policyVars, scheduleVars, raced, overlapped, used>>

\* The execution ends, in whatever way (TaskExecution).
Ended(p, t) ==
    /\ <<p, t>> \in active /\ active' = active \ {<<p, t>>}
    /\ UNCHANGED <<mode, server, policyVars, call, scheduleVars, history, used>>

Refreshed(c) ==
    /\ call[c].pc = "triggering" /\ call[c].todo = {}
    /\ call' = [call EXCEPT ![c] = NoCall]
    /\ UNCHANGED <<mode, server, policyVars, scheduleVars, active, history, used>>

-----------------------------------------------------------------------------
(* The server, and a process that ends and starts again.                   *)

Publish ==
    /\ server + 1 \in Policies /\ server' = server + 1
    /\ UNCHANGED <<mode, policyVars, call, scheduleVars, active, history, used>>

\* The state, the schedule and the goroutines are gone; the database is not. What was
\* marked and not yet started stays so.
Restart(p) ==
    LET gone == {c \in Callers : Home(c) = p} IN
    /\ Spend("restarts", MaxRestarts)
    /\ held' = [held EXCEPT ![p] = 0]
    /\ cron' = [cron EXCEPT ![p] = {}] /\ entries' = [entries EXCEPT ![p] = {}]
    /\ active' = {a \in active : a[1] # p}
    /\ call' = [c \in Callers |-> IF c \in gone THEN NoCall ELSE call[c]]
    /\ unstarted' = unstarted \cup {x \in Policies \X Tasks :
                        \E c \in gone : call[c].answer = x[1] /\ <<x[2], "starting">> \in call[c].todo}
    /\ overlapped' = overlapped \ {p}
    /\ UNCHANGED <<mode, server, saved, markers, starts, raced>>

-----------------------------------------------------------------------------
Init ==
    /\ mode \in {"standalone", "connected"} /\ server = 1
    /\ held = [p \in Processes |-> 0] /\ saved = 0 /\ markers = {}
    /\ call = [c \in Callers |-> NoCall]
    /\ cron = [p \in Processes |-> {}] /\ entries = [p \in Processes |-> {}] /\ active = {}
    /\ starts = [x \in Policies \X Tasks |-> 0] /\ unstarted = {} /\ raced = {} /\ overlapped = {}
    /\ used = [b \in {"faults", "restarts"} |-> 0]

\* What a refresh does once it has begun.
Goes(c) ==
    \/ Answer(c) \/ Save(c) \/ Store(c) \/ Unschedule(c) \/ Reconcile(c) \/ Refreshed(c)
    \/ \E t \in Tasks : Schedule(c, t) \/ LookForMarker(c, t) \/ Mark(c, t) \/ Start(c, t)

Next ==
    \/ \E c \in Callers : Ask(c) \/ Goes(c) \/ AskFails(c)
    \/ \E p \in Processes, t \in Tasks : Ended(p, t)
    \/ Publish \/ \E p \in Processes : Restart(p)

Spec == Init /\ [][Next]_vars

\* A refresh goes on and the loop begins another; the sync coordinator need not.
Fairness == WF_vars(Ask("loop")) /\ \A c \in Callers : WF_vars(Goes(c))
FairSpec == Spec /\ Fairness

-----------------------------------------------------------------------------
(* Properties.                                                             *)

\* The ranges of the variables.
TypeOK ==
    /\ mode \in {"standalone", "connected"} /\ server \in Policies
    /\ held \in [Processes -> Policies \cup {0}] /\ saved \in Policies \cup {0}
    /\ markers \subseteq Policies \X Tasks
    /\ call \in [Callers -> [pc : {"idle", "asking", "answered", "saved", "stored", "scheduling", "triggering"},
                             known : Policies \cup {0}, base : Policies \cup {0}, answer : Policies \cup {0},
                             todo : SUBSET (Tasks \X {"recurring", "immediate", "marking", "starting"})]]
    /\ cron \in [Processes -> SUBSET (Tasks \X Callers)]
    /\ entries \in [Processes -> SUBSET (Tasks \X Callers)]
    /\ active \subseteq Processes \X Tasks /\ starts \in [Policies \X Tasks -> Nat]
    /\ unstarted \subseteq Policies \X Tasks /\ raced \subseteq Policies \X Tasks
    /\ overlapped \subseteq Processes /\ used \in [{"faults", "restarts"} -> Nat]

\* A task to be run at once is started at most once per policy, by either process and
\* over restarts, unless two refreshes looked for its marker before either set it.
ImmediateOnce == \A x \in Policies \X Tasks : starts[x] <= 1 \/ x \in raced

\* A marker means that the task was started or is about to be, unless an execution of
\* it from an older policy was still active, or the process ended in between.
MarkedIsStarted ==
    \A x \in markers : \/ starts[x] > 0 \/ x \in unstarted
                       \/ \E c \in Callers : call[c].answer = x[1] /\ <<x[2], "starting">> \in call[c].todo

\* The cron instance holds the entries on record and no other, unless two refreshes
\* rebuilt the schedule at the same time: then one that nobody removes may stay.
NoStrayEntry == \A p \in Processes : cron[p] = entries[p] \/ p \in overlapped

\* However the two refreshes overlap, the policy that the periodic one works with, and
\* the saved one, become those of the server, and its recurring tasks are scheduled.
PolicySettles ==
    LET p == Home("loop") IN
    /\ <>[](saved = server /\ held[p] = server)
    /\ []<>(Recurring(server) \subseteq {e[1] : e \in cron[p]})

\* What the tasks' refreshes leave behind stands for what it says: a marker for one
\* start, and the schedule on record for the one that runs.
MarkersAreSound == ImmediateOnce /\ MarkedIsStarted /\ NoStrayEntry
=============================================================================
