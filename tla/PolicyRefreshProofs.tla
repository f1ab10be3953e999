------------------------- MODULE PolicyRefreshProofs -------------------------
(***************************************************************************)
(* Proofs about PolicyRefresh, for every list of policies, their tasks and *)
(* triggers, and every bound: types, and that the markers, the starts and  *)
(* the schedule fit together however two refreshes and the restarts of     *)
(* their processes interleave.                                             *)
(***************************************************************************)
EXTENDS PolicyRefresh, TLAPS

Pcs == {"idle", "asking", "answered", "saved", "stored", "scheduling", "triggering"}
Tags == {"recurring", "immediate", "marking", "starting"}
Calls == [pc : Pcs, known : Policies \cup {0}, base : Policies \cup {0}, answer : Policies \cup {0},
          todo : SUBSET (Tasks \X Tags)]

\* What a refresh has left to do belongs to the step that it is in, and to a policy of
\* the server; of a task, it has one thing left to do.
TodoInv ==
    \A c \in Callers :
        /\ call[c].pc \notin {"scheduling", "triggering"} => call[c].todo = {}
        /\ call[c].pc = "scheduling" => call[c].todo \subseteq Tasks \X {"recurring"}
        /\ call[c].pc = "triggering" => call[c].todo \subseteq Tasks \X {"immediate", "marking", "starting"}
        /\ call[c].pc = "asking" => call[c].known = call[c].base
        /\ call[c].pc \notin {"idle", "asking"} => call[c].answer \in Policies
        /\ \A t \in Tasks, a, b \in Tags \ {"recurring"} :
              <<t, a>> \in call[c].todo /\ <<t, b>> \in call[c].todo => a = b

\* A refresh that found no marker, or has set it, and has not started the task.
Holds(c, x) ==
    /\ call[c].answer = x[1]
    /\ <<x[2], "marking">> \in call[c].todo \/ <<x[2], "starting">> \in call[c].todo

\* What is started, or about to be, is marked; and unless two looked at once, one
\* refresh at a time holds a task, of which nothing was started.
StartInv ==
    /\ \A x \in Policies \X Tasks : starts[x] > 0 => x \in markers
    /\ \A x \in Policies \X Tasks, c \in Callers :
          call[c].answer = x[1] /\ <<x[2], "starting">> \in call[c].todo => x \in markers
    /\ \A x \in (Policies \X Tasks) \ raced :
          /\ starts[x] <= 1
          /\ \A c \in Callers : Holds(c, x) => starts[x] = 0
          /\ \A c, d \in Callers : Holds(c, x) /\ Holds(d, x) => c = d

\* Where no two refreshes rebuild the schedule at once, one that does has on record no
\* entry of a task it still has to schedule.
ScheduleInv ==
    \A p \in Processes \ overlapped :
        /\ cron[p] = entries[p]
        /\ \A c, d \in Callers : call[c].pc = "scheduling" /\ Home(c) = p
                                 /\ call[d].pc = "scheduling" /\ Home(d) = p => c = d
        /\ \A c \in Callers, t \in Tasks :
              Home(c) = p /\ <<t, "recurring">> \in call[c].todo => \A e \in entries[p] : e[1] # t

Inv == TypeOK /\ TodoInv /\ StartInv /\ MarkedIsStarted /\ ScheduleInv

-----------------------------------------------------------------------------
\* What the proofs need of the constants.
LEMMA PolicyFacts ==
  /\ Policies \subseteq Nat /\ 1 \in Policies /\ 0 \notin Policies
  /\ \A v : Recurring(v) \subseteq TasksOf(v) /\ ToStart(v) \subseteq TasksOf(v)
  /\ \A v \in Policies \cup {0} : TasksOf(v) \subseteq Tasks
BY PolicyAssumption DEF PolicyAssumption, Policies, Recurring, ToStart, TasksOf

LEMMA HomeType == \A c : Home(c) \in Processes
BY DEF Home, Processes

LEMMA InitInv == Init => Inv
<1> SUFFICES ASSUME Init PROVE Inv
  OBVIOUS
<1>1. call = [c \in Callers |-> NoCall] /\ NoCall \in Calls /\ NoCall.todo = {} /\ NoCall.pc = "idle"
  BY DEF Init, NoCall, Calls, Pcs
<1>2. TypeOK
  <2>1. call \in [Callers -> Calls]
    BY <1>1
  <2>2. /\ held \in [Processes -> Policies \cup {0}] /\ server \in Policies
        /\ cron \in [Processes -> SUBSET (Tasks \X Callers)]
        /\ entries \in [Processes -> SUBSET (Tasks \X Callers)]
        /\ starts \in [Policies \X Tasks -> Nat] /\ used \in [{"faults", "restarts"} -> Nat]
    BY PolicyFacts DEF Init
  <2> QED BY <2>1, <2>2 DEF Init, TypeOK, Calls, Pcs, Tags
<1>3. TodoInv
  BY <1>1 DEF TodoInv
<1>4. StartInv
  <2>1. \A x \in Policies \X Tasks : starts[x] = 0
    BY DEF Init
  <2>2. \A c \in Callers : \A x : ~Holds(c, x)
    BY <1>1 DEF Holds
  <2> QED BY <1>1, <2>1, <2>2 DEF StartInv
<1>5. MarkedIsStarted
  BY DEF Init, MarkedIsStarted
<1>6. ScheduleInv
  BY <1>1 DEF Init, ScheduleInv
<1> QED BY <1>2, <1>3, <1>4, <1>5, <1>6 DEF Inv

\* The typed state, as the steps use it.
LEMMA CallTypes ==
  ASSUME TypeOK, NEW c \in Callers
  PROVE  /\ call \in [Callers -> Calls] /\ call[c] \in Calls
         /\ call[c].pc \in Pcs /\ call[c].answer \in Policies \cup {0}
         /\ call[c].known \in Policies \cup {0} /\ call[c].base \in Policies \cup {0}
         /\ call[c].todo \subseteq Tasks \X Tags
<1>1. call \in [Callers -> Calls]
  BY DEF TypeOK, Calls, Pcs, Tags
<1> QED BY <1>1 DEF Calls

\* A step of one refresh: the other's call stays as it was.
StepOf(c) ==
    /\ call' \in [Callers -> Calls]
    /\ \A d \in Callers : d # c => call'[d] = call[d]

\* A step of a refresh that neither marks, nor starts, nor schedules a task.
Quiet(c) ==
    /\ StepOf(c) /\ UNCHANGED <<mode, markers, scheduleVars, starts, unstarted, raced, overlapped, active>>
    /\ call'[c].pc # "scheduling"
    /\ \A t \in Tasks, a \in {"recurring", "marking", "starting"} : <<t, a>> \notin call'[c].todo
    /\ \A t \in Tasks : <<t, "starting">> \notin call[c].todo

\* Who neither begins to rebuild a schedule nor adds to what is left of it disturbs none.
LEMMA ScheduleKept ==
  ASSUME ScheduleInv, mode' = mode, cron' = cron, entries' = entries, overlapped' = overlapped,
         NEW c \in Callers, \A d \in Callers : d # c => call'[d] = call[d],
         call'[c].pc # "scheduling", \A t \in Tasks : <<t, "recurring">> \notin call'[c].todo
  PROVE  ScheduleInv'
<1>1. \A d : Home(d)' = Home(d)
  BY DEF Home
<1>2. \A d \in Callers : call'[d].pc = "scheduling" => call[d].pc = "scheduling"
  OBVIOUS
<1>3. \A d \in Callers : \A t \in Tasks : <<t, "recurring">> \in call'[d].todo => <<t, "recurring">> \in call[d].todo
  OBVIOUS
<1>4. ASSUME NEW p \in Processes \ overlapped
      PROVE  /\ cron[p] = entries[p]
             /\ \A a, b \in Callers : call'[a].pc = "scheduling" /\ Home(a)' = p
                   /\ call'[b].pc = "scheduling" /\ Home(b)' = p => a = b
             /\ \A a \in Callers, t \in Tasks :
                   Home(a)' = p /\ <<t, "recurring">> \in call'[a].todo => \A e \in entries[p] : e[1] # t
  <2>1. /\ cron[p] = entries[p]
        /\ \A a, b \in Callers : call[a].pc = "scheduling" /\ Home(a) = p
              /\ call[b].pc = "scheduling" /\ Home(b) = p => a = b
        /\ \A a \in Callers, t \in Tasks :
              Home(a) = p /\ <<t, "recurring">> \in call[a].todo => \A e \in entries[p] : e[1] # t
    BY DEF ScheduleInv
  <2>2. \A a, b \in Callers : call'[a].pc = "scheduling" /\ Home(a)' = p
                   /\ call'[b].pc = "scheduling" /\ Home(b)' = p => a = b
    BY <1>1, <1>2, <2>1
  <2>3. ASSUME NEW a \in Callers, NEW t \in Tasks, Home(a)' = p, <<t, "recurring">> \in call'[a].todo,
               NEW e \in entries[p]
        PROVE  e[1] # t
    <3>1. Home(a) = p /\ <<t, "recurring">> \in call[a].todo
      BY <1>1, <1>3, <2>3
    <3> QED BY <2>1, <3>1
  <2> QED BY <2>1, <2>2, <2>3
<1> QED BY <1>4 DEF ScheduleInv

LEMMA QuietInv ==
  ASSUME Inv, NEW c \in Callers, Quiet(c)
  PROVE  StartInv' /\ MarkedIsStarted' /\ ScheduleInv'
<1>1. \A d \in Callers : d # c => call'[d] = call[d]
  BY DEF Quiet, StepOf
<1>2. UNCHANGED <<mode, markers, starts, unstarted, raced, overlapped, cron, entries>>
  BY DEF Quiet, scheduleVars
<1>3. \A d \in Callers, x \in Policies \X Tasks : Holds(d, x)' => Holds(d, x) /\ d # c
  BY <1>1 DEF Holds, Quiet
<1>4. StartInv'
  <2>1. \A x \in Policies \X Tasks, d \in Callers :
          call'[d].answer = x[1] /\ <<x[2], "starting">> \in call'[d].todo => x \in markers'
    BY <1>1, <1>2 DEF Inv, StartInv, Quiet
  <2> QED BY <1>2, <1>3, <2>1 DEF Inv, StartInv
<1>5. MarkedIsStarted'
  <2> SUFFICES ASSUME NEW x \in markers
               PROVE  \/ starts[x] > 0 \/ x \in unstarted
                      \/ \E d \in Callers : call'[d].answer = x[1] /\ <<x[2], "starting">> \in call'[d].todo
    BY <1>2 DEF MarkedIsStarted
  <2>1. x[2] \in Tasks
    BY DEF Inv, TypeOK
  <2> QED BY <1>1, <2>1 DEF Inv, MarkedIsStarted, Quiet
<1>6. ScheduleInv'
  BY <1>1, <1>2, ScheduleKept DEF Inv, Quiet
<1> QED BY <1>4, <1>5, <1>6

\* The steps of a refresh up to the schedule, the end of it, and the way from the schedule
\* to the tasks to be started.
LEMMA QuietSteps ==
  ASSUME Inv, NEW c \in Callers,
         Ask(c) \/ Answer(c) \/ AskFails(c) \/ Save(c) \/ Store(c) \/ Reconcile(c) \/ Refreshed(c)
  PROVE  Inv'
<1>0. /\ call \in [Callers -> Calls] /\ call[c] \in Calls /\ call[c].answer \in Policies \cup {0}
      /\ call[c].todo \subseteq Tasks \X Tags
  BY CallTypes DEF Inv
<1>1. Home(c) \in Processes
  BY HomeType
<1>2. UNCHANGED <<mode, markers, cron, entries, starts, unstarted, raced, overlapped, active>>
  BY DEF Ask, Answer, AskFails, Save, Store, Reconcile, Refreshed, history, scheduleVars, policyVars
<1> DEFINE next == call'[c]
           Fine == /\ StepOf(c)
                   /\ \A t \in Tasks : <<t, "starting">> \notin call[c].todo
                   /\ next.pc # "scheduling"
                   /\ next.pc # "triggering" => next.todo = {}
                   /\ next.pc = "triggering" => next.todo \subseteq Tasks \X {"immediate"}
                   /\ next.pc = "asking" => next.known = next.base
                   /\ next.pc \notin {"idle", "asking"} => next.answer \in Policies
<1>3. Fine
  <2>1. CASE Ask(c)
    <3>1. /\ call' = [call EXCEPT ![c].pc = "asking", ![c].base = held'[Home(c)], ![c].known = held'[Home(c)]]
          /\ held' = [held EXCEPT ![Home(c)] = IF @ = 0 THEN saved ELSE @]
          /\ call[c].pc = "idle"
      BY <2>1 DEF Ask, Known
    <3>2. held'[Home(c)] \in Policies \cup {0}
      BY <1>1, <3>1 DEF Inv, TypeOK
    <3>3. call[c].todo = {}
      BY <3>1 DEF Inv, TodoInv
    <3>4. [call[c] EXCEPT !.pc = "asking", !.base = held'[Home(c)], !.known = held'[Home(c)]] \in Calls
      BY <1>0, <3>2 DEF Calls, Pcs
    <3> QED BY <1>0, <3>1, <3>3, <3>4 DEF StepOf, Calls
  <2>2. CASE Answer(c)
    <3> DEFINE got == IF call[c].known = server THEN call[c].base ELSE server
    <3>1. /\ call' = [call EXCEPT ![c].pc = "answered", ![c].known = 0, ![c].base = 0, ![c].answer = got]
          /\ call[c].pc = "asking"
      BY <2>2 DEF Answer
    <3>2. call[c].todo = {} /\ call[c].known = call[c].base
      BY <3>1 DEF Inv, TodoInv
    <3>3. got \in Policies
      BY <3>2 DEF Inv, TypeOK
    <3> HIDE DEF got
    <3>4. [call[c] EXCEPT !.pc = "answered", !.known = 0, !.base = 0, !.answer = got] \in Calls
      BY <1>0, <3>3 DEF Calls, Pcs
    <3> QED BY <1>0, <3>1, <3>2, <3>3, <3>4 DEF StepOf, Calls
  <2>3. CASE AskFails(c) \/ Refreshed(c)
    <3>0. NoCall \in Calls /\ NoCall.todo = {} /\ NoCall.pc = "idle"
      BY DEF NoCall, Calls, Pcs
    <3>1. call' = [call EXCEPT ![c] = NoCall] /\ (call[c].pc = "asking" \/ call[c].todo = {})
      BY <2>3 DEF AskFails, Refreshed
    <3>2. call[c].todo = {}
      BY <3>1 DEF Inv, TodoInv
    <3> QED BY <1>0, <3>0, <3>1, <3>2 DEF StepOf
  <2>4. CASE Save(c) \/ Store(c)
    <3>1. PICK pc \in {"saved", "stored"} : call' = [call EXCEPT ![c].pc = pc]
      BY <2>4 DEF Save, Store, Goto
    <3>2. call[c].pc \in {"answered", "saved"}
      BY <2>4 DEF Save, Store, Goto
    <3>3. call[c].todo = {} /\ call[c].answer \in Policies
      BY <3>2 DEF Inv, TodoInv
    <3>4. [call[c] EXCEPT !.pc = pc] \in Calls
      BY <1>0 DEF Calls, Pcs
    <3> QED BY <1>0, <3>1, <3>3, <3>4 DEF StepOf, Calls
  <2>5. CASE Reconcile(c)
    <3> DEFINE todo == ToStart(call[c].answer) \X {"immediate"}
    <3>1. /\ call' = [call EXCEPT ![c].pc = "triggering", ![c].todo = todo]
          /\ call[c].pc = "scheduling" /\ call[c].todo = {}
      BY <2>5 DEF Reconcile
    <3>2. call[c].answer \in Policies
      BY <3>1 DEF Inv, TodoInv
    <3>3. todo \subseteq Tasks \X {"immediate"} /\ todo \subseteq Tasks \X Tags
      BY <1>0, PolicyFacts DEF Tags
    <3> HIDE DEF todo
    <3>4. [call[c] EXCEPT !.pc = "triggering", !.todo = todo] \in Calls
      BY <1>0, <3>3 DEF Calls, Pcs
    <3> QED BY <1>0, <3>1, <3>2, <3>3, <3>4 DEF StepOf, Calls
  <2> QED BY <2>1, <2>2, <2>3, <2>4, <2>5
<1>4. StartInv' /\ MarkedIsStarted' /\ ScheduleInv'
  <2>1. next.pc = "triggering" \/ next.todo = {}
    BY <1>3
  <2>2. \A t \in Tasks, a \in {"recurring", "marking", "starting"} : <<t, a>> \notin next.todo
    BY <1>3, <2>1
  <2>3. Quiet(c)
    BY <1>2, <1>3, <2>2 DEF Quiet, scheduleVars
  <2> QED BY <2>3, QuietInv
<1>5. TodoInv'
  <2>1. \A t \in Tasks, a, b \in Tags \ {"recurring"} :
              <<t, a>> \in next.todo /\ <<t, b>> \in next.todo => a = b
    <3>1. CASE next.todo = {}
      BY <3>1
    <3>2. CASE next.todo \subseteq Tasks \X {"immediate"}
      BY <3>2
    <3> QED BY <1>3, <3>1, <3>2
  <2>2. next.pc = "triggering" => next.todo \subseteq Tasks \X {"immediate", "marking", "starting"}
    BY <1>3
  <2> QED BY <1>3, <2>1, <2>2 DEF Inv, TodoInv, StepOf
<1>6. TypeOK'
  <2>1. /\ held' \in [Processes -> Policies \cup {0}] /\ saved' \in Policies \cup {0}
        /\ used' \in [{"faults", "restarts"} -> Nat] /\ server' = server
    <3>1. CASE Ask(c)
      BY <1>1, <3>1 DEF Ask, Inv, TypeOK
    <3>2. CASE AskFails(c)
      BY <3>2 DEF AskFails, Spend, policyVars, Inv, TypeOK
    <3>3. CASE Save(c)
      BY <1>0, <3>3 DEF Save, Inv, TypeOK
    <3>4. CASE Store(c)
      BY <1>0, <1>1, <3>4 DEF Store, Inv, TypeOK
    <3>5. CASE Answer(c) \/ Reconcile(c) \/ Refreshed(c)
      BY <3>5 DEF Answer, Reconcile, Refreshed, policyVars, Inv, TypeOK
    <3> QED BY <3>1, <3>2, <3>3, <3>4, <3>5
  <2>2. call' \in [Callers -> Calls]
    BY <1>3 DEF StepOf
  <2> QED BY <1>2, <2>1, <2>2 DEF Inv, TypeOK, Calls, Pcs, Tags
<1> QED BY <1>4, <1>5, <1>6 DEF Inv

-----------------------------------------------------------------------------
\* The schedule is rebuilt: the entries on record are removed ...
LEMMA UnscheduleInv ==
  ASSUME Inv, NEW c \in Callers, Unschedule(c)
  PROVE  Inv'
<1>0. /\ call \in [Callers -> Calls] /\ call[c] \in Calls /\ call[c].answer \in Policies \cup {0}
      /\ call[c].todo \subseteq Tasks \X Tags /\ Home(c) \in Processes
  BY CallTypes, HomeType DEF Inv
<1> DEFINE p == Home(c)
           todo == Recurring(call[c].answer) \X {"recurring"}
           other == \E d \in Callers \ {c} : call[d].pc = "scheduling" /\ Home(d) = p
<1>1. /\ call[c].pc = "stored"
      /\ call' = [call EXCEPT ![c].pc = "scheduling", ![c].todo = todo]
      /\ cron' = [cron EXCEPT ![p] = @ \ entries[p]] /\ entries' = [entries EXCEPT ![p] = {}]
      /\ overlapped' = IF other THEN overlapped \cup {p} ELSE overlapped
      /\ UNCHANGED <<mode, server, held, saved, markers, active, starts, unstarted, raced, used>>
  BY DEF Unschedule, Removed, policyVars
<1>2. call[c].answer \in Policies /\ call[c].todo = {}
  BY <1>1 DEF Inv, TodoInv
<1>3. todo \subseteq Tasks \X {"recurring"} /\ todo \subseteq Tasks \X Tags
  BY <1>2, PolicyFacts DEF Tags
<1> HIDE DEF todo
<1>4. [call[c] EXCEPT !.pc = "scheduling", !.todo = todo] \in Calls
  BY <1>0, <1>3 DEF Calls, Pcs
<1>5. /\ StepOf(c) /\ call'[c].pc = "scheduling" /\ call'[c].todo = todo
      /\ call'[c].answer = call[c].answer
  BY <1>0, <1>1, <1>4 DEF StepOf, Calls
<1>6. \A d \in Callers, x \in Policies \X Tasks : Holds(d, x)' => Holds(d, x) /\ d # c
  BY <1>3, <1>5 DEF Holds, StepOf
<1>7. \A t \in Tasks, a \in {"marking", "starting"} : <<t, a>> \notin call'[c].todo
  BY <1>3, <1>5
<1>8. StartInv'
  <2>1. \A x \in Policies \X Tasks, d \in Callers :
          call'[d].answer = x[1] /\ <<x[2], "starting">> \in call'[d].todo => x \in markers
    BY <1>5, <1>7 DEF Inv, StartInv, StepOf
  <2> QED BY <1>1, <1>6, <2>1 DEF Inv, StartInv
<1>9. MarkedIsStarted'
  BY <1>1, <1>2, <1>5 DEF Inv, MarkedIsStarted, StepOf
<1>10. TodoInv'
  <2>1. \A t \in Tasks, a, b \in Tags \ {"recurring"} :
              <<t, a>> \in call'[c].todo /\ <<t, b>> \in call'[c].todo => a = b
    BY <1>3, <1>5
  <2> QED BY <1>2, <1>3, <1>5, <2>1 DEF Inv, TodoInv, StepOf
<1>11. cron \in [Processes -> SUBSET (Tasks \X Callers)] /\ entries \in [Processes -> SUBSET (Tasks \X Callers)]
  BY DEF Inv, TypeOK
<1>12. TypeOK'
  <2>1. /\ cron' \in [Processes -> SUBSET (Tasks \X Callers)]
        /\ entries' \in [Processes -> SUBSET (Tasks \X Callers)] /\ overlapped' \subseteq Processes
    BY <1>0, <1>1, <1>11 DEF Inv, TypeOK
  <2> QED BY <1>1, <1>5, <2>1 DEF Inv, TypeOK, StepOf, Calls, Pcs, Tags
<1>13. ScheduleInv'
  <2>1. \A d : Home(d)' = Home(d)
    BY <1>1 DEF Home
  <2>2. overlapped \subseteq overlapped'
    BY <1>1
  <2>3. ASSUME NEW q \in Processes \ overlapped' PROVE cron'[q] = entries'[q]
    BY <1>0, <1>1, <1>11, <2>2, <2>3 DEF Inv, ScheduleInv
  <2>4. ASSUME NEW q \in Processes \ overlapped', NEW a \in Callers, NEW b \in Callers,
               call'[a].pc = "scheduling", Home(a) = q, call'[b].pc = "scheduling", Home(b) = q, a # b
        PROVE  FALSE
    <3>1. CASE a = c \/ b = c
      <4>1. PICK d \in Callers \ {c} : call'[d].pc = "scheduling" /\ Home(d) = q /\ q = p
        BY <2>4, <3>1
      <4>2. other
        BY <1>5, <4>1 DEF StepOf
      <4> QED BY <1>1, <2>4, <4>1, <4>2
    <3>2. CASE a # c /\ b # c
      BY <1>5, <2>2, <2>4, <3>2 DEF StepOf, Inv, ScheduleInv
    <3> QED BY <3>1, <3>2
  <2>5. ASSUME NEW q \in Processes \ overlapped', NEW a \in Callers, NEW t \in Tasks,
               Home(a) = q, <<t, "recurring">> \in call'[a].todo, NEW e \in entries'[q]
        PROVE  e[1] # t
    <3>1. q # p
      BY <1>0, <1>1, <1>11, <2>5
    <3>2. a # c /\ entries'[q] = entries[q] /\ call'[a] = call[a]
      BY <1>1, <1>5, <1>11, <2>5, <3>1 DEF StepOf
    <3> QED BY <2>2, <2>5, <3>2 DEF Inv, ScheduleInv
  <2> QED BY <2>1, <2>3, <2>4, <2>5 DEF ScheduleInv
<1> QED BY <1>8, <1>9, <1>10, <1>12, <1>13 DEF Inv

\* ... and those of the policy are added.
LEMMA ScheduleStep ==
  ASSUME Inv, NEW c \in Callers, NEW t \in Tasks, Schedule(c, t)
  PROVE  Inv'
<1>0. /\ call \in [Callers -> Calls] /\ call[c] \in Calls /\ call[c].answer \in Policies \cup {0}
      /\ call[c].todo \subseteq Tasks \X Tags /\ Home(c) \in Processes
  BY CallTypes, HomeType DEF Inv
<1> DEFINE p == Home(c)
           todo == call[c].todo \ {<<t, "recurring">>}
<1>1. /\ <<t, "recurring">> \in call[c].todo
      /\ call' = [call EXCEPT ![c].todo = todo]
      /\ cron' = [cron EXCEPT ![p] = @ \cup {<<t, c>>}]
      /\ entries' = [entries EXCEPT ![p] = {e \in @ : e[1] # t} \cup {<<t, c>>}]
      /\ UNCHANGED <<mode, server, held, saved, markers, active, starts, unstarted, raced, overlapped, used>>
  BY DEF Schedule, policyVars, history
<1>2. call[c].pc = "scheduling"
  BY <1>1 DEF Inv, TodoInv, Pcs
<1>3. todo \subseteq call[c].todo /\ todo \subseteq Tasks \X Tags
  BY <1>0
<1>4. [call[c] EXCEPT !.todo = todo] \in Calls
  BY <1>0, <1>3 DEF Calls
<1>5. /\ StepOf(c) /\ call'[c].pc = "scheduling" /\ call'[c].todo = todo
      /\ call'[c].answer = call[c].answer
  BY <1>0, <1>1, <1>2, <1>4 DEF StepOf, Calls
<1>6. \A d \in Callers, x \in Policies \X Tasks : Holds(d, x)' => Holds(d, x)
  BY <1>3, <1>5 DEF Holds, StepOf
<1>7. StartInv'
  <2>1. \A x \in Policies \X Tasks, d \in Callers :
          call'[d].answer = x[1] /\ <<x[2], "starting">> \in call'[d].todo => x \in markers
    BY <1>5 DEF Inv, StartInv, StepOf
  <2> QED BY <1>1, <1>6, <2>1 DEF Inv, StartInv
<1>8. MarkedIsStarted'
  <2>1. \A d \in Callers, u \in Tasks : <<u, "starting">> \in call[d].todo => <<u, "starting">> \in call'[d].todo
    BY <1>5 DEF StepOf
  <2>2. \A d \in Callers : call'[d].answer = call[d].answer
    BY <1>5 DEF StepOf
  <2>3. \A x \in markers : x[2] \in Tasks
    BY DEF Inv, TypeOK
  <2> QED BY <1>1, <2>1, <2>2, <2>3 DEF Inv, MarkedIsStarted
<1>9. TodoInv'
  <2>1. \A d \in Callers : /\ call'[d].pc = call[d].pc /\ call'[d].answer = call[d].answer
                            /\ call'[d].todo \subseteq call[d].todo
    BY <1>2, <1>3, <1>5 DEF StepOf
  <2>2. \A d \in Callers : call'[d].pc = "asking" => call'[d].known = call'[d].base
    BY <1>5 DEF Inv, TodoInv, StepOf
  <2> QED BY <2>1, <2>2 DEF Inv, TodoInv
<1>10. cron \in [Processes -> SUBSET (Tasks \X Callers)] /\ entries \in [Processes -> SUBSET (Tasks \X Callers)]
  BY DEF Inv, TypeOK
<1>11. TypeOK'
  <2>1. /\ cron' \in [Processes -> SUBSET (Tasks \X Callers)]
        /\ entries' \in [Processes -> SUBSET (Tasks \X Callers)]
    BY <1>0, <1>1, <1>10
  <2> QED BY <1>1, <1>5, <2>1 DEF Inv, TypeOK, StepOf, Calls, Pcs, Tags
<1>12. ScheduleInv'
  <2>1. \A d : Home(d)' = Home(d)
    BY <1>1 DEF Home
  <2>2. ASSUME NEW q \in Processes \ overlapped PROVE cron'[q] = entries'[q]
    <3>1. CASE q = p
      <4>1. cron[p] = entries[p] /\ \A e \in entries[p] : e[1] # t
        BY <1>1, <2>2, <3>1 DEF Inv, ScheduleInv
      <4>2. cron'[p] = cron[p] \cup {<<t, c>>} /\ entries'[p] = {e \in entries[p] : e[1] # t} \cup {<<t, c>>}
        BY <1>0, <1>1, <1>10
      <4> QED BY <3>1, <4>1, <4>2
    <3>2. CASE q # p
      BY <1>1, <1>10, <2>2, <3>2 DEF Inv, ScheduleInv
    <3> QED BY <3>1, <3>2
  <2>3. \A d \in Callers : call'[d].pc = call[d].pc
    BY <1>2, <1>5 DEF StepOf
  <2>4. ASSUME NEW q \in Processes \ overlapped, NEW a \in Callers, NEW u \in Tasks,
               Home(a) = q, <<u, "recurring">> \in call'[a].todo, NEW e \in entries'[q]
        PROVE  e[1] # u
    <3>1. <<u, "recurring">> \in call[a].todo
      BY <1>3, <1>5, <2>4 DEF StepOf
    <3>2. CASE e \in entries[q]
      BY <2>4, <3>1, <3>2 DEF Inv, ScheduleInv
    <3>3. CASE e \notin entries[q]
      <4>1. q = p /\ e = <<t, c>>
        BY <1>0, <1>1, <1>10, <2>4, <3>3
      <4>2. a = c
        <5>1. call[a].pc = "scheduling"
          BY <3>1 DEF Inv, TodoInv, Pcs
        <5> QED BY <1>2, <2>4, <4>1, <5>1 DEF Inv, ScheduleInv
      <4> QED BY <1>5, <2>4, <4>1, <4>2
    <3> QED BY <3>2, <3>3
  <2>5. \A q \in Processes \ overlapped, a, b \in Callers :
          call'[a].pc = "scheduling" /\ Home(a) = q /\ call'[b].pc = "scheduling" /\ Home(b) = q => a = b
    BY <2>3 DEF Inv, ScheduleInv
  <2>6. overlapped' = overlapped
    BY <1>1
  <2>7. ASSUME NEW q \in Processes \ overlapped'
        PROVE  /\ cron'[q] = entries'[q]
               /\ \A a, b \in Callers : call'[a].pc = "scheduling" /\ Home(a)' = q
                     /\ call'[b].pc = "scheduling" /\ Home(b)' = q => a = b
               /\ \A a \in Callers, u \in Tasks :
                     Home(a)' = q /\ <<u, "recurring">> \in call'[a].todo => \A e \in entries'[q] : e[1] # u
    <3>1. q \in Processes \ overlapped
      BY <2>6
    <3> QED BY <2>1, <2>2, <2>4, <2>5, <3>1
  <2> QED BY <2>7 DEF ScheduleInv
<1> QED BY <1>7, <1>8, <1>9, <1>11, <1>12 DEF Inv

-----------------------------------------------------------------------------
\* The marker of a task is looked for: whoever finds none goes on to set it, and is
\* the only one, or the two raced.
LEMMA LookStep ==
  ASSUME Inv, NEW c \in Callers, NEW t \in Tasks, LookForMarker(c, t)
  PROVE  Inv'
<1>0. /\ call \in [Callers -> Calls] /\ call[c] \in Calls /\ call[c].answer \in Policies \cup {0}
      /\ call[c].todo \subseteq Tasks \X Tags /\ Home(c) \in Processes
  BY CallTypes, HomeType DEF Inv
<1> DEFINE x == <<call[c].answer, t>>
           todo == (call[c].todo \ {<<t, "immediate">>}) \cup IF x \in markers THEN {} ELSE {<<t, "marking">>}
           others == {d \in Callers \ {c} : <<t, "marking">> \in call[d].todo /\ call[d].answer = x[1]}
<1>1. /\ call[c].pc = "triggering" /\ <<t, "immediate">> \in call[c].todo
      /\ call' = [call EXCEPT ![c].todo = todo]
      /\ raced' = IF x \notin markers /\ others # {} THEN raced \cup {x} ELSE raced
      /\ UNCHANGED <<mode, server, held, saved, markers, cron, entries, active, starts, unstarted, overlapped, used>>
  BY DEF LookForMarker, policyVars, scheduleVars
<1>2. call[c].answer \in Policies /\ x \in Policies \X Tasks /\ x[1] = call[c].answer /\ x[2] = t
  BY <1>1 DEF Inv, TodoInv
<1>3. /\ todo \subseteq Tasks \X Tags /\ call[c].todo \subseteq Tasks \X {"immediate", "marking", "starting"}
      /\ \A a \in Tags \ {"recurring"} : <<t, a>> \in call[c].todo => a = "immediate"
  BY <1>0, <1>1 DEF Inv, TodoInv, Tags
<1>4. /\ \A u \in Tasks, a \in {"recurring", "immediate", "starting"} : <<u, a>> \in todo => <<u, a>> \in call[c].todo
      /\ \A u \in Tasks : <<u, "starting">> \in call[c].todo => <<u, "starting">> \in todo
      /\ \A u \in Tasks : u # t => \A a \in Tags : <<u, a>> \in todo <=> <<u, a>> \in call[c].todo
      /\ <<t, "marking">> \in todo => x \notin markers
      /\ \A a \in Tags : <<t, a>> \in todo => a = "marking"
  <2>1. \A a \in Tags : <<t, a>> \in call[c].todo => a = "immediate"
    BY <1>3 DEF Tags
  <2> QED BY <1>3, <2>1
<1>5. todo \subseteq Tasks \X {"immediate", "marking", "starting"}
  BY <1>3
<1> HIDE DEF todo
<1>6. [call[c] EXCEPT !.todo = todo] \in Calls
  BY <1>0, <1>3 DEF Calls
<1>7. /\ StepOf(c) /\ call'[c].pc = "triggering" /\ call'[c].todo = todo
      /\ call'[c].answer = call[c].answer
  BY <1>0, <1>1, <1>6 DEF StepOf, Calls
<1>8. StartInv'
  <2>1. \A y \in Policies \X Tasks, d \in Callers :
          call'[d].answer = y[1] /\ <<y[2], "starting">> \in call'[d].todo => y \in markers
    <3>1. \A d \in Callers : \A u \in Tasks : <<u, "starting">> \in call'[d].todo => <<u, "starting">> \in call[d].todo
      BY <1>4, <1>7 DEF StepOf
    <3>2. \A d \in Callers : call'[d].answer = call[d].answer
      BY <1>7 DEF StepOf
    <3>3. \A y \in Policies \X Tasks : y[2] \in Tasks
      OBVIOUS
    <3> QED BY <3>1, <3>2, <3>3 DEF Inv, StartInv
  <2>2. \A y \in Policies \X Tasks, d \in Callers :
          Holds(d, y)' => Holds(d, y) \/ (d = c /\ y = x /\ x \notin markers)
    <3> SUFFICES ASSUME NEW y \in Policies \X Tasks, NEW d \in Callers, Holds(d, y)'
                 PROVE  Holds(d, y) \/ (d = c /\ y = x /\ x \notin markers)
      OBVIOUS
    <3>1. CASE d # c
      BY <1>7, <3>1 DEF Holds, StepOf
    <3>2. CASE d = c
      <4>1. call[c].answer = y[1] /\ (<<y[2], "marking">> \in todo \/ <<y[2], "starting">> \in todo)
        BY <1>7, <3>2 DEF Holds
      <4>2. CASE y[2] = t
        BY <1>2, <1>4, <3>2, <4>1, <4>2 DEF Tags
      <4>3. CASE y[2] # t
        BY <1>4, <3>2, <4>1, <4>3 DEF Holds, Tags
      <4> QED BY <4>2, <4>3
    <3> QED BY <3>1, <3>2
  <2>3. raced \subseteq raced'
    BY <1>1
  <2>4. ASSUME NEW y \in (Policies \X Tasks) \ raced', NEW d \in Callers, Holds(d, y)'
        PROVE  starts[y] = 0
    <3>1. CASE Holds(d, y)
      BY <2>3, <2>4, <3>1 DEF Inv, StartInv
    <3>2. CASE y = x /\ x \notin markers
      BY <3>2 DEF Inv, StartInv, TypeOK
    <3> QED BY <2>2, <2>4, <3>1, <3>2
  <2>5. ASSUME NEW y \in (Policies \X Tasks) \ raced', NEW d \in Callers, NEW e \in Callers,
               Holds(d, y)', Holds(e, y)', d # e
        PROVE  FALSE
    <3>1. CASE Holds(d, y) /\ Holds(e, y)
      BY <2>3, <2>5, <3>1 DEF Inv, StartInv
    <3>2. CASE ~(Holds(d, y) /\ Holds(e, y))
      <4>1. y = x /\ x \notin markers /\ (d = c \/ e = c)
        BY <2>2, <2>5, <3>2
      <4>2. PICK f \in Callers \ {c} : Holds(f, y)'
        BY <2>5, <4>1
      <4>3. Holds(f, x)
        BY <2>2, <4>1, <4>2
      <4>4. <<t, "starting">> \notin call[f].todo
        BY <1>2, <4>1, <4>3 DEF Holds, Inv, StartInv
      <4>5. f \in others
        BY <1>2, <4>3, <4>4 DEF Holds
      <4> QED BY <1>1, <2>5, <4>1, <4>5
    <3> QED BY <3>1, <3>2
  <2> QED BY <1>1, <2>1, <2>3, <2>4, <2>5 DEF Inv, StartInv
<1>9. MarkedIsStarted'
  <2>1. \A d \in Callers : \A u \in Tasks : <<u, "starting">> \in call[d].todo => <<u, "starting">> \in call'[d].todo
    BY <1>4, <1>7 DEF StepOf
  <2>2. \A d \in Callers : call'[d].answer = call[d].answer
    BY <1>7 DEF StepOf
  <2>3. \A y \in markers : y[2] \in Tasks
    BY DEF Inv, TypeOK
  <2> QED BY <1>1, <2>1, <2>2, <2>3 DEF Inv, MarkedIsStarted
<1>10. TodoInv'
  <2>1. \A u \in Tasks, a, b \in Tags \ {"recurring"} :
              <<u, a>> \in todo /\ <<u, b>> \in todo => a = b
    <3> SUFFICES ASSUME NEW u \in Tasks, NEW a \in Tags \ {"recurring"}, NEW b \in Tags \ {"recurring"},
                        <<u, a>> \in todo, <<u, b>> \in todo
                 PROVE  a = b
      OBVIOUS
    <3>1. CASE u = t
      BY <1>4, <3>1
    <3>2. CASE u # t
      BY <1>4, <3>2 DEF Inv, TodoInv
    <3> QED BY <3>1, <3>2
  <2> QED BY <1>2, <1>5, <1>7, <2>1 DEF Inv, TodoInv, StepOf
<1>11. ScheduleInv'
  <2>1. \A u \in Tasks : <<u, "recurring">> \notin call'[c].todo
    BY <1>5, <1>7
  <2> QED BY <1>1, <1>7, <2>1, ScheduleKept DEF Inv, StepOf
<1>12. TypeOK'
  BY <1>1, <1>2, <1>7 DEF Inv, TypeOK, StepOf, Calls, Pcs, Tags
<1> QED BY <1>8, <1>9, <1>10, <1>11, <1>12 DEF Inv

\* The marker is set by the refresh that found none, which now is to start the task.
LEMMA MarkStep ==
  ASSUME Inv, NEW c \in Callers, NEW t \in Tasks, Mark(c, t)
  PROVE  Inv'
<1>0. /\ call \in [Callers -> Calls] /\ call[c] \in Calls /\ call[c].answer \in Policies \cup {0}
      /\ call[c].todo \subseteq Tasks \X Tags
  BY CallTypes DEF Inv
<1> DEFINE x == <<call[c].answer, t>>
           todo == (call[c].todo \ {<<t, "marking">>}) \cup {<<t, "starting">>}
<1>1. /\ <<t, "marking">> \in call[c].todo
      /\ call' = [call EXCEPT ![c].todo = todo] /\ markers' = markers \cup {x}
      /\ UNCHANGED <<mode, server, held, saved, cron, entries, active, starts, unstarted, raced, overlapped, used>>
  BY DEF Mark, MarkedBy, scheduleVars, history
<1>2. call[c].pc = "triggering"
  BY <1>1 DEF Inv, TodoInv
<1>3. call[c].answer \in Policies /\ x \in Policies \X Tasks /\ x[1] = call[c].answer /\ x[2] = t
  BY <1>2 DEF Inv, TodoInv
<1>4. /\ call[c].todo \subseteq Tasks \X {"immediate", "marking", "starting"}
      /\ \A a \in Tags : <<t, a>> \in call[c].todo => a = "marking"
  <2>1. call[c].todo \subseteq Tasks \X {"immediate", "marking", "starting"}
    BY <1>2 DEF Inv, TodoInv
  <2>2. \A a \in Tags \ {"recurring"} : <<t, a>> \in call[c].todo => a = "marking"
    BY <1>1 DEF Inv, TodoInv, Tags
  <2> QED BY <2>1, <2>2
<1>5. /\ todo \subseteq Tasks \X {"immediate", "marking", "starting"} /\ todo \subseteq Tasks \X Tags
      /\ <<t, "starting">> \in todo
      /\ \A a \in Tags : <<t, a>> \in todo => a = "starting"
      /\ \A u \in Tasks : u # t => \A a \in Tags : <<u, a>> \in todo <=> <<u, a>> \in call[c].todo
  BY <1>4 DEF Tags
<1> HIDE DEF todo
<1>6. [call[c] EXCEPT !.todo = todo] \in Calls
  BY <1>0, <1>5 DEF Calls
<1>7. /\ StepOf(c) /\ call'[c].pc = "triggering" /\ call'[c].todo = todo
      /\ call'[c].answer = call[c].answer
  BY <1>0, <1>1, <1>2, <1>6 DEF StepOf, Calls
<1>8. \A d \in Callers : call'[d].answer = call[d].answer
  BY <1>7 DEF StepOf
<1>9. \A d \in Callers : \A u \in Tasks : <<u, "starting">> \in call'[d].todo =>
          <<u, "starting">> \in call[d].todo \/ (d = c /\ u = t)
  BY <1>5, <1>7 DEF StepOf, Tags
<1>10. StartInv'
  <2>1. ASSUME NEW y \in Policies \X Tasks, NEW d \in Callers,
               call'[d].answer = y[1], <<y[2], "starting">> \in call'[d].todo
        PROVE  y \in markers'
    <3>1. CASE <<y[2], "starting">> \in call[d].todo
      BY <1>1, <1>8, <2>1, <3>1 DEF Inv, StartInv
    <3>2. CASE d = c /\ y[2] = t
      BY <1>1, <1>8, <2>1, <3>2
    <3> QED BY <1>9, <2>1, <3>1, <3>2
  <2>2. ASSUME NEW y \in Policies \X Tasks, NEW d \in Callers, Holds(d, y)'
        PROVE  Holds(d, y)
    <3>1. CASE d # c
      BY <1>7, <2>2, <3>1 DEF Holds, StepOf
    <3>2. CASE d = c
      <4>1. call[c].answer = y[1] /\ (<<y[2], "marking">> \in todo \/ <<y[2], "starting">> \in todo)
        BY <1>7, <2>2, <3>2 DEF Holds
      <4>2. CASE y[2] = t
        BY <1>1, <3>2, <4>1, <4>2 DEF Holds
      <4>3. CASE y[2] # t
        BY <1>5, <3>2, <4>1, <4>3 DEF Holds, Tags
      <4> QED BY <4>2, <4>3
    <3> QED BY <3>1, <3>2
  <2>3. markers \subseteq markers'
    BY <1>1
  <2> QED BY <1>1, <2>1, <2>2, <2>3 DEF Inv, StartInv
<1>11. MarkedIsStarted'
  <2>1. \A d \in Callers : \A u \in Tasks : <<u, "starting">> \in call[d].todo => <<u, "starting">> \in call'[d].todo
    <3>1. \A u \in Tasks : <<u, "starting">> \in call[c].todo => <<u, "starting">> \in todo
      BY <1>4, <1>5 DEF Tags
    <3> QED BY <1>7, <3>1 DEF StepOf
  <2>2. \A y \in markers : y[2] \in Tasks
    BY DEF Inv, TypeOK
  <2>3. call'[c].answer = x[1] /\ <<x[2], "starting">> \in call'[c].todo
    BY <1>3, <1>5, <1>7
  <2>4. ASSUME NEW y \in markers
        PROVE  \/ starts'[y] > 0 \/ y \in unstarted'
               \/ \E d \in Callers : call'[d].answer = y[1] /\ <<y[2], "starting">> \in call'[d].todo
    BY <1>1, <1>8, <2>1, <2>2 DEF Inv, MarkedIsStarted
  <2> HIDE DEF x
  <2>5. markers' = markers \cup {x}
    BY <1>1
  <2>6. ASSUME NEW y \in markers', y \notin markers
        PROVE  call'[c].answer = y[1] /\ <<y[2], "starting">> \in call'[c].todo
    <3>1. y = x
      BY <2>5, <2>6
    <3> QED BY <2>3, <3>1
  <2> QED BY <2>4, <2>6 DEF MarkedIsStarted
<1>12. TodoInv'
  <2>1. \A u \in Tasks, a, b \in Tags \ {"recurring"} :
              <<u, a>> \in todo /\ <<u, b>> \in todo => a = b
    <3> SUFFICES ASSUME NEW u \in Tasks, NEW a \in Tags \ {"recurring"}, NEW b \in Tags \ {"recurring"},
                        <<u, a>> \in todo, <<u, b>> \in todo
                 PROVE  a = b
      OBVIOUS
    <3>1. CASE u = t
      BY <1>5, <3>1
    <3>2. CASE u # t
      BY <1>5, <3>2 DEF Inv, TodoInv
    <3> QED BY <3>1, <3>2
  <2> QED BY <1>3, <1>5, <1>7, <2>1 DEF Inv, TodoInv, StepOf
<1>13. ScheduleInv'
  <2>1. \A u \in Tasks : <<u, "recurring">> \notin call'[c].todo
    BY <1>5, <1>7
  <2> QED BY <1>1, <1>7, <2>1, ScheduleKept DEF Inv, StepOf
<1>14. TypeOK'
  BY <1>1, <1>3, <1>7 DEF Inv, TypeOK, StepOf, Calls, Pcs, Tags
<1> QED BY <1>10, <1>11, <1>12, <1>13, <1>14 DEF Inv

\* The task is started, or an execution of it still runs. Unless two raced for it, this
\* refresh was the only one to hold it.
LEMMA StartStep ==
  ASSUME Inv, NEW c \in Callers, NEW t \in Tasks, Start(c, t)
  PROVE  Inv'
<1>0. /\ call \in [Callers -> Calls] /\ call[c] \in Calls /\ call[c].answer \in Policies \cup {0}
      /\ call[c].todo \subseteq Tasks \X Tags /\ Home(c) \in Processes
  BY CallTypes, HomeType DEF Inv
<1> DEFINE x == <<call[c].answer, t>>
           todo == call[c].todo \ {<<t, "starting">>}
<1>1. /\ <<t, "starting">> \in call[c].todo /\ call' = [call EXCEPT ![c].todo = todo]
      /\ UNCHANGED <<mode, server, held, saved, markers, cron, entries, raced, overlapped, used>>
  BY DEF Start, policyVars, scheduleVars
<1>2. call[c].pc = "triggering"
  BY <1>1 DEF Inv, TodoInv
<1>3. call[c].answer \in Policies /\ x \in Policies \X Tasks /\ x[1] = call[c].answer /\ x[2] = t
  BY <1>2 DEF Inv, TodoInv
<1>4. /\ todo \subseteq call[c].todo /\ todo \subseteq Tasks \X Tags
      /\ call[c].todo \subseteq Tasks \X {"immediate", "marking", "starting"}
      /\ <<t, "starting">> \notin todo /\ <<t, "marking">> \notin todo
      /\ \A u \in Tasks : u # t => \A a \in Tags : <<u, a>> \in todo <=> <<u, a>> \in call[c].todo
  <2>1. call[c].todo \subseteq Tasks \X {"immediate", "marking", "starting"}
    BY <1>2 DEF Inv, TodoInv
  <2>2. <<t, "marking">> \notin call[c].todo
    BY <1>1 DEF Inv, TodoInv, Tags
  <2> QED BY <1>0, <2>1, <2>2
<1> HIDE DEF todo
<1>5. [call[c] EXCEPT !.todo = todo] \in Calls
  BY <1>0, <1>4 DEF Calls
<1>6. /\ StepOf(c) /\ call'[c].pc = "triggering" /\ call'[c].todo = todo
      /\ call'[c].answer = call[c].answer
  BY <1>0, <1>1, <1>2, <1>5 DEF StepOf, Calls
<1>7. /\ \A d \in Callers : call'[d].answer = call[d].answer /\ call'[d].pc = call[d].pc
      /\ \A d \in Callers : call'[d].todo \subseteq call[d].todo
  BY <1>2, <1>4, <1>6 DEF StepOf
<1>8. /\ starts \in [Policies \X Tasks -> Nat] /\ active \subseteq Processes \X Tasks
      /\ unstarted \subseteq Policies \X Tasks
  BY DEF Inv, TypeOK
<1>9. /\ \A y \in Policies \X Tasks : y # x => starts'[y] = starts[y]
      /\ starts'[x] = starts[x] \/ starts'[x] = starts[x] + 1
      /\ unstarted \subseteq unstarted'
      /\ starts'[x] = starts[x] + 1 \/ x \in unstarted'
      /\ starts' \in [Policies \X Tasks -> Nat] /\ active' \subseteq Processes \X Tasks
      /\ unstarted' \subseteq Policies \X Tasks
  <2>1. CASE <<Home(c), t>> \notin active
    <3>1. /\ active' = active \cup {<<Home(c), t>>} /\ starts' = [starts EXCEPT ![x] = @ + 1]
          /\ unstarted' = unstarted
      BY <2>1 DEF Start, MayStart
    <3> HIDE DEF x
    <3> QED BY <1>0, <1>3, <1>8, <3>1
  <2>2. CASE <<Home(c), t>> \in active
    <3>1. /\ unstarted' = unstarted \cup {x} /\ active' = active /\ starts' = starts
      BY <2>2 DEF Start, MayStart
    <3> QED BY <1>3, <1>8, <3>1
  <2> QED BY <2>1, <2>2
<1>10. x \in markers /\ Holds(c, x)
  BY <1>1, <1>3 DEF Inv, StartInv, Holds
<1>11. ASSUME NEW y \in Policies \X Tasks, NEW d \in Callers, Holds(d, y)'
       PROVE  Holds(d, y) /\ ~(d = c /\ y = x)
  <2>1. y[2] \in Tasks
    OBVIOUS
  <2>2. Holds(d, y)
    BY <1>7, <1>11 DEF Holds
  <2>3. ASSUME d = c, y = x PROVE FALSE
    BY <1>3, <1>4, <1>6, <1>11, <2>3 DEF Holds
  <2> QED BY <2>2, <2>3
<1>12. StartInv'
  <2>1. ASSUME NEW y \in Policies \X Tasks, starts'[y] > 0 PROVE y \in markers
    BY <1>9, <1>10, <2>1 DEF Inv, StartInv
  <2>2. \A y \in Policies \X Tasks, d \in Callers :
          call'[d].answer = y[1] /\ <<y[2], "starting">> \in call'[d].todo => y \in markers
    BY <1>7 DEF Inv, StartInv
  <2>3. ASSUME NEW y \in (Policies \X Tasks) \ raced
        PROVE  /\ starts'[y] <= 1
               /\ \A d \in Callers : Holds(d, y)' => starts'[y] = 0
               /\ \A d, e \in Callers : Holds(d, y)' /\ Holds(e, y)' => d = e
    <3>1. /\ starts[y] <= 1 /\ \A d \in Callers : Holds(d, y) => starts[y] = 0
          /\ \A d, e \in Callers : Holds(d, y) /\ Holds(e, y) => d = e
      BY DEF Inv, StartInv
    <3>2. CASE y = x
      <4>1. starts[x] = 0
        BY <1>10, <3>1, <3>2
      <4>2. \A d \in Callers : ~Holds(d, y)'
        BY <1>10, <1>11, <3>1, <3>2
      <4> QED BY <1>9, <3>2, <4>1, <4>2
    <3>3. CASE y # x
      <4>1. starts'[y] = starts[y]
        BY <1>9, <3>3
      <4>2. \A d \in Callers : Holds(d, y)' => Holds(d, y)
        BY <1>11
      <4> QED BY <3>1, <4>1, <4>2
    <3> QED BY <3>2, <3>3
  <2> QED BY <1>1, <2>1, <2>2, <2>3 DEF StartInv
<1>13. MarkedIsStarted'
  <2> SUFFICES ASSUME NEW y \in markers
               PROVE  \/ starts'[y] > 0 \/ y \in unstarted'
                      \/ \E d \in Callers : call'[d].answer = y[1] /\ <<y[2], "starting">> \in call'[d].todo
    BY <1>1 DEF MarkedIsStarted
  <2>0. y \in Policies \X Tasks /\ y[2] \in Tasks
    BY DEF Inv, TypeOK
  <2>1. CASE y = x
    <3>1. starts[x] \in Nat
      BY <1>3, <1>8
    <3> HIDE DEF x
    <3> QED BY <1>9, <2>1, <3>1
  <2>2. CASE y # x
    <3>1. starts'[y] = starts[y]
      BY <1>9, <2>0, <2>2
    <3>2. ASSUME NEW d \in Callers, call[d].answer = y[1], <<y[2], "starting">> \in call[d].todo
          PROVE  call'[d].answer = y[1] /\ <<y[2], "starting">> \in call'[d].todo
      <4>1. CASE d # c
        BY <1>6, <3>2, <4>1 DEF StepOf
      <4>2. CASE d = c
        <5>1. y[2] # t
          BY <2>0, <2>2, <3>2, <4>2
        <5> QED BY <1>4, <1>6, <2>0, <3>2, <4>2, <5>1 DEF Tags
      <4> QED BY <4>1, <4>2
    <3> QED BY <1>9, <3>1, <3>2 DEF Inv, MarkedIsStarted
  <2> QED BY <2>1, <2>2
<1>14. TodoInv'
  <2>1. \A d \in Callers : call'[d].pc = "asking" => call'[d].known = call'[d].base
    BY <1>6 DEF Inv, TodoInv, StepOf
  <2> QED BY <1>7, <2>1 DEF Inv, TodoInv
<1>15. ScheduleInv'
  <2>1. \A u \in Tasks : <<u, "recurring">> \notin call'[c].todo
    BY <1>4, <1>6
  <2> QED BY <1>1, <1>6, <2>1, ScheduleKept DEF Inv, StepOf
<1>16. TypeOK'
  BY <1>1, <1>6, <1>9 DEF Inv, TypeOK, StepOf, Calls, Pcs, Tags
<1> QED BY <1>12, <1>13, <1>14, <1>15, <1>16 DEF Inv

-----------------------------------------------------------------------------
\* A process ends: its refreshes are gone, and with them what they held; what they had
\* marked and not started goes on record.
LEMMA RestartStep ==
  ASSUME Inv, NEW p \in Processes, Restart(p)
  PROVE  Inv'
<1> DEFINE gone == {c \in Callers : Home(c) = p}
           lost == {x \in Policies \X Tasks :
                       \E c \in gone : call[c].answer = x[1] /\ <<x[2], "starting">> \in call[c].todo}
<1>1. /\ held' = [held EXCEPT ![p] = 0]
      /\ cron' = [cron EXCEPT ![p] = {}] /\ entries' = [entries EXCEPT ![p] = {}]
      /\ active' = {a \in active : a[1] # p}
      /\ call' = [c \in Callers |-> IF c \in gone THEN NoCall ELSE call[c]]
      /\ unstarted' = unstarted \cup lost /\ overlapped' = overlapped \ {p}
      /\ UNCHANGED <<mode, server, saved, markers, starts, raced>>
      /\ used' \in [{"faults", "restarts"} -> Nat]
  BY DEF Restart, Spend, Inv, TypeOK
<1>2. \A c : Home(c)' = Home(c)
  BY <1>1 DEF Home
<1>3. NoCall \in Calls /\ NoCall.todo = {} /\ NoCall.pc = "idle"
  BY DEF NoCall, Calls, Pcs
<1>4. /\ \A c \in Callers : Home(c) = p => call'[c].todo = {} /\ call'[c].pc = "idle"
      /\ \A c \in Callers : Home(c) # p => call'[c] = call[c]
  BY <1>1, <1>3
<1>5. call' \in [Callers -> Calls]
  <2>1. call \in [Callers -> Calls]
    BY DEF Inv, TypeOK, Calls, Pcs, Tags
  <2> QED BY <1>1, <1>3, <2>1
<1>6. StartInv'
  <2>1. \A y \in Policies \X Tasks, c \in Callers :
          call'[c].answer = y[1] /\ <<y[2], "starting">> \in call'[c].todo => y \in markers
    BY <1>4 DEF Inv, StartInv
  <2>2. \A y \in Policies \X Tasks, c \in Callers : Holds(c, y)' => Holds(c, y)
    BY <1>4 DEF Holds
  <2> QED BY <1>1, <2>1, <2>2 DEF Inv, StartInv
<1>7. MarkedIsStarted'
  <2> SUFFICES ASSUME NEW y \in markers
               PROVE  \/ starts[y] > 0 \/ y \in unstarted'
                      \/ \E c \in Callers : call'[c].answer = y[1] /\ <<y[2], "starting">> \in call'[c].todo
    BY <1>1 DEF MarkedIsStarted
  <2>1. y \in Policies \X Tasks
    BY DEF Inv, TypeOK
  <2>2. ASSUME NEW c \in Callers, call[c].answer = y[1], <<y[2], "starting">> \in call[c].todo
        PROVE  y \in unstarted' \/ (call'[c].answer = y[1] /\ <<y[2], "starting">> \in call'[c].todo)
    BY <1>1, <1>4, <2>1, <2>2
  <2> QED BY <1>1, <2>2 DEF Inv, MarkedIsStarted
<1>8. TodoInv'
  BY <1>4 DEF Inv, TodoInv
<1>9. cron \in [Processes -> SUBSET (Tasks \X Callers)] /\ entries \in [Processes -> SUBSET (Tasks \X Callers)]
  BY DEF Inv, TypeOK
<1>10. ScheduleInv'
  <2>1. ASSUME NEW q \in Processes \ overlapped'
        PROVE  /\ cron'[q] = entries'[q]
               /\ \A a, b \in Callers : call'[a].pc = "scheduling" /\ Home(a)' = q
                     /\ call'[b].pc = "scheduling" /\ Home(b)' = q => a = b
               /\ \A a \in Callers, u \in Tasks :
                     Home(a)' = q /\ <<u, "recurring">> \in call'[a].todo => \A e \in entries'[q] : e[1] # u
    <3>1. CASE q = p
      BY <1>1, <1>2, <1>4, <1>9, <3>1
    <3>2. CASE q # p
      <4>1. q \in Processes \ overlapped /\ cron'[q] = cron[q] /\ entries'[q] = entries[q]
        BY <1>1, <1>9, <2>1, <3>2
      <4>2. \A a \in Callers : Home(a)' = q => Home(a) = q /\ call'[a] = call[a]
        BY <1>2, <1>4, <3>2
      <4> QED BY <4>1, <4>2 DEF Inv, ScheduleInv
    <3> QED BY <3>1, <3>2
  <2> QED BY <2>1 DEF ScheduleInv
<1>11. TypeOK'
  <2>1. /\ held' \in [Processes -> Policies \cup {0}]
        /\ cron' \in [Processes -> SUBSET (Tasks \X Callers)]
        /\ entries' \in [Processes -> SUBSET (Tasks \X Callers)]
        /\ active' \subseteq Processes \X Tasks /\ unstarted' \subseteq Policies \X Tasks
        /\ overlapped' \subseteq Processes
    BY <1>1, <1>9 DEF Inv, TypeOK
  <2> QED BY <1>1, <1>5, <2>1 DEF Inv, TypeOK, Calls, Pcs, Tags
<1> QED BY <1>6, <1>7, <1>8, <1>10, <1>11 DEF Inv

\* What the schedule and the markers say is about the calls and the records alone.
LEMMA UnrelatedStep ==
  ASSUME Inv, UNCHANGED <<mode, policyVars, call, scheduleVars, history>>, server' \in Policies,
         active' \subseteq Processes \X Tasks, used' = used
  PROVE  Inv'
<1>1. /\ mode' = mode /\ held' = held /\ saved' = saved /\ markers' = markers /\ call' = call
      /\ cron' = cron /\ entries' = entries /\ starts' = starts /\ unstarted' = unstarted
      /\ raced' = raced /\ overlapped' = overlapped
  BY DEF policyVars, scheduleVars, history
<1>2. /\ \A c : Home(c)' = Home(c)
      /\ \A c, x : Holds(c, x)' <=> Holds(c, x)
  BY <1>1 DEF Home, Holds
<1>3. TypeOK'
  BY <1>1 DEF Inv, TypeOK
<1>4. TodoInv' /\ MarkedIsStarted'
  BY <1>1 DEF Inv, TodoInv, MarkedIsStarted
<1>5. StartInv'
  BY <1>1, <1>2 DEF Inv, StartInv
<1>6. ScheduleInv'
  BY <1>1, <1>2 DEF Inv, ScheduleInv
<1> QED BY <1>3, <1>4, <1>5, <1>6 DEF Inv

LEMMA NextInv == Inv /\ [Next]_vars => Inv'
<1> SUFFICES ASSUME Inv, [Next]_vars PROVE Inv'
  OBVIOUS
<1>1. ASSUME NEW c \in Callers, Ask(c) \/ Goes(c) \/ AskFails(c) PROVE Inv'
  <2>1. CASE Ask(c) \/ Answer(c) \/ AskFails(c) \/ Save(c) \/ Store(c) \/ Reconcile(c) \/ Refreshed(c)
    BY <2>1, QuietSteps
  <2>2. CASE Unschedule(c)
    BY <2>2, UnscheduleInv
  <2>3. ASSUME NEW t \in Tasks, Schedule(c, t) \/ LookForMarker(c, t) \/ Mark(c, t) \/ Start(c, t)
        PROVE  Inv'
    BY <2>3, ScheduleStep, LookStep, MarkStep, StartStep
  <2> QED BY <1>1, <2>1, <2>2, <2>3 DEF Goes
<1>2. ASSUME NEW p \in Processes, NEW t \in Tasks, Ended(p, t) PROVE Inv'
  <2>1. server' \in Policies /\ active' \subseteq Processes \X Tasks
    BY <1>2 DEF Ended, Inv, TypeOK
  <2> QED BY <1>2, <2>1, UnrelatedStep DEF Ended
<1>3. CASE Publish
  <2>1. server' \in Policies /\ active' \subseteq Processes \X Tasks
    BY <1>3 DEF Publish, Inv, TypeOK
  <2> QED BY <1>3, <2>1, UnrelatedStep DEF Publish
<1>4. ASSUME NEW p \in Processes, Restart(p) PROVE Inv'
  BY <1>4, RestartStep
<1>5. CASE UNCHANGED vars
  <2>1. server' \in Policies /\ active' \subseteq Processes \X Tasks
    BY <1>5 DEF vars, Inv, TypeOK
  <2> QED BY <1>5, <2>1, UnrelatedStep DEF vars
<1> QED BY <1>1, <1>2, <1>3, <1>4, <1>5 DEF Next

-----------------------------------------------------------------------------
\* The inductive invariant holds however the refreshes of the two processes interleave.
THEOREM PolicyInvariant == Spec => []Inv
<1> QED BY InitInv, NextInv, PTL DEF Spec

\* The ranges of the variables.
THEOREM PolicyTypes == Spec => []TypeOK
<1>1. Inv => TypeOK
  BY DEF Inv
<1> QED BY <1>1, PolicyInvariant, PTL

\* A task to be run at once is started at most once per policy, over both processes and
\* their restarts, unless two refreshes looked for its marker before either set it;
\* a marker stands for a start; and the cron instance runs what is on record, unless two
\* refreshes rebuilt the schedule at once.
THEOREM PolicyMarkers == Spec => []MarkersAreSound
<1>1. Inv => MarkersAreSound
  BY DEF Inv, StartInv, ScheduleInv, MarkersAreSound, ImmediateOnce, NoStrayEntry
<1> QED BY <1>1, PolicyInvariant, PTL
=============================================================================
