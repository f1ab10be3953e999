---------------------------- MODULE LoopsProofs -----------------------------
(***************************************************************************)
(* Proofs about the loops of MCLoops, for every value of their constants:  *)
(* the watchdog's recoveries, the remote debug sessions, the MeshCentral   *)
(* entry and the telemetry outbox with its refinement of StoreAndForward.  *)
(***************************************************************************)
EXTENDS MCLoops, FiniteSetTheorems, TLAPS

-----------------------------------------------------------------------------
(* Watchdog: what a round does with the health it found.                   *)

\* A verdict stands until the component is dealt with, and no time passes before.
VerdictInv ==
    \A c \in Component :
        /\ verdict[c] = "Healthy" => age[c] <= Unhealthy(c)
        /\ verdict[c] \in {"Unhealthy", "Alarmed"} =>
              c \in stale \/ (age[c] > Unhealthy(c) /\ c \notin suspended)
        /\ alarm[c] = notified[c]
        /\ verdict[c] = "Alarmed" => alarm[c] = 0 \/ alarm[c] < UnhealthyNotifyCooldown

\* Since a component was last heard of, it was recovered once at most until it is overdue
\* again, for a verdict from before that; then each recovery is counted, and the count
\* is reset only while the component is not overdue.
SinceInv ==
    \A c \in Component :
        /\ since[c] <= count[c] + 1
        /\ age[c] <= Unhealthy(c) /\ since[c] > 0 => since[c] = 1 /\ verdict[c] \in {"none", "Healthy"}
        /\ c \notin known => since[c] = 0 /\ verdict[c] = "none"

WatchdogInv == TypeOK /\ VerdictInv /\ SinceInv

\* The limits of the code and of its configuration.
LEMMA Limits ==
  /\ \A c \in Component : Unhealthy(c) \in Nat /\ Degraded(c) <= Unhealthy(c)
  /\ MaxAge \in Nat /\ MaxRecoveryAttempts \in Nat /\ UnhealthyNotifyCooldown \in Nat
<1> SUFFICES ASSUME NEW c \in Component PROVE Unhealthy(c) \in Nat /\ Degraded(c) <= Unhealthy(c)
  BY WatchdogAssumption
<1>1. /\ ComponentThresholds[c].unhealthy \in Nat /\ ComponentThresholds[c].degraded \in Nat
      /\ UnhealthyThreshold \in Nat /\ DegradedThreshold \in Nat
  BY WatchdogAssumption
<1>2. Unhealthy(c) \in Nat
  BY <1>1 DEF Unhealthy
<1>3. \A n \in Nat : n \div 2 <= n
  OBVIOUS
<1> QED BY <1>1, <1>2, <1>3 DEF Degraded

LEMMA WatchdogInit == Init => WatchdogInv
<1> SUFFICES ASSUME Init PROVE WatchdogInv
  OBVIOUS
<1>0. MaxAge \in 0..MaxAge /\ 0 \in 0..MaxRecoveryAttempts
  BY Limits
<1>1. TypeOK
  <2>1. age \in [Component -> 0..MaxAge] /\ notified \in [Component -> 0..MaxAge] /\ alarm \in [Component -> 0..MaxAge]
    BY <1>0 DEF Init
  <2>2. count \in [Component -> 0..MaxRecoveryAttempts] /\ verdict \in [Component -> {"none", "Healthy", "Unhealthy", "Alarmed"}]
    BY <1>0 DEF Init
  <2> QED BY <2>1, <2>2 DEF Init, TypeOK
<1>2. VerdictInv
  BY DEF Init, VerdictInv
<1>3. SinceInv
  <2>1. \A c \in Component : since[c] = 0 /\ count[c] = 0 /\ verdict[c] = "none"
    BY DEF Init
  <2>2. 0 <= 0 + 1 /\ ~(0 > 0)
    OBVIOUS
  <2>3. \A c \in Component : since[c] <= count[c] + 1 /\ ~(since[c] > 0)
    BY <2>1, <2>2
  <2> QED BY <2>1, <2>3 DEF SinceInv
<1> QED BY <1>1, <1>2, <1>3 DEF WatchdogInv

\* A step of a component keeps the invariant if it keeps the watchdog's variables, and
\* makes young only a component that is heard of for the first time or by a heartbeat.
LEMMA LifeStep ==
  ASSUME WatchdogInv, NEW c \in Component, Life(c)
  PROVE  WatchdogInv'
<1>0. /\ TypeOK /\ VerdictInv /\ SinceInv
      /\ age \in [Component -> 0..MaxAge] /\ since \in [Component -> Nat]
      /\ recovering \in [Component -> Nat] /\ used \in [{"wedges", "suspends"} -> Nat]
      /\ mode \in [Component -> {"off", "up", "wedged"}] /\ count \in [Component -> 0..MaxRecoveryAttempts]
  BY DEF WatchdogInv, TypeOK
<1>1. CASE Start(c) \/ Beat(c)
  <2>1. /\ age' = [age EXCEPT ![c] = 0] /\ since' = [since EXCEPT ![c] = 0] /\ stale' = stale \cup {c}
        /\ UNCHANGED <<suspended, used, checkVars>>
        /\ mode' \in [Component -> {"off", "up", "wedged"}]
        /\ \A d \in Component : mode[d] # "off" => mode'[d] # "off"
    BY <1>0, <1>1 DEF Start, Beat, Heartbeat
  <2>2. TypeOK'
    BY <1>0, <2>1, Limits DEF TypeOK, checkVars
  <2>3. VerdictInv'
    BY <1>0, <2>1, Limits DEF VerdictInv, checkVars
  <2>4. SinceInv'
    BY <1>0, <2>1, Limits DEF SinceInv, checkVars, known
  <2> QED BY <2>2, <2>3, <2>4 DEF WatchdogInv
<1>2. CASE Wedge(c)
  <2>1. /\ mode' = [mode EXCEPT ![c] = "wedged"] /\ used' \in [{"wedges", "suspends"} -> Nat]
        /\ UNCHANGED <<age, suspended, checkVars, since, stale>>
    BY <1>0, <1>2 DEF Wedge, Spend
  <2>2. TypeOK'
    BY <1>0, <2>1 DEF TypeOK, checkVars
  <2>3. VerdictInv' /\ SinceInv'
    BY <1>0, <2>1 DEF VerdictInv, SinceInv, checkVars, known
  <2> QED BY <2>2, <2>3 DEF WatchdogInv
<1>3. CASE Suspend(c)
  <2>1. /\ suspended' = suspended \cup {c} /\ stale' = stale \cup {c}
        /\ age' = [age EXCEPT ![c] = IF c \in known THEN @ ELSE 0]
        /\ UNCHANGED <<mode, checkVars, since>> /\ used' \in [{"wedges", "suspends"} -> Nat]
    BY <1>0, <1>3 DEF Suspend, Spend
  <2>2. TypeOK'
    BY <1>0, <2>1, Limits DEF TypeOK, checkVars
  <2>3. VerdictInv'
    BY <1>0, <2>1, Limits DEF VerdictInv, SinceInv, checkVars
  <2>4. SinceInv'
    BY <1>0, <2>1, Limits DEF SinceInv, checkVars, known
  <2> QED BY <2>2, <2>3, <2>4 DEF WatchdogInv
<1>4. CASE Resume(c)
  <2>1. /\ suspended' = suspended \ {c} /\ stale' = stale \cup {c} /\ mode[c] # "off"
        /\ UNCHANGED <<mode, age, used, checkVars, since>>
    BY <1>4 DEF Resume
  <2>2. TypeOK'
    BY <1>0, <2>1 DEF TypeOK, checkVars
  <2>3. VerdictInv' /\ SinceInv'
    BY <1>0, <2>1 DEF VerdictInv, SinceInv, checkVars, known
  <2> QED BY <2>2, <2>3 DEF WatchdogInv
<1>5. CASE RecoveryEnds(c)
  <2>1. /\ recovering' \in [Component -> Nat] /\ mode' \in [Component -> {"off", "up", "wedged"}]
        /\ \A d \in Component : mode[d] # "off" => mode'[d] # "off"
        /\ UNCHANGED <<age, suspended, used, count, notified, verdict, due, alarm, since, stale>>
    BY <1>0, <1>5 DEF RecoveryEnds
  <2>2. TypeOK'
    BY <1>0, <2>1 DEF TypeOK
  <2>3. VerdictInv' /\ SinceInv'
    BY <1>0, <2>1 DEF VerdictInv, SinceInv, known
  <2> QED BY <2>2, <2>3 DEF WatchdogInv
<1> QED BY <1>1, <1>2, <1>3, <1>4, <1>5 DEF Life

\* A tick waits for the round to end, and makes every component older.
LEMMA TickStep == ASSUME WatchdogInv, Tick PROVE WatchdogInv'
<1>0. /\ TypeOK /\ VerdictInv /\ SinceInv /\ Idle
      /\ {age, notified, alarm} \subseteq [Component -> 0..MaxAge]
  BY DEF WatchdogInv, TypeOK, Tick
<1>1. /\ age' = Older(age) /\ notified' = Older(notified) /\ alarm' = Older(alarm) /\ due' = TRUE
      /\ UNCHANGED <<mode, suspended, used, count, verdict, recovering, since, stale>>
  BY DEF Tick
<1>2. \A f \in [Component -> 0..MaxAge] :
         /\ Older(f) \in [Component -> 0..MaxAge]
         /\ \A c \in Component : Older(f)[c] >= f[c]
  BY Limits DEF Older
<1>3. TypeOK'
  BY <1>0, <1>1, <1>2 DEF TypeOK
<1>4. VerdictInv'
  BY <1>0, <1>1 DEF VerdictInv, Idle, Older
<1>5. SinceInv'
  <2>1. \A c \in Component : age'[c] >= age[c] /\ age[c] \in Nat /\ age'[c] \in Nat
    BY <1>0, <1>1, <1>2
  <2> QED BY <1>0, <1>1, <2>1, Limits DEF SinceInv, known
<1> QED BY <1>3, <1>4, <1>5 DEF WatchdogInv

\* The round: the snapshot, and then one component after the other.
LEMMA RoundStep == ASSUME WatchdogInv, Round PROVE WatchdogInv'
<1>0. /\ TypeOK /\ VerdictInv /\ SinceInv
      /\ age \in [Component -> 0..MaxAge] /\ since \in [Component -> Nat]
      /\ notified \in [Component -> 0..MaxAge] /\ alarm \in [Component -> 0..MaxAge]
      /\ recovering \in [Component -> Nat] /\ count \in [Component -> 0..MaxRecoveryAttempts]
      /\ verdict \in [Component -> {"none", "Healthy", "Unhealthy", "Alarmed"}]
  BY DEF WatchdogInv, TypeOK
<1>1. CASE Snapshot
  <2>1. /\ verdict' \in [Component -> {"none", "Healthy", "Unhealthy", "Alarmed"}]
        /\ \A c \in Component :
              /\ verdict'[c] = "Healthy" => ~(age[c] > Degraded(c)) /\ c \in known
              /\ verdict'[c] = "Unhealthy" => age[c] > Unhealthy(c) /\ c \notin suspended /\ c \in known
              /\ verdict'[c] # "Alarmed"
              /\ c \notin known => verdict'[c] = "none"
              /\ ~(age[c] > Unhealthy(c)) => verdict'[c] \in {"none", "Healthy"}
    BY <1>1 DEF Snapshot, Health
  <2>2. stale' = {} /\ due' = FALSE /\ UNCHANGED <<componentVars, count, notified, recovering, alarm, since>>
    BY <1>1 DEF Snapshot
  <2>3. \A c \in Component : ~(age[c] > Degraded(c)) => age[c] <= Unhealthy(c)
    <3> TAKE c \in Component
    <3>1. Degraded(c) \in Nat
      BY WatchdogAssumption, Limits DEF Degraded
    <3> QED BY <1>0, <3>1, Limits
  <2>4. TypeOK'
    BY <1>0, <2>1, <2>2 DEF TypeOK, componentVars
  <2>5. VerdictInv'
    BY <1>0, <2>1, <2>2, <2>3 DEF VerdictInv, componentVars
  <2>6. SinceInv'
    <3>1. known' = known /\ UNCHANGED <<since, count, age>>
      BY <2>2 DEF known, componentVars
    <3>2. \A c \in Component : age[c] <= Unhealthy(c) => ~(age[c] > Unhealthy(c))
      BY <1>0, Limits
    <3> QED BY <1>0, <2>1, <3>1, <3>2 DEF SinceInv
  <2> QED BY <2>4, <2>5, <2>6 DEF WatchdogInv
<1>2. ASSUME NEW c \in Component, Healthy(c) PROVE WatchdogInv'
  <2>1. /\ count' = [count EXCEPT ![c] = 0] /\ verdict' = [verdict EXCEPT ![c] = "none"]
        /\ verdict[c] = "Healthy"
        /\ UNCHANGED <<componentVars, notified, due, recovering, alarm, since, stale>>
    BY <1>2 DEF Healthy
  <2>2. TypeOK'
    BY <1>0, <2>1, Limits DEF TypeOK, componentVars
  <2>3. VerdictInv'
    BY <1>0, <2>1 DEF VerdictInv, componentVars
  <2>4. SinceInv'
    <3>1. since[c] <= 1
      BY <1>0, <2>1 DEF VerdictInv, SinceInv
    <3>2. UNCHANGED <<age, since, known>>
      BY <2>1 DEF componentVars, known
    <3> QED BY <1>0, <2>1, <3>1, <3>2 DEF SinceInv
  <2> QED BY <2>2, <2>3, <2>4 DEF WatchdogInv
<1>3. ASSUME NEW c \in Component, Notify(c) PROVE WatchdogInv'
  <2>1. /\ verdict' = [verdict EXCEPT ![c] = "Alarmed"] /\ verdict[c] = "Unhealthy"
        /\ UNCHANGED <<componentVars, count, due, recovering, since, stale>>
        /\ \/ notified[c] < UnhealthyNotifyCooldown /\ UNCHANGED <<notified, alarm>>
           \/ notified' = [notified EXCEPT ![c] = 0] /\ alarm' = [alarm EXCEPT ![c] = 0]
    BY <1>3 DEF Notify
  <2>2. TypeOK'
    BY <1>0, <2>1, Limits DEF TypeOK, componentVars
  <2>3. VerdictInv'
    BY <1>0, <2>1 DEF VerdictInv, componentVars
  <2>4. SinceInv'
    <3>1. UNCHANGED <<age, since, known, count>>
      BY <2>1 DEF componentVars, known
    <3> QED BY <1>0, <2>1, <3>1 DEF SinceInv
  <2> QED BY <2>2, <2>3, <2>4 DEF WatchdogInv
<1>4. ASSUME NEW c \in Component, Attempt(c) PROVE WatchdogInv'
  <2>1. /\ verdict' = [verdict EXCEPT ![c] = "none"] /\ verdict[c] = "Alarmed"
        /\ UNCHANGED <<componentVars, notified, due, alarm, stale>>
        /\ \/ UNCHANGED <<count, recovering, since>>
           \/ /\ count[c] < MaxRecoveryAttempts
              /\ count' = [count EXCEPT ![c] = @ + 1] /\ recovering' = [recovering EXCEPT ![c] = @ + 1]
              /\ since' = [since EXCEPT ![c] = @ + 1]
    BY <1>0, <1>4, Limits DEF Attempt
  <2>2. TypeOK'
    BY <1>0, <2>1, Limits DEF TypeOK, componentVars
  <2>3. VerdictInv'
    BY <1>0, <2>1 DEF VerdictInv, componentVars
  <2>4. SinceInv'
    <3>1. UNCHANGED <<age, known>>
      BY <2>1 DEF componentVars, known
    <3>2. c \in known
      BY <1>0, <2>1 DEF SinceInv
    <3>3. age[c] <= Unhealthy(c) => since[c] = 0
      BY <1>0, <2>1 DEF SinceInv
    <3> QED BY <1>0, <2>1, <3>1, <3>2, <3>3 DEF SinceInv
  <2> QED BY <2>2, <2>3, <2>4 DEF WatchdogInv
<1> QED BY <1>1, <1>2, <1>3, <1>4 DEF Round

LEMMA WatchdogStep == WatchdogInv /\ [Next]_vars => WatchdogInv'
<1>1. ASSUME WatchdogInv, UNCHANGED vars PROVE WatchdogInv'
  BY <1>1 DEF vars, componentVars, checkVars, WatchdogInv, TypeOK, VerdictInv, SinceInv, known
<1> QED BY <1>1, LifeStep, TickStep, RoundStep DEF Next

\* Types, verdicts and counts of recoveries, in every behaviour.
THEOREM WatchdogInvariant == Spec => []WatchdogInv
<1> QED BY WatchdogInit, WatchdogStep, PTL DEF Spec

\* Only an attempt starts a recovery.
LEMMA RecoveryStarts ==
  ASSUME WatchdogInv, Next, NEW c \in Component, recovering'[c] > recovering[c]
  PROVE  verdict[c] = "Alarmed"
<1>1. recovering \in [Component -> Nat]
  BY DEF WatchdogInv, TypeOK
<1>2. CASE recovering' = recovering
  BY <1>1, <1>2
<1>3. ASSUME NEW d \in Component, RecoveryEnds(d) PROVE FALSE
  BY <1>1, <1>3 DEF RecoveryEnds
<1>4. ASSUME NEW d \in Component, Attempt(d) PROVE verdict[c] = "Alarmed"
  BY <1>1, <1>4 DEF Attempt
<1> QED BY <1>2, <1>3, <1>4 DEF Next, Tick, Round, Snapshot, Healthy, Notify, Life, Start, Beat, Wedge,
        Suspend, Resume, checkVars

\* A recovery is announced, due unless something changed under it, and not repeated for ever
\* (performHealthChecks on its snapshot).
THEOREM RecoverySound == Spec => RecoveryIsSound
<1>1. WatchdogInv => \A c \in Component : since[c] <= MaxRecoveryAttempts + 1
  <2> SUFFICES ASSUME WatchdogInv, NEW c \in Component PROVE since[c] <= MaxRecoveryAttempts + 1
    OBVIOUS
  <2>1. since[c] <= count[c] + 1 /\ count[c] \in 0..MaxRecoveryAttempts /\ since[c] \in Nat
    BY DEF WatchdogInv, TypeOK, SinceInv
  <2> QED BY <2>1, Limits
<1>2. WatchdogInv /\ [Next]_vars =>
         [\A c \in Component : recovering'[c] > recovering[c] =>
            alarm[c] = 0 \/ alarm[c] < UnhealthyNotifyCooldown]_vars
  BY RecoveryStarts DEF WatchdogInv, VerdictInv
<1>3. WatchdogInv /\ [Next]_vars =>
         [\A c \in Component : recovering'[c] > recovering[c] =>
            c \in stale \/ (age[c] > Unhealthy(c) /\ c \notin suspended)]_vars
  BY RecoveryStarts DEF WatchdogInv, VerdictInv
<1> QED BY <1>1, <1>2, <1>3, WatchdogInvariant, PTL
        DEF Spec, RecoveryIsSound, RecoveryIsAnnounced, OnlyOverdueIsRecovered

-----------------------------------------------------------------------------
(* RemoteDebug: whoever takes a session out stops it.                      *)

DebugSpec == InitRemoteDebug /\ [][NextRemoteDebug]_debugVars

RemoteDebugInv == RemoteDebugTypeOK /\ NoOrphanSession

PendingCalls == [SessionId -> 0 .. MaxCalls]

\* What the log buffer adds to the pending callbacks of a goroutine stays in bounds.
LEMMA CallbacksType ==
  ASSUME NEW pending \in PendingCalls, NEW lines \in Nat
  PROVE  CallbacksFor(pending, lines) \in PendingCalls
<1>0. MaxCalls \in Nat /\ MaxSessions \in Nat
  BY RemoteDebugAssumption
<1>1. ASSUME NEW id \in SessionId
      PROVE  AtMost(MaxCalls, pending[id] + lines *
                 Cardinality({s \in Session : session[s].subscribed /\ session[s].id = id}))
                 \in 0 .. MaxCalls
  <2> DEFINE subscribers == {s \in Session : session[s].subscribed /\ session[s].id = id}
  <2>1. IsFiniteSet(Session)
    BY <1>0, FS_Interval DEF Session
  <2>2. subscribers \subseteq Session
    OBVIOUS
  <2>3. Cardinality(subscribers) \in Nat
    <3> HIDE DEF subscribers
    <3> QED BY <2>1, <2>2, FS_Subset, FS_CardinalityType
  <2>4. \A m, n \in Nat : m * n \in Nat
    OBVIOUS
  <2>5. lines * Cardinality(subscribers) \in Nat
    <3> HIDE DEF subscribers
    <3> QED BY <2>3, <2>4
  <2>6. pending[id] \in Nat
    BY <1>0 DEF PendingCalls
  <2>7. \A m, n \in Nat : AtMost(MaxCalls, m + n) \in 0 .. MaxCalls
    BY <1>0 DEF AtMost
  <2> QED BY <2>5, <2>6, <2>7
<1> QED BY <1>1 DEF CallbacksFor, PendingCalls

\* The fields of a session, and who the others are.
LEMMA SessionTypes ==
  ASSUME RemoteDebugTypeOK
  PROVE  /\ calls \in [Logger -> PendingCalls] /\ session \in [Session -> SessionRecord]
         /\ stopping \subseteq Session /\ activeSession \in Session \cup {0}
         /\ linesLogged \in 0 .. MaxLines /\ 0 \in Logger /\ Session \subseteq Logger
         /\ MaxLines \in Nat /\ DebugQueueSize \in Nat \ {0} /\ Transports \in Nat \ {0}
<1>1. MaxSessions \in Nat /\ MaxLines \in Nat /\ DebugQueueSize \in Nat \ {0} /\ Transports \in Nat \ {0}
  BY RemoteDebugAssumption
<1>2. 0 \in Logger /\ Session \subseteq Logger /\ Logger \subseteq Session \cup {0}
  BY <1>1 DEF Logger, Session
<1> QED BY <1>1, <1>2 DEF RemoteDebugTypeOK, PendingCalls

LEMMA RemoteDebugInit == InitRemoteDebug => RemoteDebugInv
<1> SUFFICES ASSUME InitRemoteDebug PROVE RemoteDebugInv
  OBVIOUS
<1>1. /\ MaxSessions \in Nat /\ MaxLines \in Nat /\ MaxCalls \in Nat
      /\ DebugQueueSize \in Nat /\ Transports \in Nat
  BY RemoteDebugAssumption
<1>2. /\ 0 \in Logger /\ 0 \in 0 .. MaxCalls /\ 0 \in 0 .. MaxLines
      /\ 0 \in 0 .. DebugQueueSize /\ 1 \in 1 .. Transports + 1
  BY <1>1 DEF Logger
<1>3. [id |-> "none", step |-> "none", replaced |-> 0, subscribed |-> FALSE,
       cancelled |-> FALSE, closed |-> FALSE, transport |-> 1, queue |-> 0,
       loop |-> "none", timer |-> "none"] \in SessionRecord
  BY <1>2 DEF SessionRecord
<1>4. RemoteDebugTypeOK
  BY <1>2, <1>3 DEF InitRemoteDebug, RemoteDebugTypeOK
<1>5. NoOrphanSession
  BY DEF InitRemoteDebug, NoOrphanSession
<1> QED BY <1>4, <1>5 DEF RemoteDebugInv

\* A step that changes none of the sessions and takes nobody out but into the hands of
\* who will stop it keeps the invariant,
LEMMA LoggedStep ==
  ASSUME RemoteDebugInv, UNCHANGED <<activeSession, session, stopping>>,
         calls' \in [Logger -> PendingCalls], linesLogged' \in 0 .. MaxLines
  PROVE  RemoteDebugInv'
BY DEF RemoteDebugInv, RemoteDebugTypeOK, NoOrphanSession, PendingCalls

\* and so does one that changes a session's queue, transport, loop or timer, or launches
\* it after the exchange.
LEMMA SessionStep ==
  ASSUME RemoteDebugInv, NEW s \in Session, NEW r \in SessionRecord,
         session' = [session EXCEPT ![s] = r],
         r.subscribed = session[s].subscribed, r.cancelled = session[s].cancelled,
         r.closed = session[s].closed,
         r.step \in {"swapped", "started"} => session[s].step \in {"swapped", "started"},
         \/ UNCHANGED <<activeSession, stopping>>
         \/ activeSession # 0 /\ activeSession' = 0 /\ stopping' = stopping \cup {activeSession},
         calls' \in [Logger -> PendingCalls], linesLogged' \in 0 .. MaxLines
  PROVE  RemoteDebugInv'
<1>0. RemoteDebugTypeOK /\ NoOrphanSession
  BY DEF RemoteDebugInv
<1>1. /\ session \in [Session -> SessionRecord] /\ stopping \subseteq Session
      /\ activeSession \in Session \cup {0} /\ 0 \in Logger
  BY <1>0, SessionTypes
<1>2. session' \in [Session -> SessionRecord]
  BY <1>1
<1>3. stopping' \subseteq Session /\ activeSession' \in Logger
  BY <1>0, <1>1 DEF RemoteDebugTypeOK
<1>4. RemoteDebugTypeOK'
  BY <1>2, <1>3 DEF RemoteDebugTypeOK, PendingCalls
<1>5. ASSUME NEW t \in Session, session'[t].step \in {"swapped", "started"},
             t # activeSession', t \notin stopping'
      PROVE  ~session'[t].subscribed /\ session'[t].cancelled /\ session'[t].closed
  <2>1. session[t].step \in {"swapped", "started"} /\ t # activeSession /\ t \notin stopping
    BY <1>1, <1>5
  <2> QED BY <1>0, <1>1, <2>1 DEF NoOrphanSession
<1>6. NoOrphanSession'
  BY <1>5 DEF NoOrphanSession
<1> QED BY <1>4, <1>6 DEF RemoteDebugInv

\* A line for the session that is active: queued, or dropped and logged.
LEMMA EnqueueStep ==
  ASSUME RemoteDebugInv, NEW g \in Logger, NEW rest \in PendingCalls, activeSession # 0,
         EnqueueToActive(g, rest), UNCHANGED <<activeSession, stopping>>,
         linesLogged' \in 0 .. MaxLines
  PROVE  RemoteDebugInv'
<1>0. /\ RemoteDebugTypeOK /\ activeSession \in Session /\ session[activeSession] \in SessionRecord
      /\ calls \in [Logger -> PendingCalls] /\ session \in [Session -> SessionRecord]
      /\ DebugQueueSize \in Nat
  BY SessionTypes DEF RemoteDebugInv
<1>1. CASE session[activeSession].queue < DebugQueueSize
  <2> DEFINE r == [session[activeSession] EXCEPT !.queue = @ + 1]
  <2>1. session' = [session EXCEPT ![activeSession].queue = @ + 1] /\ calls' = [calls EXCEPT ![g] = rest]
    BY <1>1 DEF EnqueueToActive
  <2>2. session' = [session EXCEPT ![activeSession] = r]
    BY <1>0, <2>1
  <2>3. session[activeSession].queue \in 0 .. DebugQueueSize
    BY <1>0 DEF SessionRecord
  <2>4. session[activeSession].queue + 1 \in 0 .. DebugQueueSize
    BY <1>0, <1>1, <2>3
  <2>5. /\ r \in SessionRecord /\ r.subscribed = session[activeSession].subscribed
        /\ r.cancelled = session[activeSession].cancelled /\ r.closed = session[activeSession].closed
        /\ r.step = session[activeSession].step
    BY <1>0, <2>4 DEF SessionRecord
  <2>6. calls' \in [Logger -> PendingCalls]
    BY <1>0, <2>1
  <2> HIDE DEF r
  <2> QED BY <1>0, <2>2, <2>5, <2>6, SessionStep
<1>2. CASE ~(session[activeSession].queue < DebugQueueSize)
  <2>1. CallbacksFor(rest, 1) \in PendingCalls
    BY CallbacksType
  <2>2. calls' \in [Logger -> PendingCalls] /\ UNCHANGED session
    BY <1>0, <1>2, <2>1 DEF EnqueueToActive
  <2> QED BY <2>2, LoggedStep
<1> QED BY <1>1, <1>2

\* The steps that no command and no timer makes.
LEMMA LineStep ==
  ASSUME RemoteDebugInv,
         \/ AppendLine \/ CommandOutput
         \/ \E g \in Logger, id \in SessionId : RunCallback(g, id)
  PROVE  RemoteDebugInv'
<1>0. /\ RemoteDebugTypeOK /\ calls \in [Logger -> PendingCalls] /\ 0 \in Logger
      /\ linesLogged \in 0 .. MaxLines /\ MaxLines \in Nat
      /\ calls[0] \in PendingCalls
  BY SessionTypes DEF RemoteDebugInv
<1>1. CASE AppendLine
  <2>1. CallbacksFor(calls[0], 1) \in PendingCalls
    BY <1>0, CallbacksType
  <2>2. calls' \in [Logger -> PendingCalls] /\ linesLogged' \in 0 .. MaxLines
    BY <1>0, <1>1, <2>1 DEF AppendLine
  <2> QED BY <1>1, <2>2, LoggedStep DEF AppendLine
<1>2. CASE CommandOutput
  <2>1. /\ activeSession # 0 /\ EnqueueToActive(0, calls[0]) /\ UNCHANGED <<activeSession, stopping>>
        /\ linesLogged' \in 0 .. MaxLines
    BY <1>0, <1>2 DEF CommandOutput
  <2> QED BY <1>0, <2>1, EnqueueStep
<1>3. ASSUME NEW g \in Logger, NEW id \in SessionId, RunCallback(g, id)
      PROVE  RemoteDebugInv'
  <2> DEFINE rest == [calls[g] EXCEPT ![id] = @ - 1]
  <2>1. calls[g] \in PendingCalls /\ calls[g][id] > 0 /\ MaxCalls \in Nat
    BY <1>0, <1>3, RemoteDebugAssumption DEF RunCallback
  <2>2. calls[g][id] - 1 \in 0 .. MaxCalls
    BY <2>1 DEF PendingCalls
  <2>3. rest \in PendingCalls
    BY <2>1, <2>2 DEF PendingCalls
  <2>4. /\ \/ activeSession # 0 /\ EnqueueToActive(g, rest)
           \/ calls' = [calls EXCEPT ![g] = rest] /\ UNCHANGED session
        /\ UNCHANGED <<activeSession, stopping, linesLogged>>
    BY <1>3 DEF RunCallback
  <2> HIDE DEF rest
  <2>5. CASE activeSession # 0 /\ EnqueueToActive(g, rest)
    BY <1>0, <2>3, <2>4, <2>5, EnqueueStep
  <2>6. CASE calls' = [calls EXCEPT ![g] = rest] /\ UNCHANGED session
    BY <1>0, <2>3, <2>4, <2>6, LoggedStep
  <2> QED BY <2>4, <2>5, <2>6
<1> QED BY <1>1, <1>2, <1>3

\* A start: opened, exchanged for the one that was active, launched.
LEMMA StartStep ==
  ASSUME RemoteDebugInv, NEW s \in Session,
         \/ \E id \in SessionId : OpenSession(s, id)
         \/ SwapSession(s) \/ LaunchSession(s)
  PROVE  RemoteDebugInv'
<1>0. /\ RemoteDebugTypeOK /\ NoOrphanSession /\ session \in [Session -> SessionRecord]
      /\ session[s] \in SessionRecord
      /\ calls \in [Logger -> PendingCalls] /\ 0 \in Logger /\ stopping \subseteq Session
      /\ activeSession \in Session \cup {0} /\ Session \subseteq Logger
      /\ linesLogged \in 0 .. MaxLines /\ Transports \in Nat \ {0}
  BY SessionTypes DEF RemoteDebugInv
<1>1. ASSUME NEW id \in SessionId, OpenSession(s, id)
      PROVE  RemoteDebugInv'
  <2>1. PICK first \in FirstOfOpened :
          session' = [session EXCEPT ![s].step = "opened", ![s].id = id, ![s].subscribed = TRUE,
                                     ![s].transport = first]
    BY <1>1 DEF OpenSession
  <2>2. first \in 1 .. Transports + 1
    BY <1>0 DEF FirstOfOpened
  <2> DEFINE r == [session[s] EXCEPT !.step = "opened", !.id = id, !.subscribed = TRUE,
                                     !.transport = first]
  <2>3. session' = [session EXCEPT ![s] = r]
    BY <1>0, <2>1
  <2>4. r \in SessionRecord /\ r.step = "opened"
    BY <1>0, <2>2 DEF SessionRecord
  <2> HIDE DEF r
  <2>5. UNCHANGED <<activeSession, stopping, calls, linesLogged>>
    BY <1>1 DEF OpenSession
  <2>6. session' \in [Session -> SessionRecord]
    BY <1>0, <2>3, <2>4
  <2>7. \A t \in Session : session'[t].step \in {"swapped", "started"} => session'[t] = session[t]
    BY <1>0, <2>3, <2>4
  <2>8. NoOrphanSession'
    BY <1>0, <2>5, <2>7 DEF NoOrphanSession
  <2>9. RemoteDebugTypeOK'
    BY <1>0, <2>5, <2>6 DEF RemoteDebugTypeOK
  <2> QED BY <2>8, <2>9 DEF RemoteDebugInv
<1>2. CASE SwapSession(s)
  <2> DEFINE r == [session[s] EXCEPT !.step = "swapped", !.replaced = activeSession]
  <2>1. /\ activeSession' = s /\ stopping' = stopping \cup ({activeSession} \ {0})
        /\ session' = [session EXCEPT ![s].step = "swapped", ![s].replaced = activeSession]
        /\ UNCHANGED <<calls, linesLogged>>
    BY <1>2 DEF SwapSession
  <2>2. session' = [session EXCEPT ![s] = r]
    BY <1>0, <2>1
  <2>3. activeSession \in Logger
    BY <1>0
  <2>4. r \in SessionRecord
    BY <1>0, <2>3 DEF SessionRecord
  <2> HIDE DEF r
  <2>5. session' \in [Session -> SessionRecord] /\ \A t \in Session \ {s} : session'[t] = session[t]
    BY <1>0, <2>2, <2>4
  <2>6. stopping' \subseteq Session /\ activeSession' \in Logger
    BY <1>0, <2>1
  <2>7. NoOrphanSession'
    <3>1. 0 \notin Session
      BY RemoteDebugAssumption DEF Session
    <3>2. \A t \in Session : t # activeSession' /\ t \notin stopping' =>
              t # s /\ t # activeSession /\ t \notin stopping
      BY <2>1, <3>1
    <3> QED BY <1>0, <2>5, <3>2 DEF NoOrphanSession
  <2>8. RemoteDebugTypeOK'
    BY <1>0, <2>1, <2>5, <2>6 DEF RemoteDebugTypeOK
  <2> QED BY <2>7, <2>8 DEF RemoteDebugInv
<1>3. CASE LaunchSession(s)
  <2> DEFINE r == [session[s] EXCEPT !.step = "started", !.loop = "running", !.timer = "armed"]
  <2>1. /\ session[s].step = "swapped" /\ UNCHANGED <<activeSession, stopping, linesLogged>>
        /\ session' = [session EXCEPT ![s].step = "started", ![s].loop = "running", ![s].timer = "armed"]
        /\ calls' = [calls EXCEPT ![0] = CallbacksFor(@, 1)]
    BY <1>3 DEF LaunchSession
  <2>2. session' = [session EXCEPT ![s] = r]
    BY <1>0, <2>1
  <2>3. /\ r \in SessionRecord /\ r.subscribed = session[s].subscribed
        /\ r.cancelled = session[s].cancelled /\ r.closed = session[s].closed
    BY <1>0 DEF SessionRecord
  <2>4. calls[0] \in PendingCalls
    BY <1>0
  <2>5. CallbacksFor(calls[0], 1) \in PendingCalls
    BY <2>4, CallbacksType
  <2>6. calls' \in [Logger -> PendingCalls]
    BY <1>0, <2>1, <2>5
  <2> HIDE DEF r
  <2> QED BY <1>0, <2>1, <2>2, <2>3, <2>6, SessionStep
<1> QED BY <1>1, <1>2, <1>3

\* stopSession takes the active session out, for who will stop it.
LEMMA TakeStep ==
  ASSUME RemoteDebugInv, NEW id, TakeActive(id)
  PROVE  \/ UNCHANGED <<activeSession, stopping>>
         \/ activeSession # 0 /\ activeSession' = 0 /\ stopping' = stopping \cup {activeSession}
BY DEF TakeActive

\* An end: by command or timer, and the stop itself.
LEMMA StopStep ==
  ASSUME RemoteDebugInv,
         \/ \E id \in SessionId \cup {""} : StopCommand(id)
         \/ \E s \in Session : DeadlinePasses(s) \/ StopGivenSession(s)
  PROVE  RemoteDebugInv'
<1>0. /\ RemoteDebugTypeOK /\ NoOrphanSession /\ session \in [Session -> SessionRecord]
      /\ calls \in [Logger -> PendingCalls] /\ 0 \in Logger /\ stopping \subseteq Session
      /\ activeSession \in Session \cup {0} /\ Session \subseteq Logger
      /\ linesLogged \in 0 .. MaxLines
  BY SessionTypes DEF RemoteDebugInv
<1>1. ASSUME NEW id \in SessionId \cup {""}, StopCommand(id)
      PROVE  RemoteDebugInv'
  <2>1. \/ UNCHANGED <<activeSession, stopping>>
        \/ activeSession # 0 /\ activeSession' = 0 /\ stopping' = stopping \cup {activeSession}
    BY <1>1, TakeStep DEF StopCommand
  <2>2. UNCHANGED <<session, calls, linesLogged>>
    BY <1>1 DEF StopCommand
  <2>3. activeSession' \in Logger /\ stopping' \subseteq Session
    BY <1>0, <2>1
  <2>4. \A t \in Session : t # activeSession' /\ t \notin stopping' =>
            t # activeSession /\ t \notin stopping
    BY <2>1
  <2>5. NoOrphanSession'
    BY <1>0, <2>2, <2>4 DEF NoOrphanSession
  <2>6. RemoteDebugTypeOK'
    BY <1>0, <2>2, <2>3 DEF RemoteDebugTypeOK
  <2> QED BY <2>5, <2>6 DEF RemoteDebugInv
<1>2. ASSUME NEW s \in Session, DeadlinePasses(s)
      PROVE  RemoteDebugInv'
  <2> DEFINE r == [session[s] EXCEPT !.timer = "fired"]
  <2>1. /\ session' = [session EXCEPT ![s].timer = "fired"] /\ UNCHANGED <<calls, linesLogged>>
        /\ TakeActive(session[s].id)
    BY <1>2 DEF DeadlinePasses
  <2>2. \/ UNCHANGED <<activeSession, stopping>>
        \/ activeSession # 0 /\ activeSession' = 0 /\ stopping' = stopping \cup {activeSession}
    BY <2>1, TakeStep
  <2>3. session' = [session EXCEPT ![s] = r]
    BY <1>0, <2>1
  <2>4. session[s] \in SessionRecord
    BY <1>0
  <2>5. /\ r \in SessionRecord /\ r.subscribed = session[s].subscribed
        /\ r.cancelled = session[s].cancelled /\ r.closed = session[s].closed
        /\ r.step = session[s].step
    BY <2>4 DEF SessionRecord
  <2> HIDE DEF r
  <2> QED BY <1>0, <2>1, <2>2, <2>3, <2>5, SessionStep
<1>3. ASSUME NEW s \in Session, StopGivenSession(s)
      PROVE  RemoteDebugInv'
  <2> DEFINE r == [session[s] EXCEPT !.subscribed = FALSE, !.cancelled = TRUE, !.closed = TRUE]
  <2>1. /\ stopping' = stopping \ {s} /\ UNCHANGED <<activeSession, linesLogged>>
        /\ session' = [session EXCEPT ![s].subscribed = FALSE, ![s].cancelled = TRUE, ![s].closed = TRUE]
        /\ calls' = [calls EXCEPT ![0] = CallbacksFor(@, 1)]
    BY <1>3 DEF StopGivenSession
  <2>2. session' = [session EXCEPT ![s] = r]
    BY <1>0, <2>1
  <2>3. session[s] \in SessionRecord /\ calls[0] \in PendingCalls
    BY <1>0
  <2>4. /\ r \in SessionRecord /\ ~r.subscribed /\ r.cancelled /\ r.closed
    BY <2>3 DEF SessionRecord
  <2>5. CallbacksFor(calls[0], 1) \in PendingCalls
    BY <2>3, CallbacksType
  <2>6. calls' \in [Logger -> PendingCalls]
    BY <1>0, <2>1, <2>5
  <2> HIDE DEF r
  <2>7. /\ session' \in [Session -> SessionRecord] /\ session'[s] = r
        /\ \A t \in Session \ {s} : session'[t] = session[t]
    BY <1>0, <2>2, <2>4
  <2>8. NoOrphanSession'
    BY <1>0, <2>1, <2>4, <2>7 DEF NoOrphanSession
  <2>9. RemoteDebugTypeOK'
    BY <1>0, <2>1, <2>6, <2>7 DEF RemoteDebugTypeOK, PendingCalls
  <2> QED BY <2>8, <2>9 DEF RemoteDebugInv
<1> QED BY <1>1, <1>2, <1>3

\* The loop of a session: a line goes by one of the transports or by none, or it ends.
LEMMA LoopStep ==
  ASSUME RemoteDebugInv, NEW s \in Session, PublishLine(s) \/ LoopEnds(s)
  PROVE  RemoteDebugInv'
<1>0. /\ RemoteDebugTypeOK /\ session \in [Session -> SessionRecord]
      /\ session[s] \in SessionRecord
      /\ calls \in [Logger -> PendingCalls] /\ s \in Logger
      /\ linesLogged \in 0 .. MaxLines /\ Transports \in Nat \ {0} /\ DebugQueueSize \in Nat
  BY SessionTypes DEF RemoteDebugInv
<1>1. CASE PublishLine(s)
  <2>1. PICK failed \in Refusals(session[s]) :
          /\ session' = [session EXCEPT ![s].queue = @ - 1,
                                        ![s].transport = session[s].transport + failed]
          /\ calls' = [calls EXCEPT ![s] = CallbacksFor(@, failed +
                         (IF session[s].transport + failed > Transports THEN 1 ELSE 0))]
    BY <1>1 DEF PublishLine
  <2>2. session[s].queue > 0 /\ UNCHANGED <<activeSession, stopping, linesLogged>>
    BY <1>1 DEF PublishLine
  <2>3. session[s].transport \in 1 .. Transports + 1 /\ session[s].queue \in 0 .. DebugQueueSize
    BY <1>0 DEF SessionRecord
  <2>4. failed \in Nat /\ session[s].transport + failed \in 1 .. Transports + 1
    BY <1>0, <2>3 DEF Refusals
  <2>5. session[s].queue - 1 \in 0 .. DebugQueueSize
    BY <1>0, <2>2, <2>3
  <2> DEFINE r == [session[s] EXCEPT !.queue = @ - 1, !.transport = session[s].transport + failed]
             lines == failed + (IF session[s].transport + failed > Transports THEN 1 ELSE 0)
  <2>6. session' = [session EXCEPT ![s] = r]
    BY <1>0, <2>1
  <2>7. /\ r \in SessionRecord /\ r.subscribed = session[s].subscribed
        /\ r.cancelled = session[s].cancelled /\ r.closed = session[s].closed
        /\ r.step = session[s].step
    BY <1>0, <2>4, <2>5 DEF SessionRecord
  <2>8. lines \in Nat
    BY <2>4
  <2>9. calls' = [calls EXCEPT ![s] = CallbacksFor(calls[s], lines)]
    BY <1>0, <2>1
  <2> HIDE DEF r, lines
  <2>10. calls[s] \in PendingCalls
    BY <1>0
  <2>11. CallbacksFor(calls[s], lines) \in PendingCalls
    BY <2>8, <2>10, CallbacksType
  <2>12. calls' \in [Logger -> PendingCalls]
    BY <1>0, <2>9, <2>11
  <2> QED BY <1>0, <2>2, <2>6, <2>7, <2>12, SessionStep
<1>2. CASE LoopEnds(s)
  <2> DEFINE r == [session[s] EXCEPT !.loop = "ended"]
  <2>1. /\ session' = [session EXCEPT ![s].loop = "ended"]
        /\ UNCHANGED <<activeSession, stopping, calls, linesLogged>>
    BY <1>2 DEF LoopEnds
  <2>2. session' = [session EXCEPT ![s] = r]
    BY <1>0, <2>1
  <2>3. /\ r \in SessionRecord /\ r.subscribed = session[s].subscribed
        /\ r.cancelled = session[s].cancelled /\ r.closed = session[s].closed
        /\ r.step = session[s].step
    BY <1>0 DEF SessionRecord
  <2> HIDE DEF r
  <2> QED BY <1>0, <2>1, <2>2, <2>3, SessionStep
<1> QED BY <1>1, <1>2

\* For every set of ids, number of sessions, transports and size of the queue, the
\* variables of the manager stay in their ranges and no session is orphaned
\* (startSession, stopSession, stopGivenSession, autoStopAtDeadline).
THEOREM RemoteDebugInvariant == DebugSpec => []RemoteDebugInv
<1>1. RemoteDebugInv /\ [NextRemoteDebug]_debugVars => RemoteDebugInv'
  <2> SUFFICES ASSUME RemoteDebugInv, [NextRemoteDebug]_debugVars PROVE RemoteDebugInv'
    OBVIOUS
  <2>1. CASE NextRemoteDebug
    BY <2>1, LineStep, StartStep, StopStep, LoopStep DEF NextRemoteDebug, RemoteDebugSteps
  <2>2. CASE UNCHANGED debugVars
    BY <2>2 DEF debugVars, RemoteDebugInv, RemoteDebugTypeOK, NoOrphanSession
  <2> QED BY <2>1, <2>2
<1> QED BY <1>1, RemoteDebugInit, PTL DEF DebugSpec

\* However starts, stops, timers and failing transports interleave, a session that is no
\* longer the active one has been stopped, or somebody is about to.
THEOREM NoSessionOrphaned == DebugSpec => [][NoOrphanSession']_debugVars
<1>1. RemoteDebugInv => NoOrphanSession
  BY DEF RemoteDebugInv
<1> QED BY <1>1, RemoteDebugInvariant, PTL

-----------------------------------------------------------------------------
(* MeshInstall: the entry that the flow and the hardware report both write. *)

MeshSpec == InitMesh /\ [][NextMesh]_meshVars

\* Until a report is recorded behind a flow's back, the copies that will be written say
\* of the report what the entry says.
MeshCopiesInv ==
    /\ ~lostBehind /\ flow.at \notin {"idle", "load"} => flow.copy.reported = meshState.reported
    /\ ~lostBehind /\ hardware.at = "file" => hardware.copy.reported = meshState.reported

MeshInv == MeshTypeOK /\ MeshCopiesInv

MeshFlow ==
    [at: {"idle", "load", "resume", "inspect", "attempt", "ask", "install",
          "healthy", "node"},
     reset: BOOLEAN, copy: MeshState, attempt: 0..MeshInstallAttempts]
MeshReport ==
    [at: {"idle", "file", "send", "load", "mark"}, copy: MeshState, node: MaybeNode]
LocalMesh == [present: BOOLEAN, running: BOOLEAN, node: MaybeNode]

LEMMA MeshRecords ==
  /\ NoFlow \in MeshFlow /\ NoReport \in MeshReport /\ BlankMeshState \in MeshState
  /\ MeshInstallAttempts \in Nat \ {0} /\ MaxReinstalls \in Nat
<1>1. /\ MeshInstallAttempts \in Nat \ {0} /\ MaxReinstalls \in Nat /\ "none" \in MaybeNode
      /\ 0 \in 0..MeshInstallAttempts
  BY MeshAssumption DEF MaybeNode
<1>2. BlankMeshState \in MeshState
  BY <1>1 DEF BlankMeshState, MeshState
<1>3. NoFlow \in MeshFlow
  BY <1>1, <1>2 DEF NoFlow, MeshFlow
<1>4. NoReport \in MeshReport
  BY <1>1, <1>2 DEF NoReport, MeshReport
<1> QED BY <1>1, <1>2, <1>3, <1>4

LEMMA MeshTypes ==
  ASSUME MeshTypeOK
  PROVE  /\ flow \in MeshFlow /\ hardware \in MeshReport /\ localMesh \in LocalMesh
         /\ meshState \in MeshState
         /\ flow.at \in {"idle", "load", "resume", "inspect", "attempt", "ask", "install",
                         "healthy", "node"}
         /\ flow.copy \in MeshState /\ flow.attempt \in 0..MeshInstallAttempts
         /\ hardware.copy \in MeshState /\ hardware.node \in MaybeNode
         /\ localMesh.node \in MaybeNode /\ reinstalls \in 0..MaxReinstalls
BY DEF MeshTypeOK, MeshFlow, MeshReport, LocalMesh

LEMMA MeshInit == InitMesh => MeshInv
<1> SUFFICES ASSUME InitMesh PROVE MeshInv
  OBVIOUS
<1>1. 0 \in 0..MaxReinstalls /\ "none" \in MaybeNode
  BY MeshRecords DEF MaybeNode
<1>2. flow \in MeshFlow /\ hardware \in MeshReport /\ meshState \in MeshState
  BY MeshRecords DEF InitMesh
<1>3. MeshTypeOK
  BY <1>1, <1>2 DEF InitMesh, MeshTypeOK, MeshFlow, MeshReport
<1>4. MeshCopiesInv
  BY DEF InitMesh, MeshCopiesInv, NoFlow, NoReport
<1> QED BY <1>3, <1>4 DEF MeshInv

\* What a step of the flow leaves of the entry and of its copy.
FlowKeepsReport ==
    /\ meshState' \in MeshState /\ flow' \in MeshFlow
    /\ ~lostBehind => meshState'.reported = meshState.reported
    /\ ~lostBehind /\ flow'.at \notin {"idle", "load"} =>
          flow'.copy.reported = meshState'.reported

\* A copy with other fields changed says of the report what it said,
LEMMA OtherFields ==
  ASSUME NEW s \in MeshState, NEW p \in BOOLEAN, NEW f \in BOOLEAN, NEW n \in MaybeNode
  PROVE  /\ [s EXCEPT !.paused = p] \in MeshState
         /\ [s EXCEPT !.failed = f] \in MeshState
         /\ [s EXCEPT !.failed = f, !.paused = p] \in MeshState
         /\ [s EXCEPT !.node = n] \in MeshState
         /\ [s EXCEPT !.node = n, !.failed = f] \in MeshState
         /\ [s EXCEPT !.node = n, !.reported = TRUE, !.failed = f] \in MeshState
         /\ [s EXCEPT !.paused = p].reported = s.reported
         /\ [s EXCEPT !.failed = f].reported = s.reported
         /\ [s EXCEPT !.failed = f, !.paused = p].reported = s.reported
         /\ [s EXCEPT !.node = n].reported = s.reported
         /\ [s EXCEPT !.node = n, !.failed = f].reported = s.reported
         /\ [s EXCEPT !.node = n, !.reported = TRUE, !.failed = f].reported = TRUE
BY DEF MeshState

\* and a write of such a copy keeps it, written or failed,
LEMMA FlowWrites ==
  ASSUME MeshInv, NEW copy \in MeshState, NEW at \in {"idle", "inspect", "attempt", "ask"},
         FlowSaves(copy, at), flow.at \notin {"idle", "load"},
         copy.reported = flow.copy.reported
  PROVE  FlowKeepsReport
<1>0. /\ flow \in MeshFlow /\ meshState \in MeshState
      /\ flow.copy.reported = meshState.reported \/ lostBehind
  BY MeshTypes DEF MeshInv, MeshCopiesInv
<1>1. meshState' \in {copy, meshState} /\ (at = "idle" => flow' = NoFlow)
      /\ (at # "idle" => flow' = [flow EXCEPT !.copy = copy, !.at = at])
  BY DEF FlowSaves
<1>2. flow \in MeshFlow /\ meshState \in MeshState
  BY MeshTypes DEF MeshInv
<1>3. flow' \in MeshFlow /\ (flow'.at # "idle" => flow'.copy = copy)
  <2>1. CASE at = "idle"
    <3>1. flow' = NoFlow /\ NoFlow \in MeshFlow
      BY <1>1, <2>1, MeshRecords
    <3>2. NoFlow.at = "idle"
      BY DEF NoFlow
    <3> QED BY <3>1, <3>2
  <2>2. CASE at # "idle"
    BY <1>1, <1>2, <2>2 DEF MeshFlow
  <2> QED BY <2>1, <2>2
<1>4. meshState' \in MeshState /\ (~lostBehind => meshState'.reported = meshState.reported
                                                /\ copy.reported = meshState'.reported)
  BY <1>1, <1>2 DEF MeshInv, MeshCopiesInv
<1> QED BY <1>3, <1>4 DEF FlowKeepsReport

\* as does going on without a write.
LEMMA FlowGoesOn ==
  ASSUME MeshInv, flow.at \notin {"idle", "load"}, UNCHANGED meshState,
         \/ \E at \in {"install", "healthy", "node"} : FlowGoesTo(at)
         \/ /\ flow.attempt < MeshInstallAttempts - 1
            /\ flow' = [flow EXCEPT !.attempt = @ + 1]
  PROVE  FlowKeepsReport
<1>0. /\ flow \in MeshFlow /\ meshState \in MeshState /\ flow.attempt \in 0..MeshInstallAttempts
      /\ MeshInstallAttempts \in Nat
  BY MeshTypes, MeshRecords DEF MeshInv
<1>1. flow' \in MeshFlow /\ flow'.copy = flow.copy
  <2>1. CASE \E at \in {"install", "healthy", "node"} : FlowGoesTo(at)
    BY <1>0, <2>1 DEF FlowGoesTo, MeshFlow
  <2>2. CASE /\ flow.attempt < MeshInstallAttempts - 1
             /\ flow' = [flow EXCEPT !.attempt = @ + 1]
    <3>1. flow.attempt + 1 \in 0..MeshInstallAttempts
      BY <1>0, <2>2
    <3> QED BY <1>0, <2>2, <3>1 DEF MeshFlow
  <2> QED BY <2>1, <2>2
<1> QED BY <1>0, <1>1 DEF FlowKeepsReport, MeshInv, MeshCopiesInv

\* So every step of the flow does, from the read of the entry to the last write.
LEMMA FlowStepsKeep ==
  ASSUME MeshInv, FlowSteps
  PROVE  FlowKeepsReport
<1>0. /\ flow \in MeshFlow /\ meshState \in MeshState /\ flow.copy \in MeshState
      /\ localMesh.node \in MaybeNode
  BY MeshTypes DEF MeshInv
<1>1. CASE LoadMeshState
  <2>1. \/ flow' = NoFlow
        \/ \E at \in {"inspect", "resume"} : flow' = [flow EXCEPT !.copy = meshState, !.at = at]
    BY <1>1 DEF LoadMeshState
  <2>2. flow' \in MeshFlow /\ (flow'.at \notin {"idle", "load"} => flow'.copy = meshState)
    <3>1. CASE flow' = NoFlow
      BY <3>1, MeshRecords DEF NoFlow
    <3>2. CASE \E at \in {"inspect", "resume"} : flow' = [flow EXCEPT !.copy = meshState, !.at = at]
      BY <1>0, <3>2 DEF MeshFlow
    <3> QED BY <2>1, <3>1, <3>2
  <2> QED BY <1>0, <1>1, <2>2 DEF LoadMeshState, FlowKeepsReport
<1>2. CASE LiftPause
  <2>1. FlowSaves([flow.copy EXCEPT !.paused = FALSE], "inspect") /\ flow.at = "resume"
    BY <1>2 DEF LiftPause
  <2> QED BY <1>0, <2>1, OtherFields, FlowWrites
<1>3. CASE InspectMesh
  <2>1. /\ \E at \in {"idle", "attempt"} : FlowSaves([flow.copy EXCEPT !.node = localMesh.node], at)
        /\ flow.at = "inspect"
    BY <1>3 DEF InspectMesh, ResolveMeshNode
  <2> QED BY <1>0, <2>1, OtherFields, FlowWrites
<1>4. CASE RecordAttempt
  BY <1>0, <1>4, FlowWrites DEF RecordAttempt
<1>5. CASE MeshParametersAnswered
  <2>1. \/ FlowGoesTo("install") /\ UNCHANGED meshState
        \/ /\ flow.attempt < MeshInstallAttempts - 1
           /\ flow' = [flow EXCEPT !.attempt = @ + 1]
           /\ UNCHANGED meshState
        \/ FlowSaves([flow.copy EXCEPT !.failed = TRUE], "idle")
        \/ FlowSaves([flow.copy EXCEPT !.failed = TRUE, !.paused = TRUE], "idle")
    BY <1>5 DEF MeshParametersAnswered
  <2>2. flow.at = "ask"
    BY <1>5 DEF MeshParametersAnswered
  <2> QED BY <1>0, <2>1, <2>2, OtherFields, FlowWrites, FlowGoesOn
<1>6. CASE RunMeshInstaller
  <2>1. \/ FlowSaves([flow.copy EXCEPT !.failed = TRUE], "idle")
        \/ FlowGoesTo("healthy") /\ UNCHANGED meshState
    BY <1>6 DEF RunMeshInstaller
  <2>2. flow.at = "install"
    BY <1>6 DEF RunMeshInstaller
  <2> QED BY <1>0, <2>1, <2>2, OtherFields, FlowWrites, FlowGoesOn
<1>7. CASE WaitMeshHealthy
  <2>1. \/ FlowSaves([flow.copy EXCEPT !.failed = TRUE], "idle")
        \/ FlowGoesTo("node") /\ UNCHANGED meshState
    BY <1>7 DEF WaitMeshHealthy
  <2>2. flow.at = "healthy"
    BY <1>7 DEF WaitMeshHealthy
  <2> QED BY <1>0, <2>1, <2>2, OtherFields, FlowWrites, FlowGoesOn
<1>8. CASE WaitMeshNode
  <2>1. /\ FlowSaves([flow.copy EXCEPT !.node = localMesh.node, !.failed = FALSE], "idle")
        /\ flow.at = "node"
    BY <1>8 DEF WaitMeshNode, ResolveMeshNode
  <2> QED BY <1>0, <2>1, OtherFields, FlowWrites
<1> QED BY <1>1, <1>2, <1>3, <1>4, <1>5, <1>6, <1>7, <1>8 DEF FlowSteps

LEMMA MeshFlowStep ==
  ASSUME MeshInv, FlowSteps
  PROVE  MeshInv' /\ (meshState.reported /\ ~meshState'.reported => lostBehind)
<1>0. FlowKeepsReport /\ MeshTypeOK /\ MeshCopiesInv
  BY FlowStepsKeep DEF MeshInv
<1>1. UNCHANGED <<meshEnabled, hardware, lostBehind>>
  BY DEF FlowSteps, LoadMeshState, LiftPause, InspectMesh, RecordAttempt,
         MeshParametersAnswered, RunMeshInstaller, WaitMeshHealthy, WaitMeshNode
<1>2. localMesh' \in LocalMesh /\ reinstalls' \in 0..MaxReinstalls
  <2>0. localMesh \in LocalMesh /\ reinstalls \in 0..MaxReinstalls /\ MaxReinstalls \in Nat
    BY <1>0, MeshTypes, MeshRecords
  <2>1. CASE UNCHANGED <<localMesh, reinstalls>>
    BY <2>0, <2>1
  <2>2. CASE /\ reinstalls < MaxReinstalls /\ reinstalls' = reinstalls + 1
             /\ \E up \in BOOLEAN : localMesh' = [present |-> TRUE, running |-> up, node |-> "none"]
    BY <2>0, <2>2 DEF LocalMesh, MaybeNode
  <2> QED BY <2>1, <2>2 DEF FlowSteps, LoadMeshState, LiftPause, InspectMesh, RecordAttempt,
         MeshParametersAnswered, RunMeshInstaller, WaitMeshHealthy, WaitMeshNode
<1>3. MeshTypeOK'
  BY <1>0, <1>1, <1>2 DEF MeshTypeOK, FlowKeepsReport, MeshFlow, LocalMesh
<1>4. MeshCopiesInv'
  BY <1>0, <1>1 DEF MeshCopiesInv, FlowKeepsReport
<1> QED BY <1>0, <1>3, <1>4 DEF MeshInv, FlowKeepsReport

\* The report files the node it resolved, with what it read of the entry, and records its
\* success; a flow that holds a copy then is the lapse that the property leaves open.
LEMMA MeshReportStep ==
  ASSUME MeshInv,
         BeginHardwareReport \/ FileReportNode \/ HardwareAnswered \/ LoadForReport \/ MarkReportSuccess
  PROVE  MeshInv' /\ (meshState.reported /\ ~meshState'.reported => lostBehind)
<1>0. /\ MeshTypeOK /\ MeshCopiesInv /\ hardware \in MeshReport /\ meshState \in MeshState
      /\ hardware.copy \in MeshState /\ hardware.node \in MaybeNode /\ localMesh.node \in MaybeNode
      /\ lostBehind \in BOOLEAN
  BY MeshTypes DEF MeshInv, MeshTypeOK
<1>1. UNCHANGED <<meshEnabled, localMesh, flow, reinstalls>>
  BY DEF BeginHardwareReport, FileReportNode, HardwareAnswered, LoadForReport, MarkReportSuccess
<1>2. CASE BeginHardwareReport
  <2>1. \/ \E n \in MaybeNode : hardware' = [NoReport EXCEPT !.at = "send", !.node = n]
        \/ hardware' = [NoReport EXCEPT !.at = "send"]
        \/ hardware' = [at |-> "file", node |-> localMesh.node,
                        copy |-> [meshState EXCEPT !.node = localMesh.node]]
    <3>1. meshState.node \in MaybeNode
      BY <1>0 DEF MeshState
    <3> QED BY <1>2, <3>1 DEF BeginHardwareReport, ResolveMeshNode
  <2>2. hardware' \in MeshReport /\ (hardware'.at = "file" => hardware'.copy.reported = meshState.reported)
    <3>1. [meshState EXCEPT !.node = localMesh.node] \in MeshState
          /\ [meshState EXCEPT !.node = localMesh.node].reported = meshState.reported
      BY <1>0, OtherFields
    <3>2. CASE hardware' = [at |-> "file", node |-> localMesh.node,
                            copy |-> [meshState EXCEPT !.node = localMesh.node]]
      BY <1>0, <3>1, <3>2 DEF MeshReport
    <3>3. CASE \/ \E n \in MaybeNode : hardware' = [NoReport EXCEPT !.at = "send", !.node = n]
               \/ hardware' = [NoReport EXCEPT !.at = "send"]
      BY <3>3, MeshRecords DEF MeshReport
    <3> QED BY <2>1, <3>2, <3>3
  <2>3. UNCHANGED <<meshState, lostBehind>>
    BY <1>2 DEF BeginHardwareReport
  <2> QED BY <1>0, <1>1, <2>2, <2>3 DEF MeshInv, MeshTypeOK, MeshCopiesInv, MeshReport
<1>3. CASE FileReportNode
  <2>1. hardware' \in MeshReport /\ hardware'.at = "send"
    BY <1>0, <1>3, MeshRecords DEF FileReportNode, MeshReport
  <2>2. /\ meshState' \in {hardware.copy, meshState} /\ hardware.at = "file"
        /\ UNCHANGED lostBehind
    BY <1>3 DEF FileReportNode
  <2>3. meshState' \in MeshState /\ (~lostBehind => meshState'.reported = meshState.reported)
    BY <1>0, <2>2 DEF MeshCopiesInv
  <2> QED BY <1>0, <1>1, <2>1, <2>2, <2>3 DEF MeshInv, MeshTypeOK, MeshCopiesInv, MeshReport
<1>4. CASE HardwareAnswered
  <2>1. hardware' \in MeshReport /\ hardware'.at \in {"idle", "load"}
    <3>1. CASE hardware' = NoReport
      BY <3>1, MeshRecords DEF NoReport
    <3>2. CASE hardware' = [hardware EXCEPT !.at = "load"]
      BY <1>0, <3>2 DEF MeshReport
    <3> QED BY <1>4, <3>1, <3>2 DEF HardwareAnswered
  <2>2. UNCHANGED <<meshState, lostBehind>>
    BY <1>4 DEF HardwareAnswered
  <2> QED BY <1>0, <1>1, <2>1, <2>2 DEF MeshInv, MeshTypeOK, MeshCopiesInv, MeshReport
<1>5. CASE LoadForReport
  <2>1. hardware' \in MeshReport /\ hardware'.at = "mark" /\ UNCHANGED <<meshState, lostBehind>>
    BY <1>0, <1>5 DEF LoadForReport, MeshReport
  <2> QED BY <1>0, <1>1, <2>1 DEF MeshInv, MeshTypeOK, MeshCopiesInv, MeshReport
<1>6. CASE MarkReportSuccess
  <2>1. hardware' \in MeshReport /\ hardware'.at = "idle"
    BY <1>6, MeshRecords DEF MarkReportSuccess, NoReport
  <2>2. /\ meshState' \in {meshState,
                           [hardware.copy EXCEPT !.node = hardware.node,
                               !.reported = TRUE, !.failed = FALSE]}
        /\ lostBehind' = (lostBehind \/ flow.at # "idle")
    BY <1>6 DEF MarkReportSuccess
  <2>3. meshState' \in MeshState /\ (meshState'.reported \/ meshState' = meshState)
    <3> DEFINE c == [hardware.copy EXCEPT !.node = hardware.node,
                                          !.reported = TRUE, !.failed = FALSE]
    <3>1. c \in MeshState /\ c.reported
      BY <1>0 DEF MeshState
    <3>2. meshState' \in {meshState, c}
      BY <2>2
    <3> HIDE DEF c
    <3> QED BY <1>0, <3>1, <3>2
  <2>4. lostBehind' \in BOOLEAN /\ (~lostBehind' => flow.at = "idle")
    BY <1>0, <2>2
  <2> QED BY <1>0, <1>1, <2>1, <2>3, <2>4 DEF MeshInv, MeshTypeOK, MeshCopiesInv, MeshReport
<1> QED BY <1>2, <1>3, <1>4, <1>5, <1>6

\* Every step keeps the invariant and forgets no report but for that lapse.
LEMMA MeshStep ==
  ASSUME MeshInv, [NextMesh]_meshVars
  PROVE  MeshInv' /\ (meshState.reported /\ ~meshState'.reported => lostBehind)
<1>0. /\ MeshTypeOK /\ MeshCopiesInv /\ flow \in MeshFlow /\ localMesh \in LocalMesh
  BY MeshTypes DEF MeshInv
<1>1. CASE FlowSteps
  BY <1>1, MeshFlowStep
<1>2. CASE BeginHardwareReport \/ FileReportNode \/ HardwareAnswered \/ LoadForReport \/ MarkReportSuccess
  BY <1>2, MeshReportStep
<1>3. ASSUME NEW reset \in BOOLEAN, TriggerMesh(reset)
      PROVE  MeshInv' /\ (meshState.reported /\ ~meshState'.reported => lostBehind)
  <2>1. \/ flow' = [NoFlow EXCEPT !.at = "load", !.reset = reset]
        \/ flow' = flow
    BY <1>3 DEF TriggerMesh
  <2>2. flow' \in MeshFlow /\ (flow'.at = "load" \/ flow' = flow)
    BY <1>0, <2>1, MeshRecords DEF MeshFlow
  <2>3. UNCHANGED <<meshEnabled, meshState, localMesh, hardware, reinstalls, lostBehind>>
    BY <1>3 DEF TriggerMesh
  <2> QED BY <1>0, <2>2, <2>3 DEF MeshInv, MeshTypeOK, MeshCopiesInv, MeshFlow
<1>4. CASE MeshSwitched
  <2>1. meshEnabled' \in BOOLEAN /\ UNCHANGED <<meshState, localMesh, flow, hardware, reinstalls, lostBehind>>
    BY <1>0, <1>4 DEF MeshSwitched, MeshTypeOK
  <2> QED BY <1>0, <2>1 DEF MeshInv, MeshTypeOK, MeshCopiesInv
<1>5. CASE LocalMeshChanges
  <2>1. localMesh' \in LocalMesh
    <3>1. CASE localMesh' = [localMesh EXCEPT !.running = ~@]
      BY <1>0, <3>1 DEF LocalMesh
    <3>2. CASE localMesh' = [present |-> FALSE, running |-> FALSE, node |-> "none"]
      BY <3>2 DEF LocalMesh, MaybeNode
    <3>3. CASE \E n \in MeshNode : localMesh' = [localMesh EXCEPT !.node = n]
      BY <1>0, <3>3 DEF LocalMesh, MaybeNode
    <3> QED BY <1>5, <3>1, <3>2, <3>3 DEF LocalMeshChanges
  <2>2. UNCHANGED <<meshEnabled, meshState, flow, hardware, reinstalls, lostBehind>>
    BY <1>5 DEF LocalMeshChanges
  <2> QED BY <1>0, <2>1, <2>2 DEF MeshInv, MeshTypeOK, MeshCopiesInv, LocalMesh
<1>6. CASE UNCHANGED meshVars
  BY <1>0, <1>6 DEF meshVars, MeshInv, MeshTypeOK, MeshCopiesInv
<1> QED BY <1>1, <1>2, <1>3, <1>4, <1>5, <1>6 DEF NextMesh, FlowSteps

\* For every set of node ids and every bound, the variables of the installation stay in
\* their ranges, and the copies are as said (ensureMeshCentralInstalled,
\* markMeshCentralReportSuccess).
THEOREM MeshInvariant == MeshSpec => []MeshInv
<1>1. MeshInv /\ [NextMesh]_meshVars => MeshInv'
  BY MeshStep
<1> QED BY <1>1, MeshInit, PTL DEF MeshSpec

\* That the node was reported is forgotten only where a flow wrote a copy it had taken
\* before the report succeeded.
THEOREM MeshReportKept == MeshSpec => ReportedIsKept
<1>1. MeshInv /\ [NextMesh]_meshVars =>
          [meshState.reported /\ ~meshState'.reported => lostBehind]_meshVars
  BY MeshStep
<1> QED BY <1>1, MeshInvariant, PTL DEF MeshSpec, ReportedIsKept

-----------------------------------------------------------------------------
(* TelemetryOutbox: two loops, one outbox, one window.                     *)

TelemetrySpec == InitTelemetry /\ [][NextTelemetry]_telemetryVars

SenderRecord ==
    [step : {"idle", "post", "enqueue", "record", "drain", "send"},
     payload : 0 .. MaxPayloads, windowed : BOOLEAN, overtaken : BOOLEAN, rows : Seq(Payload)]

\* Where a loop is: it has a payload until it is the server's or in the outbox, rows while
\* it sends, and it records the flush of a payload that the server took.
SenderIsSound(r, taken) ==
    /\ r.step \in {"post", "enqueue", "record"} <=> r.payload # 0
    /\ r.step = "record" => r.payload \in taken
    /\ r.step = "send" <=> r.rows # <<>>

LoopInv == \A s \in Sender : SenderIsSound(sender[s], delivered)

\* What is owed was collected.
OwedInv == TelemetryOwed \subseteq 1 .. collected

TelemetryInv == TelemetryTypeOK /\ LoopInv /\ OwedInv /\ NoTelemetryLost /\ EarlyFlushNeedsOverlap

LEMMA TelemetryBounds ==
  MaxPayloads \in Nat /\ DrainLimit \in Nat /\ MaxConfigs \in Nat
BY TelemetryAssumption

LEMMA TelemetryInit == InitTelemetry => TelemetryInv
<1> SUFFICES ASSUME InitTelemetry PROVE TelemetryInv
  OBVIOUS
<1>0. 0 \in 0 .. MaxPayloads /\ 0 \in 0 .. MaxConfigs /\ <<>> \in Seq(Payload) /\ 1 .. 0 = {}
  BY TelemetryBounds
<1>1. \A s \in Sender : sender[s] = [step |-> "idle", payload |-> 0, windowed |-> FALSE,
                                     overtaken |-> FALSE, rows |-> <<>>]
  BY DEF InitTelemetry
<1>2. TelemetryTypeOK
  BY <1>0 DEF InitTelemetry, TelemetryTypeOK, QueueMode
<1>3. LoopInv
  BY <1>1 DEF LoopInv, SenderIsSound
<1>4. OwedInv
  <2>1. \A s \in Sender : Listed(s) = {}
    BY <1>1 DEF Listed
  <2>2. \A s \in Sender, p \in Payload : sender[s].payload # p
    BY <1>1, TelemetryBounds DEF Payload
  <2>3. TelemetryOwed = {}
    BY <2>1, <2>2 DEF InitTelemetry, TelemetryOwed
  <2> QED BY <2>3 DEF OwedInv
<1>5. NoTelemetryLost
  BY <1>0 DEF InitTelemetry, NoTelemetryLost
<1>6. EarlyFlushNeedsOverlap
  BY <1>1 DEF EarlyFlushNeedsOverlap
<1> QED BY <1>2, <1>3, <1>4, <1>5, <1>6 DEF TelemetryInv

\* As many rows as are due and allowed are a sequence of payloads that are in the outbox.
LEMMA DueRowsAreRows ==
  ASSUME NEW rows \in DueRows
  PROVE  rows \in Seq(Payload) /\ \A i \in 1 .. Len(rows) : telemetryRow[rows[i]] = "due"
<1> DEFINE ripe == {p \in Payload : telemetryRow[p] = "due"}
           n   == Min({DrainLimit, Cardinality(ripe)})
<1>1. IsFiniteSet(Payload) /\ ripe \subseteq Payload
  BY TelemetryBounds, FS_Interval DEF Payload
<1>2. Cardinality(ripe) \in Nat
  <2> HIDE DEF ripe
  <2> QED BY <1>1, FS_Subset, FS_CardinalityType
<1>3. \A k, m \in Nat : Min({k, m}) \in Nat
  <2> SUFFICES ASSUME NEW k \in Nat, NEW m \in Nat PROVE Min({k, m}) \in Nat
    OBVIOUS
  <2>1. \E x \in {k, m} : \A y \in {k, m} : x <= y
    <3>1. CASE k <= m
      BY <3>1
    <3>2. CASE ~(k <= m)
      BY <3>2
    <3> QED BY <3>1, <3>2
  <2>2. Min({k, m}) \in {k, m}
    BY <2>1 DEF Min
  <2> QED BY <2>2
<1>4. n \in Nat
  BY <1>2, <1>3, TelemetryBounds
<1>5. rows \in [1 .. n -> ripe]
  BY DEF DueRows
<1> HIDE DEF n
<1>6. rows \in Seq(ripe) /\ Len(rows) = n
  <2> HIDE DEF ripe
  <2> QED BY <1>4, <1>5
<1>7. \A i \in 1 .. Len(rows) : rows[i] \in ripe
  BY <1>5, <1>6
<1>8. rows \in Seq(Payload)
  <2> HIDE DEF ripe
  <2> QED BY <1>1, <1>6
<1> QED BY <1>7, <1>8

\* The types, as the steps use them.
LEMMA TelemetryTypes ==
  ASSUME TelemetryTypeOK
  PROVE  /\ sender \in [Sender -> SenderRecord]
         /\ \A s \in Sender : sender[s] \in SenderRecord
         /\ telemetryRow \in [Payload -> {"none", "waiting", "due"}]
         /\ delivered \subseteq Payload /\ givenUp \subseteq Payload
         /\ limited \in [Sender -> BOOLEAN] /\ collected \in 0 .. MaxPayloads
         /\ windowState \in [found : BOOLEAN, startRecent : BOOLEAN, flushRecent : BOOLEAN]
         /\ Payload = 1 .. MaxPayloads /\ MaxPayloads \in Nat
BY TelemetryBounds DEF TelemetryTypeOK, SenderRecord, Payload

\* What is owed lies within a set that holds every row, every payload and every list.
LEMMA OwedWithin ==
  ASSUME NEW n, \A p \in Payload : telemetryRow[p] # "none" => p \in 1 .. n,
         \A s \in Sender : sender[s].payload \in Payload => sender[s].payload \in 1 .. n,
         \A s \in Sender : \A i \in 1 .. Len(sender[s].rows) : sender[s].rows[i] \in 1 .. n
  PROVE  TelemetryOwed \subseteq 1 .. n
BY DEF TelemetryOwed, Listed

LEMMA WithinOwed ==
  ASSUME OwedInv, TelemetryTypeOK
  PROVE  /\ \A p \in Payload : telemetryRow[p] # "none" => p \in 1 .. collected
         /\ \A s \in Sender : sender[s].payload \in Payload => sender[s].payload \in 1 .. collected
         /\ \A s \in Sender : \A i \in 1 .. Len(sender[s].rows) : sender[s].rows[i] \in 1 .. collected
<1>1. \A s \in Sender : \A i \in 1 .. Len(sender[s].rows) :
          sender[s].rows[i] \in Payload /\ sender[s].rows[i] \in Listed(s)
  <2> SUFFICES ASSUME NEW s \in Sender, NEW i \in 1 .. Len(sender[s].rows)
               PROVE  sender[s].rows[i] \in Payload /\ sender[s].rows[i] \in Listed(s)
    OBVIOUS
  <2>1. sender[s].rows \in Seq(Payload)
    BY TelemetryTypes DEF SenderRecord
  <2> QED BY <2>1 DEF Listed
<1> QED BY <1>1 DEF OwedInv, TelemetryOwed

\* What no step undoes, and how the variables that one loop does not own may move.
StoreMoves ==
    /\ telemetryRow' \in [Payload -> {"none", "waiting", "due"}]
    /\ delivered \subseteq delivered' /\ delivered' \subseteq Payload
    /\ givenUp \subseteq givenUp' /\ givenUp' \subseteq Payload
    /\ \A p \in Payload : telemetryRow[p] # "none" => telemetryRow'[p] # "none" \/ p \in delivered' \cup givenUp'

\* A step of one loop keeps the invariant if where it leaves its payload is one of the
\* places that count.
LEMMA OneLoopMoves ==
  ASSUME TelemetryInv, NEW s \in Sender, NEW r \in SenderRecord,
         sender' = [sender EXCEPT ![s] = r], SenderIsSound(r, delivered'), StoreMoves,
         limited' \in [Sender -> BOOLEAN], collected' \in 0 .. MaxPayloads, collected' >= collected,
         UNCHANGED windowState, UNCHANGED unchangedPolicy,
         r.step = "post" /\ r.windowed /\ WindowOpen => r.overtaken,
         \A p \in 1 .. collected' : p \in 1 .. collected \/ r.payload = p,
         r.payload \in Payload => r.payload \in 1 .. collected',
         sender[s].payload \in Payload =>
             \/ r.payload = sender[s].payload
             \/ sender[s].payload \in delivered' \cup givenUp'
             \/ telemetryRow'[sender[s].payload] # "none",
         \A i \in 1 .. Len(r.rows) : r.rows[i] \in 1 .. collected,
         \A p \in Payload : telemetryRow'[p] # "none" =>
             telemetryRow[p] # "none" \/ p = sender[s].payload
  PROVE  TelemetryInv'
<1>0. /\ TelemetryTypeOK /\ LoopInv /\ OwedInv /\ NoTelemetryLost /\ EarlyFlushNeedsOverlap
      /\ sender \in [Sender -> SenderRecord] /\ collected \in 0 .. MaxPayloads
      /\ Payload = 1 .. MaxPayloads /\ MaxPayloads \in Nat
      /\ telemetryRow \in [Payload -> {"none", "waiting", "due"}]
  BY TelemetryTypes DEF TelemetryInv
<1>1. /\ sender' \in [Sender -> SenderRecord] /\ sender'[s] = r
      /\ \A t \in Sender \ {s} : sender'[t] = sender[t]
  BY <1>0
<1>2. TelemetryTypeOK'
  BY <1>0, <1>1 DEF TelemetryTypeOK, SenderRecord, StoreMoves, unchangedPolicy
<1>3. LoopInv'
  BY <1>0, <1>1 DEF LoopInv, SenderIsSound, StoreMoves
<1>4. OwedInv'
  <2>0. 1 .. collected \subseteq 1 .. collected'
    BY <1>0
  <2>1. \A p \in Payload : telemetryRow'[p] # "none" => p \in 1 .. collected'
    BY <1>0, <2>0, WithinOwed
  <2>2. \A t \in Sender : sender'[t].payload \in Payload => sender'[t].payload \in 1 .. collected'
    BY <1>0, <1>1, <2>0, WithinOwed
  <2>3. \A t \in Sender : \A i \in 1 .. Len(sender'[t].rows) : sender'[t].rows[i] \in 1 .. collected'
    BY <1>0, <1>1, <2>0, WithinOwed
  <2> QED BY <2>1, <2>2, <2>3 DEF OwedInv, TelemetryOwed, Listed
<1>5. NoTelemetryLost'
  <2> SUFFICES ASSUME NEW p \in 1 .. collected'
               PROVE  \/ p \in delivered' \cup givenUp' \/ telemetryRow'[p] # "none"
                      \/ \E t \in Sender : sender'[t].payload = p
    BY DEF NoTelemetryLost
  <2>0. p \in Payload
    BY <1>0
  <2>1. CASE r.payload = p
    BY <1>1, <2>1
  <2>2. CASE p \in 1 .. collected
    <3>1. CASE p \in delivered \cup givenUp
      BY <3>1 DEF StoreMoves
    <3>2. CASE telemetryRow[p] # "none"
      BY <2>0, <3>2 DEF StoreMoves
    <3>3. ASSUME NEW t \in Sender, sender[t].payload = p
          PROVE  \/ p \in delivered' \cup givenUp' \/ telemetryRow'[p] # "none"
                 \/ \E u \in Sender : sender'[u].payload = p
      BY <1>1, <2>0, <3>3
    <3> QED BY <1>0, <2>2, <3>1, <3>2, <3>3 DEF NoTelemetryLost
  <2> QED BY <2>1, <2>2
<1>6. EarlyFlushNeedsOverlap'
  <2>1. WindowOpen' = WindowOpen
    BY DEF WindowOpen
  <2> QED BY <1>0, <1>1, <2>1 DEF EarlyFlushNeedsOverlap
<1> QED BY <1>2, <1>3, <1>4, <1>5, <1>6 DEF TelemetryInv

\* A step of no loop keeps it if the window is opened by none.
LEMMA NoLoopMoves ==
  ASSUME TelemetryInv, UNCHANGED <<sender, collected>>, StoreMoves,
         limited' \in [Sender -> BOOLEAN],
         windowState' \in [found : BOOLEAN, startRecent : BOOLEAN, flushRecent : BOOLEAN],
         WindowOpen' => WindowOpen,
         guiWindowed' \in BOOLEAN, guiMode' \in QueueMode, telemetryUp' \in BOOLEAN,
         configs' \in 0 .. MaxConfigs,
         \A p \in Payload : telemetryRow'[p] # "none" => telemetryRow[p] # "none"
  PROVE  TelemetryInv'
<1>0. /\ TelemetryTypeOK /\ LoopInv /\ OwedInv /\ NoTelemetryLost /\ EarlyFlushNeedsOverlap
      /\ Payload = 1 .. MaxPayloads /\ MaxPayloads \in Nat /\ collected \in 0 .. MaxPayloads
  BY TelemetryTypes DEF TelemetryInv
<1>1. TelemetryTypeOK'
  BY <1>0 DEF TelemetryTypeOK, StoreMoves
<1>2. LoopInv'
  BY <1>0 DEF LoopInv, SenderIsSound, StoreMoves
<1>3. OwedInv'
  BY <1>0 DEF OwedInv, TelemetryOwed, Listed
<1>4. NoTelemetryLost'
  <2>1. \A p \in 1 .. collected : p \in Payload
    BY <1>0
  <2> QED BY <1>0, <2>1 DEF NoTelemetryLost, StoreMoves
<1>5. EarlyFlushNeedsOverlap'
  BY <1>0 DEF EarlyFlushNeedsOverlap
<1> QED BY <1>1, <1>2, <1>3, <1>4, <1>5 DEF TelemetryInv

\* A post, whether it was tried or not.
LEMMA PostMoves ==
  ASSUME TelemetryTypeOK, NEW s \in Sender, NEW p \in Payload, NEW taken \in BOOLEAN,
         NEW answered \in BOOLEAN, NEW limit \in BOOLEAN, Posted(s, p, taken, answered, limit)
  PROVE  /\ delivered \subseteq delivered' /\ delivered' \subseteq delivered \cup {p}
         /\ delivered' \subseteq Payload
         /\ answered => p \in delivered'
         /\ limited' \in [Sender -> BOOLEAN]
<1>1. delivered' = IF taken THEN delivered \cup {p} ELSE delivered
  BY DEF Posted
<1>2. answered => taken
  BY DEF Posted
<1>3. limited' = [limited EXCEPT ![s] = limited[s] \/ limit]
  BY TelemetryTypes DEF Posted, RateLimited
<1>4. limited' \in [Sender -> BOOLEAN]
  <2>1. (limited[s] \/ limit) \in BOOLEAN
    OBVIOUS
  <2> QED BY <1>3, <2>1, TelemetryTypes
<1> QED BY <1>1, <1>2, <1>4, TelemetryTypes

\* What every case of the loop's steps uses.
LEMMA LoopFacts ==
  ASSUME TelemetryInv, NEW s \in Sender
  PROVE  /\ TelemetryTypeOK /\ sender \in [Sender -> SenderRecord] /\ sender[s] \in SenderRecord
         /\ sender[s].payload \in 0 .. MaxPayloads /\ sender[s].rows \in Seq(Payload)
         /\ Payload = 1 .. MaxPayloads /\ MaxPayloads \in Nat
         /\ SenderIsSound(sender[s], delivered)
         /\ collected \in 0 .. MaxPayloads
         /\ sender[s].payload \in Payload => sender[s].payload \in 1 .. collected
         /\ \A i \in 1 .. Len(sender[s].rows) : sender[s].rows[i] \in 1 .. collected
         /\ UNCHANGED unchangedStore => StoreMoves
         /\ sender[s].step \in {"post", "enqueue", "record"} => sender[s].payload \in Payload
<1>1. /\ TelemetryTypeOK /\ sender[s] \in SenderRecord /\ SenderIsSound(sender[s], delivered)
      /\ OwedInv /\ Payload = 1 .. MaxPayloads /\ MaxPayloads \in Nat
  BY TelemetryTypes DEF TelemetryInv, LoopInv
<1>2. sender[s].payload \in 0 .. MaxPayloads /\ sender[s].rows \in Seq(Payload)
  BY <1>1 DEF SenderRecord
<1>3. UNCHANGED unchangedStore => StoreMoves
  BY <1>1, TelemetryTypes DEF unchangedStore, StoreMoves
<1>4. sender[s].step \in {"post", "enqueue", "record"} => sender[s].payload \in Payload
  BY <1>1, <1>2 DEF SenderIsSound
<1> QED BY <1>1, <1>2, <1>3, <1>4, TelemetryTypes, WithinOwed

LEMMA TelemetryTickStep ==
  ASSUME TelemetryInv, NEW s \in Sender, TelemetryTick(s)
  PROVE  TelemetryInv'
<1>0. /\ sender \in [Sender -> SenderRecord] /\ sender[s] \in SenderRecord
      /\ sender[s].payload \in 0 .. MaxPayloads /\ sender[s].rows \in Seq(Payload)
      /\ Payload = 1 .. MaxPayloads /\ MaxPayloads \in Nat
      /\ SenderIsSound(sender[s], delivered) /\ collected \in 0 .. MaxPayloads
      /\ \A i \in 1 .. Len(sender[s].rows) : sender[s].rows[i] \in 1 .. collected
      /\ UNCHANGED unchangedStore => StoreMoves
      /\ limited \in [Sender -> BOOLEAN]
  BY LoopFacts, TelemetryTypes
<1>1. /\ sender[s].step = "idle" /\ UNCHANGED <<windowState, limited>>
      /\ UNCHANGED unchangedPolicy /\ UNCHANGED unchangedStore /\ delivered' = delivered
  BY DEF TelemetryTick, unchangedStore
<1>2. sender[s].payload = 0 /\ sender[s].rows = <<>>
  BY <1>0, <1>1 DEF SenderIsSound
<1>3. CASE ShouldFlush(s) /\ collected < MaxPayloads
  <2> DEFINE r == [sender[s] EXCEPT !.step = "post", !.payload = collected + 1,
                                    !.windowed = Windowed(s), !.overtaken = FALSE]
  <2>1. collected' = collected + 1 /\ sender' = [sender EXCEPT ![s] = r]
    BY <1>0, <1>3 DEF TelemetryTick
  <2>2. /\ collected + 1 \in 1 .. MaxPayloads /\ collected + 1 \in 0 .. MaxPayloads
        /\ Windowed(s) \in BOOLEAN
    BY <1>0, <1>3 DEF Windowed, TelemetryInv, TelemetryTypeOK
  <2>3. /\ r \in SenderRecord /\ r.step = "post" /\ r.payload = collected + 1
        /\ r.windowed = Windowed(s) /\ r.rows = <<>>
    BY <1>0, <1>2, <2>2 DEF SenderRecord
  <2> HIDE DEF r
  <2>4. SenderIsSound(r, delivered')
    BY <2>2, <2>3 DEF SenderIsSound
  <2>5. ~(r.windowed /\ WindowOpen)
    BY <1>3, <2>3 DEF ShouldFlush
  <2>6. /\ collected' \in 0 .. MaxPayloads /\ collected' >= collected
        /\ \A p \in 1 .. collected' : p \in 1 .. collected \/ r.payload = p
        /\ r.payload \in 1 .. collected'
    BY <1>0, <2>1, <2>2, <2>3
  <2>7. \A i \in 1 .. Len(r.rows) : r.rows[i] \in 1 .. collected
    BY <2>3
  <2>8. sender[s].payload \notin Payload
    BY <1>0, <1>2
  <2>9. \A p \in Payload : telemetryRow'[p] # "none" => telemetryRow[p] # "none"
    BY <1>1 DEF unchangedStore
  <2> QED BY <1>0, <1>1, <2>1, <2>3, <2>4, <2>5, <2>6, <2>7, <2>8, <2>9, OneLoopMoves
<1>4. CASE ~(ShouldFlush(s) /\ collected < MaxPayloads)
  <2> DEFINE r == [sender[s] EXCEPT !.step = "drain"]
  <2>1. collected' = collected /\ sender' = [sender EXCEPT ![s] = r]
    BY <1>0, <1>4 DEF TelemetryTick
  <2>2. r \in SenderRecord /\ r.step = "drain" /\ r.payload = 0 /\ r.rows = <<>>
    BY <1>0, <1>2 DEF SenderRecord
  <2> HIDE DEF r
  <2>3. SenderIsSound(r, delivered')
    BY <2>2 DEF SenderIsSound
  <2>4. \A i \in 1 .. Len(r.rows) : r.rows[i] \in 1 .. collected
    BY <2>2
  <2>5. sender[s].payload \notin Payload /\ r.payload \notin Payload
    BY <1>0, <1>2, <2>2
  <2>6. \A p \in Payload : telemetryRow'[p] # "none" => telemetryRow[p] # "none"
    BY <1>1 DEF unchangedStore
  <2>7. collected' >= collected
    BY <1>0, <2>1
  <2> QED BY <1>0, <1>1, <2>1, <2>2, <2>3, <2>4, <2>5, <2>6, <2>7, OneLoopMoves
<1> QED BY <1>3, <1>4

LEMMA PostStep ==
  ASSUME TelemetryInv, NEW s \in Sender, PostP2PTelemetry(s)
  PROVE  TelemetryInv'
<1>0. /\ TelemetryTypeOK /\ sender \in [Sender -> SenderRecord] /\ sender[s] \in SenderRecord
      /\ SenderIsSound(sender[s], delivered) /\ collected \in 0 .. MaxPayloads /\ MaxPayloads \in Nat
      /\ sender[s].payload \in Payload => sender[s].payload \in 1 .. collected
      /\ \A i \in 1 .. Len(sender[s].rows) : sender[s].rows[i] \in 1 .. collected
      /\ sender[s].step \in {"post", "enqueue", "record"} => sender[s].payload \in Payload
      /\ telemetryRow \in [Payload -> {"none", "waiting", "due"}] /\ givenUp \subseteq Payload
  BY LoopFacts, TelemetryTypes
<1>1. PICK taken \in BOOLEAN, answered \in BOOLEAN, limit \in BOOLEAN :
        /\ Posted(s, sender[s].payload, taken, answered, limit)
        /\ sender' = [sender EXCEPT ![s].step = IF answered THEN "record" ELSE "enqueue"]
  BY DEF PostP2PTelemetry
<1>2. /\ sender[s].step = "post" /\ sender[s].payload \in Payload
      /\ UNCHANGED <<windowState, telemetryRow, collected, givenUp>> /\ UNCHANGED unchangedPolicy
  BY <1>0 DEF PostP2PTelemetry
<1>3. /\ delivered \subseteq delivered' /\ delivered' \subseteq Payload
      /\ answered => sender[s].payload \in delivered'
      /\ limited' \in [Sender -> BOOLEAN]
  BY <1>0, <1>1, <1>2, PostMoves
<1> DEFINE r == [sender[s] EXCEPT !.step = IF answered THEN "record" ELSE "enqueue"]
<1>4. sender' = [sender EXCEPT ![s] = r]
  BY <1>0, <1>1
<1>5. /\ r \in SenderRecord /\ r.payload = sender[s].payload /\ r.rows = sender[s].rows
      /\ r.step \in {"record", "enqueue"} /\ (r.step = "record" => answered)
  BY <1>0 DEF SenderRecord
<1> HIDE DEF r
<1>6. SenderIsSound(r, delivered')
  BY <1>0, <1>2, <1>3, <1>5 DEF SenderIsSound
<1>7. StoreMoves
  BY <1>0, <1>2, <1>3 DEF StoreMoves
<1>8. collected' >= collected
  BY <1>0, <1>2
<1> QED BY <1>0, <1>2, <1>3, <1>4, <1>5, <1>6, <1>7, <1>8, OneLoopMoves

LEMMA EnqueueTelemetryStep ==
  ASSUME TelemetryInv, NEW s \in Sender, EnqueueTelemetry(s)
  PROVE  TelemetryInv'
<1>0. /\ TelemetryTypeOK /\ sender \in [Sender -> SenderRecord] /\ sender[s] \in SenderRecord
      /\ SenderIsSound(sender[s], delivered) /\ collected \in 0 .. MaxPayloads /\ MaxPayloads \in Nat
      /\ \A i \in 1 .. Len(sender[s].rows) : sender[s].rows[i] \in 1 .. collected
      /\ sender[s].step \in {"post", "enqueue", "record"} => sender[s].payload \in Payload
      /\ telemetryRow \in [Payload -> {"none", "waiting", "due"}] /\ givenUp \subseteq Payload
      /\ delivered \subseteq Payload /\ limited \in [Sender -> BOOLEAN] /\ Payload = 1 .. MaxPayloads
  BY LoopFacts, TelemetryTypes
<1>1. /\ sender[s].step = "enqueue" /\ sender[s].payload \in Payload
      /\ UNCHANGED <<windowState, limited, collected, delivered>> /\ UNCHANGED unchangedPolicy
      /\ \/ givenUp' = givenUp \cup {sender[s].payload} /\ UNCHANGED telemetryRow
         \/ telemetryRow' = [telemetryRow EXCEPT ![sender[s].payload] = "due"] /\ UNCHANGED givenUp
      /\ sender' = [sender EXCEPT ![s].step = "drain", ![s].payload = 0, ![s].windowed = FALSE,
                                  ![s].overtaken = FALSE]
  BY <1>0 DEF EnqueueTelemetry, InsertTelemetryRow
<1> DEFINE r == [sender[s] EXCEPT !.step = "drain", !.payload = 0, !.windowed = FALSE,
                                  !.overtaken = FALSE]
<1>2. sender' = [sender EXCEPT ![s] = r]
  BY <1>0, <1>1
<1>3. /\ r \in SenderRecord /\ r.payload = 0 /\ r.rows = sender[s].rows /\ r.step = "drain"
  <2>1. 0 \in 0 .. MaxPayloads
    BY <1>0
  <2> QED BY <1>0, <2>1 DEF SenderRecord
<1> HIDE DEF r
<1>4. SenderIsSound(r, delivered')
  BY <1>0, <1>1, <1>3 DEF SenderIsSound
<1>5. StoreMoves /\ (sender[s].payload \in givenUp' \/ telemetryRow'[sender[s].payload] # "none")
  BY <1>0, <1>1 DEF StoreMoves
<1>6. \A p \in Payload : telemetryRow'[p] # "none" => telemetryRow[p] # "none" \/ p = sender[s].payload
  BY <1>0, <1>1
<1>7. r.payload \notin Payload /\ collected' >= collected
  BY <1>0, <1>1, <1>3
<1> QED BY <1>0, <1>1, <1>2, <1>3, <1>4, <1>5, <1>6, <1>7, OneLoopMoves

\* RecordFlush opens the window, and whoever is about to post is overtaken.
LEMMA RecordFlushStep ==
  ASSUME TelemetryInv, NEW s \in Sender, RecordFlush(s)
  PROVE  TelemetryInv'
<1>0. /\ TelemetryTypeOK /\ LoopInv /\ OwedInv /\ NoTelemetryLost
      /\ sender \in [Sender -> SenderRecord] /\ \A t \in Sender : sender[t] \in SenderRecord
      /\ Payload = 1 .. MaxPayloads /\ MaxPayloads \in Nat
      /\ collected \in 0 .. MaxPayloads
      /\ windowState \in [found : BOOLEAN, startRecent : BOOLEAN, flushRecent : BOOLEAN]
  BY TelemetryTypes DEF TelemetryInv
<1>1. /\ sender[s].step = "record" /\ UNCHANGED <<limited, collected>>
      /\ UNCHANGED unchangedPolicy /\ UNCHANGED unchangedStore /\ UpsertWindow
      /\ sender' = [t \in Sender |->
                    IF t = s THEN [sender[s] EXCEPT !.step = "drain", !.payload = 0]
                    ELSE [sender[t] EXCEPT !.overtaken = @ \/ sender[t].step = "post"]]
  BY DEF RecordFlush
<1>2. /\ sender'[s] = [sender[s] EXCEPT !.step = "drain", !.payload = 0]
      /\ \A t \in Sender \ {s} :
            sender'[t] = [sender[t] EXCEPT !.overtaken = @ \/ sender[t].step = "post"]
  BY <1>1
<1>3. /\ sender'[s] \in SenderRecord /\ sender'[s].step = "drain" /\ sender'[s].payload = 0
      /\ sender'[s].rows = sender[s].rows
  <2>1. 0 \in 0 .. MaxPayloads
    BY <1>0
  <2> QED BY <1>0, <1>2, <2>1 DEF SenderRecord
<1>4. ASSUME NEW t \in Sender \ {s}
      PROVE  /\ sender'[t] \in SenderRecord /\ sender'[t].step = sender[t].step
             /\ sender'[t].payload = sender[t].payload /\ sender'[t].rows = sender[t].rows
             /\ sender[t].step = "post" => sender'[t].overtaken
  <2>1. PICK o \in BOOLEAN : o = (sender[t].overtaken \/ sender[t].step = "post")
    OBVIOUS
  <2>2. sender'[t] = [sender[t] EXCEPT !.overtaken = o]
    BY <1>2, <2>1
  <2> QED BY <1>0, <2>1, <2>2 DEF SenderRecord
<1>5. sender' \in [Sender -> SenderRecord]
  <2>1. \A t \in Sender : sender'[t] \in SenderRecord
    BY <1>3, <1>4
  <2> QED BY <1>1, <2>1
<1>6. windowState' \in [found : BOOLEAN, startRecent : BOOLEAN, flushRecent : BOOLEAN]
  BY <1>0, <1>1 DEF UpsertWindow
<1>7. TelemetryTypeOK'
  BY <1>0, <1>1, <1>5, <1>6 DEF TelemetryTypeOK, SenderRecord, unchangedPolicy, unchangedStore
<1>8. SenderIsSound(sender[s], delivered)
  BY <1>0 DEF LoopInv
<1>9. LoopInv'
  <2>1. SenderIsSound(sender'[s], delivered')
    BY <1>1, <1>3, <1>8 DEF SenderIsSound, unchangedStore
  <2>2. ASSUME NEW t \in Sender \ {s} PROVE SenderIsSound(sender'[t], delivered')
    <3>1. SenderIsSound(sender[t], delivered) /\ delivered' = delivered
      BY <1>0, <1>1 DEF LoopInv, unchangedStore
    <3> QED BY <1>4, <3>1 DEF SenderIsSound
  <2> QED BY <2>1, <2>2 DEF LoopInv
<1>10. OwedInv'
  <2>1. \A p \in Payload : telemetryRow'[p] # "none" => p \in 1 .. collected'
    BY <1>0, <1>1, WithinOwed DEF unchangedStore
  <2>2. \A t \in Sender : sender'[t].payload \in Payload => sender'[t].payload \in 1 .. collected'
    BY <1>0, <1>1, <1>3, <1>4, WithinOwed
  <2>3. \A t \in Sender : \A i \in 1 .. Len(sender'[t].rows) : sender'[t].rows[i] \in 1 .. collected'
    BY <1>0, <1>1, <1>3, <1>4, WithinOwed
  <2> QED BY <2>1, <2>2, <2>3 DEF OwedInv, TelemetryOwed, Listed
<1>11. NoTelemetryLost'
  <2> SUFFICES ASSUME NEW p \in 1 .. collected
               PROVE  \/ p \in delivered \cup givenUp \/ telemetryRow[p] # "none"
                      \/ \E t \in Sender : sender'[t].payload = p
    BY <1>1 DEF NoTelemetryLost, unchangedStore
  <2>1. ASSUME NEW t \in Sender, sender[t].payload = p
        PROVE  p \in delivered \/ sender'[t].payload = p
    BY <1>1, <1>4, <1>8, <2>1 DEF SenderIsSound
  <2> QED BY <1>0, <2>1 DEF NoTelemetryLost
<1>12. EarlyFlushNeedsOverlap'
  BY <1>3, <1>4 DEF EarlyFlushNeedsOverlap
<1> QED BY <1>7, <1>9, <1>10, <1>11, <1>12 DEF TelemetryInv

\* The loop's record after its rows.
LEMMA RowsLeft ==
  ASSUME TelemetryInv, NEW s \in Sender, NEW rows \in Seq(Payload),
         sender' = AfterRows(s, rows), sender[s].payload = 0
  PROVE  \E r \in SenderRecord :
            /\ sender' = [sender EXCEPT ![s] = r]
            /\ r.payload = 0 /\ r.rows = rows /\ r.step = (IF rows = <<>> THEN "idle" ELSE "send")
            /\ \A taken : SenderIsSound(r, taken)
<1>0. sender \in [Sender -> SenderRecord] /\ sender[s] \in SenderRecord
  BY LoopFacts
<1> DEFINE r == [sender[s] EXCEPT !.rows = rows, !.step = IF rows = <<>> THEN "idle" ELSE "send",
                                  !.windowed = FALSE, !.overtaken = FALSE]
<1>1. sender' = [sender EXCEPT ![s] = r]
  BY <1>0 DEF AfterRows
<1>2. /\ r \in SenderRecord /\ r.payload = 0 /\ r.rows = rows
      /\ r.step = (IF rows = <<>> THEN "idle" ELSE "send")
  BY <1>0 DEF SenderRecord
<1> HIDE DEF r
<1>3. \A taken : SenderIsSound(r, taken)
  BY <1>2 DEF SenderIsSound
<1> QED BY <1>1, <1>2, <1>3

LEMMA ListStep ==
  ASSUME TelemetryInv, NEW s \in Sender, ListDue(s)
  PROVE  TelemetryInv'
<1>0. /\ TelemetryTypeOK /\ OwedInv /\ SenderIsSound(sender[s], delivered)
      /\ collected \in 0 .. MaxPayloads /\ MaxPayloads \in Nat
      /\ limited \in [Sender -> BOOLEAN] /\ Payload = 1 .. MaxPayloads
      /\ UNCHANGED unchangedStore => StoreMoves
  BY LoopFacts, TelemetryTypes DEF TelemetryInv
<1>1. /\ sender[s].step = "drain" /\ UNCHANGED <<windowState, limited, collected>>
      /\ UNCHANGED unchangedPolicy /\ UNCHANGED unchangedStore
  BY DEF ListDue
<1>2. sender[s].payload = 0
  BY <1>0, <1>1 DEF SenderIsSound
<1>3. PICK rows \in DueRows \cup {<<>>} : sender' = AfterRows(s, rows)
  BY DEF ListDue
<1>4. rows \in Seq(Payload) /\ \A i \in 1 .. Len(rows) : rows[i] \in 1 .. collected
  <2>1. CASE rows \in DueRows
    <3>1. rows \in Seq(Payload) /\ \A i \in 1 .. Len(rows) : telemetryRow[rows[i]] = "due"
      BY <2>1, DueRowsAreRows
    <3>2. \A i \in 1 .. Len(rows) : rows[i] \in Payload
      BY <3>1
    <3> QED BY <1>0, <3>1, <3>2, WithinOwed
  <2>2. CASE rows = <<>>
    <3>1. <<>> \in Seq(Payload) /\ \A i \in 1 .. Len(<<>>) : FALSE
      OBVIOUS
    <3> QED BY <2>2, <3>1
  <2> QED BY <1>3, <2>1, <2>2
<1>5. PICK r \in SenderRecord :
        /\ sender' = [sender EXCEPT ![s] = r]
        /\ r.payload = 0 /\ r.rows = rows /\ r.step = (IF rows = <<>> THEN "idle" ELSE "send")
        /\ \A taken : SenderIsSound(r, taken)
  BY <1>2, <1>3, <1>4, RowsLeft
<1>6. r.payload \notin Payload /\ sender[s].payload \notin Payload
  BY <1>0, <1>2, <1>5
<1>7. \A p \in Payload : telemetryRow'[p] # "none" => telemetryRow[p] # "none"
  BY <1>1 DEF unchangedStore
<1>8. collected' >= collected /\ r.step # "post"
  BY <1>0, <1>1, <1>5
<1>9. \A p \in 1 .. collected' : p \in 1 .. collected
  BY <1>1
<1> QED BY <1>0, <1>1, <1>4, <1>5, <1>6, <1>7, <1>8, <1>9, OneLoopMoves

\* The head and the tail of the rows that are left.
LEMMA RowsHeadTail ==
  ASSUME NEW rows \in Seq(Payload), rows # <<>>
  PROVE  /\ Head(rows) \in Payload /\ Tail(rows) \in Seq(Payload)
         /\ Head(rows) = rows[1] /\ 1 \in 1 .. Len(rows)
         /\ \A i \in 1 .. Len(Tail(rows)) : i + 1 \in 1 .. Len(rows) /\ Tail(rows)[i] = rows[i + 1]
OBVIOUS

LEMMA SendStep ==
  ASSUME TelemetryInv, NEW s \in Sender, SendRow(s)
  PROVE  TelemetryInv'
<1>0. /\ TelemetryTypeOK /\ OwedInv /\ SenderIsSound(sender[s], delivered)
      /\ sender[s].rows \in Seq(Payload)
      /\ collected \in 0 .. MaxPayloads /\ MaxPayloads \in Nat
      /\ Payload = 1 .. MaxPayloads
      /\ \A i \in 1 .. Len(sender[s].rows) : sender[s].rows[i] \in 1 .. collected
      /\ telemetryRow \in [Payload -> {"none", "waiting", "due"}] /\ givenUp \subseteq Payload
  BY LoopFacts, TelemetryTypes DEF TelemetryInv
<1>1. /\ sender[s].step = "send" /\ UNCHANGED <<windowState, collected, givenUp>>
      /\ UNCHANGED unchangedPolicy /\ sender' = AfterRows(s, Tail(sender[s].rows))
  BY DEF SendRow
<1>2. sender[s].payload = 0 /\ sender[s].rows # <<>>
  BY <1>0, <1>1 DEF SenderIsSound
<1>3. PICK p \in Payload, taken \in BOOLEAN, answered \in BOOLEAN, limit \in BOOLEAN :
        Posted(s, p, taken, answered, limit) /\ RowAfterPost(p, answered)
  BY <1>0, <1>2, RowsHeadTail DEF SendRow
<1>4. /\ delivered \subseteq delivered' /\ delivered' \subseteq Payload
      /\ answered => p \in delivered' /\ limited' \in [Sender -> BOOLEAN]
  BY <1>0, <1>3, PostMoves
<1>5. StoreMoves /\ \A q \in Payload : telemetryRow'[q] # "none" => telemetryRow[q] # "none"
  BY <1>0, <1>1, <1>3, <1>4 DEF StoreMoves, RowAfterPost
<1>6. /\ Tail(sender[s].rows) \in Seq(Payload)
      /\ \A i \in 1 .. Len(Tail(sender[s].rows)) : Tail(sender[s].rows)[i] \in 1 .. collected
  <2>1. PICK rows \in Seq(Payload) : rows = sender[s].rows
    BY <1>0
  <2>2. /\ Tail(rows) \in Seq(Payload)
        /\ \A i \in 1 .. Len(Tail(rows)) : i + 1 \in 1 .. Len(rows) /\ Tail(rows)[i] = rows[i + 1]
    BY <1>2, <2>1, RowsHeadTail
  <2>3. \A i \in 1 .. Len(rows) : rows[i] \in 1 .. collected
    BY <1>0, <2>1
  <2> QED BY <2>1, <2>2, <2>3
<1>7. PICK r \in SenderRecord :
        /\ sender' = [sender EXCEPT ![s] = r]
        /\ r.payload = 0 /\ r.rows = Tail(sender[s].rows)
        /\ r.step = (IF Tail(sender[s].rows) = <<>> THEN "idle" ELSE "send")
        /\ \A t : SenderIsSound(r, t)
  <2>1. PICK rows \in Seq(Payload) : rows = Tail(sender[s].rows)
    BY <1>6
  <2>2. sender' = AfterRows(s, rows)
    BY <1>1, <2>1
  <2>3. \E r \in SenderRecord :
          /\ sender' = [sender EXCEPT ![s] = r]
          /\ r.payload = 0 /\ r.rows = rows /\ r.step = (IF rows = <<>> THEN "idle" ELSE "send")
          /\ \A t : SenderIsSound(r, t)
    BY <1>2, <2>2, RowsLeft
  <2> QED BY <2>1, <2>3
<1>8. r.payload \notin Payload /\ sender[s].payload \notin Payload
  BY <1>0, <1>2, <1>7
<1>9. collected' >= collected /\ r.step # "post"
  BY <1>0, <1>1, <1>7
<1>10. \A q \in 1 .. collected' : q \in 1 .. collected
  BY <1>1
<1>11. limited' \in [Sender -> BOOLEAN] /\ collected' \in 0 .. MaxPayloads
  BY <1>0, <1>1, <1>3, PostMoves
<1> QED BY <1>0, <1>1, <1>5, <1>6, <1>7, <1>8, <1>9, <1>10, <1>11, OneLoopMoves

\* The steps of no loop: time, age, the configuration and the server.
LEMMA SurroundingsStep ==
  ASSUME TelemetryInv,
         \/ \E s \in Sender : RateLimitPasses(s)
         \/ \E p \in Payload : BackoffPasses(p) \/ RowExpires(p)
         \/ ApplyConsolidationConfig \/ FlushAges \/ StartAges \/ TelemetryServerTurns
  PROVE  TelemetryInv'
<1>0. /\ TelemetryTypeOK
      /\ telemetryRow \in [Payload -> {"none", "waiting", "due"}]
      /\ delivered \subseteq Payload /\ givenUp \subseteq Payload
      /\ limited \in [Sender -> BOOLEAN]
      /\ windowState \in [found : BOOLEAN, startRecent : BOOLEAN, flushRecent : BOOLEAN]
      /\ guiWindowed \in BOOLEAN /\ guiMode \in QueueMode /\ telemetryUp \in BOOLEAN
      /\ configs \in 0 .. MaxConfigs /\ MaxConfigs \in Nat
  BY TelemetryTypes, TelemetryBounds DEF TelemetryInv, TelemetryTypeOK
<1>1. UNCHANGED unchangedStore => StoreMoves /\ UNCHANGED telemetryRow
  BY <1>0 DEF unchangedStore, StoreMoves
<1>2. UNCHANGED unchangedPolicy =>
        /\ guiWindowed' \in BOOLEAN /\ guiMode' \in QueueMode /\ telemetryUp' \in BOOLEAN
        /\ configs' \in 0 .. MaxConfigs
  BY <1>0 DEF unchangedPolicy
<1>3. UNCHANGED windowState =>
        /\ windowState' \in [found : BOOLEAN, startRecent : BOOLEAN, flushRecent : BOOLEAN]
        /\ WindowOpen' = WindowOpen
  BY <1>0 DEF WindowOpen
<1>4. ASSUME NEW s \in Sender, RateLimitPasses(s) PROVE TelemetryInv'
  <2>1. limited' \in [Sender -> BOOLEAN]
    BY <1>0, <1>4 DEF RateLimitPasses
  <2>2. /\ UNCHANGED <<windowState, sender, collected>> /\ UNCHANGED unchangedPolicy
        /\ UNCHANGED unchangedStore
    BY <1>4 DEF RateLimitPasses
  <2> QED BY <1>1, <1>2, <1>3, <2>1, <2>2, NoLoopMoves
<1>5. ASSUME NEW p \in Payload, BackoffPasses(p) \/ RowExpires(p) PROVE TelemetryInv'
  <2>1. /\ UNCHANGED <<windowState, sender, limited, collected, delivered>>
        /\ UNCHANGED unchangedPolicy
    BY <1>5 DEF BackoffPasses, RowExpires
  <2>2. StoreMoves /\ \A q \in Payload : telemetryRow'[q] # "none" => telemetryRow[q] # "none"
    BY <1>0, <1>5, <2>1 DEF BackoffPasses, RowExpires, StoreMoves
  <2> QED BY <1>0, <1>2, <1>3, <2>1, <2>2, NoLoopMoves
<1>6. CASE ApplyConsolidationConfig
  <2>1. /\ UNCHANGED <<windowState, sender, limited, collected, telemetryUp>>
        /\ UNCHANGED unchangedStore
        /\ guiWindowed' \in BOOLEAN /\ guiMode' \in QueueMode /\ configs' \in 0 .. MaxConfigs
    BY <1>0, <1>6 DEF ApplyConsolidationConfig
  <2> QED BY <1>0, <1>1, <1>3, <2>1, NoLoopMoves
<1>7. CASE FlushAges \/ StartAges
  <2>1. /\ windowState' \in [found : BOOLEAN, startRecent : BOOLEAN, flushRecent : BOOLEAN]
        /\ WindowOpen' => WindowOpen
    BY <1>0, <1>7 DEF FlushAges, StartAges, WindowOpen
  <2>2. /\ UNCHANGED <<sender, limited, collected>> /\ UNCHANGED unchangedPolicy
        /\ UNCHANGED unchangedStore
    BY <1>7 DEF FlushAges, StartAges
  <2> QED BY <1>0, <1>1, <1>2, <2>1, <2>2, NoLoopMoves
<1>8. CASE TelemetryServerTurns
  <2>1. /\ UNCHANGED <<guiWindowed, guiMode, configs, windowState, sender, limited, collected>>
        /\ UNCHANGED unchangedStore /\ telemetryUp' \in BOOLEAN
    BY <1>0, <1>8 DEF TelemetryServerTurns
  <2> QED BY <1>0, <1>1, <1>3, <2>1, NoLoopMoves
<1> QED BY <1>4, <1>5, <1>6, <1>7, <1>8

LEMMA TelemetryStep == TelemetryInv /\ [NextTelemetry]_telemetryVars => TelemetryInv'
<1> SUFFICES ASSUME TelemetryInv, [NextTelemetry]_telemetryVars PROVE TelemetryInv'
  OBVIOUS
<1>1. CASE \E s \in Sender : TelemetrySteps(s)
  BY <1>1, TelemetryTickStep, PostStep, EnqueueTelemetryStep, RecordFlushStep, ListStep, SendStep
     DEF TelemetrySteps
<1>2. CASE UNCHANGED telemetryVars
  <2>1. TelemetryTypeOK' /\ LoopInv'
    BY <1>2 DEF telemetryVars, TelemetryInv, TelemetryTypeOK, LoopInv, SenderIsSound
  <2>2. OwedInv'
    BY <1>2 DEF telemetryVars, TelemetryInv, OwedInv, TelemetryOwed, Listed
  <2>3. NoTelemetryLost' /\ EarlyFlushNeedsOverlap'
    BY <1>2 DEF telemetryVars, TelemetryInv, NoTelemetryLost, EarlyFlushNeedsOverlap, WindowOpen
  <2> QED BY <2>1, <2>2, <2>3 DEF TelemetryInv
<1> QED BY <1>1, <1>2, SurroundingsStep DEF NextTelemetry

\* For every bound and limit, the variables of the outbox stay in their ranges and every
\* loop is where its payload says (StartP2PTelemetryLoop).
THEOREM TelemetryInvariant == TelemetrySpec => []TelemetryInv
BY TelemetryInit, TelemetryStep, PTL DEF TelemetrySpec

\* Two processes at one outbox lose no payload, and a window is flushed early by nobody
\* who could have known (drainP2PTelemetryOutbox, ShouldFlush, RecordFlush).
THEOREM TelemetryNotLost == TelemetrySpec => [](NoTelemetryLost /\ EarlyFlushNeedsOverlap)
<1>1. TelemetryInv => NoTelemetryLost /\ EarlyFlushNeedsOverlap
  BY DEF TelemetryInv
<1> QED BY <1>1, TelemetryInvariant, PTL

\* Only what is owed arrives, and nothing is taken back.
LEMMA TelemetryArrivals ==
  ASSUME TelemetryInv, [NextTelemetry]_telemetryVars
  PROVE  /\ delivered \subseteq delivered' /\ delivered' \subseteq delivered \cup TelemetryOwed
         /\ givenUp \subseteq givenUp' /\ collected' >= collected
<1>0. collected \in 0 .. MaxPayloads /\ MaxPayloads \in Nat /\ TelemetryTypeOK
  BY TelemetryTypes DEF TelemetryInv
<1>1. collected' >= collected
  <2>1. UNCHANGED collected => collected' >= collected
    BY <1>0
  <2>2. ASSUME NEW s \in Sender, TelemetryTick(s) PROVE collected' >= collected
    BY <1>0, <2>2 DEF TelemetryTick
  <2> QED BY <2>1, <2>2 DEF NextTelemetry, TelemetrySteps, telemetryVars, PostP2PTelemetry,
        EnqueueTelemetry, RecordFlush, ListDue, SendRow, RateLimitPasses, BackoffPasses, RowExpires,
        ApplyConsolidationConfig, FlushAges, StartAges, TelemetryServerTurns
<1>2. givenUp \subseteq givenUp'
  <2>1. UNCHANGED givenUp \/ \E p : givenUp' = givenUp \cup {p}
    BY DEF NextTelemetry, TelemetrySteps, telemetryVars, TelemetryTick, PostP2PTelemetry,
        EnqueueTelemetry, RecordFlush, ListDue, SendRow, RateLimitPasses, BackoffPasses, RowExpires,
        ApplyConsolidationConfig, FlushAges, StartAges, TelemetryServerTurns, unchangedStore
  <2> QED BY <2>1
<1>3. ASSUME NEW s \in Sender, PostP2PTelemetry(s) \/ SendRow(s)
      PROVE  delivered \subseteq delivered' /\ delivered' \subseteq delivered \cup TelemetryOwed
  <2>0. /\ SenderIsSound(sender[s], delivered) /\ sender[s].rows \in Seq(Payload)
        /\ sender[s].step \in {"post", "enqueue", "record"} => sender[s].payload \in Payload
    BY LoopFacts
  <2>1. CASE PostP2PTelemetry(s)
    <3>1. sender[s].payload \in Payload /\ sender[s].payload \in TelemetryOwed
      BY <2>0, <2>1 DEF PostP2PTelemetry, TelemetryOwed
    <3> QED BY <1>0, <2>1, <3>1, PostMoves DEF PostP2PTelemetry
  <2>2. CASE SendRow(s)
    <3>1. sender[s].rows # <<>>
      BY <2>0, <2>2 DEF SendRow, SenderIsSound
    <3>2. /\ Head(sender[s].rows) \in Payload /\ Head(sender[s].rows) = sender[s].rows[1]
          /\ 1 \in 1 .. Len(sender[s].rows)
      BY <2>0, <3>1, RowsHeadTail
    <3>3. Head(sender[s].rows) \in TelemetryOwed
      BY <3>2 DEF TelemetryOwed, Listed
    <3> QED BY <1>0, <2>2, <3>2, <3>3, PostMoves DEF SendRow
  <2> QED BY <1>3, <2>1, <2>2
<1>4. \/ UNCHANGED delivered
      \/ \E s \in Sender : PostP2PTelemetry(s) \/ SendRow(s)
  BY DEF NextTelemetry, TelemetrySteps, telemetryVars, TelemetryTick,
        EnqueueTelemetry, RecordFlush, ListDue, RateLimitPasses, BackoffPasses, RowExpires,
        ApplyConsolidationConfig, FlushAges, StartAges, TelemetryServerTurns, unchangedStore
<1> QED BY <1>1, <1>2, <1>3, <1>4

\* The two loops and their one outbox implement StoreAndForward: the server gets only
\* what the agent owed, and the agent is rid of a payload only where it arrived or was
\* given up by the policy or for its age.
THEOREM TelemetryImplementsForwarding == TelemetrySpec => TelemetryIsForwarded
<1>1. InitTelemetry => TelemetryRelay!ForwardInit
  <2> SUFFICES ASSUME InitTelemetry PROVE TelemetryRelay!ForwardInit
    OBVIOUS
  <2>1. TelemetryOwed \subseteq 1 .. collected /\ collected = 0
    BY TelemetryInit DEF TelemetryInv, OwedInv, InitTelemetry
  <2>2. 1 .. 0 = {}
    OBVIOUS
  <2>3. TelemetryOwed = {} /\ delivered = {} /\ givenUp = {}
    BY <2>1, <2>2 DEF InitTelemetry
  <2> QED BY <2>3 DEF TelemetryRelay!ForwardInit
<1>2. TelemetryInv /\ TelemetryInv' /\ [NextTelemetry]_telemetryVars
        => [TelemetryRelay!ForwardNext]_TelemetryRelay!forwardVars
  <2> SUFFICES ASSUME TelemetryInv, TelemetryInv', [NextTelemetry]_telemetryVars
               PROVE  TelemetryRelay!ForwardNext
    OBVIOUS
  <2>0. /\ delivered \subseteq delivered' /\ delivered' \subseteq delivered \cup TelemetryOwed
        /\ givenUp \subseteq givenUp' /\ collected' >= collected
    BY TelemetryArrivals
  <2>1. TelemetryRelay!OnlyOwedArrive
    BY <2>0 DEF TelemetryRelay!OnlyOwedArrive, TelemetryOwed
  <2>2. TelemetryRelay!NothingIsUndone
    BY <2>0 DEF TelemetryRelay!NothingIsUndone
  <2>3. ASSUME NEW p \in TelemetryOwed
        PROVE  p \in TelemetryOwed' \cup delivered' \cup givenUp'
    <3>1. collected \in 0 .. MaxPayloads /\ collected' \in 0 .. MaxPayloads /\ MaxPayloads \in Nat
      BY TelemetryBounds DEF TelemetryInv, TelemetryTypeOK
    <3>2. p \in Payload /\ p \in 1 .. collected
      BY <2>3 DEF TelemetryInv, OwedInv, TelemetryOwed
    <3>3. p \in 1 .. collected'
      BY <2>0, <3>1, <3>2
    <3>4. \/ p \in delivered' \cup givenUp' \/ telemetryRow'[p] # "none"
          \/ \E s \in Sender : sender'[s].payload = p
      BY <3>3 DEF TelemetryInv, NoTelemetryLost
    <3> QED BY <3>2, <3>4 DEF TelemetryOwed
  <2>4. TelemetryRelay!NothingIsForgotten
    BY <2>3 DEF TelemetryRelay!NothingIsForgotten
  <2> QED BY <2>1, <2>2, <2>4 DEF TelemetryRelay!ForwardNext
<1> QED BY <1>1, <1>2, TelemetryInvariant, PTL
       DEF TelemetrySpec, TelemetryIsForwarded, TelemetryRelay!Forward

-----------------------------------------------------------------------------
(* The loops side by side.                                                 *)

\* A behaviour of MCLoops is one of each component's specification, fairness aside: those
\* out of focus only wait.
THEOREM LoopsAreApart ==
  LoopsSpec => Spec /\ DebugSpec /\ MeshSpec /\ TelemetrySpec
<1>1. LoopsInit => Init /\ InitRemoteDebug /\ InitMesh /\ InitTelemetry
  BY DEF LoopsInit
<1>2. ASSUME [LoopsNext]_loopVars
      PROVE  /\ [Next]_vars /\ [NextRemoteDebug]_debugVars /\ [NextMesh]_meshVars
             /\ [NextTelemetry]_telemetryVars
  <2>1. CASE RunWatchdog
    BY <2>1 DEF RunWatchdog
  <2>2. CASE RunRemoteDebug
    BY <2>2 DEF RunRemoteDebug, watchdogVars
  <2>3. CASE RunMesh
    BY <2>3 DEF RunMesh, watchdogVars
  <2>4. CASE RunTelemetry
    BY <2>4 DEF RunTelemetry, watchdogVars
  <2>5. CASE RunNotification
    BY <2>5 DEF RunNotification, watchdogVars
  <2>6. CASE RunChat
    BY <2>6 DEF RunChat, watchdogVars
  <2>7. CASE UNCHANGED loopVars
    BY <2>7 DEF loopVars, watchdogVars
  <2> QED BY <1>2, <2>1, <2>2, <2>3, <2>4, <2>5, <2>6, <2>7 DEF LoopsNext
<1> QED BY <1>1, <1>2, PTL DEF LoopsSpec, Spec, DebugSpec, MeshSpec, TelemetrySpec

\* What is checked of the four on one instance, their liveness aside, holds whatever the
\* constants are.
THEOREM LoopsKeepTheirWord ==
  LoopsSpec => /\ RecoveryIsSound /\ [][NoOrphanSession']_debugVars /\ ReportedIsKept
               /\ TelemetryIsForwarded /\ [](NoTelemetryLost /\ EarlyFlushNeedsOverlap)
<1> QED BY LoopsAreApart, RecoverySound, NoSessionOrphaned, MeshReportKept,
           TelemetryImplementsForwarding, TelemetryNotLost, PTL
=============================================================================
