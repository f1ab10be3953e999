------------------------------ MODULE Watchdog ------------------------------
(***************************************************************************)
(* The watchdog: components send heartbeats, or are suspended; at every    *)
(* tick the watchdog takes a snapshot of their health under the lock and   *)
(* then works through it without the lock, resetting the count of          *)
(* recoveries of a healthy component, and raising an alarm and starting a  *)
(* recovery for an unhealthy one.                                          *)
(*                                                                         *)
(*   internal/watchdog/watchdog.go, app/ui_runtime.go                      *)
(*                                                                         *)
(* Time is counted in ticks of CheckInterval; an age stops at MaxAge.  A   *)
(* round of checks starts goroutines and never waits, so it ends within    *)
(* the tick.  A component that is up sends a heartbeat every BeatEvery     *)
(* ticks; one that is wedged hangs, or has panicked.                       *)
(***************************************************************************)
EXTENDS Naturals

CONSTANTS
    Component,
    DegradedThreshold, UnhealthyThreshold,   \* Config, in ticks
    ComponentThresholds,     \* Config: overrides, 0 for none
    UnhealthyNotifyCooldown, \* Config, in ticks
    MaxRecoveryAttempts,     \* Config
    BeatEvery,               \* period of the heartbeats, in ticks
    MaxAge,                  \* bound: no age is told apart beyond this one
    MaxWedges,               \* bound: how often components wedge
    MaxSuspends              \* bound: how often they are suspended

\* thresholdsFor.
Unhealthy(c) ==
    LET u == IF ComponentThresholds[c].unhealthy > 0
             THEN ComponentThresholds[c].unhealthy ELSE UnhealthyThreshold
    IN  IF u = 0 THEN 1 ELSE u
Degraded(c) ==
    LET d == IF ComponentThresholds[c].degraded > 0
             THEN ComponentThresholds[c].degraded ELSE DegradedThreshold
    IN  IF d = 0 \/ d >= Unhealthy(c) THEN Unhealthy(c) \div 2 ELSE d

ASSUME WatchdogAssumption ==
    /\ {DegradedThreshold, UnhealthyThreshold, UnhealthyNotifyCooldown} \subseteq Nat
    /\ MaxRecoveryAttempts \in Nat /\ BeatEvery \in Nat \ {0}
    /\ {MaxAge, MaxWedges, MaxSuspends} \subseteq Nat
    /\ ComponentThresholds \in [Component -> [degraded : Nat, unhealthy : Nat]]
    /\ \A c \in Component : BeatEvery <= Degraded(c) /\ Unhealthy(c) < MaxAge
    /\ UnhealthyNotifyCooldown <= MaxAge

VARIABLES
    mode,        \* a component: off, up or wedged
    age,         \* time since its last heartbeat, MaxAge if there was none
    suspended,   \* the components that are suspended
    count,       \* recoveryCount
    notified,    \* time since lastNotified, MaxAge if never
    verdict,     \* the rest of the snapshot that the round works through
    due,         \* the ticker's channel is full
    recovering,  \* goroutines that run a recovery
    alarm,       \* time since onUnhealthy was last called, MaxAge if never
    since,       \* recoveries started since the last heartbeat
    stale,       \* components that beat or changed since the snapshot
    used         \* per bound, how often its event happened

known == {c \in Component : mode[c] # "off" \/ c \in suspended}
componentVars == <<mode, age, suspended, used>>
checkVars == <<count, notified, verdict, due, recovering, alarm>>
vars == <<componentVars, checkVars, since, stale>>

Spend(bound, limit) == used[bound] < limit /\ used' = [used EXCEPT ![bound] = @ + 1]
Older(f) == [c \in Component |-> IF f[c] < MaxAge THEN f[c] + 1 ELSE MaxAge]
Idle == \A c \in Component : verdict[c] = "none"

-----------------------------------------------------------------------------
(* The components.                                                         *)

Heartbeat(c) ==
    /\ age' = [age EXCEPT ![c] = 0]
    /\ since' = [since EXCEPT ![c] = 0]
    /\ stale' = stale \cup {c}

\* SafeGoWithContext: a goroutine starts and sends the first heartbeat.
Start(c) ==
    /\ mode[c] = "off" /\ mode' = [mode EXCEPT ![c] = "up"]
    /\ Heartbeat(c)
    /\ UNCHANGED <<suspended, used, checkVars>>

\* (Faulty form: a heartbeat that goes on when the work it vouches for has stopped.)
BeatRegardless(c) ==
    /\ mode[c] # "off" /\ age[c] > 0 /\ Heartbeat(c)
    /\ UNCHANGED <<mode, suspended, used, checkVars>>
Beat(c) ==
    /\ mode[c] = "up" /\ age[c] > 0 /\ Heartbeat(c)
    /\ UNCHANGED <<mode, suspended, used, checkVars>>

Wedge(c) ==
    /\ mode[c] = "up" /\ Spend("wedges", MaxWedges)
    /\ mode' = [mode EXCEPT ![c] = "wedged"]
    /\ UNCHANGED <<age, suspended, checkVars, since, stale>>

\* Suspend. A component that never sent a heartbeat is given one.
Suspend(c) ==
    /\ c \notin suspended /\ Spend("suspends", MaxSuspends)
    /\ suspended' = suspended \cup {c}
    /\ age' = [age EXCEPT ![c] = IF c \in known THEN @ ELSE 0]
    /\ stale' = stale \cup {c}
    /\ UNCHANGED <<mode, checkVars, since>>

\* Resume. The age is what it was; the next heartbeat comes separately.
Resume(c) ==
    /\ c \in suspended /\ mode[c] # "off"
    /\ suspended' = suspended \ {c}
    /\ stale' = stale \cup {c}
    /\ UNCHANGED <<mode, age, used, checkVars, since>>

\* A recovery ends; it helped, or it did not.
RecoveryEnds(c) ==
    /\ recovering[c] > 0
    /\ recovering' = [recovering EXCEPT ![c] = @ - 1]
    /\ \/ mode' = [mode EXCEPT ![c] = "up"]
       \/ UNCHANGED mode
    /\ UNCHANGED <<age, suspended, used, count, notified, verdict, due, alarm, since, stale>>

\* One CheckInterval. Components that are up do not miss their heartbeats.
Tick ==
    /\ Idle /\ ~due
    /\ \A c \in known \ suspended : mode[c] = "up" => age[c] < BeatEvery
    /\ age' = Older(age) /\ notified' = Older(notified) /\ alarm' = Older(alarm)
    /\ due' = TRUE
    /\ UNCHANGED <<mode, suspended, used, count, verdict, recovering, since, stale>>

-----------------------------------------------------------------------------
(* The round of checks: performHealthChecks.                               *)

\* buildHealthCheck. (Faulty form: it knows no overrides.)
HealthByDefault(c) ==
    IF c \in suspended THEN "Unknown"
    ELSE IF age[c] > UnhealthyThreshold THEN "Unhealthy"
    ELSE IF age[c] > DegradedThreshold THEN "Degraded"
    ELSE "Healthy"
Health(c) ==
    IF c \in suspended THEN "Unknown"
    ELSE IF age[c] > Unhealthy(c) THEN "Unhealthy"
    ELSE IF age[c] > Degraded(c) THEN "Degraded"
    ELSE "Healthy"

\* GetHealth. Nothing is done for a Degraded or Unknown component.
Snapshot ==
    /\ due /\ Idle /\ due' = FALSE
    /\ verdict' = [c \in Component |->
          IF c \in known /\ Health(c) \in {"Healthy", "Unhealthy"} THEN Health(c) ELSE "none"]
    /\ stale' = {}
    /\ UNCHANGED <<componentVars, count, notified, recovering, alarm, since>>

\* One component is dealt with before the next.
MayBegin(c) == \A d \in Component \ {c} : verdict[d] # "Alarmed"

\* (Faulty form: the count is never reset.)
HealthyKeepsCount(c) ==
    /\ verdict[c] = "Healthy" /\ MayBegin(c)
    /\ verdict' = [verdict EXCEPT ![c] = "none"]
    /\ UNCHANGED <<componentVars, count, notified, due, recovering, alarm, since, stale>>
Healthy(c) ==
    /\ verdict[c] = "Healthy" /\ MayBegin(c)
    /\ count' = [count EXCEPT ![c] = 0]
    /\ verdict' = [verdict EXCEPT ![c] = "none"]
    /\ UNCHANGED <<componentVars, notified, due, recovering, alarm, since, stale>>

\* handleUnhealthy, the first half: an alarm, unless there was one lately.
\* (Faulty form: an alarm that is suppressed starts the cooldown again.)
NotifyRenewsCooldown(c) ==
    /\ verdict[c] = "Unhealthy" /\ MayBegin(c)
    /\ verdict' = [verdict EXCEPT ![c] = "Alarmed"]
    /\ notified' = [notified EXCEPT ![c] = 0]
    /\ alarm' = [alarm EXCEPT ![c] = IF notified[c] < UnhealthyNotifyCooldown THEN @ ELSE 0]
    /\ UNCHANGED <<componentVars, count, due, recovering, since, stale>>
Notify(c) ==
    /\ verdict[c] = "Unhealthy" /\ MayBegin(c)
    /\ verdict' = [verdict EXCEPT ![c] = "Alarmed"]
    /\ IF notified[c] < UnhealthyNotifyCooldown THEN UNCHANGED <<notified, alarm>>
       ELSE notified' = [notified EXCEPT ![c] = 0] /\ alarm' = [alarm EXCEPT ![c] = 0]
    /\ UNCHANGED <<componentVars, count, due, recovering, since, stale>>

\* The second half: a recovery is counted, and started in a goroutine of its own.
\* (Faulty forms: one too many is; it is not counted.)
AttemptOnceMore(c) ==
    /\ verdict[c] = "Alarmed" /\ verdict' = [verdict EXCEPT ![c] = "none"]
    /\ IF count[c] > MaxRecoveryAttempts THEN UNCHANGED <<count, recovering, since>>
       ELSE /\ count' = [count EXCEPT ![c] = @ + 1]
            /\ recovering' = [recovering EXCEPT ![c] = @ + 1]
            /\ since' = [since EXCEPT ![c] = @ + 1]
    /\ UNCHANGED <<componentVars, notified, due, alarm, stale>>
AttemptUncounted(c) ==
    /\ verdict[c] = "Alarmed" /\ verdict' = [verdict EXCEPT ![c] = "none"]
    /\ IF count[c] >= MaxRecoveryAttempts THEN UNCHANGED <<recovering, since>>
       ELSE /\ recovering' = [recovering EXCEPT ![c] = @ + 1]
            /\ since' = [since EXCEPT ![c] = @ + 1]
    /\ UNCHANGED <<componentVars, count, notified, due, alarm, stale>>
Attempt(c) ==
    /\ verdict[c] = "Alarmed" /\ verdict' = [verdict EXCEPT ![c] = "none"]
    /\ IF count[c] >= MaxRecoveryAttempts THEN UNCHANGED <<count, recovering, since>>
       ELSE /\ count' = [count EXCEPT ![c] = @ + 1]
            /\ recovering' = [recovering EXCEPT ![c] = @ + 1]
            /\ since' = [since EXCEPT ![c] = @ + 1]
    /\ UNCHANGED <<componentVars, notified, due, alarm, stale>>

-----------------------------------------------------------------------------
Init ==
    /\ mode = [c \in Component |-> "off"]
    /\ age = [c \in Component |-> MaxAge]
    /\ suspended = {} /\ used = [b \in {"wedges", "suspends"} |-> 0]
    /\ count = [c \in Component |-> 0]
    /\ notified = [c \in Component |-> MaxAge]
    /\ alarm = [c \in Component |-> MaxAge]
    /\ verdict = [c \in Component |-> "none"] /\ due = FALSE
    /\ recovering = [c \in Component |-> 0] /\ since = [c \in Component |-> 0]
    /\ stale = {}

Round == Snapshot \/ \E c \in Component : Healthy(c) \/ Notify(c) \/ Attempt(c)
Life(c) == Start(c) \/ Beat(c) \/ Wedge(c) \/ Suspend(c) \/ Resume(c) \/ RecoveryEnds(c)

Next == Tick \/ Round \/ \E c \in Component : Life(c)

Spec == Init /\ [][Next]_vars

\* Time passes, the watchdog's goroutine runs, components that are up beat.
Fairness == /\ WF_vars(Tick) /\ WF_vars(Round)
            /\ \A c \in Component : WF_vars(Beat(c)) /\ WF_vars(Start(c))

FairSpec == Spec /\ Fairness

-----------------------------------------------------------------------------
(* Properties.                                                             *)

\* The ranges of the variables; the count never passes its limit.
TypeOK ==
    /\ mode \in [Component -> {"off", "up", "wedged"}]
    /\ {age, notified, alarm} \subseteq [Component -> 0..MaxAge]
    /\ suspended \subseteq Component /\ stale \subseteq Component
    /\ count \in [Component -> 0..MaxRecoveryAttempts]
    /\ verdict \in [Component -> {"none", "Healthy", "Unhealthy", "Alarmed"}]
    /\ due \in BOOLEAN /\ recovering \in [Component -> Nat] /\ since \in [Component -> Nat]
    /\ used \in [{"wedges", "suspends"} -> Nat]

\* Nothing is recovered silently: a recovery starts only in the round of an alarm for
\* that component, or within the cooldown of one (0: there is no cooldown).
RecoveryIsAnnounced ==
    [][\A c \in Component : recovering'[c] > recovering[c] =>
          alarm[c] = 0 \/ alarm[c] < UnhealthyNotifyCooldown]_vars

\* A component is recovered only past its own limit, unless it beat, was suspended
\* or was resumed while the round was on its way.
OnlyOverdueIsRecovered ==
    [][\A c \in Component : recovering'[c] > recovering[c] =>
          c \in stale \/ (age[c] > Unhealthy(c) /\ c \notin suspended)]_vars

\* A component that wedges, and stays so until it comes up again, is reported before
\* long, unless it is suspended.
WedgeIsReported ==
    \A c \in Component : []<>(mode[c] # "wedged" \/ alarm[c] = 0 \/ c \in suspended)

\* A component that stays up has all its recoveries back in the end.
BudgetIsRestored ==
    \A c \in Component : <>[](mode[c] = "up" /\ c \notin suspended) => <>[](count[c] = 0)

\* A recovery is due, and announced, whatever changed since the snapshot; and a component
\* that sends no more heartbeats is not recovered for ever: at most MaxRecoveryAttempts
\* times, and once more for a verdict from before the last one.
RecoveryIsSound ==
    /\ [](\A c \in Component : since[c] <= MaxRecoveryAttempts + 1)
    /\ RecoveryIsAnnounced /\ OnlyOverdueIsRecovered

\* A hang is reported and, once it is over, forgotten.
HangsAreHandled == WedgeIsReported /\ BudgetIsRestored
=============================================================================
