----------------------------- MODULE SelfUpdate -----------------------------
(***************************************************************************)
(* The self-update of the service: the loop of timer and invalidations,    *)
(* one check from the manifest to the launch of the installer, the record  *)
(* on disk that survives the restart, and the reports to the server.       *)
(*                                                                         *)
(*   internal/selfupdate/updater.go                                        *)
(*   internal/service/manager.go (selfUpdateWorker, RequestSelfUpdateCheck)*)
(*                                                                         *)
(* The installer is a program of its own: it was started detached, it runs *)
(* on when the service ends, and when it succeeds it replaces the binary   *)
(* and restarts the service.                                               *)
(***************************************************************************)
EXTENDS Naturals

CONSTANTS
    MaxVersion,     \* bound: the versions are 0..MaxVersion
    Policies,       \* the policies an administrator chooses from
    MaxInstalls,    \* bound: checks that get as far as InstallStarted
    MaxFailures,    \* bound: steps of a check that fail, installers included
    MaxLost,        \* bound: reports that do not reach the server
    MaxTriggers,    \* bound: invalidations from the sync manifest
    MaxPolicies,    \* bound: changes of the policy
    MaxCrashes      \* bound: ends of the process other than by an installer

PolicyType == [enabled : BOOLEAN, onStartup : BOOLEAN, periodic : BOOLEAN, onSync : BOOLEAN]

ASSUME UpdateAssumption ==
    /\ MaxVersion \in Nat /\ MaxInstalls \in Nat \ {0}
    /\ MaxFailures \in Nat /\ MaxLost \in Nat /\ MaxTriggers \in Nat
    /\ MaxPolicies \in Nat /\ MaxCrashes \in Nat
    /\ Policies \subseteq PolicyType /\ Policies # {}

VARIABLES
    pc,        \* the goroutine of selfUpdateWorker
    timer,     \* time.Timer of Run: none, armed, fired (its channel is full)
    trigger,   \* updateTrigger holds an invalidation
    startup,   \* startupPending
    failures,  \* checks that failed in a row
    wait,      \* what the timer was set to
    policy,    \* agentUpdate in the shared configuration
    version,   \* version of the binary
    offer,     \* latestVersion of the manifest, eligible for this agent
    target,    \* latestVersion of the manifest that the check works with
    attempt,   \* correlation id of the last InstallStarted
    goal,      \* per correlation id, the version it installs
    pending,   \* pending-install.json: a correlation id, or 0
    installer, \* per correlation id: none, running, succeeded, failed
    told,      \* per correlation id, outcomes that the server was told
    used       \* per bound, how often its event happened

loopVars == <<timer, trigger, startup, failures, wait>>
installVars == <<target, attempt, goal, pending, installer, told>>
envVars == <<policy, version, offer, used>>
vars == <<pc, loopVars, installVars, envVars>>

Attempts == 1..MaxInstalls
CheckSteps == {"fetching", "downloading", "persisting", "launching"}
Spend(bound, limit) == used[bound] < limit /\ used' = [used EXCEPT ![bound] = @ + 1]

\* A report is sent once; whether it arrived is not looked at.
Report(a, outcome) ==
    \/ told' = [told EXCEPT ![a] = @ \cup {outcome}] /\ UNCHANGED used
    \/ Spend("lost", MaxLost) /\ UNCHANGED told

-----------------------------------------------------------------------------
(* The loop: Run.                                                          *)

\* nextDelay, backoffForFailures.
NextDelay(pendingStartup) ==
    IF ~policy.enabled THEN "inactive"
    ELSE IF pendingStartup /\ policy.onStartup THEN "initial"
    ELSE IF ~policy.periodic THEN "inactive" ELSE "regular"
Backoff(n) == IF n <= 1 THEN "5m" ELSE IF n = 2 THEN "30m" ELSE "2h"

Reset(delay) == timer' = "armed" /\ wait' = delay

\* ResumePendingInstallReport: the new binary reports what the old one launched.
\* (Faulty form: it waits for a version beyond the one that was installed.)
ConfirmedByLater == pending # 0 /\ version > goal[pending]
Confirmed == pending # 0 /\ version >= goal[pending]
Resume ==
    /\ pc = "resume" /\ Confirmed
    /\ Report(pending, "succeeded")
    /\ pc' = "reported"
    /\ UNCHANGED <<loopVars, target, attempt, goal, pending, installer, policy, version, offer>>

\* The record is removed, whether the report arrived or not; then Run starts.
StartLoop ==
    /\ \/ pc = "reported" /\ pending' = 0
       \/ pc = "resume" /\ ~Confirmed /\ UNCHANGED pending
    /\ startup' = policy.onStartup
    /\ Reset(NextDelay(policy.onStartup))
    /\ pc' = "idle"
    /\ UNCHANGED <<trigger, failures, target, attempt, goal, installer, told, envVars>>

TimerFires ==
    /\ pc # "off" /\ timer = "armed"
    /\ timer' = "fired"
    /\ UNCHANGED <<pc, trigger, startup, failures, wait, installVars, envVars>>

\* A scheduled check: the first one because of checkOnStartup, the others because
\* of checkPeriodically. A tick that is skipped counts as a success.
\* (Faulty form: only the first tick checks.)
OnFirstTimer ==
    /\ pc = "idle" /\ timer = "fired"
    /\ startup' = FALSE
    /\ IF policy.enabled /\ startup
       THEN pc' = "fetching" /\ timer' = "none" /\ UNCHANGED <<failures, wait>>
       ELSE /\ pc' = "idle" /\ failures' = 0
            /\ Reset(NextDelay(FALSE))
    /\ UNCHANGED <<trigger, installVars, envVars>>
OnTimer ==
    /\ pc = "idle" /\ timer = "fired"
    /\ startup' = FALSE
    /\ IF policy.enabled /\ (startup \/ policy.periodic)
       THEN pc' = "fetching" /\ timer' = "none" /\ UNCHANGED <<failures, wait>>
       ELSE /\ pc' = "idle" /\ failures' = 0
            /\ Reset(NextDelay(FALSE))
    /\ UNCHANGED <<trigger, installVars, envVars>>

\* An invalidation. The timer, which may fire during the check, is drained and
\* set again.
OnInvalidate ==
    /\ pc = "idle" /\ trigger
    /\ trigger' = FALSE
    /\ IF policy.enabled /\ policy.onSync
       THEN pc' = "fetching" /\ startup' = FALSE /\ UNCHANGED <<timer, wait>>
       ELSE pc' = "idle" /\ Reset(NextDelay(startup)) /\ UNCHANGED startup
    /\ UNCHANGED <<failures, installVars, envVars>>

\* The check returns to the loop, which counts failures in a row.
Return(failed) ==
    /\ pc' = "idle"
    /\ failures' = IF failed THEN failures + 1 ELSE 0
    /\ Reset(IF failed THEN Backoff(failures + 1) ELSE NextDelay(FALSE))
    /\ UNCHANGED <<trigger, startup>>

-----------------------------------------------------------------------------
(* One check: CheckAndUpdate.                                              *)

\* No manifest, no sha256, no download, a wrong hash or no signature.
CheckFails ==
    /\ pc \in {"fetching", "downloading"} /\ Spend("failures", MaxFailures)
    /\ Return(TRUE)
    /\ UNCHANGED <<installVars, policy, version, offer>>

\* The policy was disabled meanwhile, or there is nothing newer.
NothingToDo ==
    /\ pc = "fetching" /\ (~policy.enabled \/ offer <= version)
    /\ Return(FALSE)
    /\ UNCHANGED <<installVars, envVars>>

\* The manifest offers a newer version. (Faulty form: any other version.)
AcceptAnyOffer ==
    /\ pc = "fetching" /\ policy.enabled
    /\ target' = offer
    /\ pc' = "downloading"
    /\ UNCHANGED <<loopVars, attempt, goal, pending, installer, told, envVars>>
AcceptOffer ==
    /\ pc = "fetching" /\ policy.enabled /\ offer > version
    /\ target' = offer
    /\ pc' = "downloading"
    /\ UNCHANGED <<loopVars, attempt, goal, pending, installer, told, envVars>>

Download ==
    /\ pc = "downloading" /\ attempt < MaxInstalls
    /\ attempt' = attempt + 1 /\ goal' = [goal EXCEPT ![attempt + 1] = target]
    /\ pc' = "persisting"
    /\ UNCHANGED <<loopVars, target, pending, installer, told, envVars>>

\* pending-install.json is replaced before the installer is launched.
\* (Faulty form: it is not.)
PersistNothing ==
    /\ pc = "persisting" /\ pc' = "launching"
    /\ UNCHANGED <<loopVars, installVars, envVars>>
Persist ==
    /\ pc = "persisting"
    /\ pending' = attempt
    /\ pc' = "launching"
    /\ UNCHANGED <<loopVars, target, attempt, goal, installer, told, envVars>>

PersistFails ==
    /\ pc = "persisting" /\ used["failures"] < MaxFailures
    /\ \/ /\ told' = [told EXCEPT ![attempt] = @ \cup {"failed"}]
          /\ used' = [used EXCEPT !["failures"] = @ + 1]
       \/ /\ used["lost"] < MaxLost /\ UNCHANGED told
          /\ used' = [used EXCEPT !["failures"] = @ + 1, !["lost"] = @ + 1]
    /\ Return(TRUE)
    /\ UNCHANGED <<target, attempt, goal, pending, installer, policy, version, offer>>

Launch ==
    /\ pc = "launching"
    /\ installer' = [installer EXCEPT ![attempt] = "running"]
    /\ Return(FALSE)
    /\ UNCHANGED <<target, attempt, goal, pending, told, envVars>>

\* The record is removed; it has replaced that of an earlier installer that may run.
\* (Faulty form: the record stays.)
LaunchFailsKeepsRecord ==
    /\ pc = "launching" /\ Spend("failures", MaxFailures)
    /\ told' = [told EXCEPT ![attempt] = @ \cup {"failed"}]
    /\ Return(TRUE)
    /\ UNCHANGED <<target, attempt, goal, pending, installer, policy, version, offer>>
LaunchFails ==
    /\ pc = "launching" /\ used["failures"] < MaxFailures
    /\ pending' = 0
    /\ \/ /\ told' = [told EXCEPT ![attempt] = @ \cup {"failed"}]
          /\ used' = [used EXCEPT !["failures"] = @ + 1]
       \/ /\ used["lost"] < MaxLost /\ UNCHANGED told
          /\ used' = [used EXCEPT !["failures"] = @ + 1, !["lost"] = @ + 1]
    /\ Return(TRUE)
    /\ UNCHANGED <<target, attempt, goal, installer, policy, version, offer>>

-----------------------------------------------------------------------------
(* The installer, the server, the administrator and the process.           *)

Off ==
    /\ pc' = "off" /\ timer' = "none" /\ trigger' = FALSE /\ startup' = FALSE
    /\ failures' = 0 /\ wait' = "inactive"

InstallerSucceeds(a) ==
    /\ installer[a] = "running"
    /\ installer' = [installer EXCEPT ![a] = "succeeded"]
    /\ version' = goal[a]
    /\ Off
    /\ UNCHANGED <<target, attempt, goal, pending, told, policy, offer, used>>

InstallerFails(a) ==
    /\ installer[a] = "running" /\ Spend("failures", MaxFailures)
    /\ installer' = [installer EXCEPT ![a] = "failed"]
    /\ UNCHANGED <<pc, loopVars, target, attempt, goal, pending, told, policy, version, offer>>

ProcessEnds ==
    /\ pc # "off" /\ Spend("crashes", MaxCrashes)
    /\ Off
    /\ UNCHANGED <<installVars, policy, version, offer>>

ProcessStarts ==
    /\ pc = "off"
    /\ pc' = "resume"
    /\ UNCHANGED <<loopVars, installVars, envVars>>

\* RequestSelfUpdateCheck: a channel of capacity 1, a full one is left alone.
Invalidate ==
    /\ pc # "off" /\ Spend("triggers", MaxTriggers)
    /\ trigger' = TRUE
    /\ UNCHANGED <<pc, timer, startup, failures, wait, installVars, policy, version, offer>>

ChangePolicy ==
    /\ Spend("policies", MaxPolicies)
    /\ policy' \in Policies \ {policy}
    /\ UNCHANGED <<pc, loopVars, installVars, version, offer>>

PublishRelease ==
    /\ offer < MaxVersion /\ offer' = offer + 1
    /\ UNCHANGED <<pc, loopVars, installVars, policy, version, used>>

-----------------------------------------------------------------------------
Init ==
    /\ pc = "resume" /\ timer = "none" /\ trigger = FALSE /\ startup = FALSE
    /\ failures = 0 /\ wait = "inactive"
    /\ policy \in Policies /\ version = 0 /\ offer = 0 /\ target = 0
    /\ attempt = 0 /\ goal = [a \in Attempts |-> 0] /\ pending = 0
    /\ installer = [a \in Attempts |-> "none"] /\ told = [a \in Attempts |-> {}]
    /\ used = [b \in {"failures", "lost", "triggers", "policies", "crashes"} |-> 0]

Loop == Resume \/ StartLoop \/ OnTimer \/ OnInvalidate
Check == CheckFails \/ NothingToDo \/ AcceptOffer \/ Download \/ Persist \/ PersistFails \/ Launch \/ LaunchFails
Installer == \E a \in Attempts : InstallerSucceeds(a) \/ InstallerFails(a)
Environment == Invalidate \/ ChangePolicy \/ PublishRelease \/ ProcessEnds

Next == Loop \/ TimerFires \/ Check \/ Installer \/ ProcessStarts \/ Environment

Spec == Init /\ [][Next]_vars

\* The goroutine runs, timers fire, installers end, the service is restarted.
Fairness == /\ WF_vars(Loop) /\ WF_vars(TimerFires) /\ WF_vars(Check)
            /\ WF_vars(Installer) /\ WF_vars(ProcessStarts)

FairSpec == Spec /\ Fairness

-----------------------------------------------------------------------------
(* Properties.                                                             *)

\* The ranges of the variables.
TypeOK ==
    /\ pc \in {"off", "resume", "reported", "idle"} \cup CheckSteps
    /\ timer \in {"none", "armed", "fired"} /\ trigger \in BOOLEAN /\ startup \in BOOLEAN
    /\ failures \in Nat /\ wait \in {"inactive", "initial", "regular", "5m", "30m", "2h"}
    /\ policy \in Policies /\ {version, offer, target} \subseteq 0..MaxVersion
    /\ attempt \in 0..MaxInstalls /\ goal \in [Attempts -> 0..MaxVersion]
    /\ pending \in 0..MaxInstalls
    /\ installer \in [Attempts -> {"none", "running", "succeeded", "failed"}]
    /\ told \in [Attempts -> SUBSET {"succeeded", "failed"}]
    /\ used \in [{"failures", "lost", "triggers", "policies", "crashes"} -> Nat]

\* The server is never told both outcomes of one installation; and told that one
\* succeeded only if an installer with that version, or a later one, did.
OutcomesAgree ==
    \A a \in Attempts :
        /\ told[a] # {"succeeded", "failed"}
        /\ "succeeded" \in told[a] =>
              \E b \in Attempts : installer[b] = "succeeded" /\ goal[b] >= goal[a]

\* The installer that runs is the one on record, so that the process it starts can
\* report it: unless the service got as far as a later one meanwhile, or an earlier
\* one finished late with the same version.
RunningIsOnRecord ==
    \A a \in Attempts : installer[a] = "running" =>
        \/ pending = a \/ attempt > a
        \/ \E b \in 1..(a - 1) : installer[b] = "succeeded" /\ goal[b] >= goal[a]

\* No installer replaces the binary by an older one, or by the one that runs, unless
\* it was started before another one finished.
NoNeedlessInstall ==
    [][\A a \in Attempts : installer[a] = "none" /\ installer'[a] = "running"
            => goal[a] > version]_vars

\* An eligible release is installed at last, over failed downloads, launches and
\* installers, crashes and invalidations, if updates are enabled and periodic (and
\* the bound MaxInstalls is not spent).
OfferIsInstalled ==
    <>[](policy.enabled /\ policy.periodic)
        => <>[](version = offer) \/ <>(attempt = MaxInstalls)

\* A successful installation that is on record is reported by the process it started,
\* unless a report was lost, a later installation took its place on record, or an
\* older installer that ended late put an older version back.
SuccessIsReported ==
    \A a \in Attempts :
        (pending = a /\ installer[a] = "succeeded")
            ~> \/ "succeeded" \in told[a] \/ pending > a
               \/ version < goal[a] \/ used["lost"] > 0

\* What is on record of the installations, and what the server is told of them,
\* fit the installers that ran.
RecordIsSound == OutcomesAgree /\ RunningIsOnRecord

\* The release that is offered is installed at last, and no other.
OffersAreFollowed == OfferIsInstalled /\ NoNeedlessInstall
=============================================================================
