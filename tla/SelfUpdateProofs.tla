-------------------------- MODULE SelfUpdateProofs --------------------------
(***************************************************************************)
(* Proofs about SelfUpdate, for every set of policies and every bound on   *)
(* versions, installations and failures: types, that the record and the    *)
(* reports fit the installers that ran, and that no check launches an      *)
(* installer of a version that is not newer.                               *)
(***************************************************************************)
EXTENDS SelfUpdate, TLAPS

Pcs == {"off", "resume", "reported", "idle"} \cup CheckSteps
Waits == {"inactive", "initial", "regular", "5m", "30m", "2h"}
Bounds == {"failures", "lost", "triggers", "policies", "crashes"}
Versions == 0..MaxVersion

\* An attempt that is still to come has left no trace; one that was made installs
\* something.
FreshInv ==
    /\ pending <= attempt
    /\ \A a \in Attempts : a > attempt => told[a] = {} /\ installer[a] = "none"
    /\ \A a \in Attempts : a <= attempt => goal[a] > 0

\* Where the goroutine stands in a check, or after a report at its start.
StepInv ==
    /\ pc = "downloading" => target > version
    /\ pc \in {"persisting", "launching"} =>
          /\ attempt \in Attempts /\ goal[attempt] > version
          /\ told[attempt] = {} /\ installer[attempt] = "none"
    /\ pc = "persisting" => pending # attempt
    /\ pc = "launching" => pending = attempt
    /\ pc = "reported" => pending # 0 /\ version >= goal[pending]

\* The binary is the first one, or the one of an installer that succeeded.
VersionInv == version = 0 \/ \E a \in Attempts : installer[a] = "succeeded" /\ goal[a] = version

\* What was reported as failed is not on record, and is not put there again.
FailedInv == \A a \in Attempts : "failed" \in told[a] => pending # a

Inv == TypeOK /\ FreshInv /\ StepInv /\ VersionInv /\ FailedInv /\ OutcomesAgree /\ RunningIsOnRecord

-----------------------------------------------------------------------------
LEMMA BoundFacts ==
  /\ MaxVersion \in Nat /\ MaxInstalls \in Nat /\ 1 <= MaxInstalls /\ Policies # {}
  /\ Attempts \subseteq Nat /\ \A a : a \in Attempts <=> a \in Nat /\ 1 <= a /\ a <= MaxInstalls
BY UpdateAssumption DEF UpdateAssumption, Attempts

LEMMA InitInv == Init => Inv
<1> SUFFICES ASSUME Init PROVE Inv
  OBVIOUS
<1>1. TypeOK
  <2>1. 0 \in 0..MaxVersion /\ 0 \in 0..MaxInstalls
    BY BoundFacts
  <2>2. /\ goal \in [Attempts -> 0..MaxVersion]
        /\ installer \in [Attempts -> {"none", "running", "succeeded", "failed"}]
        /\ told \in [Attempts -> SUBSET {"succeeded", "failed"}]
        /\ used \in [{"failures", "lost", "triggers", "policies", "crashes"} -> Nat]
    BY <2>1 DEF Init
  <2> QED BY <2>1, <2>2 DEF Init, TypeOK
<1>2. FreshInv /\ StepInv /\ VersionInv /\ FailedInv
  BY BoundFacts DEF Init, FreshInv, StepInv, VersionInv, FailedInv
<1>3. OutcomesAgree /\ RunningIsOnRecord
  BY DEF Init, OutcomesAgree, RunningIsOnRecord
<1> QED BY <1>1, <1>2, <1>3 DEF Inv

\* The delays of the loop are among those named.
LEMMA DelayTypes ==
  /\ \A b : NextDelay(b) \in Waits
  /\ NextDelay(FALSE) \in Waits
  /\ \A n : Backoff(n) \in Waits
BY DEF NextDelay, Backoff, Waits

\* A bound that is spent stays a count.
LEMMA SpendType ==
  ASSUME TypeOK, NEW b \in Bounds, NEW limit, Spend(b, limit)
  PROVE  used' \in [Bounds -> Nat]
BY DEF Spend, TypeOK, Bounds

LEMMA ReturnType ==
  ASSUME TypeOK, Return(TRUE) \/ Return(FALSE)
  PROVE  /\ pc' = "idle" /\ timer' = "armed" /\ failures' \in Nat /\ wait' \in Waits
         /\ trigger' = trigger /\ startup' = startup
<1>1. \A d : Reset(d) => timer' = "armed" /\ wait' = d
  BY DEF Reset
<1>2. failures \in Nat
  BY DEF TypeOK
<1>3. CASE Return(TRUE)
  BY <1>1, <1>2, <1>3, DelayTypes DEF Return
<1>4. CASE Return(FALSE)
  BY <1>1, <1>2, <1>4, DelayTypes DEF Return
<1> QED BY <1>3, <1>4

\* The parts of the type that a step of the loop and of a check concern.
LoopType ==
    /\ pc \in Pcs /\ timer \in {"none", "armed", "fired"} /\ trigger \in BOOLEAN
    /\ startup \in BOOLEAN /\ failures \in Nat /\ wait \in Waits
    /\ policy \in Policies /\ offer \in Versions /\ used \in [Bounds -> Nat]
InstallType ==
    /\ version \in Versions /\ target \in Versions
    /\ attempt \in 0..MaxInstalls /\ goal \in [Attempts -> Versions]
    /\ pending \in 0..MaxInstalls
    /\ installer \in [Attempts -> {"none", "running", "succeeded", "failed"}]
    /\ told \in [Attempts -> SUBSET {"succeeded", "failed"}]

LEMMA TypeParts == TypeOK <=> LoopType /\ InstallType
BY DEF TypeOK, LoopType, InstallType, Pcs, Waits, Bounds, Versions

-----------------------------------------------------------------------------
\* A step that touches neither the installations nor the binary, and leaves the
\* goroutine outside the part of a check that they depend on, or where it is.
LEMMA LoopStepInv ==
  ASSUME Inv, UNCHANGED <<installVars, version>>, LoopType',
         pc' = pc \/ pc' \in {"off", "resume", "idle", "fetching"}
  PROVE  Inv'
<1>1. /\ target' = target /\ attempt' = attempt /\ goal' = goal /\ pending' = pending
      /\ installer' = installer /\ told' = told /\ version' = version
  BY DEF installVars
<1>2. TypeOK'
  BY <1>1, TypeParts DEF Inv, InstallType, LoopType, TypeOK, Pcs, Waits, Bounds, Versions
<1>3. FreshInv' /\ StepInv' /\ VersionInv' /\ FailedInv'
  BY <1>1 DEF Inv, FreshInv, StepInv, VersionInv, FailedInv
<1>4. OutcomesAgree' /\ RunningIsOnRecord'
  BY <1>1 DEF Inv, OutcomesAgree, RunningIsOnRecord
<1> QED BY <1>2, <1>3, <1>4 DEF Inv

LEMMA LoopSteps ==
  ASSUME Inv,
         \/ OnTimer \/ OnInvalidate \/ TimerFires \/ CheckFails \/ NothingToDo
         \/ ProcessEnds \/ ProcessStarts \/ Invalidate \/ ChangePolicy \/ PublishRelease
         \/ UNCHANGED vars
  PROVE  Inv'
<1>0. LoopType /\ TypeOK
  BY TypeParts DEF Inv
<1>1. UNCHANGED <<installVars, version>>
  BY DEF OnTimer, OnInvalidate, TimerFires, CheckFails, NothingToDo, ProcessEnds, ProcessStarts,
         Invalidate, ChangePolicy, PublishRelease, envVars, vars
<1>2. CASE OnTimer
  <2>1. /\ startup' = FALSE /\ trigger' = trigger /\ policy' = policy /\ offer' = offer /\ used' = used
        /\ \/ pc' = "fetching" /\ timer' = "none" /\ failures' = failures /\ wait' = wait
           \/ pc' = "idle" /\ failures' = 0 /\ timer' = "armed" /\ wait' \in Waits
    <3>1. CASE policy.enabled /\ (startup \/ policy.periodic)
      BY <1>2, <3>1 DEF OnTimer, envVars
    <3>2. CASE ~(policy.enabled /\ (startup \/ policy.periodic))
      BY <1>2, <3>2, DelayTypes DEF OnTimer, Reset, envVars
    <3> QED BY <3>1, <3>2
  <2>2. LoopType'
    <3>1. /\ pc' \in Pcs /\ timer' \in {"none", "armed", "fired"}
          /\ failures' \in Nat /\ wait' \in Waits
      BY <1>0, <2>1 DEF LoopType, Pcs, CheckSteps
    <3>2. trigger' \in BOOLEAN /\ startup' \in BOOLEAN
      BY <1>0, <1>2 DEF OnTimer, LoopType
    <3>3. policy' \in Policies /\ offer' \in Versions /\ used' \in [Bounds -> Nat]
      BY <1>0, <2>1 DEF LoopType, Versions
    <3> QED BY <3>1, <3>2, <3>3 DEF LoopType, Versions
  <2> QED BY <1>1, <2>1, <2>2, LoopStepInv
<1>3. CASE OnInvalidate
  BY <1>0, <1>1, <1>3, DelayTypes, LoopStepInv DEF OnInvalidate, Reset, LoopType, Pcs, CheckSteps, envVars
<1>4. CASE TimerFires
  BY <1>0, <1>1, <1>4, LoopStepInv DEF TimerFires, LoopType, envVars
<1>5. CASE CheckFails
  BY <1>0, <1>1, <1>5, SpendType, ReturnType, LoopStepInv DEF CheckFails, LoopType, Pcs, Bounds
<1>6. CASE NothingToDo
  BY <1>0, <1>1, <1>6, ReturnType, LoopStepInv DEF NothingToDo, LoopType, Pcs, envVars
<1>7. CASE ProcessEnds
  BY <1>0, <1>1, <1>7, SpendType, LoopStepInv DEF ProcessEnds, Off, LoopType, Pcs, Waits, Bounds
<1>8. CASE ProcessStarts
  BY <1>0, <1>1, <1>8, LoopStepInv DEF ProcessStarts, LoopType, Pcs, loopVars, envVars
<1>9. CASE Invalidate
  BY <1>0, <1>1, <1>9, SpendType, LoopStepInv DEF Invalidate, LoopType, Bounds
<1>10. CASE ChangePolicy
  BY <1>0, <1>1, <1>10, SpendType, LoopStepInv DEF ChangePolicy, LoopType, Bounds, loopVars
<1>11. CASE PublishRelease
  BY <1>0, <1>1, <1>11, BoundFacts, LoopStepInv DEF PublishRelease, LoopType, Versions, loopVars
<1>12. CASE UNCHANGED vars
  BY <1>0, <1>1, <1>12, LoopStepInv DEF vars, LoopType, loopVars, envVars
<1> QED BY <1>2, <1>3, <1>4, <1>5, <1>6, <1>7, <1>8, <1>9, <1>10, <1>11, <1>12

-----------------------------------------------------------------------------
\* If the binary is at the version of an attempt or beyond it, an installer of such
\* a version succeeded.
LEMMA ReachedBySuccess ==
  ASSUME Inv, NEW a \in Attempts, a <= attempt, version >= goal[a]
  PROVE  \E b \in Attempts : b <= attempt /\ installer[b] = "succeeded" /\ goal[b] >= goal[a]
<1>1. goal[a] > 0 /\ goal[a] \in Nat /\ version \in Nat
  BY BoundFacts DEF Inv, FreshInv, TypeOK
<1>2. PICK b \in Attempts : installer[b] = "succeeded" /\ goal[b] = version
  BY <1>1 DEF Inv, VersionInv
<1>3. b <= attempt
  BY <1>2, BoundFacts DEF Inv, FreshInv, TypeOK
<1> QED BY <1>2, <1>3

LEMMA ResumeStep ==
  ASSUME Inv, Resume
  PROVE  Inv'
<1>1. /\ pc = "resume" /\ pc' = "reported" /\ pending # 0 /\ version >= goal[pending]
      /\ UNCHANGED <<loopVars, target, attempt, goal, pending, installer, policy, version, offer>>
  BY DEF Resume, Confirmed
<1>2. pending \in Attempts /\ pending <= attempt
  BY <1>1, BoundFacts DEF Inv, FreshInv, TypeOK
<1>3. /\ told' = told \/ told' = [told EXCEPT ![pending] = @ \cup {"succeeded"}]
      /\ used' \in [Bounds -> Nat]
  BY SpendType DEF Resume, Report, Inv, TypeOK, Bounds
<1>4. told \in [Attempts -> SUBSET {"succeeded", "failed"}]
  BY DEF Inv, TypeOK
<1>5. /\ told' \in [Attempts -> SUBSET {"succeeded", "failed"}]
      /\ \A a \in Attempts : a # pending => told'[a] = told[a]
      /\ \A a \in Attempts : "failed" \in told'[a] => "failed" \in told[a]
  BY <1>2, <1>3, <1>4
<1>6. TypeOK'
  BY <1>1, <1>3, <1>5 DEF Inv, TypeOK, loopVars, Bounds
<1>7. FreshInv' /\ StepInv' /\ VersionInv' /\ FailedInv'
  <2>1. \A a \in Attempts : a > attempt => told'[a] = told[a]
    BY <1>2, <1>5, BoundFacts DEF Inv, TypeOK
  <2> QED BY <1>1, <1>5, <2>1 DEF Inv, FreshInv, StepInv, VersionInv, FailedInv
<1>8. OutcomesAgree'
  <2> SUFFICES ASSUME NEW a \in Attempts
               PROVE  /\ told'[a] # {"succeeded", "failed"}
                      /\ "succeeded" \in told'[a] =>
                            \E b \in Attempts : installer[b] = "succeeded" /\ goal[b] >= goal[a]
    BY <1>1 DEF OutcomesAgree
  <2>1. CASE a # pending
    BY <1>5, <2>1 DEF Inv, OutcomesAgree
  <2>2. CASE a = pending
    <3>1. "failed" \notin told'[a]
      BY <1>5, <2>2 DEF Inv, FailedInv
    <3> QED BY <1>1, <1>2, <2>2, <3>1, ReachedBySuccess
  <2> QED BY <2>1, <2>2
<1>9. RunningIsOnRecord'
  BY <1>1 DEF Inv, RunningIsOnRecord
<1> QED BY <1>6, <1>7, <1>8, <1>9 DEF Inv

\* The record is removed once its installer, or one of that version, has succeeded.
LEMMA StartLoopStep ==
  ASSUME Inv, StartLoop
  PROVE  Inv'
<1>1. /\ pc' = "idle" /\ startup' \in BOOLEAN /\ timer' = "armed" /\ wait' \in Waits
      /\ UNCHANGED <<trigger, failures, target, attempt, goal, installer, told, envVars>>
  <2>1. policy.onStartup \in BOOLEAN
    BY UpdateAssumption DEF Inv, TypeOK, UpdateAssumption, PolicyType
  <2> QED BY <2>1, DelayTypes DEF StartLoop, Reset
<1>2. CASE pending' = pending
  <2>1. LoopType'
    BY <1>1, TypeParts DEF Inv, LoopType, Pcs, envVars
  <2> QED BY <1>1, <1>2, <2>1, LoopStepInv DEF installVars, envVars
<1>3. CASE pc = "reported" /\ pending' = 0
  <2>1. pending # 0 /\ version >= goal[pending]
    BY <1>3 DEF Inv, StepInv
  <2>2. pending \in Attempts /\ pending <= attempt
    BY <2>1, BoundFacts DEF Inv, FreshInv, TypeOK
  <2>3. TypeOK'
    BY <1>1, <1>3, BoundFacts DEF Inv, TypeOK, envVars, Waits, CheckSteps
  <2>4. FreshInv' /\ StepInv' /\ VersionInv' /\ FailedInv' /\ OutcomesAgree'
    BY <1>1, <1>3, BoundFacts DEF Inv, TypeOK, FreshInv, StepInv, VersionInv, FailedInv, OutcomesAgree, envVars
  <2>5. RunningIsOnRecord'
    <3> SUFFICES ASSUME NEW a \in Attempts, installer[a] = "running"
                 PROVE  attempt > a \/ \E b \in 1..(a - 1) : installer[b] = "succeeded" /\ goal[b] >= goal[a]
      BY <1>1 DEF RunningIsOnRecord
    <3>1. CASE a # pending
      BY <3>1 DEF Inv, RunningIsOnRecord
    <3>2. CASE a = pending
      <4>1. PICK b \in Attempts : b <= attempt /\ installer[b] = "succeeded" /\ goal[b] >= goal[a]
        BY <2>1, <2>2, <3>2, ReachedBySuccess
      <4>2. b # a
        BY <4>1
      <4>3. attempt > a \/ b \in 1..(a - 1)
        BY <2>2, <3>2, <4>1, <4>2, BoundFacts DEF Inv, TypeOK
      <4> QED BY <4>1, <4>3
    <3> QED BY <3>1, <3>2
  <2> QED BY <2>3, <2>4, <2>5 DEF Inv
<1> QED BY <1>2, <1>3 DEF StartLoop

-----------------------------------------------------------------------------
(* A check that goes on.                                                   *)

LEMMA AcceptStep ==
  ASSUME Inv, AcceptOffer
  PROVE  Inv'
<1>1. /\ pc' = "downloading" /\ target' = offer /\ offer > version
      /\ UNCHANGED <<timer, trigger, startup, failures, wait, attempt, goal, pending, installer, told,
                     policy, version, offer, used>>
  BY DEF AcceptOffer, loopVars, envVars
<1>2. TypeOK'
  BY <1>1 DEF Inv, TypeOK, CheckSteps
<1>3. FreshInv' /\ StepInv' /\ VersionInv' /\ FailedInv' /\ OutcomesAgree' /\ RunningIsOnRecord'
  BY <1>1 DEF Inv, FreshInv, StepInv, VersionInv, FailedInv, OutcomesAgree, RunningIsOnRecord
<1> QED BY <1>2, <1>3 DEF Inv

\* The attempt gets its number, and its goal with it; goals of earlier ones stay.
LEMMA DownloadStep ==
  ASSUME Inv, Download
  PROVE  Inv'
<1> DEFINE new == attempt + 1
<1>1. /\ pc = "downloading" /\ pc' = "persisting" /\ attempt' = new /\ attempt < MaxInstalls
      /\ goal' = [goal EXCEPT ![new] = target]
      /\ UNCHANGED <<timer, trigger, startup, failures, wait, target, pending, installer, told,
                     policy, version, offer, used>>
  BY DEF Download, loopVars, envVars
<1>2. new \in Attempts /\ attempt \in Nat /\ new > attempt
  BY <1>1, BoundFacts DEF Inv, TypeOK
<1>3. target > version /\ target \in Nat /\ version \in Nat /\ pending \in Nat /\ pending <= attempt
  BY <1>1, BoundFacts DEF Inv, StepInv, FreshInv, TypeOK
<1>4. /\ goal' \in [Attempts -> 0..MaxVersion] /\ goal'[new] = target
      /\ \A a \in Attempts : a # new => goal'[a] = goal[a]
  BY <1>1, <1>2 DEF Inv, TypeOK
<1>5. told[new] = {} /\ installer[new] = "none"
  BY <1>2 DEF Inv, FreshInv
<1>6. TypeOK'
  BY <1>1, <1>2, <1>4, BoundFacts DEF Inv, TypeOK, CheckSteps
<1>7. FreshInv'
  <2>1. \A a \in Attempts : a > new => a > attempt
    BY <1>2, BoundFacts
  <2>2. ASSUME NEW a \in Attempts, a <= new PROVE goal'[a] > 0
    <3>1. CASE a = new
      BY <1>3, <1>4, <3>1
    <3>2. CASE a # new
      <4>1. a <= attempt
        BY <1>2, <2>2, <3>2, BoundFacts
      <4> QED BY <1>4, <3>2, <4>1 DEF Inv, FreshInv
    <3> QED BY <3>1, <3>2
  <2> QED BY <1>1, <1>2, <1>3, <2>1, <2>2 DEF Inv, FreshInv
<1>8. StepInv'
  BY <1>1, <1>2, <1>3, <1>4, <1>5 DEF StepInv
<1>9. \A a \in Attempts : installer[a] \in {"running", "succeeded"} \/ told[a] # {} => goal'[a] = goal[a] /\ a # new
  BY <1>4, <1>5
<1>10. VersionInv' /\ FailedInv'
  BY <1>1, <1>9 DEF Inv, VersionInv, FailedInv
<1>11. OutcomesAgree'
  <2>1. ASSUME NEW a \in Attempts, "succeeded" \in told[a]
        PROVE  \E b \in Attempts : installer[b] = "succeeded" /\ goal'[b] >= goal'[a]
    <3>1. PICK b \in Attempts : installer[b] = "succeeded" /\ goal[b] >= goal[a]
      BY <2>1 DEF Inv, OutcomesAgree
    <3> QED BY <1>9, <2>1, <3>1
  <2> QED BY <1>1, <2>1 DEF Inv, OutcomesAgree
<1>12. RunningIsOnRecord'
  <2>1. ASSUME NEW a \in Attempts, installer[a] = "running" PROVE new > a
    BY <1>2, <2>1, BoundFacts DEF Inv, FreshInv
  <2> QED BY <1>1, <2>1 DEF RunningIsOnRecord
<1> QED BY <1>6, <1>7, <1>8, <1>10, <1>11, <1>12 DEF Inv

\* The record is replaced: no installer of this attempt runs, and one of an earlier
\* attempt is no longer on record.
LEMMA PersistStep ==
  ASSUME Inv, Persist
  PROVE  Inv'
<1>1. /\ pc = "persisting" /\ pc' = "launching" /\ pending' = attempt
      /\ UNCHANGED <<timer, trigger, startup, failures, wait, target, attempt, goal, installer, told,
                     policy, version, offer, used>>
  BY DEF Persist, loopVars, envVars
<1>2. /\ attempt \in Attempts /\ goal[attempt] > version
      /\ told[attempt] = {} /\ installer[attempt] = "none"
  BY <1>1 DEF Inv, StepInv
<1>3. TypeOK'
  BY <1>1 DEF Inv, TypeOK, CheckSteps
<1>4. FreshInv' /\ StepInv' /\ VersionInv' /\ FailedInv' /\ OutcomesAgree'
  <2>1. attempt <= attempt
    BY <1>2, BoundFacts
  <2> QED BY <1>1, <1>2, <2>1 DEF Inv, FreshInv, StepInv, VersionInv, FailedInv, OutcomesAgree
<1>5. RunningIsOnRecord'
  <2>1. ASSUME NEW a \in Attempts, installer[a] = "running" PROVE attempt > a
    <3>1. a # attempt /\ ~(a > attempt)
      BY <1>2, <2>1 DEF Inv, FreshInv
    <3> QED BY <1>2, <3>1, BoundFacts
  <2> QED BY <1>1, <2>1 DEF RunningIsOnRecord
<1> QED BY <1>3, <1>4, <1>5 DEF Inv

\* The attempt fails before its installer runs: nothing of it is on record any more.
LEMMA AttemptFails ==
  ASSUME Inv, PersistFails \/ LaunchFails
  PROVE  Inv'
<1>1. /\ pc \in {"persisting", "launching"} /\ Return(TRUE)
      /\ pending' = 0 \/ (pending' = pending /\ pending # attempt)
      /\ UNCHANGED <<target, attempt, goal, installer, policy, version, offer>>
  BY DEF PersistFails, LaunchFails, Inv, StepInv
<1>2. /\ told' = told \/ told' = [told EXCEPT ![attempt] = @ \cup {"failed"}]
      /\ used' \in [Bounds -> Nat]
  <2>1. told' = told \/ told' = [told EXCEPT ![attempt] = @ \cup {"failed"}]
    BY DEF PersistFails, LaunchFails
  <2>2. \/ used' = [used EXCEPT !["failures"] = @ + 1]
        \/ used' = [used EXCEPT !["failures"] = @ + 1, !["lost"] = @ + 1]
    BY DEF PersistFails, LaunchFails
  <2>3. used \in [Bounds -> Nat]
    BY DEF Inv, TypeOK, Bounds
  <2>4. used' \in [Bounds -> Nat]
    BY <2>2, <2>3 DEF Bounds
  <2> QED BY <2>1, <2>4
<1>3. /\ attempt \in Attempts /\ told[attempt] = {} /\ installer[attempt] = "none"
  BY <1>1 DEF Inv, StepInv
<1>4. told \in [Attempts -> SUBSET {"succeeded", "failed"}]
  BY DEF Inv, TypeOK
<1>5. /\ told' \in [Attempts -> SUBSET {"succeeded", "failed"}]
      /\ told'[attempt] \subseteq {"failed"}
      /\ \A a \in Attempts : a # attempt => told'[a] = told[a]
  BY <1>2, <1>3, <1>4
<1>6. /\ pc' = "idle" /\ timer' = "armed" /\ failures' \in Nat /\ wait' \in Waits
      /\ trigger' = trigger /\ startup' = startup
  BY <1>1, ReturnType DEF Inv
<1>7. pending' \in 0..MaxInstalls /\ pending' <= attempt /\ pending' # attempt
  BY <1>1, <1>3, BoundFacts DEF Inv, TypeOK, FreshInv
<1>8. TypeOK'
  BY <1>1, <1>2, <1>5, <1>6, <1>7 DEF Inv, TypeOK, Waits, Bounds
<1>9. FreshInv' /\ StepInv' /\ VersionInv'
  <2>1. \A a \in Attempts : a > attempt => a # attempt
    BY <1>3, BoundFacts
  <2> QED BY <1>1, <1>5, <1>6, <1>7, <2>1 DEF Inv, FreshInv, StepInv, VersionInv
<1>10. FailedInv'
  <2>1. ASSUME NEW a \in Attempts, "failed" \in told'[a] PROVE pending' # a
    <3>1. CASE a = attempt
      BY <1>7, <3>1
    <3>2. CASE a # attempt
      BY <1>1, <1>5, <2>1, <3>2, BoundFacts DEF Inv, FailedInv
    <3> QED BY <3>1, <3>2
  <2> QED BY <2>1 DEF FailedInv
<1>11. OutcomesAgree'
  BY <1>1, <1>5 DEF Inv, OutcomesAgree
<1>12. RunningIsOnRecord'
  <2>1. ASSUME NEW a \in Attempts, installer[a] = "running" PROVE attempt > a
    <3>1. a # attempt /\ ~(a > attempt)
      BY <1>3, <2>1 DEF Inv, FreshInv
    <3> QED BY <1>3, <3>1, BoundFacts
  <2> QED BY <1>1, <2>1 DEF RunningIsOnRecord
<1> QED BY <1>8, <1>9, <1>10, <1>11, <1>12 DEF Inv

LEMMA LaunchStep ==
  ASSUME Inv, Launch
  PROVE  Inv'
<1>1. /\ pc = "launching" /\ Return(FALSE)
      /\ installer' = [installer EXCEPT ![attempt] = "running"]
      /\ UNCHANGED <<target, attempt, goal, pending, told, policy, version, offer, used>>
  BY DEF Launch, envVars
<1>2. attempt \in Attempts /\ installer[attempt] = "none" /\ pending = attempt
  BY <1>1 DEF Inv, StepInv
<1>3. /\ pc' = "idle" /\ timer' = "armed" /\ failures' \in Nat /\ wait' \in Waits
      /\ trigger' = trigger /\ startup' = startup
  BY <1>1, ReturnType DEF Inv
<1>4. /\ installer' \in [Attempts -> {"none", "running", "succeeded", "failed"}]
      /\ \A a \in Attempts : a # attempt => installer'[a] = installer[a]
      /\ \A a \in Attempts : installer'[a] = "succeeded" <=> installer[a] = "succeeded"
  BY <1>1, <1>2 DEF Inv, TypeOK
<1>5. TypeOK'
  BY <1>1, <1>3, <1>4 DEF Inv, TypeOK, Waits
<1>6. FreshInv' /\ StepInv' /\ VersionInv' /\ FailedInv' /\ OutcomesAgree'
  <2>1. \A a \in Attempts : a > attempt => a # attempt
    BY <1>2, BoundFacts
  <2> QED BY <1>1, <1>3, <1>4, <2>1 DEF Inv, FreshInv, StepInv, VersionInv, FailedInv, OutcomesAgree
<1>7. RunningIsOnRecord'
  <2> SUFFICES ASSUME NEW a \in Attempts, installer'[a] = "running"
               PROVE  \/ pending = a \/ attempt > a
                      \/ \E b \in 1..(a - 1) : installer'[b] = "succeeded" /\ goal[b] >= goal[a]
    BY <1>1 DEF RunningIsOnRecord
  <2>1. CASE a # attempt
    <3>1. installer[a] = "running"
      BY <1>4, <2>1
    <3>2. \A b \in 1..(a - 1) : b \in Attempts
      BY BoundFacts
    <3> QED BY <1>4, <3>1, <3>2 DEF Inv, RunningIsOnRecord
  <2> QED BY <1>2, <2>1
<1> QED BY <1>5, <1>6, <1>7 DEF Inv

-----------------------------------------------------------------------------
(* The installers.                                                         *)

\* An installer ends: its outcome is final, and that of another one is as before.
LEMMA InstallerEnds ==
  ASSUME Inv, NEW a \in Attempts, InstallerSucceeds(a) \/ InstallerFails(a)
  PROVE  Inv'
<1>1. /\ installer[a] = "running"
      /\ UNCHANGED <<target, attempt, goal, pending, told, policy, offer>>
  BY DEF InstallerSucceeds, InstallerFails
<1>2. PICK end \in {"succeeded", "failed"} : installer' = [installer EXCEPT ![a] = end]
  BY DEF InstallerSucceeds, InstallerFails
<1>3. /\ installer' \in [Attempts -> {"none", "running", "succeeded", "failed"}]
      /\ \A b \in Attempts : installer[b] # "running" => installer'[b] = installer[b]
      /\ \A b \in Attempts : installer'[b] = "running" => installer[b] = "running"
  BY <1>1, <1>2 DEF Inv, TypeOK
<1>4. /\ pc' \in Pcs /\ timer' \in {"none", "armed", "fired"} /\ trigger' \in BOOLEAN
      /\ startup' \in BOOLEAN /\ failures' \in Nat /\ wait' \in Waits
      /\ used' \in [Bounds -> Nat] /\ version' \in 0..MaxVersion
  <2>1. CASE InstallerSucceeds(a)
    BY <1>1, <2>1 DEF InstallerSucceeds, Off, Inv, TypeOK, Pcs, Waits, Bounds
  <2>2. CASE InstallerFails(a)
    BY <2>2, SpendType DEF InstallerFails, Inv, TypeOK, Pcs, Waits, Bounds, loopVars
  <2> QED BY <2>1, <2>2
<1>5. TypeOK'
  BY <1>1, <1>3, <1>4 DEF Inv, TypeOK, Pcs, Waits, Bounds
<1>6. FreshInv' /\ FailedInv'
  BY <1>1, <1>3 DEF Inv, FreshInv, FailedInv
<1>7. StepInv'
  <2>1. CASE InstallerSucceeds(a)
    BY <2>1 DEF InstallerSucceeds, Off, StepInv
  <2>2. CASE InstallerFails(a)
    <3>1. pc' = pc /\ version' = version
      BY <2>2 DEF InstallerFails
    <3> QED BY <1>1, <1>3, <3>1 DEF Inv, StepInv
  <2> QED BY <2>1, <2>2
<1>8. VersionInv'
  <2>1. CASE InstallerSucceeds(a)
    <3>1. version' = goal'[a] /\ installer'[a] = "succeeded"
      BY <1>1, <2>1 DEF InstallerSucceeds, Inv, TypeOK
    <3> QED BY <3>1 DEF VersionInv
  <2>2. CASE InstallerFails(a)
    BY <1>1, <1>3, <2>2 DEF InstallerFails, Inv, VersionInv
  <2> QED BY <2>1, <2>2
<1>9. OutcomesAgree'
  <2>1. \A b \in Attempts : installer[b] = "succeeded" => installer'[b] = "succeeded"
    BY <1>3
  <2> QED BY <1>1, <2>1 DEF Inv, OutcomesAgree
<1>10. RunningIsOnRecord'
  <2> SUFFICES ASSUME NEW b \in Attempts, installer'[b] = "running"
               PROVE  \/ pending = b \/ attempt > b
                      \/ \E d \in 1..(b - 1) : installer'[d] = "succeeded" /\ goal[d] >= goal[b]
    BY <1>1 DEF RunningIsOnRecord
  <2>1. installer[b] = "running"
    BY <1>3
  <2>2. \A d \in 1..(b - 1) : d \in Attempts
    BY BoundFacts
  <2>3. \A d \in Attempts : installer[d] = "succeeded" => installer'[d] = "succeeded"
    BY <1>3
  <2> QED BY <2>1, <2>2, <2>3 DEF Inv, RunningIsOnRecord
<1> QED BY <1>5, <1>6, <1>7, <1>8, <1>9, <1>10 DEF Inv

LEMMA NextInv == Inv /\ [Next]_vars => Inv'
<1> SUFFICES ASSUME Inv, [Next]_vars PROVE Inv'
  OBVIOUS
<1>1. CASE Loop
  BY <1>1, ResumeStep, StartLoopStep, LoopSteps DEF Loop
<1>2. CASE Check
  BY <1>2, LoopSteps, AcceptStep, DownloadStep, PersistStep, AttemptFails, LaunchStep DEF Check
<1>3. CASE Installer
  BY <1>3, InstallerEnds DEF Installer
<1>4. CASE TimerFires \/ ProcessStarts \/ Environment \/ UNCHANGED vars
  BY <1>4, LoopSteps DEF Environment
<1> QED BY <1>1, <1>2, <1>3, <1>4 DEF Next

-----------------------------------------------------------------------------
\* The inductive invariant: what each step of a check knows of the record, the reports
\* and the binary survives installers that end late, crashes and restarts.
THEOREM UpdateInvariant == Spec => []Inv
<1> QED BY InitInv, NextInv, PTL DEF Spec

\* The ranges of the variables.
THEOREM UpdateTypes == Spec => []TypeOK
<1>1. Inv => TypeOK
  BY DEF Inv
<1> QED BY <1>1, UpdateInvariant, PTL

\* The server is never told both outcomes of an installation, nor of a success that no
\* installer had; and an installer that runs is on record, unless a later attempt took
\* its place or an earlier installer finished late with its version.
THEOREM UpdateRecord == Spec => []RecordIsSound
<1>1. Inv => RecordIsSound
  BY DEF Inv, RecordIsSound
<1> QED BY <1>1, UpdateInvariant, PTL

\* An installer is launched only for a version newer than the binary that launches it.
THEOREM UpdateIsNewer == Spec => NoNeedlessInstall
<1>1. Inv /\ [Next]_vars =>
        [\A a \in Attempts : installer[a] = "none" /\ installer'[a] = "running" => goal[a] > version]_vars
  <2> SUFFICES ASSUME Inv, [Next]_vars, NEW a \in Attempts, installer[a] = "none", installer'[a] = "running"
               PROVE  goal[a] > version
    OBVIOUS
  <2>1. CASE Launch
    <3>1. attempt \in Attempts /\ goal[attempt] > version
      BY <2>1 DEF Launch, Inv, StepInv
    <3>2. a = attempt
      BY <2>1 DEF Launch, Inv, TypeOK
    <3> QED BY <3>1, <3>2
  <2>2. CASE Installer
    BY <2>2 DEF Installer, InstallerSucceeds, InstallerFails, Inv, TypeOK
  <2>3. CASE installer' = installer
    BY <2>3
  <2> QED BY <2>1, <2>2, <2>3 DEF Next, Loop, Check, Environment, Resume, StartLoop, OnTimer, OnInvalidate,
            TimerFires, CheckFails, NothingToDo, AcceptOffer, Download, Persist, PersistFails, LaunchFails,
            ProcessStarts, Invalidate, ChangePolicy, PublishRelease, ProcessEnds, installVars, vars
<1> QED BY <1>1, UpdateInvariant, PTL DEF Spec, NoNeedlessInstall
=============================================================================
