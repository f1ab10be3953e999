---------------------------- MODULE RecordsProofs ----------------------------
(***************************************************************************)
(* Proofs about the components of MCRecords, for every value of their      *)
(* constants; each is proved on its own, as it is specified.               *)
(***************************************************************************)
EXTENDS MCRecords, TLAPS

-----------------------------------------------------------------------------
(* NotificationCenter: dispatches in parallel, and answers to their cards. *)

NotificationSpec == InitNotification /\ [][NextNotification]_notificationVars

Rendered(d) == card[d].state # "none" \/ dispatch[d].outcome = "shown"

\* A key is on record before a card of it is on the screen, so that a dispatch that
\* finds its key missing cannot have been preceded by one that was seen.
KeyInv ==
    /\ \A d \in Dispatch : dispatch[d].renderedBefore = {}
    /\ \A d \in Dispatch : Rendered(d) \/ dispatch[d].step \in {"recorded", "rendered", "waiting", "leaving"}
            => dispatch[d].key \in notificationByKey \cup {"none"}
    /\ \A d \in Dispatch : dispatch[d].step \in {"none", "new", "checked", "recorded"}
            => card[d].state = "none" /\ dispatch[d].outcome = "none"
    /\ \A d \in Dispatch : dispatch[d].step \in {"rendered", "waiting"} => dispatch[d].outcome = "none"
    /\ \A d \in Dispatch : dispatch[d].step # "none" => dispatch[d].id \in EffectiveId

\* A dispatch that has registered its channel: what it returns is the answer that it has,
\* or that it had none in time.
Awaited(calls, d) ==
    /\ d \in Dispatch /\ calls[d].step \in {"waiting", "leaving", "done"}
    /\ calls[d].outcome \in {"none", "timeout", calls[d].answer}

\* Channels on record and those looked up are of such dispatches; an answer that was
\* taken is the one the dispatch has.
AnswerInv ==
    /\ \A id \in EffectiveId : pendingNotifyResult[id] # 0 => Awaited(dispatch, pendingNotifyResult[id])
    /\ \A c \in Dispatch : card[c].state = "answering" => Awaited(dispatch, card[c].target)
    /\ \A c \in Dispatch : card[c].state \in {"none", "shown", "answering"} => ~card[c].heard
    /\ \A c \in Dispatch : card[c].state = "answering" \/ card[c].heard => card[c].decision \in Decision
    /\ \A c \in Dispatch : card[c].heard =>
          Awaited(dispatch, card[c].target) /\ dispatch[card[c].target].answer = card[c].decision

NotificationInv == NotificationTypeOK /\ KeyInv /\ AnswerInv

LEMMA InitNotificationInv == InitNotification => NotificationInv
<1> SUFFICES ASSUME InitNotification PROVE NotificationInv
  OBVIOUS
<1>0. MaxDispatches \in Nat /\ 0 \in 0..MaxDispatches
  BY NotificationAssumption
<1>1. NotificationTypeOK
  <2>1. dispatch \in [Dispatch -> DispatchRecord]
    BY DEF InitNotification, DispatchRecord
  <2>2. card \in [Dispatch -> CardRecord]
    BY <1>0 DEF InitNotification, CardRecord
  <2>3. pendingNotifyResult \in [EffectiveId -> 0..MaxDispatches]
    BY <1>0 DEF InitNotification
  <2> QED BY <2>1, <2>2, <2>3 DEF InitNotification, NotificationTypeOK
<1>2. KeyInv
  BY DEF InitNotification, KeyInv, Rendered
<1>3. AnswerInv
  BY DEF InitNotification, AnswerInv
<1> QED BY <1>1, <1>2, <1>3 DEF NotificationInv

\* A dispatch goes on: the others, and what its caller gave it, stay as they were.
GoesOn(d, step, outcome) ==
    /\ \A e \in Dispatch : e # d => dispatch'[e] = dispatch[e]
    /\ dispatch'[d].step = step /\ dispatch'[d].outcome = outcome
    /\ dispatch'[d].id = dispatch[d].id /\ dispatch'[d].key = dispatch[d].key
    /\ dispatch'[d].answer = dispatch[d].answer
    /\ dispatch'[d].renderedBefore = dispatch[d].renderedBefore \/ dispatch'[d].renderedBefore = {}
    /\ dispatch' \in [Dispatch -> DispatchRecord]

Steps == {"none", "new", "checked", "recorded", "rendered", "waiting", "leaving", "done"}
Outcomes == Decision \cup {"none", "timeout", "deduplicated", "rollout", "shown", "headless"}

LEMMA Moves ==
  ASSUME dispatch \in [Dispatch -> DispatchRecord], NEW d \in Dispatch, NEW step \in Steps
  PROVE  /\ \A outcome \in Outcomes :
              dispatch' = [dispatch EXCEPT ![d].step = step, ![d].outcome = outcome]
                => GoesOn(d, step, outcome)
         /\ dispatch' = [dispatch EXCEPT ![d].step = step] => GoesOn(d, step, dispatch[d].outcome)
         /\ \A confirm \in BOOLEAN :
              dispatch' = [dispatch EXCEPT ![d].step = step, ![d].confirm = confirm]
                => GoesOn(d, step, dispatch[d].outcome)
         /\ dispatch' = [dispatch EXCEPT ![d].step = step, ![d].renderedBefore = {}]
              => GoesOn(d, step, dispatch[d].outcome)
<1>0. dispatch[d] \in DispatchRecord
  OBVIOUS
<1>1. ASSUME NEW outcome \in Outcomes, dispatch' = [dispatch EXCEPT ![d].step = step, ![d].outcome = outcome]
      PROVE  GoesOn(d, step, outcome)
  <2>1. [dispatch[d] EXCEPT !.step = step, !.outcome = outcome] \in DispatchRecord
    BY <1>0 DEF DispatchRecord, Steps, Outcomes
  <2> QED BY <1>0, <1>1, <2>1 DEF GoesOn, DispatchRecord
<1>2. ASSUME dispatch' = [dispatch EXCEPT ![d].step = step]
      PROVE  GoesOn(d, step, dispatch[d].outcome)
  <2>1. [dispatch[d] EXCEPT !.step = step] \in DispatchRecord
    BY <1>0 DEF DispatchRecord, Steps
  <2> QED BY <1>0, <1>2, <2>1 DEF GoesOn, DispatchRecord
<1>3. ASSUME NEW confirm \in BOOLEAN, dispatch' = [dispatch EXCEPT ![d].step = step, ![d].confirm = confirm]
      PROVE  GoesOn(d, step, dispatch[d].outcome)
  <2>1. [dispatch[d] EXCEPT !.step = step, !.confirm = confirm] \in DispatchRecord
    BY <1>0 DEF DispatchRecord, Steps
  <2> QED BY <1>0, <1>3, <2>1 DEF GoesOn, DispatchRecord
<1>4. ASSUME dispatch' = [dispatch EXCEPT ![d].step = step, ![d].renderedBefore = {}]
      PROVE  GoesOn(d, step, dispatch[d].outcome)
  <2>1. [dispatch[d] EXCEPT !.step = step, !.renderedBefore = {}] \in DispatchRecord
    BY <1>0 DEF DispatchRecord, Steps
  <2> QED BY <1>0, <1>4, <2>1 DEF GoesOn, DispatchRecord
<1> QED BY <1>1, <1>2, <1>3, <1>4

\* What such a step must not do, for the invariant to hold after it.
LEMMA GoesOnInv ==
  ASSUME NotificationInv, NEW d \in Dispatch, NEW step, NEW outcome, GoesOn(d, step, outcome),
         Awaited(dispatch, d) => step \in {"waiting", "leaving", "done"} /\ outcome \in {"none", "timeout", dispatch[d].answer},
         pendingNotifyResult' \in [EffectiveId -> 0..MaxDispatches],
         \A id \in EffectiveId :
            \/ pendingNotifyResult'[id] \in {0, pendingNotifyResult[id]}
            \/ pendingNotifyResult'[id] = d /\ step = "waiting" /\ outcome = "none",
         \/ card' = card
         \/ card' = [card EXCEPT ![d].state = "shown"] /\ card[d].state = "none" /\ step = "rendered",
         notificationByKey \subseteq notificationByKey', notificationByKey' \subseteq IdempotencyKey,
         uiReady' = uiReady, dispatch[d].step # "none", step # "none",
         outcome = "shown" \/ step \in {"recorded", "rendered", "waiting", "leaving"}
            => dispatch[d].key \in notificationByKey' \cup {"none"},
         step \in {"new", "checked", "recorded"} => card[d].state = "none" /\ outcome = "none",
         step \in {"rendered", "waiting"} => outcome = "none"
  PROVE  NotificationInv'
<1>0. /\ dispatch \in [Dispatch -> DispatchRecord] /\ card \in [Dispatch -> CardRecord]
      /\ dispatch' \in [Dispatch -> DispatchRecord]
  BY DEF NotificationInv, NotificationTypeOK, GoesOn
<1>1. /\ card' \in [Dispatch -> CardRecord]
      /\ \A c \in Dispatch : /\ card'[c].target = card[c].target /\ card'[c].heard = card[c].heard
                             /\ card'[c].decision = card[c].decision
                             /\ card'[c].state = card[c].state
                                \/ (c = d /\ card'[c].state = "shown" /\ card[c].state = "none" /\ step = "rendered")
  <2>1. CASE card' = card
    BY <1>0, <2>1
  <2>2. CASE card' = [card EXCEPT ![d].state = "shown"] /\ card[d].state = "none" /\ step = "rendered"
    BY <1>0, <2>2 DEF CardRecord
  <2> QED BY <2>1, <2>2
<1>2. NotificationTypeOK'
  BY <1>0, <1>1 DEF NotificationInv, NotificationTypeOK
<1>3. KeyInv'
  <2>1. \A e \in Dispatch : dispatch'[e].renderedBefore = {}
    BY DEF GoesOn, NotificationInv, KeyInv
  <2>2. ASSUME NEW e \in Dispatch, Rendered(e)' \/ dispatch'[e].step \in {"recorded", "rendered", "waiting", "leaving"}
        PROVE  dispatch'[e].key \in notificationByKey' \cup {"none"}
    <3>1. CASE e = d
      BY <1>1, <2>2, <3>1 DEF GoesOn, NotificationInv, KeyInv, Rendered
    <3>2. CASE e # d
      BY <1>1, <2>2, <3>2 DEF GoesOn, NotificationInv, KeyInv, Rendered
    <3> QED BY <3>1, <3>2
  <2>3. ASSUME NEW e \in Dispatch, dispatch'[e].step \in {"none", "new", "checked", "recorded"}
        PROVE  card'[e].state = "none" /\ dispatch'[e].outcome = "none"
    <3>1. CASE e = d
      BY <1>1, <2>3, <3>1 DEF GoesOn
    <3>2. CASE e # d
      BY <1>1, <2>3, <3>2 DEF GoesOn, NotificationInv, KeyInv
    <3> QED BY <3>1, <3>2
  <2>4. \A e \in Dispatch : dispatch'[e].step # "none" => dispatch'[e].id \in EffectiveId
    BY DEF GoesOn, NotificationInv, KeyInv
  <2>5. \A e \in Dispatch : dispatch'[e].step \in {"rendered", "waiting"} => dispatch'[e].outcome = "none"
    BY DEF GoesOn, NotificationInv, KeyInv
  <2> QED BY <2>1, <2>2, <2>3, <2>4, <2>5 DEF KeyInv
<1>4. AnswerInv'
  <2>1. \A t : Awaited(dispatch, t) => Awaited(dispatch', t)
    BY DEF Awaited, GoesOn
  <2>3. ASSUME NEW id \in EffectiveId, NEW t, t = pendingNotifyResult'[id], t # 0 PROVE Awaited(dispatch', t)
    <3>1. CASE t = pendingNotifyResult[id]
      BY <2>1, <2>3, <3>1 DEF NotificationInv, AnswerInv
    <3>2. CASE t = d /\ step = "waiting" /\ outcome = "none"
      BY <3>2 DEF Awaited, GoesOn
    <3> QED BY <2>3, <3>1, <3>2
  <2>4. \A t \in Dispatch : dispatch'[t].answer = dispatch[t].answer
    BY DEF GoesOn
  <2>5. \A c \in Dispatch : card'[c].state = "answering" => Awaited(dispatch', card'[c].target)
    BY <1>1, <2>1 DEF NotificationInv, AnswerInv
  <2>6. \A c \in Dispatch : card'[c].state \in {"none", "shown", "answering"} => ~card'[c].heard
    BY <1>1 DEF NotificationInv, AnswerInv
  <2>7. \A c \in Dispatch : card'[c].state = "answering" \/ card'[c].heard => card'[c].decision \in Decision
    BY <1>1 DEF NotificationInv, AnswerInv
  <2>8. \A c \in Dispatch : card'[c].heard =>
          Awaited(dispatch', card'[c].target) /\ dispatch'[card'[c].target].answer = card'[c].decision
    BY <1>1, <2>1, <2>4 DEF NotificationInv, AnswerInv, Awaited
  <2> QED BY <2>3, <2>5, <2>6, <2>7, <2>8 DEF AnswerInv
<1> QED BY <1>2, <1>3, <1>4 DEF NotificationInv

\* The dispatch's own steps.
LEMMA DispatchStep ==
  ASSUME NotificationInv, NEW d \in Dispatch, CheckDispatch(d) \/ DispatchGoesOn(d)
  PROVE  NotificationInv'
<1>0. /\ dispatch \in [Dispatch -> DispatchRecord] /\ notificationByKey \subseteq IdempotencyKey
      /\ pendingNotifyResult \in [EffectiveId -> 0..MaxDispatches]
      /\ d \in 0..MaxDispatches /\ 0 \in 0..MaxDispatches
  BY NotificationAssumption DEF NotificationInv, NotificationTypeOK, Dispatch
<1>1. dispatch[d].key \in IdempotencyKey \cup {"none"} /\ dispatch[d].answer \in Decision \cup {"none"}
  BY <1>0 DEF DispatchRecord
<1>2. CASE CheckDispatch(d)
  <2>1. /\ UNCHANGED <<notificationByKey, pendingNotifyResult, card, uiReady>> /\ dispatch[d].step = "new"
        /\ card[d].state = "none" /\ dispatch[d].outcome = "none"
    BY <1>2 DEF CheckDispatch, NotificationInv, KeyInv
  <2>2. dispatch[d].key \notin notificationByKey => RenderedWithKey(d) = {}
    BY DEF RenderedWithKey, NotificationInv, KeyInv, Rendered
  <2>3. \/ GoesOn(d, "done", "rollout") \/ GoesOn(d, "done", "deduplicated")
        \/ GoesOn(d, "checked", dispatch[d].outcome)
    BY <1>0, <1>2, <2>2, Moves DEF CheckDispatch, Return, Steps, Outcomes
  <2>4. ~Awaited(dispatch, d)
    BY <2>1 DEF Awaited
  <2> QED BY <1>0, <2>1, <2>3, <2>4, GoesOnInv
<1>3. CASE RecordKey(d)
  <2>1. /\ UNCHANGED <<pendingNotifyResult, card, uiReady>> /\ dispatch[d].step = "checked"
        /\ card[d].state = "none" /\ dispatch[d].outcome = "none"
        /\ notificationByKey' = notificationByKey \cup ({dispatch[d].key} \ {"none"})
    BY <1>3 DEF RecordKey, NotificationInv, KeyInv
  <2>2. GoesOn(d, "recorded", dispatch[d].outcome)
    <3>1. PICK confirm \in {dispatch[d].confirm, FALSE} :
                 dispatch' = [dispatch EXCEPT ![d].step = "recorded", ![d].confirm = confirm]
      BY <1>3 DEF RecordKey
    <3>2. confirm \in BOOLEAN
      BY <1>0 DEF DispatchRecord
    <3> QED BY <1>0, <3>1, <3>2, Moves DEF Steps
  <2>3. ~Awaited(dispatch, d)
    BY <2>1 DEF Awaited
  <2>4. /\ notificationByKey \subseteq notificationByKey' /\ notificationByKey' \subseteq IdempotencyKey
        /\ dispatch[d].key \in notificationByKey' \cup {"none"}
    BY <1>0, <1>1, <2>1
  <2> QED BY <1>0, <2>1, <2>2, <2>3, <2>4, GoesOnInv
<1>4. CASE RenderNotification(d)
  <2>1. /\ UNCHANGED <<notificationByKey, pendingNotifyResult, uiReady>> /\ dispatch[d].step = "recorded"
        /\ card[d].state = "none" /\ dispatch[d].outcome = "none"
        /\ dispatch[d].key \in notificationByKey \cup {"none"}
    BY <1>4 DEF RenderNotification, NotificationInv, KeyInv
  <2>2. \/ GoesOn(d, "done", "headless") /\ card' = card
        \/ GoesOn(d, "done", "shown") /\ card' = card
        \/ GoesOn(d, "rendered", dispatch[d].outcome) /\ card' = [card EXCEPT ![d].state = "shown"]
    BY <1>0, <1>4, Moves DEF RenderNotification, Return, Steps, Outcomes
  <2>3. ~Awaited(dispatch, d)
    BY <2>1 DEF Awaited
  <2> QED BY <1>0, <2>1, <2>2, <2>3, GoesOnInv
<1>5. CASE AwaitResult(d)
  <2>1. /\ UNCHANGED <<notificationByKey, card, uiReady>> /\ dispatch[d].step = "rendered"
        /\ dispatch[d].key \in notificationByKey \cup {"none"}
        /\ pendingNotifyResult' = [pendingNotifyResult EXCEPT ![dispatch[d].id] = d]
        /\ dispatch' = [dispatch EXCEPT ![d].step = "waiting"]
    BY <1>5 DEF AwaitResult, NotificationInv, KeyInv
  <2>2. GoesOn(d, "waiting", dispatch[d].outcome)
    BY <1>0, <2>1, Moves DEF Steps
  <2>3. ~Awaited(dispatch, d)
    BY <2>1 DEF Awaited
  <2>4. dispatch[d].outcome = "none"
    BY <2>1 DEF NotificationInv, KeyInv
  <2> QED BY <1>0, <2>1, <2>2, <2>3, <2>4, GoesOnInv
<1>6. CASE TakeAnswer(d)
  <2>1. /\ UNCHANGED <<notificationByKey, pendingNotifyResult, card, uiReady>> /\ dispatch[d].step = "waiting"
        /\ dispatch[d].key \in notificationByKey \cup {"none"}
        /\ dispatch[d].answer # "none"
        /\ dispatch' = [dispatch EXCEPT ![d].step = "leaving", ![d].outcome = dispatch[d].answer]
    BY <1>6 DEF TakeAnswer, NotificationInv, KeyInv
  <2>2. GoesOn(d, "leaving", dispatch[d].answer)
    BY <1>0, <1>1, <2>1, Moves DEF Steps, Outcomes
  <2> QED BY <1>0, <1>1, <2>1, <2>2, GoesOnInv DEF Decision
<1>7. CASE ConfirmationTimeout(d)
  <2>1. /\ UNCHANGED <<notificationByKey, pendingNotifyResult, card, uiReady>> /\ dispatch[d].step = "waiting"
        /\ dispatch[d].key \in notificationByKey \cup {"none"}
        /\ dispatch' = [dispatch EXCEPT ![d].step = "leaving", ![d].outcome = "timeout"]
    BY <1>7 DEF ConfirmationTimeout, NotificationInv, KeyInv
  <2>2. GoesOn(d, "leaving", "timeout")
    BY <1>0, <2>1, Moves DEF Steps, Outcomes
  <2> QED BY <1>0, <2>1, <2>2, GoesOnInv
<1>8. CASE LeaveDispatch(d)
  <2>1. /\ UNCHANGED <<notificationByKey, card, uiReady>> /\ dispatch[d].step = "leaving"
        /\ dispatch[d].key \in notificationByKey \cup {"none"}
        /\ pendingNotifyResult' = [pendingNotifyResult EXCEPT ![dispatch[d].id] = 0]
        /\ dispatch' = [dispatch EXCEPT ![d].step = "done"]
    BY <1>8 DEF LeaveDispatch, NotificationInv, KeyInv
  <2>2. GoesOn(d, "done", dispatch[d].outcome)
    BY <1>0, <2>1, Moves DEF Steps
  <2>3. Awaited(dispatch, d) => dispatch[d].outcome \in {"none", "timeout", dispatch[d].answer}
    BY DEF Awaited
  <2> QED BY <1>0, <2>1, <2>2, <2>3, GoesOnInv
<1> QED BY <1>2, <1>3, <1>4, <1>5, <1>6, <1>7, <1>8 DEF DispatchGoesOn

\* A caller comes, and the window.
LEMMA SubmitStep ==
  ASSUME NotificationInv, NEW d \in Dispatch, NEW id \in NotificationId \cup {"none"},
         NEW key \in IdempotencyKey \cup {"none"}, NEW confirm \in BOOLEAN,
         SubmitDispatch(d, id, key, confirm)
  PROVE  NotificationInv'
<1> DEFINE eid == IF id # "none" THEN <<"id", id>> ELSE IF key # "none" THEN <<"key", key>> ELSE <<"own", d>>
<1>1. eid \in EffectiveId
  BY DEF EffectiveId
<1>2. /\ dispatch' = [dispatch EXCEPT ![d].step = "new", ![d].key = key, ![d].confirm = confirm, ![d].id = eid]
      /\ UNCHANGED <<notificationByKey, pendingNotifyResult, card, uiReady>> /\ dispatch[d].step = "none"
  BY DEF SubmitDispatch
<1> HIDE DEF eid
<1>3. /\ dispatch \in [Dispatch -> DispatchRecord] /\ dispatch[d] \in DispatchRecord
      /\ card \in [Dispatch -> CardRecord]
  BY DEF NotificationInv, NotificationTypeOK
<1>4. [dispatch[d] EXCEPT !.step = "new", !.key = key, !.confirm = confirm, !.id = eid] \in DispatchRecord
  BY <1>1, <1>3 DEF DispatchRecord
<1>5. /\ \A e \in Dispatch : e # d => dispatch'[e] = dispatch[e]
      /\ dispatch'[d].step = "new" /\ dispatch'[d].id = eid
      /\ dispatch'[d].outcome = dispatch[d].outcome /\ dispatch'[d].answer = dispatch[d].answer
      /\ dispatch'[d].renderedBefore = dispatch[d].renderedBefore
      /\ dispatch' \in [Dispatch -> DispatchRecord]
  BY <1>2, <1>3, <1>4 DEF DispatchRecord
<1>6. NotificationTypeOK'
  BY <1>2, <1>5 DEF NotificationInv, NotificationTypeOK
<1>7. KeyInv'
  <2>1. card[d].state = "none" /\ dispatch[d].outcome = "none"
    BY <1>2 DEF NotificationInv, KeyInv
  <2> QED BY <1>1, <1>2, <1>5, <2>1 DEF NotificationInv, KeyInv, Rendered
<1>8. AnswerInv'
  <2>1. ~Awaited(dispatch, d)
    BY <1>2 DEF Awaited
  <2>2. \A e : Awaited(dispatch, e) => e # d /\ Awaited(dispatch', e) /\ dispatch'[e] = dispatch[e]
    BY <1>5, <2>1 DEF Awaited
  <2>3. \A e \in Dispatch : card[e].heard =>
          Awaited(dispatch', card[e].target) /\ dispatch'[card[e].target].answer = card[e].decision
    BY <2>2 DEF NotificationInv, AnswerInv
  <2>4. /\ \A x \in EffectiveId : pendingNotifyResult[x] # 0 => Awaited(dispatch', pendingNotifyResult[x])
        /\ \A e \in Dispatch : card[e].state = "answering" => Awaited(dispatch', card[e].target)
    BY <2>2 DEF NotificationInv, AnswerInv
  <2>5. card' = card /\ pendingNotifyResult' = pendingNotifyResult
    BY <1>2
  <2> QED BY <2>3, <2>4, <2>5 DEF NotificationInv, AnswerInv
<1> QED BY <1>6, <1>7, <1>8 DEF NotificationInv

\* RespondToNotification: the channel is looked up, and the answer sent.
LEMMA LookUpStep ==
  ASSUME NotificationInv, NEW c \in Dispatch, NEW decision \in Decision, LookUpChannel(c, decision)
  PROVE  NotificationInv'
<1> DEFINE target == pendingNotifyResult[dispatch[c].id]
<1>1. /\ card[c].state = "shown" /\ UNCHANGED <<dispatch, notificationByKey, pendingNotifyResult, uiReady>>
      /\ card' = [card EXCEPT ![c].decision = decision, ![c].target = target,
                              ![c].state = IF target = 0 THEN "answered" ELSE "answering"]
  BY DEF LookUpChannel
<1>2. dispatch[c].id \in EffectiveId /\ ~card[c].heard
  BY <1>1 DEF NotificationInv, KeyInv, AnswerInv
<1>3. target \in 0..MaxDispatches /\ (target # 0 => Awaited(dispatch, target))
  BY <1>2 DEF NotificationInv, NotificationTypeOK, AnswerInv
<1>4. card \in [Dispatch -> CardRecord] /\ card[c] \in CardRecord
  BY DEF NotificationInv, NotificationTypeOK
<1> HIDE DEF target
<1>5. /\ card' \in [Dispatch -> CardRecord] /\ \A e \in Dispatch : e # c => card'[e] = card[e]
      /\ card'[c].decision = decision /\ card'[c].target = target /\ ~card'[c].heard
      /\ card'[c].state = IF target = 0 THEN "answered" ELSE "answering"
  BY <1>1, <1>2, <1>3, <1>4 DEF CardRecord
<1>6. NotificationTypeOK'
  BY <1>1, <1>5 DEF NotificationInv, NotificationTypeOK
<1>7. KeyInv'
  BY <1>1, <1>5 DEF NotificationInv, KeyInv, Rendered
<1>8. AnswerInv'
  BY <1>1, <1>3, <1>5 DEF NotificationInv, AnswerInv
<1> QED BY <1>6, <1>7, <1>8 DEF NotificationInv

LEMMA SendStep ==
  ASSUME NotificationInv, NEW c \in Dispatch, SendDecision(c)
  PROVE  NotificationInv'
<1> DEFINE t == card[c].target
           decision == card[c].decision
           heard == dispatch[t].answer = "none"
<1>1. /\ card[c].state = "answering" /\ UNCHANGED <<notificationByKey, pendingNotifyResult, uiReady>>
      /\ IF heard THEN /\ dispatch' = [dispatch EXCEPT ![t].answer = decision]
                       /\ card' = [card EXCEPT ![c].state = "answered", ![c].heard = TRUE]
         ELSE card' = [card EXCEPT ![c].state = "answered"] /\ UNCHANGED dispatch
  BY DEF SendDecision
<1>2. Awaited(dispatch, t) /\ decision \in Decision /\ t \in Dispatch /\ ~card[c].heard
  BY <1>1 DEF NotificationInv, AnswerInv, Awaited
<1>3. /\ card \in [Dispatch -> CardRecord] /\ card[c] \in CardRecord
      /\ dispatch \in [Dispatch -> DispatchRecord] /\ dispatch[t] \in DispatchRecord
  BY <1>2 DEF NotificationInv, NotificationTypeOK
<1>4. card[c].target = t /\ card[c].decision = decision /\ (heard <=> dispatch[t].answer = "none")
  OBVIOUS
<1> HIDE DEF t, decision, heard
<1>5. /\ card' \in [Dispatch -> CardRecord] /\ \A e \in Dispatch : e # c => card'[e] = card[e]
      /\ card'[c].decision = decision /\ card'[c].target = t /\ card'[c].state = "answered"
      /\ card'[c].heard => heard
  <2>1. CASE heard
    BY <1>1, <1>3, <1>4, <2>1 DEF CardRecord
  <2>2. CASE ~heard
    BY <1>1, <1>2, <1>3, <1>4, <2>2 DEF CardRecord
  <2> QED BY <2>1, <2>2
<1>6. /\ dispatch' \in [Dispatch -> DispatchRecord]
      /\ \A e \in Dispatch : /\ dispatch'[e].step = dispatch[e].step /\ dispatch'[e].id = dispatch[e].id
                             /\ dispatch'[e].key = dispatch[e].key
                             /\ dispatch'[e].outcome = dispatch[e].outcome
                             /\ dispatch'[e].renderedBefore = dispatch[e].renderedBefore
                             /\ dispatch[e].answer # "none" => dispatch'[e].answer = dispatch[e].answer
      /\ heard => dispatch'[t].answer = decision
  <2>1. CASE heard
    <3>1. dispatch' = [dispatch EXCEPT ![t].answer = decision]
      BY <1>1, <2>1
    <3>2. [dispatch[t] EXCEPT !.answer = decision] \in DispatchRecord
      BY <1>2, <1>3 DEF DispatchRecord
    <3> QED BY <1>2, <1>3, <1>4, <2>1, <3>1, <3>2 DEF DispatchRecord
  <2>2. CASE ~heard
    BY <1>1, <1>3, <2>2
  <2> QED BY <2>1, <2>2
<1>7. NotificationTypeOK'
  BY <1>1, <1>5, <1>6 DEF NotificationInv, NotificationTypeOK
<1>8. KeyInv'
  BY <1>1, <1>5, <1>6 DEF NotificationInv, KeyInv, Rendered
<1>9. AnswerInv'
  <2>1. \A e : Awaited(dispatch, e) => Awaited(dispatch', e)
    BY <1>6 DEF Awaited
  <2>2. ASSUME NEW e \in Dispatch, card'[e].heard
        PROVE  Awaited(dispatch', card'[e].target) /\ dispatch'[card'[e].target].answer = card'[e].decision
    <3>1. CASE e = c
      BY <1>2, <1>5, <1>6, <2>1, <2>2, <3>1
    <3>2. CASE e # c
      <4>1. /\ card'[e] = card[e] /\ Awaited(dispatch, card[e].target)
            /\ dispatch[card[e].target].answer = card[e].decision /\ card[e].decision \in Decision
        BY <1>5, <2>2, <3>2 DEF NotificationInv, AnswerInv
      <4>2. dispatch[card[e].target].answer # "none"
        BY <4>1 DEF Decision
      <4> QED BY <1>6, <2>1, <4>1, <4>2 DEF Awaited
    <3> QED BY <3>1, <3>2
  <2>3. \A e \in Dispatch : card'[e].state = "answering" \/ card'[e].heard => card'[e].decision \in Decision
    BY <1>2, <1>5 DEF NotificationInv, AnswerInv
  <2>4. \A e \in Dispatch : card'[e].state = "answering" => Awaited(dispatch', card'[e].target)
    BY <1>5, <2>1 DEF NotificationInv, AnswerInv
  <2>5. \A e \in Dispatch : card'[e].state \in {"none", "shown", "answering"} => ~card'[e].heard
    BY <1>5 DEF NotificationInv, AnswerInv
  <2>6. \A id \in EffectiveId : pendingNotifyResult'[id] # 0 => Awaited(dispatch', pendingNotifyResult'[id])
    BY <1>1, <2>1 DEF NotificationInv, AnswerInv
  <2> QED BY <2>2, <2>3, <2>4, <2>5, <2>6 DEF AnswerInv
<1> QED BY <1>7, <1>8, <1>9 DEF NotificationInv

LEMMA NotificationStep == NotificationInv /\ [NextNotification]_notificationVars => NotificationInv'
<1> SUFFICES ASSUME NotificationInv, [NextNotification]_notificationVars PROVE NotificationInv'
  OBVIOUS
<1>1. ASSUME NEW d \in Dispatch, CheckDispatch(d) \/ DispatchGoesOn(d) PROVE NotificationInv'
  BY <1>1, DispatchStep
<1>2. ASSUME NEW d \in Dispatch, SendDecision(d) PROVE NotificationInv'
  BY <1>2, SendStep
<1>3. CASE UiStarts \/ UNCHANGED notificationVars
  <2>1. UNCHANGED <<dispatch, notificationByKey, pendingNotifyResult, card>> /\ uiReady' \in {TRUE, uiReady}
    BY <1>3 DEF UiStarts, notificationVars
  <2>2. NotificationTypeOK'
    BY <2>1 DEF NotificationInv, NotificationTypeOK
  <2>3. KeyInv' /\ AnswerInv'
    BY <2>1 DEF NotificationInv, KeyInv, AnswerInv, Rendered
  <2> QED BY <2>2, <2>3 DEF NotificationInv
<1>4. ASSUME NEW d \in Dispatch, NEW id \in NotificationId \cup {"none"},
             NEW key \in IdempotencyKey \cup {"none"}, NEW confirm \in BOOLEAN,
             SubmitDispatch(d, id, key, confirm)
      PROVE  NotificationInv'
  BY <1>4, SubmitStep
<1>5. ASSUME NEW c \in Dispatch, NEW decision \in Decision, LookUpChannel(c, decision) PROVE NotificationInv'
  BY <1>5, LookUpStep
<1> QED BY <1>1, <1>2, <1>3, <1>4, <1>5 DEF NextNotification

\* The inductive invariant of the dispatches.
THEOREM NotificationInvariant == NotificationSpec => []NotificationInv
BY InitNotificationInv, NotificationStep, PTL DEF NotificationSpec

\* Whatever the callers and the user do, a key that had been on the screen when a dispatch
\* looked for it is not put up by it; and an answer reported as taken is the one that the
\* caller gets, unless his time was up.
THEOREM NotificationsAreHonest == NotificationSpec => []DispatchesAreHonest
<1>1. NotificationInv => DispatchesAreHonest
  <2> SUFFICES ASSUME NotificationInv PROVE DispatchesAreHonest
    OBVIOUS
  <2>1. ShownAgainOnlyWhenOverlapping
    BY DEF NotificationInv, KeyInv, ShownAgainOnlyWhenOverlapping
  <2>2. HeardAnswerIsTheResult
    BY DEF NotificationInv, AnswerInv, Awaited, HeardAnswerIsTheResult
  <2> QED BY <2>1, <2>2 DEF DispatchesAreHonest
<1> QED BY <1>1, NotificationInvariant, PTL

-----------------------------------------------------------------------------
(* AgentContext: whose data is kept, shown and filed.                      *)

ContextSpec == InitContext /\ [][NextContext]_contextVars

ContextRecord ==
    [op: ContextOp \cup {"none"},
     at: {"idle", "disk", "remember", "ask", "keep", "file", "use", "post", "fetch", "save"},
     info: MaybeClient, token: MaybeClient]

\* A call that has resolved the context, or read the credentials, has those of the
\* configuration.
CallFits(k) ==
    /\ k.at \in {"remember", "keep", "file", "use", "post", "fetch", "save"} =>
         configured > 0 /\ k.info = configured
    /\ k.at \in {"ask", "post", "fetch", "save"} => configured > 0 /\ k.token = configured

\* Without an excuse nothing of another client is kept but while SetConfig empties the
\* caches, and no call runs meanwhile.
CauseInv ==
    contextExcused \/
      /\ configChange = "none" => {memoryInfo, diskInfo} \subseteq {0, configured}
      /\ configChange = "disk" => memoryInfo = 0
      /\ configChange # "none" => configured > 0 /\ ~CallsRunning
      /\ \A c \in Caller : CallFits(contextCall[c])

ContextInv == ContextTypeOK /\ CauseInv

LEMMA ContextTypes ==
  ASSUME ContextTypeOK
  PROVE  /\ contextCall \in [Caller -> ContextRecord] /\ \A c \in Caller : contextCall[c] \in ContextRecord
         /\ configured \in MaybeClient /\ installed \in MaybeClient
         /\ memoryInfo \in MaybeClient /\ diskInfo \in MaybeClient
         /\ NoContextCall \in ContextRecord /\ NoContextCall.at = "idle" /\ NoContextCall.op = "none"
         /\ 0 \in MaybeClient /\ MaybeClient \subseteq Nat /\ ClientIdentity \subseteq MaybeClient
<1>1. contextCall \in [Caller -> ContextRecord]
  BY DEF ContextTypeOK, ContextRecord
<1>2. 0 \in MaybeClient /\ MaybeClient \subseteq Nat /\ ClientIdentity \subseteq MaybeClient
  BY ContextAssumption DEF MaybeClient, ClientIdentity
<1>3. NoContextCall \in ContextRecord /\ NoContextCall.at = "idle" /\ NoContextCall.op = "none"
  BY <1>2 DEF NoContextCall, ContextRecord
<1>4. /\ configured \in MaybeClient /\ installed \in MaybeClient
      /\ memoryInfo \in MaybeClient /\ diskInfo \in MaybeClient
  BY DEF ContextTypeOK
<1> QED BY <1>1, <1>2, <1>3, <1>4

LEMMA ContextInit == InitContext => ContextInv
<1> SUFFICES ASSUME InitContext PROVE ContextInv
  OBVIOUS
<1>1. 0 \in MaybeClient /\ 1 \in MaybeClient
  BY ContextAssumption DEF MaybeClient
<1>2. NoContextCall \in ContextRecord /\ NoContextCall.at = "idle"
  BY <1>1 DEF NoContextCall, ContextRecord
<1>3. /\ contextCall = [c \in Caller |-> NoContextCall] /\ contextCall \in [Caller -> ContextRecord]
      /\ memoryInfo = 0 /\ diskInfo = 0 /\ installed \in {0, 1} /\ configured = installed
      /\ configChange = "none" /\ contextStarts = 0
  BY <1>2 DEF InitContext
<1>4. contextExcused \in BOOLEAN
  BY DEF InitContext
<1>5. ContextTypeOK
  BY <1>1, <1>3, <1>4, ContextAssumption DEF ContextTypeOK, ContextRecord
<1>6. CauseInv
  BY <1>2, <1>3 DEF CauseInv, CallFits
<1> QED BY <1>5, <1>6 DEF ContextInv

\* One call goes on, the configuration staying; what it puts in a cache is the context
\* of the configuration.
LEMMA CallStep ==
  ASSUME ContextInv, NEW c \in Caller, NEW k \in ContextRecord,
         contextCall' = [contextCall EXCEPT ![c] = k],
         configured' = configured, installed' = installed, configChange' = configChange,
         contextStarts' = contextStarts,
         contextExcused' \in BOOLEAN, contextExcused => contextExcused',
         memoryInfo' \in MaybeClient, diskInfo' \in MaybeClient,
         ~contextExcused' =>
           /\ CallFits(k)
           /\ memoryInfo' \in {0, memoryInfo, configured} /\ diskInfo' \in {0, diskInfo, configured}
           /\ k.at # "idle" \/ memoryInfo' # memoryInfo \/ diskInfo' # diskInfo => configChange = "none"
  PROVE  ContextInv'
<1>1. contextCall \in [Caller -> ContextRecord]
  BY ContextTypes DEF ContextInv
<1>2. /\ contextCall' \in [Caller -> ContextRecord] /\ contextCall'[c] = k
      /\ \A d \in Caller : d # c => contextCall'[d] = contextCall[d]
  BY <1>1
<1>3. ContextTypeOK'
  <2>1. {configured', installed', memoryInfo', diskInfo'} \subseteq MaybeClient
    BY ContextTypes DEF ContextInv
  <2> QED BY <1>2, <2>1 DEF ContextInv, ContextTypeOK, ContextRecord
<1>4. ASSUME ~contextExcused'
      PROVE  /\ configChange' = "none" => {memoryInfo', diskInfo'} \subseteq {0, configured'}
             /\ configChange' = "disk" => memoryInfo' = 0
             /\ configChange' # "none" => configured' > 0 /\ ~CallsRunning'
             /\ \A d \in Caller : CallFits(contextCall[d])'
  <2>1. /\ configChange = "none" => {memoryInfo, diskInfo} \subseteq {0, configured}
        /\ configChange = "disk" => memoryInfo = 0
        /\ configChange # "none" => configured > 0 /\ ~CallsRunning
        /\ \A d \in Caller : CallFits(contextCall[d])
    BY <1>4 DEF ContextInv, CauseInv
  <2>2. \A d \in Caller : CallFits(contextCall[d])'
    BY <1>2, <1>4, <2>1 DEF CallFits
  <2>3. configChange # "none" => ~CallsRunning'
    BY <1>2, <1>4, <2>1 DEF CallsRunning
  <2> QED BY <1>4, <2>1, <2>2, <2>3
<1>5. CauseInv'
  BY <1>4 DEF CauseInv
<1> QED BY <1>3, <1>5 DEF ContextInv

\* What is known of a call under way that has no excuse.
LEMMA RunningCall ==
  ASSUME ContextInv, NEW c \in Caller, contextCall[c].at # "idle", ~contextExcused
  PROVE  /\ configChange = "none" /\ CallFits(contextCall[c])
         /\ memoryInfo \in {0, configured} /\ diskInfo \in {0, configured}
BY DEF ContextInv, CauseInv, CallsRunning

\* The steps of a call.
LEMMA CallInv ==
  ASSUME ContextInv, NEW c \in Caller,
         \/ \E op \in ContextOp : BeginContextCall(c, op)
         \/ ReadContextFromDisk(c) \/ ContextAnswered(c) \/ RememberContext(c) \/ FileContext(c)
         \/ ListTickets(c) \/ CreateTicket(c) \/ PostTicket(c)
         \/ LookUpArticles(c) \/ ArticlesAnswered(c) \/ SaveArticles(c)
  PROVE  ContextInv'
<1>0. /\ contextCall \in [Caller -> ContextRecord] /\ contextCall[c] \in ContextRecord
      /\ configured \in MaybeClient /\ memoryInfo \in MaybeClient /\ diskInfo \in MaybeClient
      /\ contextCall[c].info \in MaybeClient /\ contextCall[c].token \in MaybeClient
      /\ NoContextCall \in ContextRecord /\ NoContextCall.at = "idle" /\ contextExcused \in BOOLEAN
      /\ MaybeClient \subseteq Nat
  <2>1. contextCall[c] \in ContextRecord
    BY ContextTypes DEF ContextInv
  <2>2. contextCall[c].info \in MaybeClient /\ contextCall[c].token \in MaybeClient
    BY <2>1 DEF ContextRecord
  <2>3. contextExcused \in BOOLEAN
    BY DEF ContextInv, ContextTypeOK
  <2> QED BY <2>1, <2>2, <2>3, ContextTypes DEF ContextInv
<1>1. /\ configured' = configured /\ installed' = installed /\ configChange' = configChange
      /\ contextStarts' = contextStarts
  BY DEF BeginContextCall, ReadContextFromDisk, ContextAnswered, RememberContext, FileContext, ListTickets,
         CreateTicket, PostTicket, LookUpArticles, ArticlesAnswered, SaveArticles, identityVars
<1>2. CASE \E op \in ContextOp : BeginContextCall(c, op)
  <2>1. PICK op \in ContextOp : BeginContextCall(c, op)
    BY <1>2
  <2> DEFINE k == [NoContextCall EXCEPT !.op = op, !.info = memoryInfo,
                                        !.at = IF memoryInfo > 0 THEN "use" ELSE "disk"]
  <2>2. /\ contextCall' = [contextCall EXCEPT ![c] = k]
        /\ memoryInfo' = memoryInfo /\ diskInfo' = diskInfo
        /\ contextExcused' \in BOOLEAN /\ (contextExcused => contextExcused')
        /\ ~contextExcused' => ~contextExcused /\ configChange = "none"
    BY <1>0, <2>1 DEF BeginContextCall, caches
  <2>3. /\ k \in ContextRecord /\ k.info = memoryInfo
        /\ (k.at = "use" /\ memoryInfo > 0) \/ k.at = "disk"
    BY <1>0 DEF ContextRecord
  <2>4. ~contextExcused' => CallFits(k)
    BY <2>2, <2>3 DEF ContextInv, CauseInv, CallFits
  <2> HIDE DEF k
  <2> QED BY <1>0, <1>1, <2>2, <2>3, <2>4, CallStep
<1>3. CASE ReadContextFromDisk(c) \/ ContextAnswered(c) \/ RememberContext(c) \/ FileContext(c)
           \/ ListTickets(c) \/ CreateTicket(c) \/ PostTicket(c)
           \/ LookUpArticles(c) \/ ArticlesAnswered(c) \/ SaveArticles(c)
  <2>1. contextExcused' = contextExcused /\ contextCall[c].at # "idle"
    BY <1>3 DEF ReadContextFromDisk, ContextAnswered, RememberContext, FileContext, ListTickets,
         CreateTicket, PostTicket, LookUpArticles, ArticlesAnswered, SaveArticles, identityVars
  <2>2. PICK k \in ContextRecord :
            /\ contextCall' = [contextCall EXCEPT ![c] = k]
            /\ ~contextExcused /\ CallFits(contextCall[c]) /\ diskInfo \in {0, configured} => CallFits(k)
    <3>1. ASSUME contextCall' = [contextCall EXCEPT ![c] = NoContextCall]
          PROVE  \E k \in ContextRecord : contextCall' = [contextCall EXCEPT ![c] = k] /\ CallFits(k)
      BY <1>0, <3>1 DEF CallFits
    <3>2. ASSUME NEW at \in {"file", "use", "save"},
                 contextCall' = [contextCall EXCEPT ![c].at = at],
                 at \in {"file", "use"} => contextCall[c].at \in {"remember", "keep", "file"},
                 at = "save" => contextCall[c].at = "fetch"
          PROVE  \E k \in ContextRecord : contextCall' = [contextCall EXCEPT ![c] = k]
                                          /\ (CallFits(contextCall[c]) => CallFits(k))
      <4> DEFINE k == [contextCall[c] EXCEPT !.at = at]
      <4>1. k \in ContextRecord /\ k.at = at /\ k.info = contextCall[c].info /\ k.token = contextCall[c].token
        BY <1>0 DEF ContextRecord
      <4>2. contextCall' = [contextCall EXCEPT ![c] = k]
        BY <1>0, <3>2
      <4>3. CallFits(contextCall[c]) => CallFits(k)
        BY <3>2, <4>1 DEF CallFits
      <4> QED BY <4>1, <4>2, <4>3
    <3>3. ASSUME NEW at \in {"ask", "post", "fetch"}, configured > 0,
                 contextCall' = [contextCall EXCEPT ![c].token = configured, ![c].at = at],
                 at \in {"post", "fetch"} => contextCall[c].at = "use"
          PROVE  \E k \in ContextRecord : contextCall' = [contextCall EXCEPT ![c] = k]
                                          /\ (CallFits(contextCall[c]) => CallFits(k))
      <4> DEFINE k == [contextCall[c] EXCEPT !.token = configured, !.at = at]
      <4>1. k \in ContextRecord /\ k.at = at /\ k.info = contextCall[c].info /\ k.token = configured
        BY <1>0 DEF ContextRecord
      <4>2. contextCall' = [contextCall EXCEPT ![c] = k]
        BY <1>0, <3>3
      <4>3. CallFits(contextCall[c]) => CallFits(k)
        BY <3>3, <4>1 DEF CallFits
      <4> QED BY <4>1, <4>2, <4>3
    <3>4. CASE ListTickets(c) \/ PostTicket(c) \/ SaveArticles(c)
      BY <3>1, <3>4 DEF ListTickets, PostTicket, SaveArticles, CallReturns
    <3>5. CASE RememberContext(c)
      BY <3>2, <3>5 DEF RememberContext, CallGoesTo
    <3>6. CASE FileContext(c)
      BY <3>2, <3>6 DEF FileContext, CallGoesTo
    <3>7. CASE ArticlesAnswered(c)
      BY <3>1, <3>2, <3>7 DEF ArticlesAnswered, CallGoesTo, CallReturns
    <3>8. CASE CreateTicket(c)
      BY <3>3, <3>8 DEF CreateTicket
    <3>9. CASE LookUpArticles(c)
      BY <3>1, <3>3, <3>9 DEF LookUpArticles, CallReturns
    <3>10. CASE ReadContextFromDisk(c)
      <4>1. CASE diskInfo > 0 /\ contextCall' = [contextCall EXCEPT ![c].info = diskInfo, ![c].at = "remember"]
        <5> DEFINE k == [contextCall[c] EXCEPT !.info = diskInfo, !.at = "remember"]
        <5>1. k \in ContextRecord /\ k.at = "remember" /\ k.info = diskInfo
          BY <1>0 DEF ContextRecord
        <5>2. contextCall' = [contextCall EXCEPT ![c] = k]
          BY <1>0, <4>1
        <5>3. diskInfo \in {0, configured} => CallFits(k)
          BY <1>0, <4>1, <5>1 DEF CallFits
        <5> QED BY <5>1, <5>2, <5>3
      <4>2. CASE ~(diskInfo > 0)
        BY <1>0, <3>1, <3>3, <3>10, <4>2 DEF ReadContextFromDisk, CallReturns
      <4> QED BY <3>10, <4>1, <4>2 DEF ReadContextFromDisk
    <3>11. CASE ContextAnswered(c)
      <4>1. CASE contextCall' = [contextCall EXCEPT ![c].info = contextCall[c].token, ![c].at = "keep"]
        <5> DEFINE k == [contextCall[c] EXCEPT !.info = contextCall[c].token, !.at = "keep"]
        <5>1. k \in ContextRecord /\ k.at = "keep" /\ k.info = contextCall[c].token
          BY <1>0 DEF ContextRecord
        <5>2. contextCall' = [contextCall EXCEPT ![c] = k]
          BY <1>0, <4>1
        <5>3. CallFits(contextCall[c]) => CallFits(k)
          BY <3>11, <5>1 DEF CallFits, ContextAnswered
        <5> QED BY <5>1, <5>2, <5>3
      <4>2. CASE CallReturns(c)
        BY <3>1, <4>2 DEF CallReturns
      <4> QED BY <3>11, <4>1, <4>2 DEF ContextAnswered
    <3> QED BY <1>3, <3>4, <3>5, <3>6, <3>7, <3>8, <3>9, <3>10, <3>11
  <2>3. /\ memoryInfo' \in MaybeClient /\ diskInfo' \in MaybeClient
        /\ \/ memoryInfo' = memoryInfo
           \/ memoryInfo' = contextCall[c].info /\ contextCall[c].at \in {"remember", "keep"}
        /\ \/ diskInfo' = diskInfo
           \/ diskInfo' = contextCall[c].info /\ contextCall[c].at = "file"
    BY <1>0, <1>3 DEF ReadContextFromDisk, ContextAnswered, RememberContext, FileContext, ListTickets,
         CreateTicket, PostTicket, LookUpArticles, ArticlesAnswered, SaveArticles, caches
  <2>4. ~contextExcused =>
           /\ CallFits(k) /\ configChange = "none"
           /\ memoryInfo' \in {0, memoryInfo, configured} /\ diskInfo' \in {0, diskInfo, configured}
    BY <2>1, <2>2, <2>3, RunningCall DEF CallFits
  <2> QED BY <1>0, <1>1, <2>1, <2>2, <2>3, <2>4, CallStep
<1> QED BY <1>2, <1>3

\* The configuration changes, or a cache is emptied.
LEMMA ChangeInv ==
  ASSUME ContextInv,
         \/ \E i \in ClientIdentity : SetConfig(i) \/ BootstrapRegisters(i)
         \/ SetConfigForgetsMemory \/ SetConfigForgetsDisk \/ ProcessRestarts
         \/ ForgetMemory \/ ContextExpires \/ UNCHANGED contextVars
  PROVE  ContextInv'
<1>0. /\ contextCall \in [Caller -> ContextRecord] /\ NoContextCall \in ContextRecord
      /\ configured \in MaybeClient /\ installed \in MaybeClient
      /\ memoryInfo \in MaybeClient /\ diskInfo \in MaybeClient
      /\ 0 \in MaybeClient /\ MaybeClient \subseteq Nat /\ ClientIdentity \subseteq MaybeClient
      /\ NoContextCall.at = "idle"
  BY ContextTypes DEF ContextInv
<1>1. contextExcused \in BOOLEAN /\ contextStarts \in 0..MaxStarts /\ MaxStarts \in Nat
  BY ContextAssumption DEF ContextInv, ContextTypeOK
<1>2. ~contextExcused =>
        /\ configChange = "none" => {memoryInfo, diskInfo} \subseteq {0, configured}
        /\ configChange = "disk" => memoryInfo = 0
        /\ configChange # "none" => configured > 0 /\ ~CallsRunning
        /\ \A c \in Caller : CallFits(contextCall[c])
  BY DEF ContextInv, CauseInv
<1>3. CASE \E i \in ClientIdentity : SetConfig(i)
  <2>1. PICK i \in ClientIdentity : SetConfig(i)
    BY <1>3
  <2>2. /\ configured' = i /\ i > 0 /\ configChange = "none" /\ configChange' = "memory"
        /\ contextExcused' \in BOOLEAN /\ (~contextExcused' => ~contextExcused /\ ~CallsRunning)
        /\ installed' = installed /\ memoryInfo' = memoryInfo /\ diskInfo' = diskInfo
        /\ contextCall' = contextCall /\ contextStarts' = contextStarts
    <3>1. CallsRunning \in BOOLEAN
      BY DEF CallsRunning
    <3>2. i > 0
      BY DEF ClientIdentity
    <3>3. contextExcused' = (contextExcused \/ CallsRunning)
      BY <2>1 DEF SetConfig
    <3>4. contextExcused' \in BOOLEAN /\ (~contextExcused' => ~contextExcused /\ ~CallsRunning)
      BY <1>1, <3>1, <3>3, Zenon
    <3> QED BY <2>1, <3>2, <3>4 DEF SetConfig, caches
  <2>3. ContextTypeOK'
    BY <1>0, <2>2 DEF ContextInv, ContextTypeOK
  <2>4. CauseInv'
    BY <2>2 DEF CauseInv, CallsRunning, CallFits
  <2> QED BY <2>3, <2>4 DEF ContextInv
<1>4. CASE \E i \in ClientIdentity : BootstrapRegisters(i)
  <2>1. PICK i \in ClientIdentity : BootstrapRegisters(i)
    BY <1>4
  <2>2. /\ configured' = i /\ installed' = i
        /\ contextExcused' \in BOOLEAN /\ (~contextExcused' => ~contextExcused /\ ~(configured > 0))
        /\ memoryInfo' = memoryInfo /\ diskInfo' = diskInfo /\ configChange' = configChange
        /\ contextCall' = contextCall /\ contextStarts' = contextStarts
    BY <1>1, <2>1 DEF BootstrapRegisters, caches
  <2>3. ContextTypeOK'
    BY <1>0, <2>2 DEF ContextInv, ContextTypeOK
  <2>4. ASSUME ~contextExcused'
        PROVE  /\ configChange' = "none" /\ memoryInfo' = 0 /\ diskInfo' = 0
               /\ \A c \in Caller : CallFits(contextCall[c])'
    <3>1. configured = 0 /\ ~contextExcused
      BY <1>0, <2>2, <2>4
    <3>2. configChange = "none" /\ memoryInfo = 0 /\ diskInfo = 0
      BY <1>2, <3>1
    <3>3. \A c \in Caller : CallFits(contextCall[c])'
      BY <1>2, <2>2, <3>1 DEF CallFits
    <3> QED BY <2>2, <3>2, <3>3
  <2>5. CauseInv'
    BY <2>4 DEF CauseInv
  <2> QED BY <2>3, <2>5 DEF ContextInv
<1>5. CASE ProcessRestarts
  <2>1. /\ contextStarts' = contextStarts + 1 /\ contextStarts < MaxStarts
        /\ configured' = installed /\ memoryInfo' = 0 /\ contextCall' = [c \in Caller |-> NoContextCall]
        /\ configChange' = "none" /\ installed' = installed /\ diskInfo' = diskInfo
        /\ contextExcused' \in BOOLEAN
        /\ ~contextExcused' => ~contextExcused /\ configured = installed /\ configChange = "none"
    BY <1>1, <1>5 DEF ProcessRestarts
  <2>2. contextCall' \in [Caller -> ContextRecord] /\ contextStarts' \in 0..MaxStarts
    BY <1>0, <1>1, <2>1
  <2>3. ContextTypeOK'
    BY <1>0, <2>1, <2>2 DEF ContextInv, ContextTypeOK, ContextRecord
  <2>4. \A c \in Caller : CallFits(contextCall[c])'
    BY <1>0, <2>1 DEF CallFits
  <2>5. CauseInv'
    BY <1>2, <2>1, <2>4 DEF CauseInv
  <2> QED BY <2>3, <2>5 DEF ContextInv
<1>6. CASE SetConfigForgetsMemory \/ SetConfigForgetsDisk \/ ForgetMemory \/ ContextExpires
           \/ UNCHANGED contextVars
  <2>1. /\ configured' = configured /\ installed' = installed /\ contextCall' = contextCall
        /\ contextStarts' = contextStarts /\ contextExcused' \in BOOLEAN
        /\ ~contextExcused' => ~contextExcused
        /\ memoryInfo' \in {0, memoryInfo} /\ diskInfo' \in {0, diskInfo}
        /\ configChange' \in {"none", "memory", "disk"}
    BY <1>1, <1>6 DEF SetConfigForgetsMemory, SetConfigForgetsDisk, ForgetMemory, ContextExpires,
         contextVars, identityVars, ContextInv, ContextTypeOK
  <2>2. ~contextExcused' =>
          /\ \/ configChange' = configChange
             \/ configChange = "memory" /\ configChange' = "disk" /\ memoryInfo' = 0
             \/ configChange = "disk" /\ configChange' = "none" /\ diskInfo' = 0
    BY <1>6, <2>1 DEF SetConfigForgetsMemory, SetConfigForgetsDisk, ForgetMemory, ContextExpires,
         contextVars, identityVars
  <2>3. ContextTypeOK'
    BY <1>0, <2>1 DEF ContextInv, ContextTypeOK
  <2>4. (CallsRunning' <=> CallsRunning) /\ \A c \in Caller : CallFits(contextCall[c])' <=> CallFits(contextCall[c])
    BY <2>1 DEF CallsRunning, CallFits
  <2>5. CauseInv'
    BY <1>2, <2>1, <2>2, <2>4 DEF CauseInv
  <2> QED BY <2>3, <2>5 DEF ContextInv
<1> QED BY <1>3, <1>4, <1>5, <1>6

LEMMA ContextNext == ContextInv /\ [NextContext]_contextVars => ContextInv'
BY CallInv, ChangeInv DEF NextContext

\* The inductive invariant of the agent's context.
THEOREM ContextInvariant == ContextSpec => []ContextInv
<1> QED BY ContextInit, ContextNext, PTL DEF ContextSpec

\* The context of another client is kept, or used with the credentials of this one, only
\* after a configuration that changed under a call's feet or with the caches kept.
THEOREM ContextIsOfTheConfiguration == ContextSpec => []StaleContextHasACause
<1>1. ContextInv => StaleContextHasACause
  BY DEF ContextInv, CauseInv, StaleContextHasACause, CallFits
<1> QED BY <1>1, ContextInvariant, PTL

-----------------------------------------------------------------------------
(* StorePolicy: what the lookups go by.                                    *)

StoreSpec == InitStore /\ [][NextStore]_storeVars

Halves == [winget: {0} \cup Edition, chocolatey: {0} \cup Edition]
LoadRecord == [at: {"idle", "disk", "adopt", "winget", "chocolatey", "set", "save"}, got: Halves]

NotBehind(p, q) == q.winget <= p.winget /\ q.chocolatey <= p.chocolatey

\* No policy is ahead of the server's.
EditionInv ==
    /\ memoryPolicy.winget <= edition /\ memoryPolicy.chocolatey <= edition
    /\ diskPolicy.winget <= edition /\ diskPolicy.chocolatey <= edition
    /\ \A l \in Loader : load[l].got.winget <= edition /\ load[l].got.chocolatey <= edition

\* A load has the halves that it was answered.
GotInv ==
    \A l \in Loader :
        /\ load[l].at \in {"adopt", "set", "save"} => load[l].got \in Policy
        /\ load[l].at = "chocolatey" => load[l].got.winget \in Edition

\* Undisturbed there is one load at a time; what it has got, and what SQLite holds, is not
\* behind what memory holds, but for the policy a load is about to save.
OrderInv ==
    storeDisturbed \/
      /\ \A l, m \in Loader : load[l].at # "idle" /\ load[m].at # "idle" => l = m
      /\ \A l \in Loader : load[l].at \in {"adopt", "set", "save"} => NotBehind(load[l].got, memoryPolicy)
      /\ \A l \in Loader : load[l].at = "chocolatey" => memoryPolicy.winget <= load[l].got.winget
      /\ \A l \in Loader : load[l].at = "adopt" => diskPolicy \in {NoPolicy, load[l].got}
      /\ \/ diskPolicy = NoPolicy \/ NotBehind(diskPolicy, memoryPolicy)
         \/ \E l \in Loader : load[l].at = "save"

StoreInv == StoreTypeOK /\ EditionInv /\ GotInv /\ OrderInv

LEMMA StoreTypes ==
  ASSUME StoreTypeOK
  PROVE  /\ load \in [Loader -> LoadRecord] /\ edition \in Edition /\ edition \in Nat
         /\ \A l \in Loader : load[l] \in LoadRecord /\ load[l].got \in Halves
         /\ memoryPolicy \in Policy \cup {NoPolicy} /\ diskPolicy \in Policy \cup {NoPolicy}
         /\ storeDisturbed \in BOOLEAN /\ memoryFresh \in BOOLEAN /\ storeEnabled \in BOOLEAN
<1>1. load \in [Loader -> LoadRecord]
  BY DEF StoreTypeOK, LoadRecord, Halves
<1>2. \A l \in Loader : load[l].got \in Halves
  BY <1>1 DEF LoadRecord
<1>3. edition \in Edition /\ edition \in Nat
  BY DEF StoreTypeOK, Edition
<1>4. /\ memoryPolicy \in Policy \cup {NoPolicy} /\ diskPolicy \in Policy \cup {NoPolicy}
      /\ storeDisturbed \in BOOLEAN /\ memoryFresh \in BOOLEAN /\ storeEnabled \in BOOLEAN
  BY DEF StoreTypeOK
<1> QED BY <1>1, <1>2, <1>3, <1>4

\* The numbers of the halves.
LEMMA PolicyFacts ==
  /\ Policy \cup {NoPolicy} \subseteq Halves /\ NoPolicy.winget = 0 /\ NoPolicy.chocolatey = 0
  /\ \A p \in Halves : p.winget \in Nat /\ p.chocolatey \in Nat /\ NotBehind(p, p) /\ NotBehind(p, NoPolicy)
  /\ NoStoreLoad \in LoadRecord /\ NoStoreLoad.at = "idle" /\ NoStoreLoad.got = NoPolicy
<1>1. Edition \subseteq Nat
  BY DEF Edition
<1>2. NoPolicy \in Halves /\ NoPolicy.winget = 0 /\ NoPolicy.chocolatey = 0
  BY DEF NoPolicy, Halves
<1>3. Policy \subseteq Halves
  BY DEF Policy, Halves
<1>4. \A p \in Halves : p.winget \in Nat /\ p.chocolatey \in Nat /\ NotBehind(p, p) /\ NotBehind(p, NoPolicy)
  <2> SUFFICES ASSUME NEW p \in Halves
               PROVE  p.winget \in Nat /\ p.chocolatey \in Nat /\ NotBehind(p, p) /\ NotBehind(p, NoPolicy)
    OBVIOUS
  <2>0. p.winget \in {0} \cup Edition /\ p.chocolatey \in {0} \cup Edition
    BY DEF Halves
  <2>1. p.winget \in Nat /\ p.chocolatey \in Nat
    BY <2>0 DEF Edition
  <2> QED BY <1>2, <2>1 DEF NotBehind
<1> QED BY <1>2, <1>3, <1>4 DEF NoStoreLoad, LoadRecord

LEMMA StoreInit == InitStore => StoreInv
<1> SUFFICES ASSUME InitStore PROVE StoreInv
  OBVIOUS
<1>1. /\ edition = 1 /\ edition \in Edition /\ memoryPolicy = NoPolicy /\ diskPolicy = NoPolicy
      /\ load = [l \in Loader |-> NoStoreLoad]
  BY StoreAssumption DEF InitStore, Edition
<1>2. {storeEnabled, memoryFresh, storeDisturbed} \subseteq BOOLEAN
  BY DEF InitStore
<1>3. load \in [Loader -> LoadRecord] /\ \A l \in Loader : load[l].at = "idle" /\ load[l].got = NoPolicy
  BY <1>1, PolicyFacts
<1>4. StoreTypeOK
  BY <1>1, <1>2, <1>3 DEF StoreTypeOK, LoadRecord, Halves
<1>5. EditionInv
  BY <1>1, <1>3, PolicyFacts DEF EditionInv
<1>6. GotInv /\ OrderInv
  BY <1>1, <1>3 DEF GotInv, OrderInv
<1> QED BY <1>4, <1>5, <1>6 DEF StoreInv

\* One load goes on, undisturbed if no other is under way.
LEMMA LoadStep ==
  ASSUME StoreInv, NEW l \in Loader, NEW k \in LoadRecord,
         load' = [load EXCEPT ![l] = k], edition' = edition,
         storeEnabled' = storeEnabled, memoryFresh' \in BOOLEAN,
         storeDisturbed' \in BOOLEAN, storeDisturbed => storeDisturbed',
         memoryPolicy' \in Policy \cup {NoPolicy}, diskPolicy' \in Policy \cup {NoPolicy},
         memoryPolicy' \in {memoryPolicy, load[l].got}, diskPolicy' \in {diskPolicy, load[l].got},
         k.got.winget <= edition, k.got.chocolatey <= edition,
         k.at \in {"adopt", "set", "save"} => k.got \in Policy,
         k.at = "chocolatey" => k.got.winget \in Edition,
         ~storeDisturbed' =>
           /\ \A m \in Loader \ {l} : load[m].at = "idle"
           /\ k.at \in {"adopt", "set", "save"} => NotBehind(k.got, memoryPolicy')
           /\ k.at = "chocolatey" => memoryPolicy'.winget <= k.got.winget
           /\ k.at = "adopt" => diskPolicy' \in {NoPolicy, k.got}
           /\ diskPolicy' = NoPolicy \/ NotBehind(diskPolicy', memoryPolicy') \/ k.at = "save"
  PROVE  StoreInv'
<1>1. load \in [Loader -> LoadRecord] /\ edition \in Edition /\ storeEnabled \in BOOLEAN
  BY StoreTypes DEF StoreInv
<1>2. /\ load' \in [Loader -> LoadRecord] /\ load'[l] = k
      /\ \A m \in Loader \ {l} : load'[m] = load[m]
  BY <1>1
<1>3. StoreTypeOK'
  BY <1>1, <1>2 DEF StoreTypeOK, LoadRecord, Halves
<1>4. EditionInv'
  BY <1>2 DEF StoreInv, EditionInv
<1>5. GotInv'
  BY <1>2 DEF StoreInv, GotInv
<1>6. OrderInv'
  <2> SUFFICES ASSUME ~storeDisturbed'
               PROVE  /\ \A m, n \in Loader : load'[m].at # "idle" /\ load'[n].at # "idle" => m = n
                      /\ \A m \in Loader : load'[m].at \in {"adopt", "set", "save"} => NotBehind(load'[m].got, memoryPolicy')
                      /\ \A m \in Loader : load'[m].at = "chocolatey" => memoryPolicy'.winget <= load'[m].got.winget
                      /\ \A m \in Loader : load'[m].at = "adopt" => diskPolicy' \in {NoPolicy, load'[m].got}
                      /\ \/ diskPolicy' = NoPolicy \/ NotBehind(diskPolicy', memoryPolicy')
                         \/ \E m \in Loader : load'[m].at = "save"
    BY DEF OrderInv, NotBehind, NoPolicy
  <2>1. \A m \in Loader : m # l => load'[m].at = "idle"
    BY <1>2
  <2> QED BY <1>2, <2>1
<1> QED BY <1>3, <1>4, <1>5, <1>6 DEF StoreInv

\* What is known of the load of a step, undisturbed.
LEMMA LoadAlone ==
  ASSUME StoreInv, NEW l \in Loader, load[l].at # "idle", ~storeDisturbed
  PROVE  /\ \A m \in Loader \ {l} : load[m].at = "idle"
         /\ load[l].at \in {"adopt", "set", "save"} => NotBehind(load[l].got, memoryPolicy)
         /\ load[l].at = "chocolatey" => memoryPolicy.winget <= load[l].got.winget
         /\ load[l].at = "adopt" => diskPolicy \in {NoPolicy, load[l].got}
         /\ load[l].at # "save" => diskPolicy = NoPolicy \/ NotBehind(diskPolicy, memoryPolicy)
<1>1. /\ \A i, m \in Loader : load[i].at # "idle" /\ load[m].at # "idle" => i = m
      /\ \A i \in Loader : load[i].at \in {"adopt", "set", "save"} => NotBehind(load[i].got, memoryPolicy)
      /\ \A i \in Loader : load[i].at = "chocolatey" => memoryPolicy.winget <= load[i].got.winget
      /\ \A i \in Loader : load[i].at = "adopt" => diskPolicy \in {NoPolicy, load[i].got}
      /\ \/ diskPolicy = NoPolicy \/ NotBehind(diskPolicy, memoryPolicy)
         \/ \E i \in Loader : load[i].at = "save"
  BY DEF StoreInv, OrderInv
<1>2. \A m \in Loader \ {l} : load[m].at = "idle"
  BY <1>1
<1> QED BY <1>1, <1>2

\* The steps of a load.
LEMMA LoadInv ==
  ASSUME StoreInv, NEW l \in Loader,
         \/ LookUpPolicy(l) \/ ForcePolicyLoad(l) \/ ReadPolicyFromDisk(l)
         \/ PolicyAnswered(l) \/ SetPolicy(l) \/ SavePolicy(l)
  PROVE  StoreInv'
<1>0. /\ load \in [Loader -> LoadRecord] /\ load[l] \in LoadRecord /\ load[l].got \in Halves
      /\ edition \in Edition /\ edition \in Nat /\ 0 <= edition
      /\ memoryPolicy \in Policy \cup {NoPolicy} /\ diskPolicy \in Policy \cup {NoPolicy}
      /\ memoryPolicy \in Halves /\ diskPolicy \in Halves
      /\ storeDisturbed \in BOOLEAN /\ memoryFresh \in BOOLEAN
      /\ Policy \cup {NoPolicy} \subseteq Halves
  BY StoreTypes, PolicyFacts DEF StoreInv
<1>1. edition' = edition /\ storeEnabled' = storeEnabled
  BY DEF LookUpPolicy, ForcePolicyLoad, ReadPolicyFromDisk, PolicyAnswered, SetPolicy, SavePolicy
<1>2. /\ NoStoreLoad \in LoadRecord /\ NoStoreLoad.at = "idle" /\ NoStoreLoad.got = NoPolicy
      /\ NoPolicy.winget <= edition /\ NoPolicy.chocolatey <= edition
  BY <1>0, PolicyFacts
<1>3. /\ load[l].got.winget <= edition /\ load[l].got.chocolatey <= edition
      /\ diskPolicy.winget <= edition /\ diskPolicy.chocolatey <= edition
      /\ memoryPolicy.winget <= edition /\ memoryPolicy.chocolatey <= edition
      /\ load[l].at \in {"adopt", "set", "save"} => load[l].got \in Policy
      /\ load[l].at = "chocolatey" => load[l].got.winget \in Edition
  BY DEF StoreInv, EditionInv, GotInv
<1>4. CASE LookUpPolicy(l) \/ ForcePolicyLoad(l)
  <2>1. PICK at \in {"disk", "winget"} : load' = [load EXCEPT ![l].at = at]
    BY <1>4 DEF LookUpPolicy, ForcePolicyLoad
  <2>2. /\ load[l].at = "idle" /\ memoryPolicy' = memoryPolicy /\ diskPolicy' = diskPolicy
        /\ memoryFresh' = memoryFresh
        /\ storeDisturbed' = (storeDisturbed \/ \E m \in Loader \ {l} : load[m].at # "idle")
    BY <1>4 DEF LookUpPolicy, ForcePolicyLoad, NoteOverlap
  <2>3. /\ storeDisturbed' \in BOOLEAN /\ (storeDisturbed => storeDisturbed')
        /\ ~storeDisturbed' => ~storeDisturbed /\ \A m \in Loader \ {l} : load[m].at = "idle"
    <3>1. (\E m \in Loader \ {l} : load[m].at # "idle") \in BOOLEAN
      OBVIOUS
    <3> QED BY <1>0, <2>2, <3>1, Zenon
  <2> DEFINE k == [load[l] EXCEPT !.at = at]
  <2>4. k \in LoadRecord /\ k.at = at /\ k.got = load[l].got /\ load' = [load EXCEPT ![l] = k]
    BY <1>0, <2>1 DEF LoadRecord
  <2>5. ~storeDisturbed' => diskPolicy = NoPolicy \/ NotBehind(diskPolicy, memoryPolicy)
    BY <2>2, <2>3 DEF StoreInv, OrderInv
  <2> HIDE DEF k
  <2> QED BY <1>0, <1>1, <1>3, <2>2, <2>3, <2>4, <2>5, LoadStep
<1>5. CASE ReadPolicyFromDisk(l)
  <2>1. /\ load[l].at = "disk" /\ memoryPolicy' = memoryPolicy /\ diskPolicy' = diskPolicy
        /\ memoryFresh' = memoryFresh /\ storeDisturbed' = storeDisturbed
    BY <1>5 DEF ReadPolicyFromDisk
  <2>2. ~storeDisturbed => /\ \A m \in Loader \ {l} : load[m].at = "idle"
                           /\ diskPolicy = NoPolicy \/ NotBehind(diskPolicy, memoryPolicy)
    BY <2>1, LoadAlone
  <2>3. CASE diskPolicy = NoPolicy
    <3> DEFINE k == [NoStoreLoad EXCEPT !.at = "winget"]
    <3>1. load' = [load EXCEPT ![l] = k]
      BY <1>5, <2>3 DEF ReadPolicyFromDisk
    <3>2. k \in LoadRecord /\ k.at = "winget" /\ k.got = NoPolicy
      BY <1>2 DEF LoadRecord
    <3> HIDE DEF k
    <3> QED BY <1>0, <1>1, <1>2, <1>3, <2>1, <2>2, <3>1, <3>2, LoadStep
  <2>4. CASE diskPolicy # NoPolicy
    <3> DEFINE k == [at |-> "adopt", got |-> diskPolicy]
    <3>1. load' = [load EXCEPT ![l] = k]
      BY <1>5, <2>4 DEF ReadPolicyFromDisk
    <3>2. k \in LoadRecord /\ k.at = "adopt" /\ k.got = diskPolicy /\ diskPolicy \in Policy
      BY <1>0, <2>4 DEF LoadRecord
    <3> HIDE DEF k
    <3> QED BY <1>0, <1>1, <1>3, <2>1, <2>2, <2>4, <3>1, <3>2, LoadStep
  <2> QED BY <2>3, <2>4
<1>6. CASE PolicyAnswered(l)
  <2>1. /\ load[l].at \in {"winget", "chocolatey"} /\ memoryPolicy' = memoryPolicy /\ diskPolicy' = diskPolicy
        /\ memoryFresh' = memoryFresh /\ storeDisturbed' = storeDisturbed
    BY <1>6 DEF PolicyAnswered
  <2>2. ~storeDisturbed => /\ \A m \in Loader \ {l} : load[m].at = "idle"
                           /\ diskPolicy = NoPolicy \/ NotBehind(diskPolicy, memoryPolicy)
                           /\ load[l].at = "chocolatey" => memoryPolicy.winget <= load[l].got.winget
    BY <2>1, LoadAlone
  <2>3. CASE StoreLoadEnds(l)
    BY <1>0, <1>1, <1>2, <1>3, <2>1, <2>2, <2>3, LoadStep DEF StoreLoadEnds
  <2>4. CASE load[l].at = "winget" /\ load' = [load EXCEPT ![l].got.winget = edition, ![l].at = "chocolatey"]
    <3> DEFINE g == [load[l].got EXCEPT !.winget = edition]
               k == [load[l] EXCEPT !.got = g, !.at = "chocolatey"]
    <3>1. g \in Halves /\ g.winget = edition /\ g.chocolatey = load[l].got.chocolatey
      BY <1>0 DEF Halves
    <3>2. load' = [load EXCEPT ![l] = k]
      BY <1>0, <2>4 DEF LoadRecord
    <3>a. k \in LoadRecord /\ k.at = "chocolatey" /\ k.got = g
      <4> HIDE DEF g
      <4> QED BY <1>0, <3>1 DEF LoadRecord
    <3>3. edition <= edition
      BY <1>0
    <3> HIDE DEF k, g
    <3> QED BY <1>0, <1>1, <1>3, <2>1, <2>2, <3>1, <3>2, <3>a, <3>3, LoadStep
  <2>5. CASE load[l].at = "chocolatey" /\ load' = [load EXCEPT ![l].got.chocolatey = edition, ![l].at = "set"]
    <3> DEFINE g == [load[l].got EXCEPT !.chocolatey = edition]
               k == [load[l] EXCEPT !.got = g, !.at = "set"]
    <3>1. g \in Policy /\ g.chocolatey = edition /\ g.winget = load[l].got.winget
      BY <1>0, <1>3, <2>5 DEF Halves, Policy
    <3>2. load' = [load EXCEPT ![l] = k]
      BY <1>0, <2>5 DEF LoadRecord
    <3>a. k \in LoadRecord /\ k.at = "set" /\ k.got = g
      <4> HIDE DEF g
      <4> QED BY <1>0, <3>1 DEF LoadRecord
    <3>3. edition <= edition
      BY <1>0
    <3>4. ~storeDisturbed => NotBehind(g, memoryPolicy)
      BY <1>3, <2>2, <2>5, <3>1 DEF NotBehind
    <3> HIDE DEF k, g
    <3> QED BY <1>0, <1>1, <1>3, <2>1, <2>2, <3>1, <3>2, <3>a, <3>3, <3>4, LoadStep
  <2> QED BY <1>6, <2>3, <2>4, <2>5 DEF PolicyAnswered
<1>7. CASE SetPolicy(l)
  <2>1. /\ load[l].at \in {"adopt", "set"} /\ memoryPolicy' = load[l].got /\ diskPolicy' = diskPolicy
        /\ memoryFresh' \in BOOLEAN /\ storeDisturbed' = storeDisturbed
        /\ load[l].got \in Policy /\ NotBehind(load[l].got, load[l].got)
    BY <1>0, <1>3, <1>7, PolicyFacts DEF SetPolicy
  <2>2. ~storeDisturbed => /\ \A m \in Loader \ {l} : load[m].at = "idle"
                           /\ load[l].at = "adopt" => diskPolicy \in {NoPolicy, load[l].got}
    BY <2>1, LoadAlone
  <2>3. CASE load[l].at = "adopt"
    <3>1. load' = [load EXCEPT ![l] = NoStoreLoad]
      BY <1>7, <2>3 DEF SetPolicy, StoreLoadEnds
    <3> QED BY <1>0, <1>1, <1>2, <1>3, <2>1, <2>2, <2>3, <3>1, LoadStep
  <2>4. CASE load[l].at = "set"
    <3> DEFINE k == [load[l] EXCEPT !.at = "save"]
    <3>1. load' = [load EXCEPT ![l] = k]
      BY <1>0, <1>7, <2>4 DEF SetPolicy
    <3>2. k \in LoadRecord /\ k.at = "save" /\ k.got = load[l].got
      BY <1>0 DEF LoadRecord
    <3> HIDE DEF k
    <3> QED BY <1>0, <1>1, <1>3, <2>1, <2>2, <3>1, <3>2, LoadStep
  <2> QED BY <2>1, <2>3, <2>4
<1>8. CASE SavePolicy(l)
  <2>1. /\ load[l].at = "save" /\ memoryPolicy' = memoryPolicy /\ memoryFresh' = memoryFresh
        /\ load' = [load EXCEPT ![l] = NoStoreLoad]
        /\ diskPolicy' \in {diskPolicy, load[l].got} /\ storeDisturbed' \in BOOLEAN
        /\ storeDisturbed => storeDisturbed'
        /\ ~storeDisturbed' => ~storeDisturbed /\ diskPolicy' = load[l].got
        /\ diskPolicy' \in Policy \cup {NoPolicy}
    BY <1>0, <1>3, <1>8 DEF SavePolicy, StoreLoadEnds
  <2>2. ~storeDisturbed => /\ \A m \in Loader \ {l} : load[m].at = "idle"
                           /\ NotBehind(load[l].got, memoryPolicy)
    BY <2>1, LoadAlone
  <2> QED BY <1>0, <1>1, <1>2, <1>3, <2>1, <2>2, LoadStep
<1> QED BY <1>4, <1>5, <1>6, <1>7, <1>8

\* What is kept ages or goes, or the server's policy changes.
LEMMA KeepingInv ==
  ASSUME StoreInv,
         \/ TwoMinutesOfPolicyPass \/ InvalidatePolicy \/ PolicyExpires \/ PolicyChanges
         \/ StoreSwitched \/ UNCHANGED storeVars
  PROVE  StoreInv'
<1>0. /\ load \in [Loader -> LoadRecord] /\ edition \in Edition /\ edition \in Nat
      /\ memoryPolicy \in Policy \cup {NoPolicy} /\ diskPolicy \in Policy \cup {NoPolicy}
      /\ storeDisturbed \in BOOLEAN /\ memoryFresh \in BOOLEAN /\ storeEnabled \in BOOLEAN
      /\ MaxPolicies \in Nat
  BY StoreTypes, StoreAssumption DEF StoreInv
<1>1. load' = load /\ storeDisturbed' = storeDisturbed
  BY DEF TwoMinutesOfPolicyPass, InvalidatePolicy, PolicyExpires, PolicyChanges, StoreSwitched, storeVars
<1>2. memoryPolicy' \in {memoryPolicy, NoPolicy} /\ diskPolicy' \in {diskPolicy, NoPolicy}
  BY DEF TwoMinutesOfPolicyPass, InvalidatePolicy, PolicyExpires, PolicyChanges, StoreSwitched, storeVars
<1>3. edition' \in Edition /\ edition' \in Nat /\ edition <= edition'
  BY <1>0 DEF TwoMinutesOfPolicyPass, InvalidatePolicy, PolicyExpires, PolicyChanges, StoreSwitched, storeVars, Edition
<1>4. memoryFresh' \in BOOLEAN /\ storeEnabled' \in BOOLEAN
  BY <1>0 DEF TwoMinutesOfPolicyPass, InvalidatePolicy, PolicyExpires, PolicyChanges, StoreSwitched, storeVars
<1>5. StoreTypeOK'
  <2>1. {storeEnabled', memoryFresh', storeDisturbed'} \subseteq BOOLEAN
    BY <1>0, <1>1, <1>4
  <2>2. {memoryPolicy', diskPolicy'} \subseteq Policy \cup {NoPolicy}
    BY <1>0, <1>2
  <2> QED BY <1>0, <1>1, <1>3, <2>1, <2>2 DEF StoreTypeOK, LoadRecord, Halves
<1>6. /\ \A p \in Halves : /\ p.winget <= edition => p.winget <= edition'
                           /\ p.chocolatey <= edition => p.chocolatey <= edition'
      /\ memoryPolicy \in Halves /\ diskPolicy \in Halves /\ NoPolicy \in Halves
      /\ \A l \in Loader : load[l].got \in Halves
      /\ NoPolicy.winget <= edition' /\ NoPolicy.chocolatey <= edition'
  <2>1. ASSUME NEW p \in Halves
        PROVE  /\ p.winget <= edition => p.winget <= edition'
               /\ p.chocolatey <= edition => p.chocolatey <= edition'
    <3>1. p.winget \in Nat /\ p.chocolatey \in Nat
      BY PolicyFacts
    <3> QED BY <1>0, <1>3, <3>1
  <2>2. /\ memoryPolicy \in Halves /\ diskPolicy \in Halves /\ NoPolicy \in Halves
        /\ \A l \in Loader : load[l].got \in Halves
    BY <1>0, StoreTypes, PolicyFacts DEF StoreInv
  <2>3. NoPolicy.winget <= edition' /\ NoPolicy.chocolatey <= edition'
    BY <1>3, PolicyFacts
  <2> QED BY <2>1, <2>2, <2>3
<1>7. EditionInv'
  BY <1>1, <1>2, <1>6 DEF StoreInv, EditionInv
<1>8. GotInv'
  BY <1>1 DEF StoreInv, GotInv
<1>9. OrderInv'
  <2>1. \A p \in Halves : NotBehind(p, memoryPolicy) => NotBehind(p, memoryPolicy')
    BY <1>2, PolicyFacts
  <2>2. \A l \in Loader : load[l].at = "chocolatey" /\ memoryPolicy.winget <= load[l].got.winget
            => memoryPolicy'.winget <= load[l].got.winget
    <3>1. \A l \in Loader : NoPolicy.winget <= load[l].got.winget
      <4>1. \A p \in Halves : NoPolicy.winget <= p.winget
        BY PolicyFacts DEF NotBehind
      <4> QED BY <1>6, <4>1
    <3> QED BY <1>2, <3>1
  <2>3. ~storeDisturbed =>
          /\ \A l, m \in Loader : load[l].at # "idle" /\ load[m].at # "idle" => l = m
          /\ \A l \in Loader : load[l].at \in {"adopt", "set", "save"} => NotBehind(load[l].got, memoryPolicy')
          /\ \A l \in Loader : load[l].at = "chocolatey" => memoryPolicy'.winget <= load[l].got.winget
          /\ \A l \in Loader : load[l].at = "adopt" => diskPolicy' \in {NoPolicy, load[l].got}
          /\ \/ diskPolicy' = NoPolicy \/ NotBehind(diskPolicy', memoryPolicy')
             \/ \E l \in Loader : load[l].at = "save"
    BY <1>2, <1>6, <2>1, <2>2 DEF StoreInv, OrderInv
  <2> QED BY <1>1, <2>3 DEF OrderInv, NotBehind, NoPolicy
<1> QED BY <1>5, <1>7, <1>8, <1>9 DEF StoreInv

LEMMA StoreNext == StoreInv /\ [NextStore]_storeVars => StoreInv'
BY LoadInv, KeepingInv DEF NextStore

\* The inductive invariant of the store's policy.
THEOREM StoreInvariant == StoreSpec => []StoreInv
<1> QED BY StoreInit, StoreNext, PTL DEF StoreSpec

\* What lookups go by is never replaced by an older edition of either half, unless two
\* loads overlapped or a save failed.
THEOREM WithdrawnStays == StoreSpec => WithdrawnStaysWithdrawn
<1>1. StoreInv /\ [NextStore]_storeVars =>
        [memoryPolicy' # NoPolicy /\ Behind(memoryPolicy', memoryPolicy) => storeDisturbed]_storeVars
  <2> SUFFICES ASSUME StoreInv, NextStore, memoryPolicy' # NoPolicy, ~storeDisturbed
               PROVE  ~Behind(memoryPolicy', memoryPolicy)
    OBVIOUS
  <2>1. ASSUME NEW p \in Halves, NotBehind(p, memoryPolicy) PROVE ~Behind(p, memoryPolicy)
    <3>1. p.winget \in Nat /\ p.chocolatey \in Nat
      BY PolicyFacts
    <3>2. memoryPolicy.winget \in Nat /\ memoryPolicy.chocolatey \in Nat
      BY StoreTypes, PolicyFacts DEF StoreInv
    <3> QED BY <2>1, <3>1, <3>2 DEF NotBehind, Behind
  <2>2. ASSUME NEW l \in Loader, SetPolicy(l)
        PROVE  ~Behind(memoryPolicy', memoryPolicy)
    <3>1. memoryPolicy' = load[l].got /\ load[l].got \in Halves /\ NotBehind(load[l].got, memoryPolicy)
      BY <2>2, StoreTypes, LoadAlone DEF SetPolicy, StoreInv
    <3> QED BY <2>1, <3>1
  <2>3. CASE ~(\E l \in Loader : SetPolicy(l))
    <3>1. memoryPolicy' = memoryPolicy
      BY <2>3 DEF NextStore, LookUpPolicy, ForcePolicyLoad, ReadPolicyFromDisk, PolicyAnswered, SavePolicy,
                  TwoMinutesOfPolicyPass, InvalidatePolicy, PolicyExpires, PolicyChanges, StoreSwitched
    <3>2. memoryPolicy \in Halves /\ NotBehind(memoryPolicy, memoryPolicy)
      BY StoreTypes, PolicyFacts DEF StoreInv
    <3> QED BY <2>1, <3>1, <3>2
  <2> QED BY <2>2, <2>3
<1> QED BY <1>1, StoreInvariant, PTL DEF StoreSpec, WithdrawnStaysWithdrawn

-----------------------------------------------------------------------------
(* ChatStream: streams that overlap, and a history cleared under them.     *)

ChatSpec == InitChat /\ [][NextChat]_chatVars

\* The streams are numbered as they are registered, no two alike.
StreamsInv ==
    /\ \A c \in ChatCall : chatCall[c].step = "none" => ~chatCall[c].streams /\ activeStreamID < c
    /\ \A c \in ChatCall : chatCall[c].streams => chatCall[c].streamID \in 1 .. activeStreamID
    /\ \A c, e \in ChatCall :
          /\ chatCall[c].streams /\ chatCall[e].streams
          /\ chatCall[c].streamID = chatCall[e].streamID
          => c = e

\* A call that has a reply is over; one that waits for it has its question in the history.
RepliesInv ==
    /\ \A i \in 1 .. Len(history) : history[i][1] = "assistant" =>
          chatCall[history[i][2]].step \in {"answered", "done"}
    /\ \A c \in ChatCall : chatCall[c].step \in {"streaming", "fallback"} =>
          \/ chatCall[c].conversation < clears
          \/ \E j \in 1 .. Len(history) : history[j] = <<"user", c>>

\* A conversation that is over was cleared under an open call.
Accounted(v, n, inFlight) == v < n => v \in inFlight

\* A session is of a call that is over.
Settled(calls, n, inFlight, s) ==
    \/ s = 0
    \/ /\ s \in ChatCall /\ calls[s].step \in {"answered", "done"}
       /\ Accounted(calls[s].conversation, n, inFlight)

SessionsInv ==
    /\ \A c \in ChatCall : chatCall[c].conversation <= clears
    /\ Settled(chatCall, clears, clearedInFlight, sessionID)
    /\ \A c \in ChatCall : Open(c) =>
          /\ Settled(chatCall, clears, clearedInFlight, chatCall[c].session)
          /\ Accounted(chatCall[c].conversation, clears, clearedInFlight)

ChatInv == ChatTypeOK /\ StreamsInv /\ NewestStreamCanBeStopped /\ RepliesInv
             /\ OneReplyPerQuestion /\ SessionsInv

LEMMA CallTypes ==
  ASSUME ChatTypeOK
  PROVE  /\ chatCall \in [ChatCall -> CallRecord] /\ \A c \in ChatCall : chatCall[c] \in CallRecord
         /\ \A c \in ChatCall :
              /\ chatCall[c].streams \in BOOLEAN /\ chatCall[c].cancelled \in BOOLEAN
              /\ chatCall[c].tokens \in BOOLEAN
              /\ chatCall[c].streamID \in Nat /\ chatCall[c].conversation \in 0 .. MaxClears
              /\ chatCall[c].session \in {0} \cup ChatCall
         /\ activeStreamID \in Nat /\ activeStreamCancel \in {0} \cup ChatCall
         /\ sessionID \in {0} \cup ChatCall /\ clears \in 0 .. MaxClears
         /\ ChatCall \subseteq Nat \ {0} /\ 0 \notin ChatCall
         /\ {0} \cup ChatCall = 0 .. MaxChatCalls
<1>1. chatCall \in [ChatCall -> CallRecord] /\ \A c \in ChatCall : chatCall[c] \in CallRecord
  BY DEF ChatTypeOK
<1>2. /\ ChatCall \subseteq Nat \ {0} /\ 0 \notin ChatCall
      /\ {0} \cup ChatCall = 0 .. MaxChatCalls
  BY ChatAssumption DEF ChatCall
<1>3. \A c \in ChatCall :
        /\ chatCall[c].streams \in BOOLEAN /\ chatCall[c].cancelled \in BOOLEAN
        /\ chatCall[c].tokens \in BOOLEAN
        /\ chatCall[c].streamID \in Nat /\ chatCall[c].conversation \in 0 .. MaxClears
        /\ chatCall[c].session \in {0} \cup ChatCall
  <2> SUFFICES ASSUME NEW c \in ChatCall
               PROVE  /\ chatCall[c].streams \in BOOLEAN /\ chatCall[c].cancelled \in BOOLEAN
                      /\ chatCall[c].tokens \in BOOLEAN
                      /\ chatCall[c].streamID \in Nat
                      /\ chatCall[c].conversation \in 0 .. MaxClears
                      /\ chatCall[c].session \in {0} \cup ChatCall
    OBVIOUS
  <2>1. /\ chatCall[c].streams \in BOOLEAN /\ chatCall[c].cancelled \in BOOLEAN
        /\ chatCall[c].tokens \in BOOLEAN /\ chatCall[c].conversation \in 0 .. MaxClears
    BY <1>1 DEF CallRecord
  <2>2. chatCall[c].streamID \in 0 .. MaxChatCalls /\ chatCall[c].session \in 0 .. MaxChatCalls
    BY <1>1 DEF CallRecord
  <2> QED BY <1>2, <2>1, <2>2, ChatAssumption
<1>4. /\ activeStreamID \in Nat /\ activeStreamCancel \in {0} \cup ChatCall
      /\ sessionID \in {0} \cup ChatCall /\ clears \in 0 .. MaxClears
  BY <1>2, ChatAssumption DEF ChatTypeOK
<1> QED BY <1>1, <1>2, <1>3, <1>4

LEMMA ChatInit == InitChat => ChatInv
<1> SUFFICES ASSUME InitChat PROVE ChatInv
  OBVIOUS
<1> DEFINE none == [step |-> "none", streams |-> FALSE, streamID |-> 0, cancelled |-> FALSE,
                    tokens |-> FALSE, session |-> 0, conversation |-> 0, monitor |-> "off",
                    event |-> "none"]
<1>1. /\ chatCall = [c \in ChatCall |-> none] /\ activeStreamID = 0 /\ activeStreamCancel = 0
      /\ history = <<>> /\ sessionID = 0 /\ clears = 0 /\ clearedInFlight = {}
  BY DEF InitChat
<1>2. none \in CallRecord
  BY ChatAssumption DEF CallRecord
<1>3. none.step = "none" /\ ~none.streams /\ none.conversation = 0
  OBVIOUS
<1> HIDE DEF none
<1>4. \A c \in ChatCall : chatCall[c] = none
  BY <1>1
<1>5. ChatTypeOK
  BY <1>1, <1>2, ChatAssumption DEF ChatTypeOK
<1>6. StreamsInv /\ NewestStreamCanBeStopped
  BY <1>1, <1>3, <1>4 DEF StreamsInv, NewestStreamCanBeStopped, ChatCall
<1>7. RepliesInv /\ OneReplyPerQuestion
  BY <1>1, <1>3, <1>4 DEF RepliesInv, OneReplyPerQuestion
<1>8. SessionsInv
  BY <1>1, <1>3, <1>4 DEF SessionsInv, Settled, Open
<1> QED BY <1>5, <1>6, <1>7, <1>8 DEF ChatInv

\* One call becomes r, the others stay.
CallMoves(c, r) ==
    /\ c \in ChatCall /\ r \in CallRecord
    /\ chatCall' = [chatCall EXCEPT ![c] = r]

\* What a call keeps from the moment that it has read its session.
Keeps(c, r) ==
    /\ r.streams = chatCall[c].streams /\ r.streamID = chatCall[c].streamID
    /\ r.cancelled = chatCall[c].cancelled
    /\ r.session = chatCall[c].session /\ r.conversation = chatCall[c].conversation

Begins(c, r) ==
    /\ CallMoves(c, r) /\ NextCall(c)
    /\ r.step = "registered" /\ r.conversation = chatCall[c].conversation
    /\ \/ /\ r.streams /\ r.streamID = activeStreamID + 1
          /\ activeStreamID' = activeStreamID + 1 /\ activeStreamCancel' = c
       \/ ~r.streams /\ UNCHANGED unchangedStream
    /\ UNCHANGED unchangedHistory

Reads(c, r) ==
    /\ CallMoves(c, r) /\ chatCall[c].step = "registered"
    /\ r.step = "read" /\ r.session = sessionID /\ r.conversation = clears
    /\ r.streams = chatCall[c].streams /\ r.streamID = chatCall[c].streamID
    /\ r.cancelled = chatCall[c].cancelled
    /\ UNCHANGED unchangedStream /\ UNCHANGED unchangedHistory

Asks(c, r) ==
    /\ CallMoves(c, r) /\ Keeps(c, r) /\ chatCall[c].step = "read"
    /\ r.step \in {"streaming", "fallback"}
    /\ history' = Append(history, <<"user", c>>)
    /\ UNCHANGED <<sessionID, clears, clearedInFlight>> /\ UNCHANGED unchangedStream

Quiet(c, r) ==
    /\ CallMoves(c, r) /\ Keeps(c, r) /\ Open(c)
    /\ \/ r.step = chatCall[c].step \/ r.step = "answered"
       \/ chatCall[c].step = "streaming" /\ r.step = "fallback"
    /\ UNCHANGED unchangedStream /\ UNCHANGED unchangedHistory

Replies(c, r) ==
    /\ CallMoves(c, r) /\ Keeps(c, r) /\ chatCall[c].step \in {"streaming", "fallback"}
    /\ r.step = "answered"
    /\ history' = Append(history, <<"assistant", c>>)
    /\ sessionID' \in {sessionID, chatCall[c].session, c}
    /\ UNCHANGED <<clears, clearedInFlight>> /\ UNCHANGED unchangedStream

Ends(c, r) ==
    /\ CallMoves(c, r) /\ Keeps(c, r) /\ chatCall[c].step = "answered" /\ r.step = "done"
    /\ activeStreamCancel' = IF chatCall[c].streams /\ chatCall[c].streamID = activeStreamID
                             THEN 0 ELSE activeStreamCancel
    /\ UNCHANGED activeStreamID /\ UNCHANGED unchangedHistory

Stops ==
    /\ chatCall' \in [ChatCall -> CallRecord]
    /\ \A e \in ChatCall :
          /\ chatCall'[e].step = chatCall[e].step
          /\ chatCall'[e].streams = chatCall[e].streams
          /\ chatCall'[e].streamID = chatCall[e].streamID
          /\ chatCall'[e].session = chatCall[e].session
          /\ chatCall'[e].conversation = chatCall[e].conversation
          /\ (chatCall[e].cancelled \/ activeStreamCancel = e) => chatCall'[e].cancelled
    /\ activeStreamCancel' = 0
    /\ UNCHANGED activeStreamID /\ UNCHANGED unchangedHistory

ChatKind ==
    \/ \E c \in ChatCall, r \in CallRecord :
          \/ Begins(c, r) \/ Reads(c, r) \/ Asks(c, r)
          \/ Quiet(c, r) \/ Replies(c, r) \/ Ends(c, r)
    \/ Stops
    \/ ClearHistory

\* A stop, of the calls as they are.
LEMMA StopStops ==
  ASSUME ChatTypeOK, NEW calls \in [ChatCall -> CallRecord], StopStream(calls),
         \A e \in ChatCall :
            /\ calls[e].step = chatCall[e].step /\ calls[e].streams = chatCall[e].streams
            /\ calls[e].streamID = chatCall[e].streamID
            /\ calls[e].session = chatCall[e].session
            /\ calls[e].conversation = chatCall[e].conversation
            /\ calls[e].cancelled = chatCall[e].cancelled
  PROVE  Stops
<1>1. CASE activeStreamCancel = 0
  <2>1. chatCall' = calls
    BY <1>1 DEF StopStream
  <2>2. \A e \in ChatCall : activeStreamCancel # e
    BY <1>1, CallTypes
  <2> QED BY <2>1, <2>2 DEF StopStream, Stops
<1>2. CASE activeStreamCancel # 0
  <2>1. activeStreamCancel \in ChatCall
    BY <1>2, CallTypes
  <2>2. PICK s \in ChatCall : s = activeStreamCancel
    BY <2>1
  <2> DEFINE r == [calls[s] EXCEPT !.cancelled = TRUE]
  <2>3. r \in CallRecord
    BY DEF CallRecord
  <2>4. /\ r.step = calls[s].step /\ r.streams = calls[s].streams
        /\ r.streamID = calls[s].streamID /\ r.session = calls[s].session
        /\ r.conversation = calls[s].conversation /\ r.cancelled
    BY DEF CallRecord
  <2>5. chatCall' = [calls EXCEPT ![s] = r]
    BY <1>2, <2>2 DEF StopStream
  <2> HIDE DEF r
  <2>6. /\ chatCall' \in [ChatCall -> CallRecord] /\ chatCall'[s] = r
        /\ \A e \in ChatCall : e # s => chatCall'[e] = calls[e]
    BY <2>3, <2>5
  <2> QED BY <2>2, <2>4, <2>6 DEF StopStream, Stops
<1> QED BY <1>1, <1>2

LEMMA ChatKinds ==
  ASSUME ChatInv, NextChat
  PROVE  ChatKind
<1>0. ChatTypeOK /\ StreamsInv
  BY DEF ChatInv
<1>a. /\ \A c \in ChatCall : chatCall[c] \in CallRecord
      /\ activeStreamID \in 0 .. MaxChatCalls /\ sessionID \in 0 .. MaxChatCalls
      /\ clears \in 0 .. MaxClears
  BY <1>0 DEF ChatTypeOK
<1>1. ASSUME NEW c \in ChatCall, BeginStream(c)
      PROVE  \E r \in CallRecord : Begins(c, r)
  <2>1. PICK n \in 0 .. MaxChatCalls : n = activeStreamID + 1
    <3>1. activeStreamID < c /\ c <= MaxChatCalls /\ c \in Nat /\ activeStreamID \in Nat
      BY <1>0, <1>1, CallTypes DEF StreamsInv, BeginStream, NextCall, ChatCall
    <3> QED BY <3>1, ChatAssumption
  <2> DEFINE r == [chatCall[c] EXCEPT !.step = "registered", !.streams = TRUE,
                                      !.streamID = n, !.monitor = "on"]
  <2>2. r \in CallRecord
    BY <1>a, <2>1 DEF CallRecord
  <2>3. /\ r.step = "registered" /\ r.conversation = chatCall[c].conversation
        /\ r.streams /\ r.streamID = n
    BY <1>a DEF CallRecord
  <2>4. activeStreamID' = n /\ activeStreamCancel' = c
    BY <1>1, <2>1 DEF BeginStream, RegisterStreamCancel
  <2>5. chatCall' = [chatCall EXCEPT ![c] = r]
    BY <1>1, <2>4 DEF BeginStream
  <2> HIDE DEF r
  <2> QED BY <1>1, <2>1, <2>2, <2>3, <2>4, <2>5 DEF BeginStream, Begins, CallMoves
<1>2. ASSUME NEW c \in ChatCall, BeginSend(c)
      PROVE  \E r \in CallRecord : Begins(c, r)
  <2> DEFINE r == [chatCall[c] EXCEPT !.step = "registered", !.streamID = activeStreamID]
  <2>2. r \in CallRecord
    BY <1>a DEF CallRecord
  <2>3. /\ r.step = "registered" /\ r.conversation = chatCall[c].conversation
        /\ r.streams = chatCall[c].streams
    BY <1>a DEF CallRecord
  <2>4. ~chatCall[c].streams
    BY <1>0, <1>2 DEF StreamsInv, BeginSend, NextCall
  <2>5. chatCall' = [chatCall EXCEPT ![c] = r]
    BY <1>2 DEF BeginSend
  <2> HIDE DEF r
  <2> QED BY <1>2, <2>2, <2>3, <2>4, <2>5 DEF BeginSend, Begins, CallMoves
<1>3. ASSUME NEW c \in ChatCall, ReadSession(c)
      PROVE  \E r \in CallRecord : Reads(c, r)
  <2> DEFINE r == [chatCall[c] EXCEPT !.step = "read", !.session = sessionID, !.conversation = clears]
  <2>2. r \in CallRecord
    BY <1>a DEF CallRecord
  <2>3. /\ r.step = "read" /\ r.session = sessionID /\ r.conversation = clears
        /\ r.streams = chatCall[c].streams /\ r.streamID = chatCall[c].streamID
        /\ r.cancelled = chatCall[c].cancelled
    BY <1>a DEF CallRecord
  <2>4. chatCall' = [chatCall EXCEPT ![c] = r]
    BY <1>3 DEF ReadSession
  <2> HIDE DEF r
  <2> QED BY <1>3, <2>2, <2>3, <2>4 DEF ReadSession, Reads, CallMoves
<1>5. ASSUME NEW c \in ChatCall, NEW s \in {"streaming", "fallback", "answered", "done"},
             NEW v \in {"none", "done", "stopped", "error"},
             chatCall' = [chatCall EXCEPT ![c].step = s, ![c].event = v]
      PROVE  \E r \in CallRecord : CallMoves(c, r) /\ Keeps(c, r) /\ r.step = s
  <2> DEFINE r == [chatCall[c] EXCEPT !.step = s, !.event = v]
  <2>1. r \in CallRecord
    BY <1>a DEF CallRecord
  <2>2. Keeps(c, r) /\ r.step = s
    BY <1>a DEF CallRecord, Keeps
  <2>3. chatCall' = [chatCall EXCEPT ![c] = r]
    BY <1>5
  <2> HIDE DEF r
  <2> QED BY <2>1, <2>2, <2>3 DEF CallMoves
<1>6. ASSUME NEW c \in ChatCall, NEW s \in {"streaming", "fallback", "answered", "done"},
             chatCall' = [chatCall EXCEPT ![c].step = s]
      PROVE  \E r \in CallRecord : CallMoves(c, r) /\ Keeps(c, r) /\ r.step = s
  <2> DEFINE r == [chatCall[c] EXCEPT !.step = s]
  <2>1. r \in CallRecord
    BY <1>a DEF CallRecord
  <2>2. Keeps(c, r) /\ r.step = s
    BY <1>a DEF CallRecord, Keeps
  <2>3. chatCall' = [chatCall EXCEPT ![c] = r]
    BY <1>6
  <2> HIDE DEF r
  <2> QED BY <2>1, <2>2, <2>3 DEF CallMoves
<1>7. ASSUME NEW c \in ChatCall, AppendUser(c)
      PROVE  \E r \in CallRecord : Asks(c, r) \/ Quiet(c, r)
  <2>1. chatCall[c].step = "read" /\ Open(c)
    BY <1>7 DEF AppendUser, Open
  <2>2. CASE /\ history' = Append(history, <<"user", c>>)
             /\ chatCall' = [chatCall EXCEPT ![c].step =
                               IF chatCall[c].streams THEN "streaming" ELSE "fallback"]
    <3>1. PICK s \in {"streaming", "fallback"} : chatCall' = [chatCall EXCEPT ![c].step = s]
      BY <2>2
    <3>2. PICK r \in CallRecord : CallMoves(c, r) /\ Keeps(c, r) /\ r.step = s
      BY <1>6, <3>1
    <3> QED BY <1>7, <2>1, <2>2, <3>1, <3>2 DEF AppendUser, Asks
  <2>3. CASE /\ chatCall' = [chatCall EXCEPT ![c].step = "answered", ![c].event = "error"]
             /\ UNCHANGED history
    <3>1. PICK r \in CallRecord : CallMoves(c, r) /\ Keeps(c, r) /\ r.step = "answered"
      BY <1>5, <2>3
    <3> QED BY <1>7, <2>1, <2>3, <3>1 DEF AppendUser, Quiet, unchangedHistory
  <2> QED BY <1>7, <2>2, <2>3 DEF AppendUser
<1>8. ASSUME NEW c \in ChatCall, ReceiveToken(c)
      PROVE  \E r \in CallRecord : Quiet(c, r)
  <2> DEFINE r == [chatCall[c] EXCEPT !.tokens = TRUE]
  <2>1. r \in CallRecord
    BY <1>a DEF CallRecord
  <2>2. Keeps(c, r) /\ r.step = chatCall[c].step
    BY <1>a DEF CallRecord, Keeps
  <2>3. chatCall' = [chatCall EXCEPT ![c] = r]
    BY <1>8 DEF ReceiveToken
  <2> HIDE DEF r
  <2> QED BY <1>8, <2>1, <2>2, <2>3 DEF CallMoves, ReceiveToken, Quiet, Open
<1>9. ASSUME NEW c \in ChatCall, chatCall[c].step \in {"streaming", "fallback"}, Answer(c)
      PROVE  \E r \in CallRecord : Replies(c, r)
  <2>1. PICK r \in CallRecord : CallMoves(c, r) /\ Keeps(c, r) /\ r.step = "answered"
    BY <1>5, <1>9 DEF Answer
  <2>2. sessionID' \in {sessionID, chatCall[c].session, c}
    BY <1>9 DEF Answer
  <2> QED BY <1>9, <2>1, <2>2 DEF Answer, Replies
<1>10. ASSUME NEW c \in ChatCall, StreamBreaks(c)
       PROVE  \E r \in CallRecord : Quiet(c, r)
  <2>1. chatCall[c].step = "streaming" /\ Open(c)
    BY <1>10 DEF StreamBreaks, Open
  <2>2. CASE chatCall' = [chatCall EXCEPT ![c].step = "answered", ![c].event = "stopped"]
    <3>1. PICK r \in CallRecord : CallMoves(c, r) /\ Keeps(c, r) /\ r.step = "answered"
      BY <1>5, <2>2
    <3> QED BY <1>10, <2>1, <3>1 DEF StreamBreaks, Quiet
  <2>3. CASE chatCall' = [chatCall EXCEPT ![c].step = "fallback"]
    <3>1. PICK r \in CallRecord : CallMoves(c, r) /\ Keeps(c, r) /\ r.step = "fallback"
      BY <1>6, <2>3
    <3> QED BY <1>10, <2>1, <3>1 DEF StreamBreaks, Quiet
  <2> QED BY <1>10, <2>2, <2>3 DEF StreamBreaks
<1>11. ASSUME NEW c \in ChatCall, FallbackFails(c)
       PROVE  \E r \in CallRecord : Replies(c, r) \/ Quiet(c, r)
  <2>1. chatCall[c].step = "fallback" /\ Open(c)
    BY <1>11 DEF FallbackFails, Open
  <2>2. CASE chatCall[c].tokens
    <3>1. PICK r \in CallRecord : CallMoves(c, r) /\ Keeps(c, r) /\ r.step = "answered"
      BY <1>5, <1>11, <2>2 DEF FallbackFails
    <3> QED BY <1>11, <2>1, <2>2, <3>1 DEF FallbackFails, Replies
  <2>3. CASE ~chatCall[c].tokens
    <3>1. PICK v \in {"stopped", "error"} :
             chatCall' = [chatCall EXCEPT ![c].step = "answered", ![c].event = v]
      BY <1>11, <2>3 DEF FallbackFails
    <3>2. PICK r \in CallRecord : CallMoves(c, r) /\ Keeps(c, r) /\ r.step = "answered"
      BY <1>5, <3>1
    <3> QED BY <1>11, <2>1, <2>3, <3>2 DEF FallbackFails, Quiet, unchangedHistory
  <2> QED BY <2>2, <2>3
<1>12. ASSUME NEW c \in ChatCall, EndCall(c)
       PROVE  \E r \in CallRecord : Ends(c, r)
  <2> DEFINE r == [chatCall[c] EXCEPT !.step = "done", !.monitor = "off"]
  <2>1. r \in CallRecord
    BY <1>a DEF CallRecord
  <2>2. Keeps(c, r) /\ r.step = "done"
    BY <1>a DEF CallRecord, Keeps
  <2>3. chatCall' = [chatCall EXCEPT ![c] = r]
    BY <1>12 DEF EndCall
  <2> HIDE DEF r
  <2> QED BY <1>12, <2>1, <2>2, <2>3 DEF CallMoves, EndCall, Ends
<1>13. ASSUME StopChatStream
       PROVE  Stops
  BY <1>0, <1>13, StopStops, CallTypes DEF StopChatStream
<1>14. ASSUME NEW c \in ChatCall, StreamStalls(c)
       PROVE  Stops
  <2> DEFINE r == [chatCall[c] EXCEPT !.monitor = "fired"]
             calls == [chatCall EXCEPT ![c] = r]
  <2>1. r \in CallRecord
    BY <1>a DEF CallRecord
  <2>2. Keeps(c, r) /\ r.step = chatCall[c].step
    BY <1>a DEF CallRecord, Keeps
  <2>3. StopStream(calls)
    BY <1>14 DEF StreamStalls
  <2> HIDE DEF r
  <2>4. /\ calls \in [ChatCall -> CallRecord] /\ calls[c] = r
        /\ \A e \in ChatCall : e # c => calls[e] = chatCall[e]
    BY <1>0, <2>1, CallTypes
  <2> HIDE DEF calls
  <2>5. \A e \in ChatCall :
            /\ calls[e].step = chatCall[e].step /\ calls[e].streams = chatCall[e].streams
            /\ calls[e].streamID = chatCall[e].streamID
            /\ calls[e].session = chatCall[e].session
            /\ calls[e].conversation = chatCall[e].conversation
            /\ calls[e].cancelled = chatCall[e].cancelled
    BY <2>2, <2>4 DEF Keeps
  <2> QED BY <1>0, <2>3, <2>4, <2>5, StopStops
<1>15. CASE \E c \in ChatCall : ChatSteps(c)
  BY <1>15, <1>3, <1>7, <1>10, <1>11, <1>12 DEF ChatSteps, ChatKind
<1>16. CASE \E c \in ChatCall : StreamCompletes(c) \/ FallbackAnswers(c)
  BY <1>16, <1>9 DEF StreamCompletes, FallbackAnswers, ChatKind
<1>17. CASE \E c \in ChatCall : \/ ReceiveToken(c) \/ StreamStalls(c)
                                \/ BeginStream(c) \/ BeginSend(c)
  BY <1>17, <1>1, <1>2, <1>8, <1>14 DEF ChatKind
<1>18. CASE StopChatStream \/ ClearHistory
  BY <1>18, <1>13 DEF ChatKind
<1> QED BY <1>15, <1>16, <1>17, <1>18 DEF NextChat

LEMMA CallMoved ==
  ASSUME ChatTypeOK, NEW c, NEW r, CallMoves(c, r)
  PROVE  /\ c \in ChatCall /\ r \in CallRecord
         /\ chatCall' \in [ChatCall -> CallRecord] /\ chatCall'[c] = r
         /\ \A e \in ChatCall : e # c => chatCall'[e] = chatCall[e]
  BY CallTypes DEF CallMoves

LEMMA HistoryGrows ==
  ASSUME NEW S, NEW h \in Seq(S), NEW x \in S
  PROVE  /\ Append(h, x) \in Seq(S) /\ Len(Append(h, x)) = Len(h) + 1 /\ Len(h) \in Nat
         /\ \A i \in 1 .. Len(h) : Append(h, x)[i] = h[i] /\ h[i] \in S
         /\ Append(h, x)[Len(h) + 1] = x
  OBVIOUS

LEMMA ChatTypesKept ==
  ASSUME ChatTypeOK, ChatKind
  PROVE  ChatTypeOK'
<1> USE ChatAssumption
<1>0. MaxChatCalls \in Nat /\ MaxClears \in Nat /\ clears \in Nat
  BY DEF ChatTypeOK
<1>1. ASSUME NEW c \in ChatCall, NEW r \in CallRecord, Begins(c, r)
      PROVE  ChatTypeOK'
  <2>1. chatCall' \in [ChatCall -> CallRecord]
    BY <1>1, CallMoved DEF Begins
  <2>2. activeStreamID' \in 0 .. MaxChatCalls
    <3>1. r.streamID \in 0 .. MaxChatCalls
      BY DEF CallRecord
    <3> QED BY <1>1, <3>1 DEF Begins, unchangedStream, ChatTypeOK
  <2>3. activeStreamCancel' \in 0 .. MaxChatCalls
    BY <1>1, CallTypes DEF Begins, unchangedStream
  <2> QED BY <1>1, <2>1, <2>2, <2>3 DEF Begins, unchangedHistory, ChatTypeOK
<1>2. ASSUME NEW c \in ChatCall, NEW r \in CallRecord, Reads(c, r) \/ Quiet(c, r)
      PROVE  ChatTypeOK'
  <2>1. chatCall' \in [ChatCall -> CallRecord]
    BY <1>2, CallMoved DEF Reads, Quiet
  <2> QED BY <1>2, <2>1 DEF Reads, Quiet, unchangedHistory, unchangedStream, ChatTypeOK
<1>3. ASSUME NEW c \in ChatCall, NEW r \in CallRecord, Asks(c, r) \/ Replies(c, r)
      PROVE  ChatTypeOK'
  <2>1. chatCall' \in [ChatCall -> CallRecord]
    BY <1>3, CallMoved DEF Asks, Replies
  <2>2. history' \in Seq({"user", "assistant"} \X ChatCall)
    <3>1. history \in Seq({"user", "assistant"} \X ChatCall)
      BY DEF ChatTypeOK
    <3>2. PICK role \in {"user", "assistant"} : history' = Append(history, <<role, c>>)
      BY <1>3 DEF Asks, Replies
    <3>3. <<role, c>> \in {"user", "assistant"} \X ChatCall
      OBVIOUS
    <3> QED BY <3>1, <3>2, <3>3, HistoryGrows
  <2>3. sessionID' \in 0 .. MaxChatCalls
    BY <1>3, CallTypes DEF Asks, Replies
  <2> QED BY <1>3, <2>1, <2>2, <2>3 DEF Asks, Replies, unchangedStream, ChatTypeOK
<1>4. ASSUME NEW c \in ChatCall, NEW r \in CallRecord, Ends(c, r)
      PROVE  ChatTypeOK'
  <2>1. chatCall' \in [ChatCall -> CallRecord]
    BY <1>4, CallMoved DEF Ends
  <2>2. activeStreamCancel' \in 0 .. MaxChatCalls
    BY <1>4 DEF Ends, ChatTypeOK
  <2> QED BY <1>4, <2>1, <2>2 DEF Ends, unchangedHistory, ChatTypeOK
<1>5. CASE Stops
  BY <1>5 DEF Stops, unchangedHistory, ChatTypeOK
<1>6. CASE ClearHistory
  <2>1. clears' \in 0 .. MaxClears /\ clearedInFlight' \subseteq 0 .. MaxClears
    BY <1>6 DEF ClearHistory, ChatTypeOK
  <2> QED BY <1>6, <2>1 DEF ClearHistory, unchangedStream, ChatTypeOK
<1> QED BY <1>1, <1>2, <1>3, <1>4, <1>5, <1>6 DEF ChatKind

\* A step that leaves the numbers and the registered cancel function alone, and no call
\* newly begun, unended or uncancelled.
LEMMA StreamsUntouched ==
  ASSUME ChatTypeOK, StreamsInv, NewestStreamCanBeStopped,
         \A e \in ChatCall :
            /\ chatCall'[e].step = "none" => chatCall[e].step = "none"
            /\ chatCall'[e].step # "done" => chatCall[e].step # "done"
            /\ chatCall'[e].streams = chatCall[e].streams
            /\ chatCall'[e].streamID = chatCall[e].streamID
            /\ chatCall[e].cancelled => chatCall'[e].cancelled,
         UNCHANGED unchangedStream
  PROVE  StreamsInv' /\ NewestStreamCanBeStopped'
<1>1. StreamsInv'
  BY DEF StreamsInv, unchangedStream
<1>2. NewestStreamCanBeStopped'
  BY DEF NewestStreamCanBeStopped, unchangedStream
<1> QED BY <1>1, <1>2

LEMMA StreamsKept ==
  ASSUME ChatTypeOK, StreamsInv, NewestStreamCanBeStopped, ChatKind
  PROVE  StreamsInv' /\ NewestStreamCanBeStopped'
<1>1. ASSUME NEW c \in ChatCall, NEW r \in CallRecord, Begins(c, r)
      PROVE  StreamsInv' /\ NewestStreamCanBeStopped'
  <2>1. /\ chatCall'[c] = r /\ \A e \in ChatCall : e # c => chatCall'[e] = chatCall[e]
    BY <1>1, CallMoved DEF Begins
  <2>2. /\ chatCall[c].step = "none" /\ r.step = "registered"
        /\ \A e \in 1 .. c - 1 : chatCall[e].step # "none"
    BY <1>1 DEF Begins, NextCall
  <2>3. CASE /\ r.streams /\ r.streamID = activeStreamID + 1
             /\ activeStreamID' = activeStreamID + 1 /\ activeStreamCancel' = c
    <3>1. \A e \in ChatCall : chatCall[e].streams => chatCall[e].streamID \in 1 .. activeStreamID
      BY DEF StreamsInv
    <3>2. activeStreamID \in Nat
      BY CallTypes
    <3>3. \A e \in ChatCall : e # c /\ chatCall[e].step = "none" => activeStreamID + 1 < e
      <4> SUFFICES ASSUME NEW e \in ChatCall, e # c, chatCall[e].step = "none"
                   PROVE  activeStreamID + 1 < e
        OBVIOUS
      <4>1. activeStreamID < c /\ c \in Nat /\ e \in Nat /\ e >= 1
        BY <2>2, CallTypes DEF StreamsInv
      <4>2. e \notin 1 .. c - 1
        BY <2>2
      <4> QED BY <3>2, <4>1, <4>2
    <3>4. \A e \in ChatCall : chatCall'[e].step = "none" => ~chatCall'[e].streams /\ activeStreamID' < e
      BY <2>1, <2>2, <2>3, <3>3 DEF StreamsInv
    <3>5. \A e \in ChatCall : chatCall'[e].streams => chatCall'[e].streamID \in 1 .. activeStreamID'
      BY <2>1, <2>3, <3>1, <3>2
    <3>6. \A e \in ChatCall : e # c /\ chatCall'[e].streams => chatCall'[e].streamID # activeStreamID'
      BY <2>1, <2>3, <3>1, <3>2
    <3>7. \A d, e \in ChatCall :
             /\ chatCall'[d].streams /\ chatCall'[e].streams
             /\ chatCall'[d].streamID = chatCall'[e].streamID
             => d = e
      BY <2>1, <2>3, <3>6 DEF StreamsInv
    <3>8. NewestStreamCanBeStopped'
      BY <2>3, <3>6 DEF NewestStreamCanBeStopped
    <3> QED BY <3>4, <3>5, <3>7, <3>8 DEF StreamsInv
  <2>4. CASE ~r.streams /\ UNCHANGED unchangedStream
    <3>1. activeStreamID' = activeStreamID /\ activeStreamCancel' = activeStreamCancel
      BY <2>4 DEF unchangedStream
    <3>2. StreamsInv'
      BY <2>1, <2>2, <2>4, <3>1 DEF StreamsInv
    <3>3. NewestStreamCanBeStopped'
      BY <2>1, <2>4, <3>1 DEF NewestStreamCanBeStopped
    <3> QED BY <3>2, <3>3
  <2> QED BY <1>1, <2>3, <2>4 DEF Begins
<1>2. ASSUME NEW c \in ChatCall, NEW r \in CallRecord,
             Reads(c, r) \/ Quiet(c, r) \/ Asks(c, r) \/ Replies(c, r)
      PROVE  StreamsInv' /\ NewestStreamCanBeStopped'
  <2>1. /\ chatCall'[c] = r /\ \A e \in ChatCall : e # c => chatCall'[e] = chatCall[e]
    BY <1>2, CallMoved DEF Reads, Quiet, Asks, Replies
  <2>2. /\ r.step # "none" /\ chatCall[c].step # "done"
        /\ r.streams = chatCall[c].streams /\ r.streamID = chatCall[c].streamID
        /\ r.cancelled = chatCall[c].cancelled
    BY <1>2 DEF Reads, Quiet, Asks, Replies, Keeps, Open
  <2>3. UNCHANGED unchangedStream
    BY <1>2 DEF Reads, Quiet, Asks, Replies
  <2> QED BY <2>1, <2>2, <2>3, StreamsUntouched
<1>3. ASSUME NEW c \in ChatCall, NEW r \in CallRecord, Ends(c, r)
      PROVE  StreamsInv' /\ NewestStreamCanBeStopped'
  <2>1. /\ chatCall'[c] = r /\ \A e \in ChatCall : e # c => chatCall'[e] = chatCall[e]
    BY <1>3, CallMoved DEF Ends
  <2>2. /\ r.step = "done" /\ r.streams = chatCall[c].streams
        /\ r.streamID = chatCall[c].streamID /\ activeStreamID' = activeStreamID
    BY <1>3 DEF Ends, Keeps
  <2>3. StreamsInv'
    BY <2>1, <2>2 DEF StreamsInv
  <2>4. NewestStreamCanBeStopped'
    <3>1. SUFFICES ASSUME NEW e \in ChatCall, e # c, chatCall[e].streams,
                          chatCall[e].streamID = activeStreamID, chatCall[e].step # "done",
                          ~chatCall[e].cancelled
                   PROVE  activeStreamCancel' = e
      BY <2>1, <2>2 DEF NewestStreamCanBeStopped
    <3>2. activeStreamCancel = e
      BY <3>1 DEF NewestStreamCanBeStopped
    <3>3. ~(chatCall[c].streams /\ chatCall[c].streamID = activeStreamID)
      BY <3>1 DEF StreamsInv
    <3> QED BY <1>3, <3>2, <3>3 DEF Ends
  <2> QED BY <2>3, <2>4
<1>4. CASE Stops
  <2>1. StreamsInv'
    BY <1>4 DEF Stops, StreamsInv
  <2>2. NewestStreamCanBeStopped'
    BY <1>4 DEF Stops, NewestStreamCanBeStopped
  <2> QED BY <2>1, <2>2
<1>5. CASE ClearHistory
  BY <1>5, StreamsUntouched DEF ClearHistory
<1> QED BY <1>1, <1>2, <1>3, <1>4, <1>5 DEF ChatKind

\* Steps that leave the history alone, or empty it.
LEMMA RepliesUntouched ==
  ASSUME ChatTypeOK, RepliesInv, OneReplyPerQuestion,
         \A e \in ChatCall :
            /\ chatCall[e].step \in {"answered", "done"} => chatCall'[e].step \in {"answered", "done"}
            /\ chatCall'[e].step \in {"streaming", "fallback"} =>
                  chatCall[e].step \in {"streaming", "fallback"}
            /\ chatCall'[e].conversation = chatCall[e].conversation
               \/ chatCall[e].step = "registered",
         UNCHANGED <<history, clears>>
  PROVE  RepliesInv' /\ OneReplyPerQuestion'
<1>0. \A i \in 1 .. Len(history) : history[i][2] \in ChatCall
  BY DEF ChatTypeOK
<1>1. history' = history /\ clears' = clears
  OBVIOUS
<1>2. \A i \in 1 .. Len(history) : history[i][1] = "assistant" =>
         chatCall'[history[i][2]].step \in {"answered", "done"}
  BY <1>0 DEF RepliesInv
<1>3. ASSUME NEW c \in ChatCall, chatCall'[c].step \in {"streaming", "fallback"}
      PROVE  \/ chatCall'[c].conversation < clears
             \/ \E j \in 1 .. Len(history) : history[j] = <<"user", c>>
  <2>1. /\ chatCall[c].step \in {"streaming", "fallback"}
        /\ chatCall'[c].conversation = chatCall[c].conversation
    BY <1>3
  <2> QED BY <2>1 DEF RepliesInv
<1>4. RepliesInv'
  BY <1>1, <1>2, <1>3 DEF RepliesInv
<1>5. OneReplyPerQuestion'
  <2>1. SUFFICES ASSUME NEW i \in 1 .. Len(history), history[i][1] = "assistant"
                 PROVE  /\ \A j \in 1 .. Len(history) : history[j] = history[i] => j = i
                        /\ \/ \E j \in 1 .. i - 1 : history[j] = <<"user", history[i][2]>>
                           \/ chatCall'[history[i][2]].conversation < clears
    BY <1>1 DEF OneReplyPerQuestion
  <2>2. chatCall'[history[i][2]].conversation = chatCall[history[i][2]].conversation
    BY <1>0, <2>1 DEF RepliesInv
  <2> QED BY <2>1, <2>2 DEF OneReplyPerQuestion
<1> QED BY <1>4, <1>5

LEMMA RepliesKept ==
  ASSUME ChatTypeOK, RepliesInv, OneReplyPerQuestion, ChatKind,
         \A c \in ChatCall : chatCall[c].conversation <= clears
  PROVE  RepliesInv' /\ OneReplyPerQuestion'
<1> DEFINE S == {"user", "assistant"} \X ChatCall
<1>0. /\ history \in Seq(S) /\ Len(history) \in Nat
      /\ \A i \in 1 .. Len(history) : history[i] \in S /\ history[i][2] \in ChatCall
      /\ \A i \in 1 .. Len(history) : history[i] = <<history[i][1], history[i][2]>>
  BY DEF ChatTypeOK
<1> HIDE DEF S
<1>1. ASSUME NEW c \in ChatCall, NEW r \in CallRecord,
             Begins(c, r) \/ Reads(c, r) \/ Quiet(c, r) \/ Ends(c, r)
      PROVE  RepliesInv' /\ OneReplyPerQuestion'
  <2>1. /\ chatCall'[c] = r /\ \A e \in ChatCall : e # c => chatCall'[e] = chatCall[e]
    BY <1>1, CallMoved DEF Begins, Reads, Quiet, Ends
  <2>2. /\ chatCall[c].step \in {"answered", "done"} => r.step \in {"answered", "done"}
        /\ r.step \in {"streaming", "fallback"} => chatCall[c].step \in {"streaming", "fallback"}
        /\ r.conversation = chatCall[c].conversation \/ chatCall[c].step = "registered"
    <3>1. CASE Begins(c, r)
      BY <3>1 DEF Begins, NextCall
    <3>2. CASE Reads(c, r)
      BY <3>2 DEF Reads
    <3>3. CASE Quiet(c, r)
      BY <3>3 DEF Quiet, Open, Keeps
    <3>4. CASE Ends(c, r)
      BY <3>4 DEF Ends, Keeps
    <3> QED BY <1>1, <3>1, <3>2, <3>3, <3>4
  <2>3. UNCHANGED <<history, clears>>
    BY <1>1 DEF Begins, Reads, Quiet, Ends, unchangedHistory
  <2> QED BY <2>1, <2>2, <2>3, RepliesUntouched
<1>2. ASSUME NEW c \in ChatCall, NEW r \in CallRecord, Asks(c, r)
      PROVE  RepliesInv' /\ OneReplyPerQuestion'
  <2>1. /\ chatCall'[c] = r /\ \A e \in ChatCall : e # c => chatCall'[e] = chatCall[e]
    BY <1>2, CallMoved DEF Asks
  <2>2. /\ chatCall[c].step = "read" /\ clears' = clears /\ r.conversation = chatCall[c].conversation
        /\ history' = Append(history, <<"user", c>>)
    BY <1>2 DEF Asks, Keeps
  <2>3. /\ Len(history') = Len(history) + 1 /\ history'[Len(history) + 1] = <<"user", c>>
        /\ \A i \in 1 .. Len(history) : history'[i] = history[i]
    <3>1. <<"user", c>> \in S
      BY DEF S
    <3> QED BY <1>0, <2>2, <3>1, HistoryGrows
  <2>4. \A i \in 1 .. Len(history') : history'[i][1] = "assistant" =>
           i \in 1 .. Len(history) /\ history[i][1] = "assistant" /\ history[i][2] # c
    BY <1>0, <2>2, <2>3 DEF RepliesInv
  <2>5. \A i \in 1 .. Len(history') : history'[i][1] = "assistant" =>
           chatCall'[history'[i][2]].step \in {"answered", "done"}
    BY <1>0, <2>1, <2>3, <2>4 DEF RepliesInv
  <2>6. ASSUME NEW e \in ChatCall, chatCall'[e].step \in {"streaming", "fallback"}
        PROVE  \/ chatCall'[e].conversation < clears'
               \/ \E j \in 1 .. Len(history') : history'[j] = <<"user", e>>
    <3>1. CASE e = c
      <4>1. Len(history) + 1 \in 1 .. Len(history')
        BY <1>0, <2>3
      <4> QED BY <2>3, <3>1, <4>1
    <3>2. CASE e # c
      <4>1. CASE chatCall[e].conversation < clears
        BY <2>1, <2>2, <3>2, <4>1
      <4>2. CASE \E j \in 1 .. Len(history) : history[j] = <<"user", e>>
        <5>1. PICK j \in 1 .. Len(history) : history[j] = <<"user", e>>
          BY <4>2
        <5>2. j \in 1 .. Len(history') /\ history'[j] = <<"user", e>>
          BY <1>0, <2>3, <5>1
        <5> QED BY <5>2
      <4> QED BY <2>1, <2>6, <3>2, <4>1, <4>2 DEF RepliesInv
    <3> QED BY <3>1, <3>2
  <2>7. RepliesInv'
    BY <2>5, <2>6 DEF RepliesInv
  <2>8. OneReplyPerQuestion'
    <3>1. SUFFICES ASSUME NEW i \in 1 .. Len(history'), history'[i][1] = "assistant"
                   PROVE  /\ \A j \in 1 .. Len(history') : history'[j] = history'[i] => j = i
                          /\ \/ \E j \in 1 .. i - 1 : history'[j] = <<"user", history'[i][2]>>
                             \/ chatCall'[history'[i][2]].conversation < clears'
      BY DEF OneReplyPerQuestion
    <3>2. /\ i \in 1 .. Len(history) /\ history[i][1] = "assistant" /\ history'[i] = history[i]
          /\ history[i][2] # c /\ history[i][2] \in ChatCall
      BY <1>0, <2>3, <2>4, <3>1
    <3>3. \A j \in 1 .. Len(history') : history'[j] = history'[i] => j = i
      <4>1. SUFFICES ASSUME NEW j \in 1 .. Len(history'), history'[j] = history'[i]
                     PROVE  j = i
        OBVIOUS
      <4>2. j # Len(history) + 1
        BY <2>3, <3>1, <4>1
      <4>3. j \in 1 .. Len(history) /\ history[j] = history[i]
        BY <1>0, <2>3, <3>2, <4>1, <4>2
      <4> QED BY <3>2, <4>3 DEF OneReplyPerQuestion
    <3>4. CASE chatCall[history[i][2]].conversation < clears
      BY <2>1, <2>2, <3>2, <3>3, <3>4
    <3>5. CASE \E j \in 1 .. i - 1 : history[j] = <<"user", history[i][2]>>
      <4>1. PICK j \in 1 .. i - 1 : history[j] = <<"user", history[i][2]>>
        BY <3>5
      <4>2. j \in 1 .. Len(history)
        BY <1>0, <3>2
      <4>3. history'[j] = <<"user", history'[i][2]>>
        BY <2>3, <3>2, <4>1, <4>2
      <4> QED BY <3>3, <4>3
    <3> QED BY <3>2, <3>4, <3>5 DEF OneReplyPerQuestion
  <2> QED BY <2>7, <2>8
<1>3. ASSUME NEW c \in ChatCall, NEW r \in CallRecord, Replies(c, r)
      PROVE  RepliesInv' /\ OneReplyPerQuestion'
  <2>1. /\ chatCall'[c] = r /\ \A e \in ChatCall : e # c => chatCall'[e] = chatCall[e]
    BY <1>3, CallMoved DEF Replies
  <2>2. /\ chatCall[c].step \in {"streaming", "fallback"} /\ clears' = clears
        /\ r.step = "answered" /\ r.conversation = chatCall[c].conversation
        /\ history' = Append(history, <<"assistant", c>>)
    BY <1>3 DEF Replies, Keeps
  <2>3. /\ Len(history') = Len(history) + 1 /\ history'[Len(history) + 1] = <<"assistant", c>>
        /\ \A i \in 1 .. Len(history) : history'[i] = history[i]
    <3>1. <<"assistant", c>> \in S
      BY DEF S
    <3> QED BY <1>0, <2>2, <3>1, HistoryGrows
  <2>4. \A i \in 1 .. Len(history) : history[i][1] = "assistant" => history[i][2] # c
    BY <2>2 DEF RepliesInv
  <2>5. \A i \in 1 .. Len(history') : i \in 1 .. Len(history) \/ i = Len(history) + 1
    BY <1>0, <2>3
  <2>6. \A i \in 1 .. Len(history') : history'[i][1] = "assistant" =>
           chatCall'[history'[i][2]].step \in {"answered", "done"}
    <3>1. SUFFICES ASSUME NEW i \in 1 .. Len(history'), history'[i][1] = "assistant"
                   PROVE  chatCall'[history'[i][2]].step \in {"answered", "done"}
      OBVIOUS
    <3>2. CASE i = Len(history) + 1
      BY <2>1, <2>2, <2>3, <3>2
    <3>3. CASE i \in 1 .. Len(history)
      BY <1>0, <2>1, <2>3, <2>4, <3>1, <3>3 DEF RepliesInv
    <3> QED BY <2>5, <3>2, <3>3
  <2>7. ASSUME NEW e \in ChatCall, chatCall'[e].step \in {"streaming", "fallback"}
        PROVE  \/ chatCall'[e].conversation < clears'
               \/ \E j \in 1 .. Len(history') : history'[j] = <<"user", e>>
    <3>1. e # c /\ chatCall'[e] = chatCall[e]
      BY <2>1, <2>2, <2>7
    <3>2. CASE chatCall[e].conversation < clears
      BY <2>2, <3>1, <3>2
    <3>3. CASE \E j \in 1 .. Len(history) : history[j] = <<"user", e>>
      <4>1. PICK j \in 1 .. Len(history) : history[j] = <<"user", e>>
        BY <3>3
      <4>2. j \in 1 .. Len(history') /\ history'[j] = <<"user", e>>
        BY <1>0, <2>3, <4>1
      <4> QED BY <4>2
    <3> QED BY <2>7, <3>1, <3>2, <3>3 DEF RepliesInv
  <2>8. RepliesInv'
    BY <2>6, <2>7 DEF RepliesInv
  <2>9. OneReplyPerQuestion'
    <3>1. SUFFICES ASSUME NEW i \in 1 .. Len(history'), history'[i][1] = "assistant"
                   PROVE  /\ \A j \in 1 .. Len(history') : history'[j] = history'[i] => j = i
                          /\ \/ \E j \in 1 .. i - 1 : history'[j] = <<"user", history'[i][2]>>
                             \/ chatCall'[history'[i][2]].conversation < clears'
      BY DEF OneReplyPerQuestion
    <3>2. CASE i = Len(history) + 1
      <4>1. history'[i] = <<"assistant", c>>
        BY <2>3, <3>2
      <4>2. \A j \in 1 .. Len(history') : history'[j] = history'[i] => j = i
        BY <2>3, <2>4, <2>5, <3>2, <4>1
      <4>3. \/ \E j \in 1 .. Len(history) : history[j] = <<"user", c>>
            \/ chatCall[c].conversation < clears
        BY <2>2 DEF RepliesInv
      <4>4. CASE \E j \in 1 .. Len(history) : history[j] = <<"user", c>>
        <5>1. PICK j \in 1 .. Len(history) : history[j] = <<"user", c>>
          BY <4>4
        <5>2. j \in 1 .. i - 1 /\ history'[j] = <<"user", history'[i][2]>>
          BY <1>0, <2>3, <3>2, <4>1, <5>1
        <5> QED BY <4>2, <5>2
      <4>5. CASE chatCall[c].conversation < clears
        BY <2>1, <2>2, <4>1, <4>2, <4>5
      <4> QED BY <4>3, <4>4, <4>5
    <3>3. CASE i \in 1 .. Len(history)
      <4>1. /\ history[i][1] = "assistant" /\ history'[i] = history[i]
            /\ history[i][2] # c /\ history[i][2] \in ChatCall
        BY <1>0, <2>3, <2>4, <3>1, <3>3
      <4>2. \A j \in 1 .. Len(history') : history'[j] = history'[i] => j = i
        <5>1. SUFFICES ASSUME NEW j \in 1 .. Len(history'), history'[j] = history'[i]
                       PROVE  j = i
          OBVIOUS
        <5>2. j # Len(history) + 1
          BY <2>3, <4>1, <5>1
        <5>3. j \in 1 .. Len(history) /\ history[j] = history[i]
          BY <2>3, <2>5, <4>1, <5>1, <5>2
        <5> QED BY <3>3, <4>1, <5>3 DEF OneReplyPerQuestion
      <4>3. CASE chatCall[history[i][2]].conversation < clears
        BY <2>1, <2>2, <4>1, <4>2, <4>3
      <4>4. CASE \E j \in 1 .. i - 1 : history[j] = <<"user", history[i][2]>>
        <5>1. PICK j \in 1 .. i - 1 : history[j] = <<"user", history[i][2]>>
          BY <4>4
        <5>2. j \in 1 .. Len(history)
          BY <1>0, <3>3
        <5>3. history'[j] = <<"user", history'[i][2]>>
          BY <2>3, <4>1, <5>1, <5>2
        <5> QED BY <4>2, <5>3
      <4> QED BY <3>3, <4>1, <4>3, <4>4 DEF OneReplyPerQuestion
    <3> QED BY <2>5, <3>2, <3>3
  <2> QED BY <2>8, <2>9
<1>4. CASE Stops
  BY <1>4, RepliesUntouched DEF Stops, unchangedHistory
<1>5. CASE ClearHistory
  <2>1. history' = <<>> /\ clears' = clears + 1 /\ chatCall' = chatCall
    BY <1>5 DEF ClearHistory
  <2>2. \A c \in ChatCall : chatCall'[c].conversation < clears'
    BY <2>1, CallTypes
  <2>3. RepliesInv'
    BY <2>1, <2>2 DEF RepliesInv
  <2>4. OneReplyPerQuestion'
    BY <2>1 DEF OneReplyPerQuestion
  <2> QED BY <2>3, <2>4
<1> QED BY <1>1, <1>2, <1>3, <1>4, <1>5 DEF ChatKind

\* What is settled stays so while no conversation is cleared.
LEMMA SettledStays ==
  ASSUME ChatTypeOK, NEW s, Settled(chatCall, clears, clearedInFlight, s),
         \A e \in ChatCall : chatCall[e].step \in {"answered", "done"} =>
            /\ chatCall'[e].step \in {"answered", "done"}
            /\ chatCall'[e].conversation = chatCall[e].conversation,
         UNCHANGED <<clears, clearedInFlight>>
  PROVE  Settled(chatCall', clears', clearedInFlight', s)
  BY DEF Settled, Accounted

LEMMA SessionsKept ==
  ASSUME ChatTypeOK, SessionsInv, ChatKind
  PROVE  SessionsInv'
<1>1. ASSUME NEW c \in ChatCall, NEW r \in CallRecord,
             Begins(c, r) \/ Reads(c, r) \/ Asks(c, r) \/ Quiet(c, r) \/ Replies(c, r) \/ Ends(c, r)
      PROVE  SessionsInv'
  <2>1. /\ chatCall'[c] = r /\ \A e \in ChatCall : e # c => chatCall'[e] = chatCall[e]
    BY <1>1, CallMoved DEF Begins, Reads, Asks, Quiet, Replies, Ends
  <2>2. UNCHANGED <<clears, clearedInFlight>>
    BY <1>1 DEF Begins, Reads, Asks, Quiet, Replies, Ends, unchangedHistory
  <2>3. /\ chatCall[c].step \in {"answered", "done"} =>
              r.step \in {"answered", "done"} /\ r.conversation = chatCall[c].conversation
        /\ r.conversation \in {chatCall[c].conversation, clears}
    <3>1. CASE Begins(c, r)
      BY <3>1 DEF Begins, NextCall
    <3>2. CASE Reads(c, r)
      BY <3>2 DEF Reads
    <3>3. CASE Quiet(c, r) \/ Asks(c, r) \/ Replies(c, r) \/ Ends(c, r)
      BY <3>3 DEF Quiet, Asks, Replies, Ends, Open, Keeps
    <3> QED BY <1>1, <3>1, <3>2, <3>3
  <2>4. \A e \in ChatCall : chatCall[e].step \in {"answered", "done"} =>
            /\ chatCall'[e].step \in {"answered", "done"}
            /\ chatCall'[e].conversation = chatCall[e].conversation
    BY <2>1, <2>3
  <2>5. \A s : Settled(chatCall, clears, clearedInFlight, s)
                  => Settled(chatCall', clears', clearedInFlight', s)
    BY <2>2, <2>4, SettledStays
  <2>6. \A e \in ChatCall : chatCall'[e].conversation <= clears'
    BY <2>1, <2>2, <2>3, CallTypes DEF SessionsInv
  <2>7. Open(c)' => /\ Settled(chatCall', clears', clearedInFlight', chatCall'[c].session)
                    /\ Accounted(chatCall'[c].conversation, clears', clearedInFlight')
    <3>1. CASE Begins(c, r) \/ Ends(c, r) \/ Replies(c, r)
      BY <2>1, <3>1 DEF Begins, Ends, Replies, Open
    <3>2. CASE Reads(c, r)
      <4>1. r.session = sessionID /\ r.conversation = clears /\ clears' = clears /\ clears \in Nat
        BY <2>2, <3>2, CallTypes DEF Reads
      <4>2. Settled(chatCall', clears', clearedInFlight', sessionID)
        BY <2>5 DEF SessionsInv
      <4> QED BY <2>1, <4>1, <4>2 DEF Accounted
    <3>3. CASE Asks(c, r) \/ Quiet(c, r)
      <4>1. Open(c) /\ r.session = chatCall[c].session /\ r.conversation = chatCall[c].conversation
        BY <3>3 DEF Asks, Quiet, Keeps, Open
      <4>2. Settled(chatCall', clears', clearedInFlight', chatCall[c].session)
        BY <2>5, <4>1 DEF SessionsInv
      <4>3. Accounted(chatCall[c].conversation, clears, clearedInFlight)
        BY <4>1 DEF SessionsInv
      <4> QED BY <2>1, <2>2, <4>1, <4>2, <4>3
    <3> QED BY <1>1, <3>1, <3>2, <3>3
  <2>8. \A e \in ChatCall : e # c /\ Open(e)' =>
            /\ Settled(chatCall', clears', clearedInFlight', chatCall'[e].session)
            /\ Accounted(chatCall'[e].conversation, clears', clearedInFlight')
    <3>1. SUFFICES ASSUME NEW e \in ChatCall, e # c, Open(e)'
                   PROVE  /\ Settled(chatCall', clears', clearedInFlight', chatCall'[e].session)
                          /\ Accounted(chatCall'[e].conversation, clears', clearedInFlight')
      OBVIOUS
    <3>2. Open(e) /\ chatCall'[e] = chatCall[e]
      BY <2>1, <3>1 DEF Open
    <3>3. /\ Settled(chatCall, clears, clearedInFlight, chatCall[e].session)
          /\ Accounted(chatCall[e].conversation, clears, clearedInFlight)
      BY <3>2 DEF SessionsInv
    <3> QED BY <2>2, <2>5, <3>2, <3>3
  <2>9. Settled(chatCall', clears', clearedInFlight', sessionID')
    <3>1. CASE sessionID' = sessionID
      BY <2>5, <3>1 DEF SessionsInv
    <3>2. CASE sessionID' # sessionID
      <4>1. Replies(c, r)
        BY <1>1, <3>2 DEF Begins, Reads, Asks, Quiet, Ends, unchangedHistory
      <4>2. Open(c) /\ r.step = "answered" /\ r.conversation = chatCall[c].conversation
        BY <4>1 DEF Replies, Open, Keeps
      <4>3. CASE sessionID' = chatCall[c].session
        BY <2>5, <4>2, <4>3 DEF SessionsInv
      <4>4. CASE sessionID' = c
        <5>1. Accounted(chatCall[c].conversation, clears, clearedInFlight)
          BY <4>2 DEF SessionsInv
        <5> QED BY <2>1, <2>2, <4>2, <4>4, <5>1 DEF Settled
      <4> QED BY <3>2, <4>1, <4>3, <4>4 DEF Replies
    <3> QED BY <3>1, <3>2
  <2>10. \A e \in ChatCall : Open(e)' =>
            /\ Settled(chatCall', clears', clearedInFlight', chatCall'[e].session)
            /\ Accounted(chatCall'[e].conversation, clears', clearedInFlight')
    BY <2>7, <2>8
  <2> QED BY <2>6, <2>9, <2>10 DEF SessionsInv
<1>2. CASE Stops
  <2>1. \A e \in ChatCall :
            /\ chatCall'[e].step = chatCall[e].step /\ (Open(e)' <=> Open(e))
            /\ chatCall'[e].session = chatCall[e].session
            /\ chatCall'[e].conversation = chatCall[e].conversation
    BY <1>2 DEF Stops, Open
  <2>2. UNCHANGED <<clears, clearedInFlight, sessionID>>
    BY <1>2 DEF Stops, unchangedHistory
  <2>3. \A s : Settled(chatCall, clears, clearedInFlight, s)
                  => Settled(chatCall', clears', clearedInFlight', s)
    BY <2>1, <2>2, SettledStays
  <2> QED BY <2>1, <2>2, <2>3 DEF SessionsInv
<1>3. CASE ClearHistory
  <2>1. /\ clears' = clears + 1 /\ sessionID' = 0 /\ chatCall' = chatCall
        /\ clears \in Nat /\ \A e \in ChatCall : chatCall[e].conversation \in Nat
    BY <1>3, CallTypes DEF ClearHistory
  <2>2. \A e \in ChatCall : chatCall'[e].conversation <= clears'
    BY <2>1 DEF SessionsInv
  <2>3. ASSUME NEW c \in ChatCall, Open(c)
        PROVE  /\ Settled(chatCall', clears', clearedInFlight', chatCall'[c].session)
               /\ Accounted(chatCall'[c].conversation, clears', clearedInFlight')
    <3>1. clearedInFlight' = clearedInFlight \cup {clears}
      BY <1>3, <2>3 DEF ClearHistory
    <3>2. ASSUME NEW e \in ChatCall, Accounted(chatCall[e].conversation, clears, clearedInFlight)
          PROVE  Accounted(chatCall[e].conversation, clears', clearedInFlight')
      BY <2>1, <3>1, <3>2 DEF Accounted
    <3> QED BY <2>1, <2>3, <3>2 DEF SessionsInv, Settled
  <2>4. \A c \in ChatCall : Open(c)' <=> Open(c)
    BY <2>1 DEF Open
  <2>5. Settled(chatCall', clears', clearedInFlight', sessionID')
    BY <2>1 DEF Settled
  <2> QED BY <2>2, <2>3, <2>4, <2>5 DEF SessionsInv
<1> QED BY <1>1, <1>2, <1>3 DEF ChatKind

LEMMA ChatStep == ChatInv /\ [NextChat]_chatVars => ChatInv'
<1> SUFFICES ASSUME ChatInv, [NextChat]_chatVars PROVE ChatInv'
  OBVIOUS
<1>1. CASE NextChat
  <2>1. ChatKind
    BY <1>1, ChatKinds
  <2>2. \A c \in ChatCall : chatCall[c].conversation <= clears
    BY DEF ChatInv, SessionsInv
  <2> QED BY <2>1, <2>2, ChatTypesKept, StreamsKept, RepliesKept, SessionsKept DEF ChatInv
<1>2. CASE UNCHANGED chatVars
  BY <1>2 DEF chatVars, ChatInv, ChatTypeOK, StreamsInv, NewestStreamCanBeStopped, RepliesInv,
     OneReplyPerQuestion, SessionsInv, Settled, Accounted, Open
<1> QED BY <1>1, <1>2

\* The invariant is inductive, whatever the number of the messages and of the clears.
THEOREM ChatInvariant == ChatSpec => []ChatInv
  BY ChatInit, ChatStep, PTL DEF ChatSpec

\* A stop reaches the newest stream, a reply has its question and is its only one, and a
\* cleared conversation goes on with the server only through a call that was open then.
THEOREM StreamsStayApart == ChatSpec => []StreamsAreKeptApart
<1>1. ChatInv => StreamsAreKeptApart
  BY DEF ChatInv, SessionsInv, Settled, Accounted, StreamsAreKeptApart, ClearedSessionOnlyFromOpenCall
<1> QED BY <1>1, ChatInvariant, PTL

-----------------------------------------------------------------------------
(* Inventory: the report to the server, and the one in the cache.          *)

InventorySpec == InitInventory /\ [][NextInventory]_inventoryVars

PageRecord ==
    [step : {"stopped", "collecting", "collected", "deciding", "sending", "idle"},
     report : Moment, blank : SUBSET Section, tries : [Part -> 0 .. 2], got : SUBSET Part]
RefresherRecord ==
    [step : {"idle", "collecting", "collected", "read"}, sections : SUBSET Section,
     at : Moment, report : [Section -> Moment]]

\* The sections that a whole collection may leave blank.
Excused == FailingQuery \cup cutShort

\* The parts that were answered for were accepted, and belong to the report being sent.
SendingInv ==
    /\ page.step # "sending" => page.got = {}
    /\ \A p \in page.got : page.report \in accepted[p]

\* What is on the way to the cache has nothing blank that is not excused.
WholeInv ==
    /\ page.step = "collected" => page.report # 0 /\ page.blank \subseteq Excused
    /\ \A r \in Refresher :
          /\ refresher[r].step \in {"collected", "read"} => refresher[r].at # 0
          /\ refresher[r].step = "read" =>
                \A s \in Section \ refresher[r].sections :
                    refresher[r].report[s] = 0 => s \in Excused

InventoryInv == InventoryTypeOK /\ SendingInv /\ WholeInv
                  /\ SyncTimeMeansBothAccepted /\ CachedReportIsWhole

LEMMA InventoryTypes ==
  ASSUME InventoryTypeOK
  PROVE  /\ page \in PageRecord /\ refresher \in [Refresher -> RefresherRecord]
         /\ \A r \in Refresher : refresher[r] \in RefresherRecord
         /\ page.report \in Moment /\ page.got \subseteq Part /\ page.blank \subseteq Section
         /\ page.tries \in [Part -> 0 .. 2]
         /\ moment \in Moment /\ syncControl \in Moment /\ snapshot \in Moment
         /\ cutShort \subseteq Section /\ FailingQuery \subseteq Section
         /\ accepted \in [Part -> SUBSET Moment]
         /\ osquery \in [Collector -> Source]
         /\ invCache.loaded \in BOOLEAN /\ invCache.section \in [Section -> Moment]
         /\ invCache \in [loaded : BOOLEAN, section : [Section -> Moment]]
<1>1. page \in PageRecord /\ refresher \in [Refresher -> RefresherRecord]
  BY DEF InventoryTypeOK, PageRecord, RefresherRecord
<1>2. /\ page.report \in Moment /\ page.got \subseteq Part /\ page.blank \subseteq Section
      /\ page.tries \in [Part -> 0 .. 2]
  BY <1>1 DEF PageRecord
<1>3. FailingQuery \subseteq Section
  BY InventoryAssumption DEF Section
<1>4. /\ moment \in Moment /\ syncControl \in Moment /\ snapshot \in Moment
      /\ cutShort \subseteq Section /\ accepted \in [Part -> SUBSET Moment]
      /\ osquery \in [Collector -> Source]
      /\ invCache \in [loaded : BOOLEAN, section : [Section -> Moment]]
  BY DEF InventoryTypeOK
<1>5. invCache.loaded \in BOOLEAN /\ invCache.section \in [Section -> Moment]
  BY <1>4
<1> QED BY <1>1, <1>2, <1>3, <1>4, <1>5

\* The records that the code writes whole.
LEMMA InventoryRecords ==
  /\ 0 \in Moment /\ emptyReport \in [Section -> Moment]
  /\ stoppedPage \in PageRecord /\ stoppedPage.step = "stopped" /\ stoppedPage.got = {}
  /\ idlePage \in PageRecord /\ idlePage.step = "idle" /\ idlePage.got = {}
  /\ idleRefresher \in RefresherRecord /\ idleRefresher.step = "idle"
  /\ emptyCache \in [loaded : BOOLEAN, section : [Section -> Moment]] /\ ~emptyCache.loaded
<1>1. 0 \in Moment /\ emptyReport \in [Section -> Moment]
  BY InventoryAssumption DEF Moment, emptyReport
<1>2. stoppedPage \in PageRecord /\ stoppedPage.step = "stopped" /\ stoppedPage.got = {}
  BY <1>1 DEF stoppedPage, PageRecord
<1>3. idlePage \in PageRecord /\ idlePage.step = "idle" /\ idlePage.got = {}
  BY <1>2 DEF idlePage, PageRecord
<1>4. idleRefresher \in RefresherRecord /\ idleRefresher.step = "idle"
  BY <1>1 DEF idleRefresher, RefresherRecord
<1>5. emptyCache \in [loaded : BOOLEAN, section : [Section -> Moment]] /\ ~emptyCache.loaded
  BY <1>1 DEF emptyCache
<1> QED BY <1>1, <1>2, <1>3, <1>4, <1>5

LEMMA InventoryInit == InitInventory => InventoryInv
<1> SUFFICES ASSUME InitInventory PROVE InventoryInv
  OBVIOUS
<1>1. /\ moment = 0 /\ page = stoppedPage /\ invCache = emptyCache
      /\ refresher = [r \in Refresher |-> idleRefresher]
      /\ osquery = [c \in Collector |-> "none"] /\ cutShort = {}
      /\ accepted = [p \in Part |-> {}] /\ syncControl = 0 /\ snapshot = 0
  BY DEF InitInventory
<1>2. syncRecent \in BOOLEAN
  BY DEF InitInventory
<1>3. InventoryTypeOK
  BY <1>1, <1>2, InventoryRecords DEF InventoryTypeOK, PageRecord, RefresherRecord, Source
<1>4. SendingInv /\ WholeInv
  BY <1>1, InventoryRecords DEF SendingInv, WholeInv
<1>5. SyncTimeMeansBothAccepted /\ CachedReportIsWhole
  BY <1>1, InventoryRecords DEF SyncTimeMeansBothAccepted, CachedReportIsWhole
<1> QED BY <1>3, <1>4, <1>5 DEF InventoryInv

\* Queries go to what there is.
LEMMA QueriesTyped ==
  ASSUME InventoryTypeOK, NEW c \in Collector
  PROVE  /\ BeginQueries(c) => osquery' \in [Collector -> Source]
         /\ EndQueries(c) => osquery' \in [Collector -> Source]
         /\ OsquerydFails(c) => osquery' \in [Collector -> Source]
<1>1. Osqueryi(c) \subseteq Source /\ "osqueryd" \in Source
  BY DEF Osqueryi, Source
<1>2. BeginQueries(c) => osquery' \in [Collector -> Source]
  BY <1>1, InventoryTypes DEF BeginQueries
<1>3. OsquerydFails(c) => osquery' \in [Collector -> Source]
  BY <1>1, InventoryTypes DEF OsquerydFails
<1>4. EndQueries(c) => osquery' \in [Collector -> Source]
  BY InventoryTypes DEF EndQueries, Source
<1> QED BY <1>2, <1>3, <1>4

LEMMA Blanks ==
  ASSUME InventoryTypeOK, NEW c \in Collector, NEW blank \in Unanswered(c)
  PROVE  blank \subseteq Section /\ (osquery[c] = "stopped" \/ blank \subseteq FailingQuery)
<1>1. FailingQuery \subseteq Section
  BY InventoryTypes
<1>2. \A tail \in LastSections : tail \subseteq Section
  BY DEF LastSections, Section
<1>3. CASE osquery[c] = "stopped"
  BY <1>1, <1>2, <1>3 DEF Unanswered
<1>4. CASE osquery[c] # "stopped"
  BY <1>1, <1>4 DEF Unanswered
<1> QED BY <1>3, <1>4

\* A collection has a moment of its own, and excuses what it leaves blank.
LEMMA CollectionFacts ==
  ASSUME InventoryTypeOK, NEW c \in Collector, NEW blank \in Unanswered(c), NEW b \in {blank, {}},
         Collected(c, b)
  PROVE  /\ moment' \in Moment /\ moment' # 0 /\ osquery' \in [Collector -> Source]
         /\ cutShort' \subseteq Section /\ b \subseteq Section
         /\ Excused \subseteq Excused' /\ b \subseteq Excused'
<1>1. moment' \in Moment /\ moment' # 0
  BY InventoryAssumption, InventoryTypes DEF Collected, Moment
<1>2. osquery' \in [Collector -> Source]
  BY QueriesTyped DEF Collected
<1>3. b \subseteq Section /\ (osquery[c] = "stopped" \/ b \subseteq FailingQuery)
  BY Blanks
<1>4. CASE osquery[c] = "stopped"
  <2>1. cutShort' = cutShort \cup b
    BY <1>4 DEF Collected
  <2> QED BY <1>1, <1>2, <1>3, <2>1, InventoryTypes DEF Excused
<1>5. CASE osquery[c] # "stopped"
  <2>1. cutShort' = cutShort
    BY <1>5 DEF Collected
  <2> QED BY <1>1, <1>2, <1>3, <1>5, <2>1, InventoryTypes DEF Excused
<1> QED BY <1>4, <1>5

\* The report to the server is as it was, and the page's process not in the middle of another.
LEMMA SendingUntouched ==
  ASSUME SendingInv, SyncTimeMeansBothAccepted, UNCHANGED unchangedReport,
         page' = page \/ page'.got = {}
  PROVE  SendingInv' /\ SyncTimeMeansBothAccepted'
<1>1. accepted' = accepted /\ syncControl' = syncControl
  BY DEF unchangedReport
<1>2. SendingInv'
  BY <1>1 DEF SendingInv
<1> QED BY <1>1, <1>2 DEF SyncTimeMeansBothAccepted

\* A refresh whose report is whole but for what is excused.
RefreshFits(q, excused) ==
    /\ q.step \in {"collected", "read"} => q.at # 0
    /\ q.step = "read" => \A s \in Section \ q.sections : q.report[s] = 0 => s \in excused

\* The page's process and one refresh moved at most, and the cache did not.
LEMMA WholeStays ==
  ASSUME WholeInv, CachedReportIsWhole, Excused \subseteq Excused', invCache' = invCache,
         \/ page' = page
         \/ page'.step = "collected" => page'.report # 0 /\ page'.blank \subseteq Excused',
         \A r \in Refresher : refresher'[r] = refresher[r] \/ RefreshFits(refresher'[r], Excused')
  PROVE  WholeInv' /\ CachedReportIsWhole'
<1>1. \A r \in Refresher : RefreshFits(refresher[r], Excused)
  BY DEF WholeInv, RefreshFits
<1>2. \A r \in Refresher : RefreshFits(refresher'[r], Excused')
  <2>1. SUFFICES ASSUME NEW r \in Refresher, refresher'[r] = refresher[r]
                 PROVE  RefreshFits(refresher'[r], Excused')
    OBVIOUS
  <2>2. RefreshFits(refresher[r], Excused)
    BY <1>1
  <2>3. \A s \in Excused : s \in Excused'
    OBVIOUS
  <2> QED BY <2>1, <2>2, <2>3 DEF RefreshFits
<1>3. page'.step = "collected" => page'.report # 0 /\ page'.blank \subseteq Excused'
  BY DEF WholeInv
<1>4. WholeInv'
  BY <1>2, <1>3 DEF WholeInv, RefreshFits
<1>5. CachedReportIsWhole'
  BY DEF CachedReportIsWhole, Excused
<1> QED BY <1>4, <1>5

\* A cache that was filled with what is whole.
LEMMA CacheFilled ==
  ASSUME NEW section, invCache' = Cached(section),
         \A s \in Section : section[s] = 0 => s \in Excused'
  PROVE  CachedReportIsWhole'
<1>1. invCache'.section = section
  BY DEF Cached
<1> QED BY <1>1 DEF CachedReportIsWhole, Excused

LEMMA InventoryStep == InventoryInv /\ [NextInventory]_inventoryVars => InventoryInv'
<1> SUFFICES ASSUME InventoryInv, [NextInventory]_inventoryVars PROVE InventoryInv'
  OBVIOUS
<1>0. /\ InventoryTypeOK /\ SendingInv /\ WholeInv
      /\ SyncTimeMeansBothAccepted /\ CachedReportIsWhole
  BY DEF InventoryInv
<1>a. "startup" \in Collector /\ Refresher \subseteq Collector
  BY DEF Collector
<1>b. cutShort' = cutShort => Excused' = Excused
  BY DEF Excused
<1>1. CASE PageStarts
  <2>1. page' \in PageRecord /\ page'.got = {} /\ page'.step \in {"idle", "collecting"}
    <3>1. CASE page' = idlePage
      BY <3>1, InventoryRecords
    <3>2. CASE page' = [page EXCEPT !.step = "collecting"]
      <4>1. page.step = "stopped" /\ page.got = {}
        BY <1>0, <1>1 DEF PageStarts, SendingInv
      <4> QED BY <1>0, <3>2, <4>1, InventoryTypes DEF PageRecord
    <3> QED BY <1>1, <3>1, <3>2 DEF PageStarts
  <2>2. osquery' \in [Collector -> Source]
    BY <1>0, <1>1, <1>a, QueriesTyped, InventoryTypes DEF PageStarts
  <2>3. UNCHANGED <<moment, cutShort, invCache, refresher>> /\ UNCHANGED unchangedReport
    BY <1>1 DEF PageStarts, unchangedCache
  <2>4. InventoryTypeOK'
    BY <1>0, <2>1, <2>2, <2>3 DEF InventoryTypeOK, PageRecord, unchangedReport
  <2>5. SendingInv' /\ SyncTimeMeansBothAccepted'
    BY <1>0, <2>1, <2>3, SendingUntouched
  <2>6. WholeInv' /\ CachedReportIsWhole'
    BY <1>0, <1>b, <2>1, <2>3, WholeStays
  <2> QED BY <2>4, <2>5, <2>6 DEF InventoryInv
<1>2. CASE StartupCollects
  <2>0. page.step = "collecting" /\ page.got = {} /\ UNCHANGED unchangedReport
        /\ UNCHANGED <<invCache, refresher>>
    BY <1>0, <1>2 DEF StartupCollects, SendingInv, unchangedCache
  <2>1. /\ page' \in PageRecord /\ page'.got = {}
        /\ page'.step = "collected" => page'.report # 0 /\ page'.blank \subseteq Excused'
        /\ moment' \in Moment /\ osquery' \in [Collector -> Source]
        /\ cutShort' \subseteq Section /\ Excused \subseteq Excused'
    <3>1. CASE CollectedNothing("startup") /\ page' = idlePage
      <4>1. osquery' \in [Collector -> Source] /\ moment' = moment /\ cutShort' = cutShort
        BY <1>0, <1>a, <3>1, QueriesTyped DEF CollectedNothing
      <4> QED BY <1>0, <1>b, <3>1, <4>1, InventoryRecords, InventoryTypes
    <3>2. CASE \E blank \in Unanswered("startup") :
                 /\ Collected("startup", blank)
                 /\ page' = [page EXCEPT !.step = "collected", !.report = moment', !.blank = blank]
      <4>1. PICK blank \in Unanswered("startup") :
                 /\ Collected("startup", blank)
                 /\ page' = [page EXCEPT !.step = "collected", !.report = moment', !.blank = blank]
        BY <3>2
      <4>2. /\ moment' \in Moment /\ moment' # 0 /\ osquery' \in [Collector -> Source]
            /\ cutShort' \subseteq Section /\ blank \subseteq Section
            /\ Excused \subseteq Excused' /\ blank \subseteq Excused'
        BY <1>0, <1>a, <4>1, CollectionFacts
      <4>3. PICK m \in Moment : m = moment' /\ m # 0
        BY <4>2
      <4>4. page' = [page EXCEPT !.step = "collected", !.report = m, !.blank = blank]
        BY <4>1, <4>3
      <4>5. page' \in PageRecord /\ page'.got = page.got /\ page'.report = m /\ page'.blank = blank
        BY <1>0, <4>2, <4>4, InventoryTypes DEF PageRecord
      <4> QED BY <2>0, <4>2, <4>3, <4>5
    <3> QED BY <1>2, <3>1, <3>2 DEF StartupCollects
  <2>4. InventoryTypeOK'
    BY <1>0, <2>0, <2>1 DEF InventoryTypeOK, PageRecord, unchangedReport
  <2>5. SendingInv' /\ SyncTimeMeansBothAccepted'
    BY <1>0, <2>0, <2>1, SendingUntouched
  <2>6. WholeInv' /\ CachedReportIsWhole'
    BY <1>0, <2>0, <2>1, WholeStays
  <2> QED BY <2>4, <2>5, <2>6 DEF InventoryInv
<1>3. CASE StartupCaches
  <2> DEFINE section == [s \in Section |-> IF s \in page.blank THEN 0 ELSE page.report]
  <2>1. /\ page.step = "collected" /\ page.got = {} /\ page.report # 0 /\ page.blank \subseteq Excused
        /\ UNCHANGED <<moment, refresher, osquery, cutShort>> /\ UNCHANGED unchangedReport
        /\ page' = [page EXCEPT !.step = "deciding"] /\ invCache' = Cached(section)
    BY <1>0, <1>3 DEF StartupCaches, SendingInv, WholeInv, unchangedOsquery
  <2>2. page' \in PageRecord /\ page'.got = {} /\ page'.step = "deciding"
    BY <1>0, <2>1, InventoryTypes DEF PageRecord
  <2>3. section \in [Section -> Moment]
    BY <1>0, InventoryTypes, InventoryRecords
  <2>4. \A s \in Section : section[s] = 0 => s \in Excused
    BY <2>1
  <2> HIDE DEF section
  <2>5. invCache' \in [loaded : BOOLEAN, section : [Section -> Moment]]
    BY <2>1, <2>3 DEF Cached
  <2>6. InventoryTypeOK'
    BY <1>0, <2>1, <2>2, <2>5 DEF InventoryTypeOK, PageRecord, unchangedReport
  <2>7. SendingInv' /\ SyncTimeMeansBothAccepted'
    BY <1>0, <2>1, <2>2, SendingUntouched
  <2>8. CachedReportIsWhole'
    BY <1>b, <2>1, <2>4, CacheFilled
  <2>9. WholeInv'
    BY <1>0, <1>b, <2>1, <2>2 DEF WholeInv
  <2> QED BY <2>6, <2>7, <2>8, <2>9 DEF InventoryInv
<1>4. CASE DecideSync
  <2>1. /\ page.step = "deciding" /\ page.got = {}
        /\ UNCHANGED <<moment, accepted, syncControl, syncRecent, invCache, refresher, osquery, cutShort>>
    BY <1>0, <1>4 DEF DecideSync, SendingInv, unchangedOsquery, unchangedCache
  <2>2. page' \in PageRecord /\ page'.got = {} /\ page'.step \in {"sending", "idle"}
        /\ snapshot' \in Moment
    <3>1. CASE page' = [page EXCEPT !.step = "sending"] /\ UNCHANGED snapshot
      BY <1>0, <2>1, <3>1, InventoryTypes DEF PageRecord
    <3>2. CASE page' = idlePage /\ snapshot' = page.report
      BY <1>0, <3>2, InventoryTypes, InventoryRecords
    <3> QED BY <1>4, <3>1, <3>2 DEF DecideSync
  <2>3. InventoryTypeOK'
    BY <1>0, <2>1, <2>2 DEF InventoryTypeOK, PageRecord
  <2>4. SendingInv' /\ SyncTimeMeansBothAccepted'
    BY <1>0, <2>1, <2>2 DEF SendingInv, SyncTimeMeansBothAccepted
  <2>5. WholeInv' /\ CachedReportIsWhole'
    BY <1>0, <1>b, <2>1, <2>2, WholeStays
  <2> QED BY <2>3, <2>4, <2>5 DEF InventoryInv
<1>5. ASSUME NEW part \in Part, SendPart(part)
      PROVE  InventoryInv'
  <2>1. PICK taken, answered \in BOOLEAN :
          /\ answered => taken
          /\ accepted' = IF taken THEN [accepted EXCEPT ![part] = @ \cup {page.report}]
                         ELSE accepted
          /\ page' = [page EXCEPT !.tries[part] = @ + 1,
                                  !.got = IF answered THEN @ \cup {part} ELSE @]
    BY <1>5 DEF SendPart
  <2>2. /\ page.step = "sending" /\ page.tries[part] < 2
        /\ UNCHANGED <<moment, syncControl, syncRecent, snapshot, invCache, refresher, osquery, cutShort>>
    BY <1>5 DEF SendPart, unchangedOsquery, unchangedCache
  <2>3. PICK n \in 0 .. 2 : n = page.tries[part] + 1
    BY <1>0, <2>2, InventoryTypes
  <2>4. PICK got \in SUBSET Part : got = IF answered THEN page.got \cup {part} ELSE page.got
    BY <1>0, InventoryTypes
  <2>5. page' = [page EXCEPT !.tries[part] = n, !.got = got]
    BY <2>1, <2>3, <2>4
  <2>6. page' \in PageRecord /\ page'.got = got /\ page'.report = page.report /\ page'.step = "sending"
    BY <1>0, <2>2, <2>5, InventoryTypes DEF PageRecord
  <2>7. /\ accepted' \in [Part -> SUBSET Moment]
        /\ \A p \in Part : accepted[p] \subseteq accepted'[p]
        /\ taken => page.report \in accepted'[part]
    BY <1>0, <2>1, InventoryTypes
  <2>8. InventoryTypeOK'
    BY <1>0, <2>2, <2>6, <2>7 DEF InventoryTypeOK, PageRecord
  <2>9. SendingInv'
    BY <1>0, <2>1, <2>4, <2>6, <2>7 DEF SendingInv
  <2>10. SyncTimeMeansBothAccepted'
    BY <1>0, <2>2, <2>7 DEF SyncTimeMeansBothAccepted
  <2>11. WholeInv' /\ CachedReportIsWhole'
    BY <1>0, <1>b, <2>2, <2>6, WholeStays
  <2> QED BY <2>8, <2>9, <2>10, <2>11 DEF InventoryInv
<1>6. CASE FinishSync
  <2>1. /\ page' = idlePage
        /\ UNCHANGED <<moment, accepted, invCache, refresher, osquery, cutShort>>
    BY <1>6 DEF FinishSync, unchangedOsquery, unchangedCache
  <2>2. /\ snapshot' \in Moment /\ syncControl' \in Moment /\ syncRecent' \in BOOLEAN
        /\ syncControl' = syncControl \/ (page.got = Part /\ syncControl' = page.report)
    <3>1. CASE page.got = Part
      BY <1>0, <1>6, <3>1, InventoryTypes DEF FinishSync
    <3>2. CASE page.got # Part
      BY <1>0, <1>6, <3>2, InventoryTypes DEF FinishSync, InventoryTypeOK
    <3> QED BY <3>1, <3>2
  <2>3. InventoryTypeOK'
    BY <1>0, <2>1, <2>2, InventoryRecords DEF InventoryTypeOK, PageRecord
  <2>4. SendingInv'
    BY <2>1, InventoryRecords DEF SendingInv
  <2>5. SyncTimeMeansBothAccepted'
    BY <1>0, <2>1, <2>2 DEF SyncTimeMeansBothAccepted, SendingInv
  <2>6. WholeInv' /\ CachedReportIsWhole'
    BY <1>0, <1>b, <2>1, InventoryRecords, WholeStays
  <2> QED BY <2>3, <2>4, <2>5, <2>6 DEF InventoryInv
<1>7. CASE PageStops
  <2>1. /\ page' = stoppedPage /\ invCache' = emptyCache
        /\ refresher' = [r \in Refresher |-> idleRefresher]
        /\ osquery' = [c \in Collector |-> "none"]
        /\ UNCHANGED <<moment, cutShort>> /\ UNCHANGED unchangedReport
    BY <1>7 DEF PageStops
  <2>2. InventoryTypeOK'
    BY <1>0, <2>1, InventoryRecords DEF InventoryTypeOK, PageRecord, RefresherRecord, Source, unchangedReport
  <2>3. SendingInv' /\ SyncTimeMeansBothAccepted'
    BY <1>0, <2>1, InventoryRecords, SendingUntouched
  <2>4. WholeInv' /\ CachedReportIsWhole'
    BY <2>1, InventoryRecords DEF WholeInv, CachedReportIsWhole
  <2> QED BY <2>2, <2>3, <2>4 DEF InventoryInv
<1>8. CASE DayPasses
  <2>1. syncRecent' \in BOOLEAN
        /\ UNCHANGED <<moment, page, accepted, syncControl, snapshot, invCache, refresher, osquery, cutShort>>
    BY <1>8 DEF DayPasses, unchangedOsquery, unchangedCache
  <2>2. InventoryTypeOK'
    BY <1>0, <2>1 DEF InventoryTypeOK
  <2>3. SendingInv' /\ SyncTimeMeansBothAccepted' /\ WholeInv' /\ CachedReportIsWhole'
    BY <1>0, <2>1 DEF SendingInv, SyncTimeMeansBothAccepted, WholeInv, CachedReportIsWhole, Excused
  <2> QED BY <2>2, <2>3 DEF InventoryInv
\* A refresh moved, and the report and the page's process did not.
<1>9. ASSUME NEW r \in Refresher, NEW q \in RefresherRecord,
             refresher' = [refresher EXCEPT ![r] = q], RefreshFits(q, Excused'),
             moment' \in Moment, osquery' \in [Collector -> Source],
             cutShort' \subseteq Section, Excused \subseteq Excused',
             UNCHANGED <<page, invCache>>, UNCHANGED unchangedReport
      PROVE  InventoryInv'
  <2>1. /\ refresher' \in [Refresher -> RefresherRecord]
        /\ \A o \in Refresher : refresher'[o] = refresher[o] \/ RefreshFits(refresher'[o], Excused')
    BY <1>0, <1>9, InventoryTypes
  <2>2. InventoryTypeOK'
    BY <1>0, <1>9, <2>1 DEF InventoryTypeOK, RefresherRecord, unchangedReport
  <2>3. SendingInv' /\ SyncTimeMeansBothAccepted'
    BY <1>0, <1>9, SendingUntouched
  <2>4. WholeInv' /\ CachedReportIsWhole'
    BY <1>0, <1>9, <2>1, WholeStays
  <2> QED BY <2>2, <2>3, <2>4 DEF InventoryInv
<1>10. ASSUME NEW r \in Refresher, CollectAll(r)
       PROVE  InventoryInv'
  <2>1. PICK blank \in Unanswered(r) :
          /\ Collected(r, blank)
          /\ refresher' = [refresher EXCEPT ![r] =
                [step |-> "read", sections |-> Section \ blank, at |-> moment',
                 report |-> emptyReport]]
    BY <1>10 DEF CollectAll
  <2>2. /\ moment' \in Moment /\ moment' # 0 /\ osquery' \in [Collector -> Source]
        /\ cutShort' \subseteq Section /\ Excused \subseteq Excused' /\ blank \subseteq Excused'
    BY <1>0, <1>a, <2>1, CollectionFacts
  <2> DEFINE q == [step |-> "read", sections |-> Section \ blank, at |-> moment',
                   report |-> emptyReport]
  <2>3. q \in RefresherRecord
    BY <2>2, InventoryRecords DEF RefresherRecord
  <2>4. RefreshFits(q, Excused')
    BY <2>2 DEF RefreshFits
  <2>5. refresher' = [refresher EXCEPT ![r] = q]
    BY <2>1
  <2>6. UNCHANGED <<page, invCache>> /\ UNCHANGED unchangedReport
    BY <1>10 DEF CollectAll
  <2> HIDE DEF q
  <2> QED BY <1>9, <2>2, <2>3, <2>4, <2>5, <2>6
<1>11. ASSUME NEW r \in Refresher, CollectPart(r)
       PROVE  InventoryInv'
  <2>1. PICK blank \in Unanswered(r) : Collected(r, {})
    BY <1>11 DEF CollectPart
  <2>2. /\ moment' \in Moment /\ moment' # 0 /\ osquery' \in [Collector -> Source]
        /\ cutShort' \subseteq Section /\ Excused \subseteq Excused'
    BY <1>0, <1>a, <2>1, CollectionFacts
  <2>3. PICK m \in Moment : m = moment' /\ m # 0
    BY <2>2
  <2> DEFINE q == [refresher[r] EXCEPT !.step = "collected", !.at = m]
  <2>4. q \in RefresherRecord /\ q.step = "collected" /\ q.at = m
    BY <1>0, InventoryTypes DEF RefresherRecord
  <2>5. refresher' = [refresher EXCEPT ![r] = q]
    BY <1>11, <2>3 DEF CollectPart
  <2>6. UNCHANGED <<page, invCache>> /\ UNCHANGED unchangedReport
    BY <1>11 DEF CollectPart
  <2> HIDE DEF q
  <2>7. RefreshFits(q, Excused')
    BY <2>3, <2>4 DEF RefreshFits
  <2> QED BY <1>9, <2>2, <2>4, <2>5, <2>6, <2>7
<1>12. ASSUME NEW r \in Refresher, CollectionFails(r)
       PROVE  InventoryInv'
  <2>1. /\ osquery' \in [Collector -> Source] /\ moment' = moment /\ cutShort' = cutShort
        /\ refresher' = [refresher EXCEPT ![r] = idleRefresher]
        /\ UNCHANGED <<page, invCache>> /\ UNCHANGED unchangedReport
    BY <1>0, <1>a, <1>12, QueriesTyped DEF CollectionFails, CollectedNothing
  <2>2. idleRefresher \in RefresherRecord /\ RefreshFits(idleRefresher, Excused')
    BY InventoryRecords DEF RefreshFits
  <2>3. moment' \in Moment /\ cutShort' \subseteq Section /\ Excused \subseteq Excused'
    BY <1>0, <1>b, <2>1, InventoryTypes
  <2> QED BY <1>9, <2>1, <2>2, <2>3
<1>13. ASSUME NEW r \in Refresher, ReadCached(r)
       PROVE  InventoryInv'
  <2>1. /\ refresher[r].step = "collected" /\ refresher[r].at # 0
        /\ UNCHANGED <<moment, page, invCache, osquery, cutShort>> /\ UNCHANGED unchangedReport
    BY <1>0, <1>13 DEF ReadCached, WholeInv, unchangedOsquery
  <2>2. moment' \in Moment /\ osquery' \in [Collector -> Source] /\ cutShort' \subseteq Section
        /\ Excused' = Excused
    BY <1>0, <1>b, <2>1, InventoryTypes
  <2>3. CASE invCache.loaded
    <3> DEFINE q == [refresher[r] EXCEPT !.step = "read", !.report = invCache.section]
    <3>1. q \in RefresherRecord /\ q.step = "read" /\ q.report = invCache.section /\ q.at = refresher[r].at
      BY <1>0, InventoryTypes DEF RefresherRecord
    <3>2. refresher' = [refresher EXCEPT ![r] = q]
      BY <1>13, <2>3 DEF ReadCached
    <3> HIDE DEF q
    <3>3. \A s \in Section : invCache.section[s] = 0 => s \in Excused
      BY <1>0, <2>3 DEF CachedReportIsWhole, Excused
    <3>4. RefreshFits(q, Excused')
      BY <2>1, <2>2, <3>1, <3>3 DEF RefreshFits
    <3> QED BY <1>9, <2>1, <2>2, <3>1, <3>2, <3>4
  <2>4. CASE ~invCache.loaded
    <3>1. refresher' = [refresher EXCEPT ![r] = idleRefresher]
      BY <1>13, <2>4 DEF ReadCached
    <3>2. idleRefresher \in RefresherRecord /\ RefreshFits(idleRefresher, Excused')
      BY InventoryRecords DEF RefreshFits
    <3> QED BY <1>9, <2>1, <2>2, <3>1, <3>2
  <2> QED BY <2>3, <2>4
<1>14. ASSUME NEW r \in Refresher, WriteMerged(r)
       PROVE  InventoryInv'
  <2> DEFINE section == [s \in Section |-> IF s \in refresher[r].sections THEN refresher[r].at
                                           ELSE refresher[r].report[s]]
  <2>1. /\ refresher[r].step = "read" /\ invCache' = Cached(section)
        /\ refresher' = [refresher EXCEPT ![r] = idleRefresher]
        /\ UNCHANGED <<moment, page, osquery, cutShort>> /\ UNCHANGED unchangedReport
    BY <1>14 DEF WriteMerged, unchangedOsquery
  <2>2. /\ refresher[r].at \in Moment /\ refresher[r].report \in [Section -> Moment]
        /\ refresher[r].at # 0
        /\ \A s \in Section \ refresher[r].sections :
              refresher[r].report[s] = 0 => s \in Excused
    BY <1>0, <2>1, InventoryTypes DEF WholeInv, RefresherRecord
  <2>3. section \in [Section -> Moment] /\ \A s \in Section : section[s] = 0 => s \in Excused
    BY <2>2
  <2> HIDE DEF section
  <2>4. invCache' \in [loaded : BOOLEAN, section : [Section -> Moment]]
    BY <2>1, <2>3 DEF Cached
  <2>5. refresher' \in [Refresher -> RefresherRecord]
    BY <1>0, <2>1, InventoryTypes, InventoryRecords
  <2>6. InventoryTypeOK'
    BY <1>0, <2>1, <2>4, <2>5 DEF InventoryTypeOK, RefresherRecord, unchangedReport
  <2>7. SendingInv' /\ SyncTimeMeansBothAccepted'
    BY <1>0, <2>1, SendingUntouched
  <2>8. CachedReportIsWhole'
    BY <1>b, <2>1, <2>3, CacheFilled
  <2>9. WholeInv'
    BY <1>0, <1>b, <2>1, InventoryTypes, InventoryRecords DEF WholeInv
  <2> QED BY <2>6, <2>7, <2>8, <2>9 DEF InventoryInv
<1>15. ASSUME NEW r \in Refresher, NEW sections \in PartialRefresh \cup {Section},
              BeginCollection(r, sections)
       PROVE  InventoryInv'
  <2>1. sections \subseteq Section
    BY DEF PartialRefresh, Section
  <2> DEFINE q == [refresher[r] EXCEPT !.step = "collecting", !.sections = sections]
  <2>2. q \in RefresherRecord /\ q.step = "collecting"
    BY <1>0, <2>1, InventoryTypes DEF RefresherRecord
  <2>3. /\ refresher' = [refresher EXCEPT ![r] = q]
        /\ UNCHANGED <<moment, page, invCache, cutShort>> /\ UNCHANGED unchangedReport
        /\ BeginQueries(r)
    BY <1>15 DEF BeginCollection
  <2> HIDE DEF q
  <2>4. /\ moment' \in Moment /\ osquery' \in [Collector -> Source] /\ cutShort' \subseteq Section
        /\ Excused' = Excused
    BY <1>0, <1>a, <1>b, <2>3, InventoryTypes, QueriesTyped
  <2>5. RefreshFits(q, Excused')
    BY <2>2 DEF RefreshFits
  <2> QED BY <1>9, <2>2, <2>3, <2>4, <2>5
<1>16. ASSUME NEW c \in Collector, OsquerydFails(c)
       PROVE  InventoryInv'
  <2>1. /\ osquery' \in [Collector -> Source]
        /\ UNCHANGED <<moment, page, cutShort, invCache, refresher>> /\ UNCHANGED unchangedReport
    BY <1>0, <1>16, QueriesTyped DEF OsquerydFails, unchangedCache
  <2>2. InventoryTypeOK'
    BY <1>0, <2>1 DEF InventoryTypeOK, unchangedReport
  <2>3. SendingInv' /\ SyncTimeMeansBothAccepted'
    BY <1>0, <2>1, SendingUntouched
  <2>4. WholeInv' /\ CachedReportIsWhole'
    BY <1>0, <1>b, <2>1, WholeStays
  <2> QED BY <2>2, <2>3, <2>4 DEF InventoryInv
<1>17. CASE ClearCache
  <2>1. /\ invCache' = emptyCache
        /\ UNCHANGED <<moment, page, refresher, osquery, cutShort>> /\ UNCHANGED unchangedReport
    BY <1>17 DEF ClearCache, unchangedOsquery
  <2>2. InventoryTypeOK'
    BY <1>0, <2>1, InventoryRecords DEF InventoryTypeOK, unchangedReport
  <2>3. SendingInv' /\ SyncTimeMeansBothAccepted'
    BY <1>0, <2>1, SendingUntouched
  <2>4. WholeInv' /\ CachedReportIsWhole'
    BY <1>0, <1>b, <2>1, InventoryRecords DEF WholeInv, CachedReportIsWhole
  <2> QED BY <2>2, <2>3, <2>4 DEF InventoryInv
<1>18. CASE UNCHANGED inventoryVars
  <2>1. InventoryTypeOK'
    BY <1>0, <1>18 DEF inventoryVars, InventoryTypeOK
  <2>2. SendingInv' /\ SyncTimeMeansBothAccepted' /\ WholeInv' /\ CachedReportIsWhole'
    BY <1>0, <1>18 DEF inventoryVars, SendingInv, SyncTimeMeansBothAccepted, WholeInv,
       CachedReportIsWhole, Excused
  <2> QED BY <2>1, <2>2 DEF InventoryInv
<1> QED BY <1>1, <1>2, <1>3, <1>4, <1>5, <1>6, <1>7, <1>8, <1>10, <1>11, <1>12, <1>13, <1>14,
           <1>15, <1>16, <1>17, <1>18 DEF NextInventory

\* The invariant is inductive, whatever the number of the collections and of the refreshes.
THEOREM InventoryInvariant == InventorySpec => []InventoryInv
  BY InventoryInit, InventoryStep, PTL DEF InventorySpec

\* What the database calls reported was accepted in both its parts, and no refresh, and no
\* clearing of the cache, makes a report of its sections alone.
THEOREM InventoryIsWhole == InventorySpec => []ReportsAreWhole
<1>1. InventoryInv => ReportsAreWhole
  BY DEF InventoryInv, ReportsAreWhole
<1> QED BY <1>1, InventoryInvariant, PTL

-----------------------------------------------------------------------------
(* ArtifactDownload: the file that the pulls of several make.              *)

ArtifactSpec == InitArtifact /\ [][NextArtifact]_artifactVars

Block == {NewLine} \cup Issue
Published == {NoFile, <<>>} \cup {Whole(v) : v \in Issue}
PullRecord ==
    [at : {"idle", "access", "copy", "check", "chunks", "rename"}, from : SUBSET Peer,
     checksum : File, data : Seq(Block), got : [Chunk -> {"wait", "kept", "bad"}],
     errors : [Peer -> Nat]]

\* What the agents have under the name of the artifact was published, and so was what a
\* peer has announced a checksum of.
PublishedInv ==
    /\ \A p \in Peer : served[p] \in Published
    /\ \A w \in Pull : pull[w].checksum \in Published

\* The ".partial" is there while a pull has it open.
OpenInv == \A w \in Pull : pull[w].at = "copy" => partial # NoFile

\* Between the check and the renaming it is what was checked, or gone, unless another pull
\* wrote to it.
CheckedInv ==
    overwritten \/ \A w \in Pull : pull[w].at = "rename" => partial \in {NoFile, pull[w].checksum}

ArtifactInv == /\ ArtifactTypeOK /\ pull \in [Pull -> PullRecord]
               /\ PublishedInv /\ OpenInv /\ CheckedInv /\ ArtifactIsWhole

LEMMA FileFacts ==
  /\ Published \subseteq File /\ NoFile \in Published /\ <<>> \in Published
  /\ \A v \in Issue : Whole(v) \in Published
  /\ \A f \in File : f # NoFile => f \in Seq(Block)
  /\ Seq(Block) \subseteq File
  /\ NoPull \in PullRecord /\ NoPull.at = "idle" /\ NoPull.checksum = NoFile
<1>1. \A v \in Issue : Whole(v) \in Seq(Block)
  <2>1. SUFFICES ASSUME NEW v \in Issue PROVE Whole(v) \in Seq(Block)
    OBVIOUS
  <2>2. Whole(v) = <<v, v>>
    BY DEF Whole, Chunk
  <2>3. v \in Block
    BY DEF Block
  <2> QED BY <2>2, <2>3
<1>2. Seq(Block) \subseteq File /\ \A f \in File : f # NoFile => f \in Seq(Block)
  BY DEF File, Block
<1>3. NoFile \in File
  BY DEF File
<1>4. Published \subseteq File
  <2>1. <<>> \in Seq(Block)
    OBVIOUS
  <2> QED BY <1>1, <1>2, <1>3, <2>1 DEF Published
<1>5. NoPull \in PullRecord /\ NoPull.at = "idle" /\ NoPull.checksum = NoFile
  BY <1>3 DEF NoPull, PullRecord
<1> QED BY <1>1, <1>2, <1>4, <1>5 DEF Published

LEMMA ArtifactTypes ==
  ASSUME ArtifactTypeOK, pull \in [Pull -> PullRecord]
  PROVE  /\ \A w \in Pull : pull[w] \in PullRecord
         /\ \A w \in Pull : /\ pull[w].data \in Seq(Block) /\ pull[w].from \subseteq Peer
                            /\ pull[w].checksum \in File
                            /\ pull[w].errors \in [Peer -> Nat]
                            /\ pull[w].got \in [Chunk -> {"wait", "kept", "bad"}]
         /\ served \in [Peer -> File] /\ own \in File /\ partial \in File
         /\ chunkFile \in [Chunk -> File] /\ overwritten \in BOOLEAN
<1>1. \A w \in Pull : pull[w] \in PullRecord
  OBVIOUS
<1>2. \A w \in Pull : /\ pull[w].data \in Seq(Block) /\ pull[w].from \subseteq Peer
                      /\ pull[w].checksum \in File
                      /\ pull[w].errors \in [Peer -> Nat]
                      /\ pull[w].got \in [Chunk -> {"wait", "kept", "bad"}]
  BY <1>1 DEF PullRecord
<1> QED BY <1>1, <1>2 DEF ArtifactTypeOK

\* A pull that is well formed, among the rest.
LEMMA PullTypes ==
  ASSUME pull \in [Pull -> PullRecord],
         served \in [Peer -> File], own \in File, partial \in File,
         chunkFile \in [Chunk -> File], overwritten \in BOOLEAN, changes \in 0 .. MaxChanges
  PROVE  ArtifactTypeOK
<1>1. \A w \in Pull :
          /\ pull[w].at \in {"idle", "access", "copy", "check", "chunks", "rename"}
          /\ pull[w].from \subseteq Peer
          /\ pull[w].checksum \in File
          /\ pull[w].got \in [Chunk -> {"wait", "kept", "bad"}]
  BY DEF PullRecord
<1> QED BY <1>1 DEF ArtifactTypeOK

LEMMA ArtifactInit == InitArtifact => ArtifactInv
<1> SUFFICES ASSUME InitArtifact PROVE ArtifactInv
  OBVIOUS
<1>1. /\ served = [p \in Peer |-> Whole(1)] /\ own = NoFile /\ partial = NoFile
      /\ chunkFile = [c \in Chunk |-> NoFile] /\ pull = [w \in Pull |-> NoPull] /\ changes = 0
  BY DEF InitArtifact
<1>2. overwritten \in BOOLEAN
  BY DEF InitArtifact
<1>3. 1 \in Issue
  BY ArtifactAssumption DEF Issue
<1>4. pull \in [Pull -> PullRecord] /\ \A w \in Pull : pull[w] = NoPull
  BY <1>1, FileFacts
<1>5. ArtifactTypeOK
  BY <1>1, <1>2, <1>3, <1>4, FileFacts, ArtifactAssumption, PullTypes
<1>6. PublishedInv /\ OpenInv /\ CheckedInv
  BY <1>1, <1>3, <1>4, FileFacts DEF PublishedInv, OpenInv, CheckedInv
<1>7. ArtifactIsWhole
  BY <1>1 DEF ArtifactIsWhole
<1> QED BY <1>4, <1>5, <1>6, <1>7 DEF ArtifactInv

LEMMA Cut ==
  ASSUME NEW S, NEW s \in Seq(S), NEW m \in Nat \ {0}, NEW n \in Nat, n <= Len(s)
  PROVE  SubSeq(s, m, n) \in Seq(S)
  OBVIOUS

LEMMA Joined ==
  ASSUME NEW S, NEW s \in Seq(S), NEW t \in Seq(S)
  PROVE  s \o t \in Seq(S) /\ Len(s \o t) = Len(s) + Len(t) /\ Len(s) \in Nat /\ Len(t) \in Nat
  OBVIOUS

\* What is taken for a range is made of blocks, whatever was read ahead.
LEMMA ReceivedIsBlocks ==
  ASSUME NEW range \in Seq(Block), NEW data \in Received(range)
  PROVE  data \in Seq(Block)
<1>1. CASE data = range
  BY <1>1
<1>2. CASE \E r \in ReadAheads(range) : data = AfterHeader(range, r[1], r[2])
  <2>1. PICK r \in (0..Len(range) + 1) \X (0..Len(range) + 1) :
           r[1] + r[2] <= Len(range) + 1 /\ data = AfterHeader(range, r[1], r[2])
    BY <1>2 DEF ReadAheads
  <2>2. PICK stream : stream = OnStream(range)
    OBVIOUS
  <2>3. stream \in Seq(Block) /\ Len(stream) = Len(range) + 1 /\ Len(range) \in Nat
    <3>1. <<NewLine>> \in Seq(Block) /\ Len(<<NewLine>>) = 1
      BY DEF Block
    <3> QED BY <2>2, <3>1, Joined DEF OnStream
  <2>4. r[1] \in Nat /\ r[2] \in Nat /\ r[1] <= Len(stream)
    BY <2>1, <2>3
  <2>5. SubSeq(stream, 1, r[1]) \in Seq(Block)
    BY <2>3, <2>4, Cut
  <2>6. SubSeq(stream, r[1] + r[2] + 1, Len(stream)) \in Seq(Block)
    <3>1. r[1] + r[2] + 1 \in Nat \ {0} /\ Len(stream) \in Nat
      BY <2>3, <2>4
    <3> QED BY <2>3, <3>1, Cut
  <2>7. data = SubSeq(stream, 1, r[1]) \o SubSeq(stream, r[1] + r[2] + 1, Len(stream))
    BY <2>1, <2>2 DEF AfterHeader
  <2> QED BY <2>5, <2>6, <2>7, Joined
<1> QED BY <1>1, <1>2 DEF Received

LEMMA OverIsBlocks ==
  ASSUME NEW data \in Seq(Block), NEW file \in Seq(Block), NEW n \in 0 .. Len(data)
  PROVE  Over(SubSeq(data, 1, n), file) \in Seq(Block)
<1>1. SubSeq(data, 1, n) \in Seq(Block)
  BY Cut
<1>2. PICK s \in Seq(Block) : s = SubSeq(data, 1, n)
  BY <1>1
<1>3. Len(s) + 1 \in Nat \ {0} /\ Len(file) \in Nat
  OBVIOUS
<1>4. SubSeq(file, Len(s) + 1, Len(file)) \in Seq(Block)
  BY <1>3, Cut
<1> QED BY <1>2, <1>4, Joined DEF Over

LEMMA RangeIsBlocks ==
  ASSUME NEW file \in File, NEW c \in Chunk
  PROVE  RangeOf(file, c) \in Seq(Block)
<1>1. CASE file # NoFile /\ c <= Len(file)
  <2>1. file \in Seq(Block) /\ c \in Nat \ {0}
    BY <1>1, FileFacts DEF Chunk
  <2>2. file[c] \in Block
    BY <1>1, <2>1
  <2> QED BY <1>1, <2>2 DEF RangeOf
<1>2. CASE ~(file # NoFile /\ c <= Len(file))
  <2>1. RangeOf(file, c) = <<>> /\ <<>> \in Seq(Block)
    BY <1>2 DEF RangeOf
  <2> QED BY <2>1
<1> QED BY <1>1, <1>2

LEMMA AssembledIsBlocks ==
  ASSUME chunkFile \in [Chunk -> File]
  PROVE  Assembled \in Seq(Block)
<1>0. 1 \in Chunk /\ 2 \in Chunk
  BY DEF Chunk
<1>1. CASE chunkFile[1] = NoFile
  BY <1>1 DEF Assembled
<1>2. CASE chunkFile[1] # NoFile /\ chunkFile[2] = NoFile
  BY <1>0, <1>2, FileFacts DEF Assembled
<1>3. CASE chunkFile[1] # NoFile /\ chunkFile[2] # NoFile
  <2>1. chunkFile[1] \in Seq(Block) /\ chunkFile[2] \in Seq(Block)
    BY <1>0, <1>3, FileFacts
  <2> QED BY <1>3, <2>1, Joined DEF Assembled
<1> QED BY <1>1, <1>2, <1>3

\* A file that is not there is none of blocks.
LEMMA BlocksAreThere == \A f \in Seq(Block) : f # NoFile
<1>1. SUFFICES ASSUME NEW f \in Seq(Block), f = NoFile PROVE FALSE
  OBVIOUS
<1>2. Len(f) = 1 /\ f[1] = MaxIssues + 1
  BY <1>1 DEF NoFile
<1>3. MaxIssues + 1 \in Block
  <2>1. \A i \in 1 .. Len(f) : f[i] \in Block
    OBVIOUS
  <2>2. 1 \in 1 .. Len(f)
    BY <1>2
  <2> QED BY <1>2, <2>1, <2>2
<1> QED BY <1>3, ArtifactAssumption DEF Block, NewLine, Issue

\* A step of the pull w that leaves the neighbours alone: whom else it may disturb.
LEMMA PullStep ==
  ASSUME ArtifactInv, NEW w \in Pull, NEW q \in PullRecord, pull' = [pull EXCEPT ![w] = q],
         q.checksum \in Published,
         served' = served, changes' = changes,
         own' = own \/ own' \in Published \/ (own' \in File /\ overwritten),
         partial' \in File, chunkFile' \in [Chunk -> File],
         overwritten' \in BOOLEAN, overwritten => overwritten',
         partial' = NoFile => q.at # "copy" /\ ~OpenElsewhere(w),
         \/ overwritten' \/ partial' \in {NoFile, partial}
         \/ \A u \in Pull \ {w} : pull[u].at # "rename",
         q.at = "rename" => overwritten' \/ partial' \in {NoFile, q.checksum}
  PROVE  ArtifactInv'
<1>0. /\ ArtifactTypeOK /\ pull \in [Pull -> PullRecord]
      /\ PublishedInv /\ OpenInv /\ CheckedInv /\ ArtifactIsWhole
  BY DEF ArtifactInv
<1>1. /\ pull' \in [Pull -> PullRecord] /\ pull'[w] = q
      /\ \A u \in Pull : u # w => pull'[u] = pull[u]
  BY <1>0
<1>2. own' \in File /\ served' \in [Peer -> File] /\ changes' \in 0 .. MaxChanges
  BY <1>0, FileFacts, ArtifactTypes DEF ArtifactTypeOK
<1>3. ArtifactTypeOK'
  <2>1. \A u \in Pull :
          /\ pull'[u].at \in {"idle", "access", "copy", "check", "chunks", "rename"}
          /\ pull'[u].from \subseteq Peer
          /\ pull'[u].checksum \in File
          /\ pull'[u].got \in [Chunk -> {"wait", "kept", "bad"}]
    BY <1>1 DEF PullRecord
  <2> QED BY <1>2, <2>1 DEF ArtifactTypeOK
<1>4. PublishedInv'
  BY <1>0, <1>1 DEF PublishedInv
<1>5. OpenInv'
  BY <1>0, <1>1 DEF OpenInv, OpenElsewhere
<1>6. CheckedInv'
  <2>1. SUFFICES ASSUME ~overwritten', NEW u \in Pull, pull'[u].at = "rename"
                 PROVE  partial' \in {NoFile, pull'[u].checksum}
    BY DEF CheckedInv
  <2>2. CASE u = w
    BY <1>1, <2>1, <2>2
  <2>3. CASE u # w
    <3>1. pull[u].at = "rename" /\ pull'[u] = pull[u] /\ partial' \in {NoFile, partial}
      BY <1>1, <2>1, <2>3
    <3>2. partial \in {NoFile, pull[u].checksum}
      BY <1>0, <2>1, <3>1 DEF CheckedInv
    <3> QED BY <3>1, <3>2
  <2> QED BY <2>2, <2>3
<1>7. ArtifactIsWhole'
  <2>1. own \in Published \/ overwritten
    BY <1>0 DEF ArtifactIsWhole, Published
  <2>2. own' \in Published \/ overwritten'
    BY <2>1
  <2> QED BY <2>2 DEF ArtifactIsWhole, Published
<1> QED BY <1>1, <1>3, <1>4, <1>5, <1>6, <1>7 DEF ArtifactInv

\* A pull that ends leaves the ".partial", or removes it where nobody has it open.
LEMMA PullLeaves ==
  ASSUME ArtifactInv, NEW w \in Pull, PullEnds(w),
         (partial' = partial /\ pull[w].at # "copy") \/ RemovePartial(w),
         UNCHANGED <<served, own, chunkFile, overwritten, changes>>
  PROVE  ArtifactInv'
<1>1. NoPull \in PullRecord /\ NoPull.at = "idle" /\ NoPull.checksum \in Published
  BY FileFacts
<1>2. pull' = [pull EXCEPT ![w] = NoPull]
  BY DEF PullEnds
<1>3. /\ partial' \in {NoFile, partial}
      /\ partial' \in File /\ chunkFile' \in [Chunk -> File] /\ overwritten' \in BOOLEAN
  BY FileFacts, ArtifactTypes DEF RemovePartial, ArtifactInv, ArtifactTypeOK
<1>4. partial' = NoFile => ~OpenElsewhere(w)
  <2>1. OpenElsewhere(w) => partial # NoFile
    BY DEF OpenElsewhere, ArtifactInv, OpenInv
  <2> QED BY <2>1 DEF RemovePartial
<1> QED BY <1>1, <1>2, <1>3, <1>4, PullStep

\* Who writes to the ".partial" owns up to it.
LEMMA WritingIsNoted ==
  ASSUME ArtifactInv, NEW w \in Pull, NoteWriting(w)
  PROVE  /\ overwritten' \in BOOLEAN /\ (overwritten => overwritten')
         /\ overwritten' \/ \A u \in Pull \ {w} : pull[u].at # "rename"
<1>1. PICK other \in BOOLEAN : other = \E u \in Pull \ {w} : pull[u].at = "rename"
  OBVIOUS
<1>2. overwritten \in BOOLEAN
  BY DEF ArtifactInv, ArtifactTypeOK
<1>3. overwritten' = (overwritten \/ other)
  BY <1>1 DEF NoteWriting
<1> QED BY <1>1, <1>2, <1>3

LEMMA ArtifactStep == ArtifactInv /\ [NextArtifact]_artifactVars => ArtifactInv'
<1> SUFFICES ASSUME ArtifactInv, [NextArtifact]_artifactVars PROVE ArtifactInv'
  OBVIOUS
<1>0. /\ ArtifactTypeOK /\ pull \in [Pull -> PullRecord]
      /\ PublishedInv /\ OpenInv /\ CheckedInv /\ ArtifactIsWhole
  BY DEF ArtifactInv
<1>a. /\ \A w \in Pull : pull[w] \in PullRecord /\ pull[w].checksum \in Published
      /\ partial \in File /\ chunkFile \in [Chunk -> File] /\ overwritten \in BOOLEAN
  BY <1>0, ArtifactTypes DEF PublishedInv
<1>b. ASSUME NEW w \in Pull PROVE OpenElsewhere(w) => partial # NoFile
  BY <1>0 DEF OpenElsewhere, OpenInv
<1>1. ASSUME NEW w \in Pull, NEW p \in Peer, RequestAccess(w, p)
      PROVE  ArtifactInv'
  <2> DEFINE q == [NoPull EXCEPT !.at = "access", !.from = {p}, !.checksum = served[p]]
  <2>1. served[p] \in Published
    BY <1>0 DEF PublishedInv
  <2>2. q \in PullRecord /\ q.at = "access" /\ q.checksum = served[p]
    BY <2>1, FileFacts DEF PullRecord
  <2>3. pull' = [pull EXCEPT ![w] = q] /\ UNCHANGED <<served, own, partial, chunkFile, overwritten, changes>>
    BY <1>1 DEF RequestAccess
  <2> HIDE DEF q
  <2> QED BY <1>a, <1>b, <2>1, <2>2, <2>3, PullStep
<1>2. ASSUME NEW w \in Pull, GetWhole(w)
      PROVE  ArtifactInv'
  <2>1. PICK p \in pull[w].from :
          IF served[p] \in {NoFile, <<>>}
          THEN PullEnds(w) /\ UNCHANGED <<partial, overwritten>>
          ELSE /\ \E data \in Received(served[p]) :
                     pull' = [pull EXCEPT ![w].at = "copy", ![w].from = {}, ![w].data = data]
               /\ partial' = <<>>
               /\ NoteWriting(w)
    BY <1>2 DEF GetWhole
  <2>2. pull[w].at = "access" /\ UNCHANGED <<served, own, chunkFile, changes>>
    BY <1>2 DEF GetWhole
  <2>3. CASE served[p] \in {NoFile, <<>>}
    BY <2>1, <2>2, <2>3, PullLeaves
  <2>4. CASE served[p] \notin {NoFile, <<>>}
    <3>1. served[p] \in Seq(Block)
      BY <1>0, <2>4, FileFacts, ArtifactTypes
    <3>2. PICK data \in Received(served[p]) :
             pull' = [pull EXCEPT ![w].at = "copy", ![w].from = {}, ![w].data = data]
      BY <2>1, <2>4
    <3>3. data \in Seq(Block)
      BY <3>1, ReceivedIsBlocks
    <3> DEFINE q == [pull[w] EXCEPT !.at = "copy", !.from = {}, !.data = data]
    <3>4. q \in PullRecord /\ q.at = "copy" /\ q.checksum = pull[w].checksum
      BY <1>a, <3>3 DEF PullRecord
    <3>5. pull' = [pull EXCEPT ![w] = q]
      BY <3>2
    <3> HIDE DEF q
    <3>6. partial' = <<>> /\ NoteWriting(w)
      BY <2>1, <2>4
    <3>7. partial' \in Seq(Block) /\ partial' \in File /\ partial' # NoFile
      <4>1. partial' \in Seq(Block)
        BY <3>6
      <4> QED BY <4>1, BlocksAreThere, FileFacts
    <3> QED BY <1>a, <2>2, <3>4, <3>5, <3>6, <3>7, WritingIsNoted, PullStep
  <2> QED BY <2>3, <2>4
<1>3. ASSUME NEW w \in Pull, CopyAnswer(w)
      PROVE  ArtifactInv'
  <2>1. pull[w].at = "copy" /\ UNCHANGED <<served, own, chunkFile, changes>>
    BY <1>3 DEF CopyAnswer
  <2>2. CASE RemovePartial(w) /\ PullEnds(w) /\ UNCHANGED overwritten
    BY <2>1, <2>2, PullLeaves
  <2>3. CASE /\ \E n \in 0..Len(pull[w].data) :
                  partial' = Over(SubSeq(pull[w].data, 1, n), partial)
             /\ pull' = [pull EXCEPT ![w].at = "check", ![w].data = <<>>]
             /\ NoteWriting(w)
    <3>1. PICK n \in 0..Len(pull[w].data) : partial' = Over(SubSeq(pull[w].data, 1, n), partial)
      BY <2>3
    <3>2. partial \in Seq(Block) /\ pull[w].data \in Seq(Block)
      BY <1>0, <2>1, FileFacts, ArtifactTypes DEF OpenInv
    <3>3. partial' \in Seq(Block)
      BY <3>1, <3>2, OverIsBlocks
    <3>4. partial' \in File /\ partial' # NoFile
      BY <3>3, BlocksAreThere, FileFacts
    <3> DEFINE q == [pull[w] EXCEPT !.at = "check", !.data = <<>>]
    <3>5. <<>> \in Seq(Block)
      OBVIOUS
    <3>6. q \in PullRecord /\ q.at = "check" /\ q.checksum = pull[w].checksum
      BY <1>a, <3>5 DEF PullRecord
    <3>7. pull' = [pull EXCEPT ![w] = q]
      BY <2>3
    <3> HIDE DEF q
    <3> QED BY <1>a, <2>1, <2>3, <3>4, <3>6, <3>7, WritingIsNoted, PullStep
  <2> QED BY <1>3, <2>2, <2>3 DEF CopyAnswer
<1>4. ASSUME NEW w \in Pull, ChecksumPull(w)
      PROVE  ArtifactInv'
  <2>1. pull[w].at = "check" /\ UNCHANGED <<served, own, chunkFile, overwritten, changes>>
    BY <1>4 DEF ChecksumPull
  <2>2. CASE partial = pull[w].checksum
    <3> DEFINE q == [pull[w] EXCEPT !.at = "rename"]
    <3>1. q \in PullRecord /\ q.at = "rename" /\ q.checksum = pull[w].checksum
      BY <1>a DEF PullRecord
    <3>2. pull' = [pull EXCEPT ![w] = q] /\ partial' = partial
      BY <1>4, <2>2 DEF ChecksumPull
    <3> HIDE DEF q
    <3> QED BY <1>a, <1>b, <2>1, <2>2, <3>1, <3>2, PullStep
  <2>3. CASE partial # pull[w].checksum
    BY <1>4, <2>1, <2>3, PullLeaves DEF ChecksumPull
  <2> QED BY <2>2, <2>3
<1>5. ASSUME NEW w \in Pull, RenamePartial(w)
      PROVE  ArtifactInv'
  <2>1. pull[w].at = "rename" /\ PullEnds(w) /\ UNCHANGED <<served, overwritten, changes>>
    BY <1>5 DEF RenamePartial
  <2>2. CASE partial # NoFile /\ ~OpenElsewhere(w)
    <3>1. /\ own' = partial /\ partial' = NoFile
          /\ chunkFile' = IF \E c \in Chunk : pull[w].got[c] = "kept"
                          THEN [c \in Chunk |-> NoFile] ELSE chunkFile
      BY <1>5, <2>2 DEF RenamePartial
    <3>2. chunkFile' \in [Chunk -> File]
      BY <1>a, <3>1, FileFacts
    <3>3. partial \in Published \/ overwritten
      BY <1>0, <1>a, <2>1, <2>2 DEF CheckedInv
    <3>4. pull' = [pull EXCEPT ![w] = NoPull]
      BY <2>1 DEF PullEnds
    <3>5. NoPull \in PullRecord /\ NoPull.at = "idle" /\ NoPull.checksum \in Published /\ NoFile \in File
      BY FileFacts
    <3> QED BY <1>a, <2>1, <2>2, <3>1, <3>2, <3>3, <3>4, <3>5, PullStep
  <2>3. CASE ~(partial # NoFile /\ ~OpenElsewhere(w))
    <3>1. RemovePartial(w) /\ UNCHANGED <<own, chunkFile>>
      BY <1>5, <2>3 DEF RenamePartial
    <3> QED BY <2>1, <3>1, PullLeaves
  <2> QED BY <2>2, <2>3
<1>6. ASSUME NEW w \in Pull, FetchManifest(w)
      PROVE  ArtifactInv'
  <2>1. PICK from \in SUBSET Peer, first \in Peer :
          pull' = [pull EXCEPT ![w] = [NoPull EXCEPT !.at = "chunks", !.from = from,
                                                     !.checksum = served[first]]]
    BY <1>6 DEF FetchManifest
  <2> DEFINE q == [NoPull EXCEPT !.at = "chunks", !.from = from, !.checksum = served[first]]
  <2>2. served[first] \in Published
    BY <1>0 DEF PublishedInv
  <2>3. q \in PullRecord /\ q.at = "chunks" /\ q.checksum = served[first]
    BY <2>2, FileFacts DEF PullRecord
  <2>4. pull' = [pull EXCEPT ![w] = q] /\ UNCHANGED <<served, own, partial, chunkFile, overwritten, changes>>
    BY <1>6, <2>1 DEF FetchManifest
  <2> HIDE DEF q
  <2> QED BY <1>a, <1>b, <2>2, <2>3, <2>4, PullStep
<1>7. ASSUME NEW w \in Pull, NEW c \in Chunk, GetChunk(w, c)
      PROVE  ArtifactInv'
  <2>1. pull[w].at = "chunks" /\ UNCHANGED <<served, own, partial, overwritten, changes>>
    BY <1>7 DEF GetChunk
  <2>2. RangeOf(pull[w].checksum, c) \in File
    BY <1>0, ArtifactTypes, RangeIsBlocks, FileFacts
  <2>3. ASSUME pull' = [pull EXCEPT ![w].got[c] = "kept"],
               chunkFile' = chunkFile \/ chunkFile' = [chunkFile EXCEPT ![c] = RangeOf(pull[w].checksum, c)]
        PROVE  ArtifactInv'
    <3> DEFINE q == [pull[w] EXCEPT !.got[c] = "kept"]
    <3>1. q \in PullRecord /\ q.at = "chunks" /\ q.checksum = pull[w].checksum
      BY <1>a, <2>1 DEF PullRecord
    <3>2. pull' = [pull EXCEPT ![w] = q]
      BY <2>3
    <3>3. chunkFile' \in [Chunk -> File]
      BY <1>a, <2>2, <2>3
    <3> HIDE DEF q
    <3> QED BY <1>a, <1>b, <2>1, <3>1, <3>2, <3>3, PullStep
  <2>4. ASSUME NEW p \in Peer, chunkFile' = chunkFile,
               pull' = [pull EXCEPT ![w].got[c] = "bad", ![w].errors[p] = @ + 1]
        PROVE  ArtifactInv'
    <3>1. PICK n \in Nat : n = pull[w].errors[p] + 1
      BY <1>0, ArtifactTypes
    <3> DEFINE q == [pull[w] EXCEPT !.got[c] = "bad", !.errors[p] = n]
    <3>2. q \in PullRecord /\ q.at = "chunks" /\ q.checksum = pull[w].checksum
      BY <1>a, <2>1 DEF PullRecord
    <3>3. pull' = [pull EXCEPT ![w] = q]
      BY <2>4, <3>1
    <3> HIDE DEF q
    <3> QED BY <1>a, <1>b, <2>1, <2>4, <3>2, <3>3, PullStep
  <2>5. CASE chunkFile[c] = RangeOf(pull[w].checksum, c)
    BY <1>7, <2>3, <2>5 DEF GetChunk
  <2>6. CASE chunkFile[c] # RangeOf(pull[w].checksum, c)
    <3>1. PICK p \in BestPeers(w) : \E answer \in ChunkAnswers(p, c) :
               IF answer = RangeOf(pull[w].checksum, c)
               THEN /\ chunkFile' = [chunkFile EXCEPT ![c] = answer]
                    /\ pull' = [pull EXCEPT ![w].got[c] = "kept"]
               ELSE /\ pull' = [pull EXCEPT ![w].got[c] = "bad", ![w].errors[p] = @ + 1]
                    /\ UNCHANGED chunkFile
      BY <1>7, <2>6 DEF GetChunk
    <3>2. p \in Peer
      BY <1>0, ArtifactTypes DEF BestPeers
    <3> QED BY <2>3, <2>4, <3>1, <3>2
  <2> QED BY <2>5, <2>6
<1>8. ASSUME NEW w \in Pull, AssembleChunks(w)
      PROVE  ArtifactInv'
  <2>1. pull[w].at = "chunks" /\ UNCHANGED <<served, own, chunkFile, changes>>
    BY <1>8 DEF AssembleChunks
  <2>2. CASE \E c \in Chunk : pull[w].got[c] = "bad"
    <3>1. PullEnds(w) /\ UNCHANGED <<partial, overwritten>>
      BY <1>8, <2>2 DEF AssembleChunks
    <3> QED BY <2>1, <3>1, PullLeaves
  <2>3. CASE ~\E c \in Chunk : pull[w].got[c] = "bad"
    <3>1. NoteWriting(w)
      BY <1>8, <2>3 DEF AssembleChunks
    <3>2. Assembled \in Seq(Block) /\ Assembled \in File /\ Assembled # NoFile
      BY <1>a, AssembledIsBlocks, BlocksAreThere, FileFacts
    <3>3. CASE Assembled = pull[w].checksum
      <4> DEFINE q == [pull[w] EXCEPT !.at = "rename", !.from = {}, !.errors = NoPull.errors]
      <4>1. NoPull.errors \in [Peer -> Nat]
        BY DEF NoPull
      <4>2. q \in PullRecord /\ q.at = "rename" /\ q.checksum = pull[w].checksum
        BY <1>a, <4>1 DEF PullRecord
      <4>3. pull' = [pull EXCEPT ![w] = q] /\ partial' = pull[w].checksum
        BY <1>8, <2>3, <3>3 DEF AssembleChunks
      <4> HIDE DEF q
      <4> QED BY <1>a, <2>1, <3>1, <3>2, <3>3, <4>2, <4>3, WritingIsNoted, PullStep
    <3>4. CASE Assembled # pull[w].checksum
      <4>1. pull' = [pull EXCEPT ![w] = NoPull]
            /\ partial' = IF OpenElsewhere(w) THEN Assembled ELSE NoFile
        BY <1>8, <2>3, <3>4 DEF AssembleChunks, PullEnds
      <4>2. NoPull \in PullRecord /\ NoPull.at = "idle" /\ NoPull.checksum \in Published /\ NoFile \in File
        BY FileFacts
      <4> QED BY <1>a, <2>1, <3>1, <3>2, <4>1, <4>2, WritingIsNoted, PullStep
    <3> QED BY <3>3, <3>4
  <2> QED BY <2>2, <2>3
\* What the users, the neighbours and the clean-up do leaves the pulls alone.
<1>9. ASSUME pull' = pull, overwritten' = overwritten, chunkFile' = chunkFile,
             changes' \in 0 .. MaxChanges, own' = own \/ own' \in Published,
             \/ partial' = partial
             \/ partial' = NoFile /\ \A w \in Pull : pull[w].at # "copy",
             served' \in [Peer -> Published]
      PROVE  ArtifactInv'
  <2>1. own' \in File /\ partial' \in File /\ served' \in [Peer -> File]
    BY <1>0, <1>9, FileFacts, ArtifactTypes
  <2>2. ArtifactTypeOK'
    BY <1>0, <1>9, <2>1 DEF ArtifactTypeOK
  <2>3. PublishedInv' /\ OpenInv' /\ CheckedInv'
    BY <1>0, <1>9 DEF PublishedInv, OpenInv, CheckedInv
  <2>4. ArtifactIsWhole'
    BY <1>0, <1>9 DEF ArtifactIsWhole, Published
  <2> QED BY <1>0, <1>9, <2>2, <2>3, <2>4 DEF ArtifactInv
<1>c. /\ changes \in 0 .. MaxChanges /\ served \in [Peer -> Published]
      /\ Change => changes' \in 0 .. MaxChanges
  BY <1>0, ArtifactAssumption DEF ArtifactTypeOK, PublishedInv, Change
<1>10. ASSUME NEW v \in Issue, PublishFile(v) \/ PublishTestArtifact(v)
       PROVE  ArtifactInv'
  <2>1. UNCHANGED <<served, partial, chunkFile, pull, overwritten>>
    BY <1>10 DEF PublishFile, PublishTestArtifact
  <2>2. own' \in Published /\ changes' \in 0 .. MaxChanges
    BY <1>10, <1>c, FileFacts DEF PublishFile, PublishTestArtifact
  <2> QED BY <1>9, <1>c, <2>1, <2>2
<1>11. ASSUME NEW p \in Peer, PeerLosesFile(p) \/ \E v \in Issue : PeerPublishes(p, v)
       PROVE  ArtifactInv'
  <2>1. UNCHANGED <<own, partial, chunkFile, pull, overwritten>> /\ changes' \in 0 .. MaxChanges
    BY <1>11, <1>c DEF PeerLosesFile, PeerPublishes
  <2>2. \E f \in Published : served' = [served EXCEPT ![p] = f]
    BY <1>11, FileFacts DEF PeerLosesFile, PeerPublishes
  <2>3. served' \in [Peer -> Published]
    BY <1>c, <2>2
  <2> QED BY <1>9, <2>1, <2>3
<1>12. CASE CleanUpExpired
  <2>1. UNCHANGED <<served, chunkFile, pull, overwritten>> /\ changes' \in 0 .. MaxChanges
    BY <1>12, <1>c DEF CleanUpExpired
  <2>2. CASE own' = NoFile /\ UNCHANGED partial
    BY <1>9, <1>c, <2>1, <2>2, FileFacts
  <2>3. CASE (\A w \in Pull : pull[w].at # "copy") /\ partial' = NoFile /\ UNCHANGED own
    BY <1>9, <1>c, <2>1, <2>3
  <2> QED BY <1>12, <2>2, <2>3 DEF CleanUpExpired
<1>13. CASE UNCHANGED artifactVars
  BY <1>0, <1>9, <1>13, <1>c DEF artifactVars
<1>14. CASE NextArtifact
  BY <1>14, <1>1, <1>2, <1>3, <1>4, <1>5, <1>6, <1>7, <1>8, <1>10, <1>11, <1>12 DEF NextArtifact
<1> QED BY <1>13, <1>14

\* The invariant is inductive, whatever the number of the downloads, of the neighbours and
\* of the publications, and whatever the readers of the header lose.
THEOREM ArtifactInvariant == ArtifactSpec => []ArtifactInv
  BY ArtifactInit, ArtifactStep, PTL DEF ArtifactSpec

\* What stands under the name of the artifact is an issue somebody published, whole, unless
\* a pull wrote to the ".partial" between the check and the renaming of another.
THEOREM ArtifactStaysWhole == ArtifactSpec => []ArtifactIsWhole
  BY ArtifactInvariant, PTL DEF ArtifactInv

-----------------------------------------------------------------------------
(* The six side by side.                                                   *)

\* To each of the components, a behaviour of the six is one of its own: whichever has the
\* focus, the others stutter.
THEOREM RecordsAreApart ==
  RecordsSpec => /\ ContextSpec /\ StoreSpec /\ InventorySpec
                 /\ ArtifactSpec /\ NotificationSpec /\ ChatSpec
<1>1. RecordsInit => /\ InitContext /\ InitStore /\ InitInventory
                     /\ InitArtifact /\ InitNotification /\ InitChat
  BY DEF RecordsInit
<1>2. ASSUME [RecordsNext]_recordVars
      PROVE  /\ [NextContext]_contextVars /\ [NextStore]_storeVars
             /\ [NextInventory]_inventoryVars /\ [NextArtifact]_artifactVars
             /\ [NextNotification]_notificationVars /\ [NextChat]_chatVars
  <2>1. CASE RunContext
    BY <2>1 DEF RunContext
  <2>2. CASE RunStore
    BY <2>2 DEF RunStore
  <2>3. CASE RunInventory
    BY <2>3 DEF RunInventory
  <2>4. CASE RunArtifact
    BY <2>4 DEF RunArtifact
  <2>5. CASE RunNotification
    BY <2>5 DEF RunNotification
  <2>6. CASE RunChat
    BY <2>6 DEF RunChat
  <2>7. CASE UNCHANGED recordVars
    BY <2>7 DEF recordVars
  <2> QED BY <1>2, <2>1, <2>2, <2>3, <2>4, <2>5, <2>6, <2>7 DEF RecordsNext
<1> QED BY <1>1, <1>2, PTL
        DEF RecordsSpec, ContextSpec, StoreSpec, InventorySpec, ArtifactSpec, NotificationSpec, ChatSpec

\* The variables of all six stay in their ranges.
THEOREM RecordsTypes == RecordsSpec => []RecordsTypeOK
<1>1. /\ ContextInv /\ StoreInv /\ InventoryInv /\ ArtifactInv /\ NotificationInv /\ ChatInv
      => RecordsTypeOK
  BY DEF ContextInv, StoreInv, InventoryInv, ArtifactInv, NotificationInv, ChatInv, RecordsTypeOK
<1> QED BY <1>1, RecordsAreApart, ContextInvariant, StoreInvariant, InventoryInvariant,
           ArtifactInvariant, NotificationInvariant, ChatInvariant, PTL

\* What is checked of the six on one instance holds of them whatever the constants are.
THEOREM RecordsKeepTheirWord ==
  RecordsSpec => /\ []DispatchesAreHonest /\ []StreamsAreKeptApart /\ []StaleContextHasACause
                 /\ []ReportsAreWhole /\ []ArtifactIsWhole /\ WithdrawnStaysWithdrawn
  BY RecordsAreApart, NotificationsAreHonest, StreamsStayApart, ContextIsOfTheConfiguration,
     InventoryIsWhole, ArtifactStaysWhole, WithdrawnStays, PTL
=============================================================================
