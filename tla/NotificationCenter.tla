------------------------- MODULE NotificationCenter -------------------------
(***************************************************************************)
(* The notification centre (app/notification_center.go): DispatchNotifica- *)
(* tion, called in parallel by remote commands, the inventory, automation  *)
(* and the debug page, and RespondToNotification, called by the page that  *)
(* shows the cards.  The lock protects each access to the two maps, not    *)
(* the dispatch as a whole.                                                *)
(*                                                                         *)
(* Texts, severities, layouts and the history table are left out.  What    *)
(* the configuration says at the time (policies, rollout gates) is a       *)
(* choice: it may change between two reads.                                *)
(***************************************************************************)
EXTENDS Naturals, FiniteSets

CONSTANTS
    MaxDispatches,   \* bound: calls of DispatchNotification
    NotificationId,  \* ids a caller may give
    IdempotencyKey   \* keys a caller may give

ASSUME NotificationAssumption ==
    MaxDispatches \in Nat \ {0} /\ "none" \notin NotificationId \cup IdempotencyKey

VARIABLES
    dispatch,             \* the calls of DispatchNotification
    notificationByKey,    \* key -> recorded
    pendingNotifyResult,  \* id -> the dispatch whose channel is registered, 0 for none
    card,                 \* what the user sees of a dispatch, and the answer given to it
    uiReady               \* a.ctx is set

notificationVars == <<dispatch, notificationByKey, pendingNotifyResult, card, uiReady>>

Dispatch == 1 .. MaxDispatches
Decision == {"approved", "denied", "deferred"}
\* An id the caller leaves out is the key, or one of its own made of the time.
EffectiveId == ({"id"} \X NotificationId) \cup ({"key"} \X IdempotencyKey)
                    \cup ({"own"} \X Dispatch)

DispatchRecord ==
    [step : {"none", "new", "checked", "recorded", "rendered", "waiting", "leaving", "done"},
     id : EffectiveId \cup {<<"none", 0>>}, key : IdempotencyKey \cup {"none"}, confirm : BOOLEAN,
     renderedBefore : SUBSET Dispatch, answer : Decision \cup {"none"},
     outcome : Decision \cup {"none", "timeout", "deduplicated", "rollout", "shown", "headless"}]

CardRecord ==
    [state : {"none", "shown", "answering", "answered"}, target : 0 .. MaxDispatches,
     decision : Decision \cup {"none"}, heard : BOOLEAN]

NotificationTypeOK ==
    /\ dispatch \in [Dispatch -> DispatchRecord]
    /\ notificationByKey \subseteq IdempotencyKey
    /\ pendingNotifyResult \in [EffectiveId -> 0 .. MaxDispatches]
    /\ card \in [Dispatch -> CardRecord]
    /\ uiReady \in BOOLEAN

InitNotification ==
    /\ dispatch = [d \in Dispatch |->
                    [step |-> "none", id |-> <<"none", 0>>, key |-> "none", confirm |-> FALSE,
                     renderedBefore |-> {}, answer |-> "none", outcome |-> "none"]]
    /\ notificationByKey = {}
    /\ pendingNotifyResult = [id \in EffectiveId |-> 0]
    /\ card = [d \in Dispatch |->
                [state |-> "none", target |-> 0, decision |-> "none", heard |-> FALSE]]
    /\ uiReady = FALSE

\* AppStartup sets the context once.
UiStarts ==
    /\ ~uiReady /\ uiReady' = TRUE
    /\ UNCHANGED <<dispatch, notificationByKey, pendingNotifyResult, card>>

\* A caller: id and key as given, "none" where empty.
SubmitDispatch(d, id, key, confirm) ==
    /\ dispatch[d].step = "none"
    /\ \A e \in 1 .. d - 1 : dispatch[e].step # "none"
    /\ dispatch' = [dispatch EXCEPT ![d].step = "new", ![d].key = key, ![d].confirm = confirm,
                                    ![d].id = IF id # "none" THEN <<"id", id>>
                                              ELSE IF key # "none" THEN <<"key", key>>
                                              ELSE <<"own", d>>]
    /\ UNCHANGED <<notificationByKey, pendingNotifyResult, card, uiReady>>

\* The dispatches of this key whose event has been emitted.
RenderedWithKey(d) ==
    {e \in Dispatch \ {d} : /\ dispatch[d].key # "none" /\ dispatch[e].key = dispatch[d].key
                            /\ card[e].state # "none" \/ dispatch[e].outcome = "shown"}

Return(d, outcome) ==
    dispatch' = [dispatch EXCEPT ![d].step = "done", ![d].outcome = outcome]

\* The rollout gate, then the key is looked for under the lock.
CheckDispatch(d) ==
    /\ dispatch[d].step = "new"
    /\ \/ Return(d, "rollout")
       \/ dispatch[d].key \in notificationByKey /\ Return(d, "deduplicated")
       \/ /\ dispatch[d].key \notin notificationByKey
          /\ dispatch' = [dispatch EXCEPT ![d].step = "checked",
                                          ![d].renderedBefore = RenderedWithKey(d)]
    /\ UNCHANGED <<notificationByKey, pendingNotifyResult, card, uiReady>>

\* Faulty form: the key of a dispatch that waits is left for later, with its result.
RecordKeyWhenNotWaiting(d) ==
    /\ dispatch[d].step = "checked"
    /\ \E confirm \in {dispatch[d].confirm, FALSE} :
        /\ notificationByKey' = IF confirm THEN notificationByKey
                                ELSE notificationByKey \cup ({dispatch[d].key} \ {"none"})
        /\ dispatch' = [dispatch EXCEPT ![d].step = "recorded", ![d].confirm = confirm]
    /\ UNCHANGED <<pendingNotifyResult, card, uiReady>>

\* Defaults, the confirmation gate, and the key recorded under a later lock.
RecordKey(d) ==
    /\ dispatch[d].step = "checked"
    /\ notificationByKey' = notificationByKey \cup ({dispatch[d].key} \ {"none"})
    /\ \E confirm \in {dispatch[d].confirm, FALSE} :
        dispatch' = [dispatch EXCEPT ![d].step = "recorded", ![d].confirm = confirm]
    /\ UNCHANGED <<pendingNotifyResult, card, uiReady>>

\* Without a window the result is given at once; otherwise the event is emitted, and
\* only a confirmation goes on.
RenderNotification(d) ==
    /\ dispatch[d].step = "recorded"
    /\ IF ~uiReady THEN Return(d, "headless") /\ UNCHANGED card
       ELSE IF ~dispatch[d].confirm THEN Return(d, "shown") /\ UNCHANGED card
       ELSE /\ card' = [card EXCEPT ![d].state = "shown"]
            /\ dispatch' = [dispatch EXCEPT ![d].step = "rendered"]
    /\ UNCHANGED <<notificationByKey, pendingNotifyResult, uiReady>>

\* Only now the channel is registered, in place of one with the same id.
AwaitResult(d) ==
    /\ dispatch[d].step = "rendered"
    /\ pendingNotifyResult' = [pendingNotifyResult EXCEPT ![dispatch[d].id] = d]
    /\ dispatch' = [dispatch EXCEPT ![d].step = "waiting"]
    /\ UNCHANGED <<notificationByKey, card, uiReady>>

\* The two branches of the select.
TakeAnswer(d) ==
    /\ dispatch[d].step = "waiting" /\ dispatch[d].answer # "none"
    /\ dispatch' = [dispatch EXCEPT ![d].step = "leaving", ![d].outcome = dispatch[d].answer]
    /\ UNCHANGED <<notificationByKey, pendingNotifyResult, card, uiReady>>

ConfirmationTimeout(d) ==
    /\ dispatch[d].step = "waiting"
    /\ dispatch' = [dispatch EXCEPT ![d].step = "leaving", ![d].outcome = "timeout"]
    /\ UNCHANGED <<notificationByKey, pendingNotifyResult, card, uiReady>>

\* Faulty form: the entry is deleted only when an answer came.
LeaveDispatchKeepsTimedOut(d) ==
    /\ dispatch[d].step = "leaving"
    /\ pendingNotifyResult' = IF dispatch[d].outcome = "timeout" THEN pendingNotifyResult
                              ELSE [pendingNotifyResult EXCEPT ![dispatch[d].id] = 0]
    /\ dispatch' = [dispatch EXCEPT ![d].step = "done"]
    /\ UNCHANGED <<notificationByKey, card, uiReady>>

\* The deferred deletion, by the id, whoever's channel is there by now.
LeaveDispatch(d) ==
    /\ dispatch[d].step = "leaving"
    /\ pendingNotifyResult' = [pendingNotifyResult EXCEPT ![dispatch[d].id] = 0]
    /\ dispatch' = [dispatch EXCEPT ![d].step = "done"]
    /\ UNCHANGED <<notificationByKey, card, uiReady>>

\* The user answers a card: RespondToNotification looks the channel up under the lock
LookUpChannel(c, decision) ==
    /\ card[c].state = "shown"
    /\ LET target == pendingNotifyResult[dispatch[c].id] IN
       card' = [card EXCEPT ![c].decision = decision, ![c].target = target,
                            ![c].state = IF target = 0 THEN "answered" ELSE "answering"]
    /\ UNCHANGED <<dispatch, notificationByKey, pendingNotifyResult, uiReady>>

\* Faulty form: the last answer replaces the one the dispatch is about to take, and
\* the card of another dispatch counts as heard for this one.
SendDecisionOverwrites(c) ==
    /\ card[c].state = "answering"
    /\ dispatch' = [dispatch EXCEPT ![card[c].target].answer = card[c].decision]
    /\ card' = [card EXCEPT ![c].state = "answered", ![c].heard = TRUE]
    /\ UNCHANGED <<notificationByKey, pendingNotifyResult, uiReady>>

\* and sends without waiting, to a buffer of one.
SendDecision(c) ==
    /\ card[c].state = "answering"
    /\ LET t == card[c].target IN
       IF dispatch[t].answer = "none"
       THEN /\ dispatch' = [dispatch EXCEPT ![t].answer = card[c].decision]
            /\ card' = [card EXCEPT ![c].state = "answered", ![c].heard = TRUE]
       ELSE card' = [card EXCEPT ![c].state = "answered"] /\ UNCHANGED dispatch
    /\ UNCHANGED <<notificationByKey, pendingNotifyResult, uiReady>>

\* The dispatch's own way; its timer is ready when the answer is not.
DispatchGoesOn(d) ==
    \/ RecordKey(d) \/ RenderNotification(d) \/ AwaitResult(d)
    \/ TakeAnswer(d) \/ ConfirmationTimeout(d) \/ LeaveDispatch(d)

NextNotification ==
    \/ \E d \in Dispatch : CheckDispatch(d) \/ DispatchGoesOn(d) \/ SendDecision(d)
    \/ UiStarts
    \/ \E d \in Dispatch, id \in NotificationId \cup {"none"},
          key \in IdempotencyKey \cup {"none"}, confirm \in BOOLEAN :
            SubmitDispatch(d, id, key, confirm)
    \/ \E c \in Dispatch, decision \in Decision : LookUpChannel(c, decision)

-----------------------------------------------------------------------------
\* A key is shown to the user a second time only when the two dispatches overlapped:
\* a dispatch whose key had been on the screen when it looked shows nothing (the two
\* critical sections on notificationByKey).
ShownAgainOnlyWhenOverlapping ==
    \A d \in Dispatch : (card[d].state # "none" \/ dispatch[d].outcome = "shown")
                            => dispatch[d].renderedBefore = {}

\* An answer reported as accepted is heard: the dispatch it was sent to still has it,
\* returned it, or had run out of time (RespondToNotification, the select).
HeardAnswerIsTheResult ==
    \A c \in Dispatch : card[c].heard =>
        LET t == dispatch[card[c].target] IN
        /\ t.answer = card[c].decision
        /\ t.outcome \in {"none", "timeout", card[c].decision}

\* Every dispatch returns, answered or not, and leaves no channel behind for an
\* answer to disappear in (the select's timer and the deferred deletion).
DispatchesReturn ==
    <>[](/\ \A d \in Dispatch : dispatch[d].step \in {"none", "done"}
         /\ \A id \in EffectiveId : pendingNotifyResult[id] = 0)

\* What a user saw once is not put up again, and what he was told was taken is what
\* the caller got, with two dispatches of one key and late, double and lost answers.
DispatchesAreHonest == ShownAgainOnlyWhenOverlapping /\ HeardAnswerIsTheResult
=============================================================================
