---------------------------- MODULE ActionQueue ----------------------------
(***************************************************************************)
(* The action queue of the Windows service: "execute" requests that arrive *)
(* on the named pipe are written to the SQLite table action_queue, and one *)
(* worker goroutine claims the rows, runs them and records the outcome in  *)
(* action_history.                                                         *)
(*                                                                         *)
(*   internal/service/ipc.go               the request handlers            *)
(*   internal/service/manager.go           Start, EnqueueAction, the worker*)
(*   internal/database/sqlite_action_queue.go     the two tables           *)
(*   internal/service/ipc_identity_windows.go,                             *)
(*   internal/service/action_impersonation_windows.go  the token registries*)
(*                                                                         *)
(* The repository's client draws every request id from uuid.New, so an     *)
(* action id belongs to one request: Actions is the set of requests, and   *)
(* the order of its numbers is the order of the id strings.                *)
(***************************************************************************)
EXTENDS Integers, Sequences

CONSTANTS
    Actions,      \* the "execute" requests, identified with their action ids
    Batch,        \* actions the worker takes per wake-up (5 in the code)
    MaxSecond,    \* bound: seconds the wall clock may advance
    MaxFaults,    \* bound: SQLite calls that fail on an open database
    MaxRestarts   \* bound: times the service process ends and is started again

ASSUME QueueAssumption ==
    /\ Actions \subseteq Nat
    /\ Batch \in Nat \ {0}
    /\ MaxSecond \in Nat /\ MaxFaults \in Nat /\ MaxRestarts \in Nat

NoAction == -1

VARIABLES
    svc,       \* the process: up, stopping (ctx cancelled), closed (db.Close), down
    second,    \* the wall clock in whole seconds, the resolution of queued_at
    status,    \* column status of action_queue, "absent" for no row
    stamp,     \* column queued_at
    history,   \* per action, the status column of its rows in action_history
    handler,   \* the goroutine of each request, and the reply it ended with
    token,     \* where the duplicated Windows token of each request is
    trigger,   \* actionTrigger, a channel of capacity 1: the wake-ups in it
    worker,    \* the actionQueueWorker goroutine
    starts,    \* history variable: times the action was executed
    earlier,   \* history variable: actions acknowledged in an earlier second
    faults, restarts

dbVars     == <<status, stamp, history>>
ghostVars  == <<starts, earlier>>
boundVars  == <<faults, restarts>>
vars == <<svc, second, dbVars, handler, token, trigger, worker, ghostVars, boundVars>>

Final == {"completed", "failed"}
Statuses == {"absent", "queued", "running"} \cup Final
HandlerStates == {"none", "identified", "stamped", "inserted", "woken",
                  "pending", "refused", "lost"}
ActiveHandler == {"identified", "stamped", "inserted", "woken"}
TokenPlaces == {"none", "connection", "action", "inuse", "closed"}
WorkerStates == {"waiting", "claiming", "claimed", "executing", "stopped"}

Idle(pc) == [pc |-> pc, action |-> NoAction, round |-> 0]

Alive  == svc # "down"
DbOpen == svc \in {"up", "stopping"}

\* A call on the database fails because Start has closed it, or by a fault of
\* SQLite (busy, I/O), of which a behaviour has at most MaxFaults.
DbCallFails ==
    \/ svc = "closed" /\ UNCHANGED faults
    \/ DbOpen /\ faults < MaxFaults /\ faults' = faults + 1

-----------------------------------------------------------------------------
(* The request handler: handleClient, dispatchCommand, cmdExecute.         *)

\* The connection is accepted and decoded; applyServerSideIdentity duplicates
\* the client's token into pendingConnTokens unless a Windows call fails.
Connect(a) ==
    /\ svc = "up" /\ handler[a] = "none"
    /\ handler' = [handler EXCEPT ![a] = "identified"]
    /\ \E place \in {"none", "connection"} : token' = [token EXCEPT ![a] = place]
    /\ earlier' = [earlier EXCEPT ![a] =
                     {b \in Actions : handler[b] = "pending" /\ stamp[b] < second}]
    /\ UNCHANGED <<svc, second, dbVars, trigger, worker, starts, boundVars>>

\* The payload or its field "action" is missing: the reply is an error, and the
\* token stays where it is.
Refuse(a) ==
    /\ Alive /\ handler[a] = "identified"
    /\ handler' = [handler EXCEPT ![a] = "refused"]
    /\ UNCHANGED <<svc, second, dbVars, token, trigger, worker, ghostVars, boundVars>>

\* EnqueueAction of the manager reads the clock before it calls the database.
Stamp(a) ==
    /\ Alive /\ handler[a] = "identified"
    /\ handler' = [handler EXCEPT ![a] = "stamped"]
    /\ stamp' = [stamp EXCEPT ![a] = second]
    /\ UNCHANGED <<svc, second, status, history, token, trigger, worker, ghostVars, boundVars>>

Insert(a) ==
    /\ DbOpen /\ handler[a] = "stamped"
    /\ handler' = [handler EXCEPT ![a] = "inserted"]
    /\ status' = [status EXCEPT ![a] = "queued"]
    /\ UNCHANGED <<svc, second, stamp, history, token, trigger, worker, ghostVars, boundVars>>

\* The error of the insert is answered. (Faulty form: it is ignored.)
InsertFailsUnseen(a) ==
    /\ handler[a] = "stamped" /\ DbCallFails
    /\ handler' = [handler EXCEPT ![a] = "inserted"]
    /\ UNCHANGED <<svc, second, dbVars, token, trigger, worker, ghostVars, restarts>>
InsertFails(a) ==
    /\ handler[a] = "stamped" /\ DbCallFails
    /\ handler' = [handler EXCEPT ![a] = "refused"]
    /\ UNCHANGED <<svc, second, dbVars, token, trigger, worker, ghostVars, restarts>>

\* The non-blocking send on actionTrigger: a pending wake-up absorbs this one.
Wake(a) ==
    /\ Alive /\ handler[a] = "inserted"
    /\ handler' = [handler EXCEPT ![a] = "woken"]
    /\ trigger' = 1
    /\ UNCHANGED <<svc, second, dbVars, token, worker, ghostVars, boundVars>>

\* promoteTokenForAction moves the token to pendingActionTokens, whatever the
\* worker has done with the row meanwhile; then the client is told 202.
Promote(a) ==
    /\ Alive /\ handler[a] = "woken"
    /\ handler' = [handler EXCEPT ![a] = "pending"]
    /\ token' = [token EXCEPT ![a] = IF @ = "connection" THEN "action" ELSE @]
    /\ UNCHANGED <<svc, second, dbVars, trigger, worker, ghostVars, boundVars>>

-----------------------------------------------------------------------------
(* The worker: actionQueueWorker, processNextQueuedAction.                 *)

WakeByTrigger ==
    /\ Alive /\ worker.pc = "waiting" /\ trigger = 1
    /\ trigger' = 0
    /\ worker' = Idle("claiming")
    /\ UNCHANGED <<svc, second, dbVars, handler, token, ghostVars, boundVars>>

\* The ticker of three seconds. (Faulty form: only the trigger wakes the worker.)
NoTicker == UNCHANGED vars
WakeByTicker ==
    /\ Alive /\ worker.pc = "waiting"
    /\ worker' = Idle("claiming")
    /\ UNCHANGED <<svc, second, dbVars, handler, token, trigger, ghostVars, boundVars>>

\* select sees ctx.Done; it is free to pick another ready case instead.
\* (Faulty form: ctx is looked at again between the claim and the execution.)
WorkerReturnsAfterClaim ==
    /\ svc \in {"stopping", "closed"} /\ worker.pc \in {"waiting", "claimed"}
    /\ worker' = Idle("stopped")
    /\ UNCHANGED <<svc, second, dbVars, handler, token, trigger, ghostVars, boundVars>>
WorkerReturns ==
    /\ svc \in {"stopping", "closed"} /\ worker.pc = "waiting"
    /\ worker' = Idle("stopped")
    /\ UNCHANGED <<svc, second, dbVars, handler, token, trigger, ghostVars, boundVars>>

\* ORDER BY queued_at ASC, action_id ASC LIMIT 1 (Faulty form: by the id alone.)
IsNextQueuedById(a) ==
    status[a] = "queued" /\ \A b \in Actions : status[b] = "queued" => a <= b
IsNextQueued(a) ==
    /\ status[a] = "queued"
    /\ \A b \in Actions : status[b] = "queued" =>
          stamp[a] < stamp[b] \/ (stamp[a] = stamp[b] /\ a <= b)

\* One transaction selects the row and makes it "running".
Claim(a) ==
    /\ DbOpen /\ worker.pc = "claiming" /\ IsNextQueued(a)
    /\ status' = [status EXCEPT ![a] = "running"]
    /\ worker' = [worker EXCEPT !.pc = "claimed", !.action = a]
    /\ UNCHANGED <<svc, second, stamp, history, handler, token, trigger, ghostVars, boundVars>>

ClaimNothing ==
    /\ DbOpen /\ worker.pc = "claiming"
    /\ \A a \in Actions : status[a] # "queued"
    /\ worker' = Idle("waiting")
    /\ UNCHANGED <<svc, second, dbVars, handler, token, trigger, ghostVars, boundVars>>

ClaimFails ==
    /\ worker.pc = "claiming" /\ DbCallFails
    /\ worker' = Idle("waiting")
    /\ UNCHANGED <<svc, second, dbVars, handler, token, trigger, ghostVars, restarts>>

\* enrichContextWithToken consumes the token if it is there, then
\* impersonateAndRun starts executeQueuedAction.
Begin ==
    /\ Alive /\ worker.pc = "claimed"
    /\ worker' = [worker EXCEPT !.pc = "executing"]
    /\ token' = [token EXCEPT ![worker.action] = IF @ = "action" THEN "inuse" ELSE @]
    /\ starts' = [starts EXCEPT ![worker.action] = @ + 1]
    /\ UNCHANGED <<svc, second, dbVars, handler, trigger, earlier, boundVars>>

\* The deferred closeActionToken. (Faulty form: the handle is never closed.)
LeaveTokenOpen == UNCHANGED token
CloseActionToken ==
    token' = [token EXCEPT ![worker.action] = IF @ = "inuse" THEN "closed" ELSE @]

\* for i := 0; i < 5; i++
NextRound(more) ==
    IF more THEN [pc |-> "claiming", action |-> NoAction, round |-> worker.round + 1]
            ELSE Idle("waiting")
RoundAfterAction == NextRound(worker.round + 1 < Batch)

\* The action ended, well or not: CompleteAction updates the row and adds the
\* history row in one transaction, and the loop goes on with the batch.
Complete(outcome) ==
    /\ DbOpen /\ worker.pc = "executing"
    /\ status' = [status EXCEPT ![worker.action] = outcome]
    /\ history' = [history EXCEPT ![worker.action] = Append(@, outcome)]
    /\ CloseActionToken
    /\ worker' = RoundAfterAction
    /\ UNCHANGED <<svc, second, stamp, handler, trigger, ghostVars, boundVars>>

\* CompleteAction fails: the outcome is lost and the row stays "running".
\* (Faulty form: without the transaction, the update survives the failed insert.)
CompleteHalfway ==
    /\ worker.pc = "executing" /\ DbCallFails
    /\ status' = [status EXCEPT ![worker.action] = "completed"]
    /\ CloseActionToken
    /\ worker' = Idle("waiting")
    /\ UNCHANGED <<svc, second, stamp, history, handler, trigger, ghostVars, restarts>>
CompleteFails ==
    /\ worker.pc = "executing" /\ DbCallFails
    /\ CloseActionToken
    /\ worker' = Idle("waiting")
    /\ UNCHANGED <<svc, second, dbVars, handler, trigger, ghostVars, restarts>>

-----------------------------------------------------------------------------
(* The process.                                                            *)

\* The service is told to stop; its goroutines learn of it as they run.
Cancel ==
    /\ svc = "up" /\ restarts < MaxRestarts
    /\ svc' = "stopping"
    /\ UNCHANGED <<second, dbVars, handler, token, trigger, worker, ghostVars, boundVars>>

\* Start stops the pipe and the watchdog and closes the database; it waits for
\* no worker.
CloseDatabase ==
    /\ svc = "stopping"
    /\ svc' = "closed"
    /\ UNCHANGED <<second, dbVars, handler, token, trigger, worker, ghostVars, boundVars>>

\* The process ends, after Start returned or by a crash at any point: only the
\* database file survives.
ProcessEnds ==
    /\ Alive /\ restarts < MaxRestarts
    /\ svc' = "down"
    /\ handler' = [a \in Actions |-> IF handler[a] \in ActiveHandler THEN "lost" ELSE handler[a]]
    /\ token' = [a \in Actions |-> "none"]
    /\ trigger' = 0
    /\ worker' = Idle("stopped")
    /\ UNCHANGED <<second, dbVars, ghostVars, boundVars>>

\* Start opens the database and spawns the worker. Nothing looks at the rows that
\* an earlier process left "running". (Faulty form: they are queued again.)
StartAndRequeue ==
    /\ svc = "down"
    /\ svc' = "up"
    /\ restarts' = restarts + 1
    /\ worker' = Idle("waiting")
    /\ status' = [a \in Actions |-> IF status[a] = "running" THEN "queued" ELSE status[a]]
    /\ UNCHANGED <<second, stamp, history, handler, token, trigger, ghostVars, faults>>
Start ==
    /\ svc = "down"
    /\ svc' = "up"
    /\ restarts' = restarts + 1
    /\ worker' = Idle("waiting")
    /\ UNCHANGED <<second, dbVars, handler, token, trigger, ghostVars, faults>>

SecondPasses ==
    /\ second < MaxSecond
    /\ second' = second + 1
    /\ UNCHANGED <<svc, dbVars, handler, token, trigger, worker, ghostVars, boundVars>>

-----------------------------------------------------------------------------
Init ==
    /\ svc = "up" /\ second = 0
    /\ status = [a \in Actions |-> "absent"]
    /\ stamp = [a \in Actions |-> 0]
    /\ history = [a \in Actions |-> <<>>]
    /\ handler = [a \in Actions |-> "none"]
    /\ token = [a \in Actions |-> "none"]
    /\ trigger = 0
    /\ worker = Idle("waiting")
    /\ starts = [a \in Actions |-> 0]
    /\ earlier = [a \in Actions |-> {}]
    /\ faults = 0 /\ restarts = 0

Handle(a) == Refuse(a) \/ Stamp(a) \/ Insert(a) \/ InsertFails(a) \/ Wake(a) \/ Promote(a)

Work ==
    \/ WakeByTrigger \/ WakeByTicker \/ WorkerReturns
    \/ \E a \in Actions : Claim(a)
    \/ ClaimNothing \/ ClaimFails \/ Begin
    \/ \E outcome \in Final : Complete(outcome)
    \/ CompleteFails

Process == Cancel \/ CloseDatabase \/ ProcessEnds \/ Start

Next ==
    \/ \E a \in Actions : Connect(a) \/ Handle(a)
    \/ Work \/ Process \/ SecondPasses

Spec == Init /\ [][Next]_vars

\* The scheduler runs a goroutine that can run, a started action returns, a
\* cancelled service goes on to exit, and a service that ended is started again.
Fairness ==
    /\ \A a \in Actions : WF_vars(Handle(a))
    /\ WF_vars(Work) /\ WF_vars(Start)
    /\ WF_vars(CloseDatabase \/ (svc = "closed" /\ ProcessEnds))

FairSpec == Spec /\ Fairness

-----------------------------------------------------------------------------
(* Properties.                                                             *)

\* Every variable stays in its range.
TypeOK ==
    /\ svc \in {"up", "stopping", "closed", "down"}
    /\ second \in Nat
    /\ status \in [Actions -> Statuses]
    /\ stamp \in [Actions -> Nat]
    /\ history \in [Actions -> Seq(Final)]
    /\ handler \in [Actions -> HandlerStates]
    /\ token \in [Actions -> TokenPlaces]
    /\ trigger \in 0..1
    /\ worker \in [pc : WorkerStates, action : Actions \cup {NoAction}, round : 0..(Batch - 1)]
    /\ starts \in [Actions -> Nat]
    /\ earlier \in [Actions -> SUBSET Actions]
    /\ faults \in Nat /\ restarts \in Nat

\* The two tables tell one story across crashes and failed calls: an action has
\* a history row exactly when its row in the queue is final, one and no more,
\* with the same outcome (CompleteAction writes both in one transaction).
TablesAgree ==
    \A a \in Actions : history[a] = IF status[a] \in Final THEN <<status[a]>> ELSE <<>>

\* No action is executed twice, whatever fails or restarts: an install that may
\* already have run is never run again behind the user's back.
AtMostOneExecution == \A a \in Actions : starts[a] <= 1

\* A client that was answered 202 finds its action in the table ever after.
PendingIsOnRecord == \A a \in Actions : handler[a] = "pending" => status[a] # "absent"

\* While no call failed and no process ended, a "running" row is the one in the
\* worker's hands: getActionStatus never shows a run that nobody carries out.
NoOrphanWithoutFault ==
    (DbOpen /\ faults = 0 /\ restarts = 0) =>
        \A a \in Actions : status[a] = "running" => worker.action = a

\* First come, first served across seconds: an action whose client had its 202
\* before b connected, in an earlier second, left the queue before b did. (Within
\* one second the id decides, so the order of arrival is not kept.)
FifoAcrossSeconds ==
    \A b \in Actions : status[b] \in {"running"} \cup Final =>
        \A a \in earlier[b] : status[a] # "queued"

\* A queued action is claimed, also after a restart that lost the trigger, and
\* with more actions queued than the worker takes on one wake-up.
QueuedIsClaimed == []<>(\A a \in Actions : status[a] # "queued")

\* A token that reached pendingActionTokens before its action was claimed does
\* not stay open: the worker closes it, or the process that held it ends.
TokenOfQueuedIsReleased ==
    \A a \in Actions : (token[a] = "action" /\ status[a] = "queued") ~> token[a] \in {"closed", "none"}

\* The three tables tell one story, whatever failed or stopped between two writes, and
\* what they leave behind has a cause.
RecordsAgree == TablesAgree /\ PendingIsOnRecord /\ NoOrphanWithoutFault

\* What was accepted is taken up, and its handle on the client's identity with it.
QueuedIsServed == QueuedIsClaimed /\ TokenOfQueuedIsReleased

\* The queue keeps the promises of JobLedger.
LedgerState ==
    [a \in Actions |-> IF status[a] \in Final THEN status[a]
                       ELSE IF status[a] = "absent" THEN "unknown"
                       ELSE IF starts[a] > 0 THEN "started" ELSE "accepted"]
L == INSTANCE JobLedger WITH
        Jobs <- Actions, state <- LedgerState,
        told <- {a \in Actions : handler[a] = "pending"}, runs <- starts
KeepsLedger == L!Ledger
=============================================================================
