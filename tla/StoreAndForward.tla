--------------------------- MODULE StoreAndForward ---------------------------
(***************************************************************************)
(* What the agent's three outboxes promise, without tables, connections,   *)
(* goroutines or attempts: the results of commands (CommandChannel), the   *)
(* telemetry (TelemetryOutbox) and the callbacks of executions             *)
(* (TaskExecution).  An item is owed to the server once it is made.  Only  *)
(* what is owed arrives, once or more often; and the agent is rid of an    *)
(* item only when it has arrived, or was abandoned for a cause the         *)
(* implementation must name.                                               *)
(***************************************************************************)
CONSTANT Items

VARIABLES
    owed,       \* items the agent still answers for
    arrived,    \* items the server has
    abandoned   \* items one copy of which was given up

forwardVars == <<owed, arrived, abandoned>>

ForwardInit == owed = {} /\ arrived = {} /\ abandoned = {}

\* Items are made at any time; the server gets nothing else,
OnlyOwedArrive == owed' \subseteq Items /\ arrived' \subseteq arrived \cup owed
\* what happened stays so,
NothingIsUndone == arrived \subseteq arrived' /\ abandoned \subseteq abandoned'
\* and no item slips out of the agent's hands.
NothingIsForgotten == owed \subseteq owed' \cup arrived' \cup abandoned'

ForwardNext == OnlyOwedArrive /\ NothingIsUndone /\ NothingIsForgotten

Forward == ForwardInit /\ [][ForwardNext]_forwardVars
=============================================================================
