--------------------------- MODULE MCPolicyRefresh ---------------------------
(* Instances of PolicyRefresh for TLC. *)
EXTENDS PolicyRefresh

OneTask == {"t1"}
AllTriggers == [t \in OneTask |-> Triggers]
\* The task stays in the second policy.
KeptTwice == <<OneTask, OneTask>>
=============================================================================
