----------------------------- MODULE JobLedger -----------------------------
(***************************************************************************)
(* What the action queue promises to the clients of the service, without   *)
(* its table, its worker, its tokens or its crashes: a job is accepted at  *)
(* most once, a client is told so only when the job is on record, a job    *)
(* starts at most once, and only a job that started gets an outcome, which *)
(* is never revised. A job may stay started forever.                       *)
(***************************************************************************)
EXTENDS Naturals

CONSTANT Jobs

VARIABLES
    state,   \* per job: unknown, accepted, started, completed, failed
    told,    \* the jobs whose client was told that they are on record
    runs     \* how often a job was started

ledgerVars == <<state, told, runs>>

States == {"unknown", "accepted", "started", "completed", "failed"}

LedgerInit ==
    state = [j \in Jobs |-> "unknown"] /\ told = {} /\ runs = [j \in Jobs |-> 0]

Move(j, from, to) ==
    state[j] = from /\ state' = [state EXCEPT ![j] = to] /\ UNCHANGED told

Accept(j) == Move(j, "unknown", "accepted") /\ UNCHANGED runs
Run(j)    == Move(j, "accepted", "started") /\ runs' = [runs EXCEPT ![j] = @ + 1]
Finish(j) == (Move(j, "started", "completed") \/ Move(j, "started", "failed")) /\ UNCHANGED runs

Tell(j) ==
    /\ state[j] # "unknown" /\ j \notin told
    /\ told' = told \cup {j} /\ UNCHANGED <<state, runs>>

LedgerNext == \E j \in Jobs : Accept(j) \/ Run(j) \/ Finish(j) \/ Tell(j)

Ledger == LedgerInit /\ [][LedgerNext]_ledgerVars
=============================================================================
