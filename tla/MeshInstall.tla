----------------------------- MODULE MeshInstall -----------------------------
(***************************************************************************)
(* The MeshCentral installation of the desktop process, and the hardware  *)
(* report that tells the server the node's id.                            *)
(*                                                                         *)
(* One flow at a time inspects the local agent and, where it is missing   *)
(* or unhealthy, asks the server how to install it and does so.  A refusal *)
(* of the server (403, 423) pauses the flow until the next configuration. *)
(* What is known is one JSON entry in SQLite: the flow keeps a copy of it *)
(* from its first read to its last write, minutes later, while the report *)
(* reads, changes and writes the same entry.                              *)
(*                                                                         *)
(* Source: app/mesh.go, app/agent_config.go, app/inventory/sync.go.       *)
(***************************************************************************)
EXTENDS Naturals

CONSTANTS
    MeshNode,           \* the ids a local MeshCentral agent may have
    MeshInstallAttempts, \* requests for the parameters (4 in the code)
    MaxReinstalls       \* bound: installations of the local agent by any hand

ASSUME MeshAssumption ==
    /\ MeshInstallAttempts \in Nat \ {0}
    /\ MaxReinstalls \in Nat
    /\ "none" \notin MeshNode

MaybeNode == MeshNode \cup {"none"}

VARIABLES
    meshEnabled,    \* meshCentralEnabledEffective
    meshState,      \* the entry meshcentral_state of the cache table
    localMesh,      \* the agent on this machine: service present, running, node id
    flow,           \* ensureMeshCentralInstalled
    hardware,       \* the hardware report
    reinstalls,     \* bound
    lostBehind      \* history: a report was recorded while a flow held its copy

meshVars == <<meshEnabled, meshState, localMesh, flow, hardware, reinstalls, lostBehind>>

MeshState == [node: MaybeNode, paused: BOOLEAN, failed: BOOLEAN, reported: BOOLEAN]
BlankMeshState == [node |-> "none", paused |-> FALSE, failed |-> FALSE, reported |-> FALSE]

NoFlow == [at |-> "idle", reset |-> FALSE, copy |-> BlankMeshState, attempt |-> 0]
NoReport == [at |-> "idle", copy |-> BlankMeshState, node |-> "none"]

MeshTypeOK ==
    /\ {meshEnabled, lostBehind} \subseteq BOOLEAN
    /\ meshState \in MeshState
    /\ localMesh \in [present: BOOLEAN, running: BOOLEAN, node: MaybeNode]
    /\ flow \in [at: {"idle", "load", "resume", "inspect", "attempt", "ask", "install",
                      "healthy", "node"},
                 reset: BOOLEAN, copy: MeshState, attempt: 0..MeshInstallAttempts]
    /\ hardware \in [at: {"idle", "file", "send", "load", "mark"},
                     copy: MeshState, node: MaybeNode]
    /\ reinstalls \in 0..MaxReinstalls

InitMesh ==
    /\ meshEnabled \in BOOLEAN
    /\ meshState = BlankMeshState
    /\ localMesh = [present |-> FALSE, running |-> FALSE, node |-> "none"]
    /\ flow = NoFlow
    /\ hardware = NoReport
    /\ reinstalls = 0
    /\ lostBehind = FALSE

FlowGoesTo(at) == flow' = [flow EXCEPT !.at = at]

\* A write of the flow's copy, and what it knows from then on; a failed write is
\* only logged.
FlowSaves(copy, at) ==
    /\ meshState' \in {copy, meshState}
    /\ flow' = IF at = "idle" THEN NoFlow ELSE [flow EXCEPT !.copy = copy, !.at = at]

\* The service of the agent runs; the id it wrote, if it has one.
MeshAgentHealthy == localMesh.present /\ localMesh.running
ResolveMeshNode  == localMesh.node

-----------------------------------------------------------------------------
(* The flow.                                                               *)

\* A start of the process with credentials triggers it without a reset, every
\* configuration with one; a second trigger while it runs is dropped, whatever
\* it was to reset.
TriggerMesh(reset) ==
    /\ reset => meshEnabled
    /\ flow' = IF flow.at = "idle" /\ meshEnabled
                 THEN [NoFlow EXCEPT !.at = "load", !.reset = reset]
                 ELSE flow
    /\ UNCHANGED <<meshEnabled, meshState, localMesh, hardware, reinstalls, lostBehind>>

\* Faulty form: the pause is looked at before the reset.
LoadMeshStateKeepsPause ==
    /\ flow.at = "load"
    /\ flow' = IF meshState.paused THEN NoFlow
               ELSE [flow EXCEPT !.copy = meshState, !.at = "inspect"]
    /\ UNCHANGED <<meshEnabled, meshState, localMesh, hardware, reinstalls, lostBehind>>

\* Faulty form: the flow begins with a state of its own.
LoadMeshStateAnew ==
    /\ flow.at = "load"
    /\ flow' = IF meshState.paused /\ ~flow.reset THEN NoFlow
               ELSE [flow EXCEPT !.copy = BlankMeshState, !.at = "inspect"]
    /\ UNCHANGED <<meshEnabled, meshState, localMesh, hardware, reinstalls, lostBehind>>

LoadMeshState ==
    /\ flow.at = "load"
    /\ flow' = IF ~meshState.paused THEN [flow EXCEPT !.copy = meshState, !.at = "inspect"]
               ELSE IF flow.reset   THEN [flow EXCEPT !.copy = meshState, !.at = "resume"]
                                    ELSE NoFlow
    /\ UNCHANGED <<meshEnabled, meshState, localMesh, hardware, reinstalls, lostBehind>>

LiftPause ==
    /\ flow.at = "resume"
    /\ FlowSaves([flow.copy EXCEPT !.paused = FALSE], "inspect")
    /\ UNCHANGED <<meshEnabled, localMesh, hardware, reinstalls, lostBehind>>

\* A healthy agent ends the flow, with or without a node id (and the flag in
\* config.json is set, module Provisioning).
InspectMesh ==
    /\ flow.at = "inspect"
    /\ FlowSaves([flow.copy EXCEPT !.node = ResolveMeshNode],
                 IF MeshAgentHealthy THEN "idle" ELSE "attempt")
    /\ UNCHANGED <<meshEnabled, localMesh, hardware, reinstalls, lostBehind>>

RecordAttempt ==
    /\ flow.at = "attempt"
    /\ FlowSaves(flow.copy, "ask")
    /\ UNCHANGED <<meshEnabled, localMesh, hardware, reinstalls, lostBehind>>

\* GET .../meshcentral/install: parameters; no answer or 503, asked again up to
\* the fourth time; 403 or 423; any other error.
MeshParametersAnswered ==
    /\ flow.at = "ask"
    /\ \/ /\ FlowGoesTo("install")
          /\ UNCHANGED meshState
       \/ /\ flow.attempt < MeshInstallAttempts - 1
          /\ flow' = [flow EXCEPT !.attempt = @ + 1]
          /\ UNCHANGED meshState
       \/ FlowSaves([flow.copy EXCEPT !.failed = TRUE], "idle")
       \/ FlowSaves([flow.copy EXCEPT !.failed = TRUE, !.paused = TRUE], "idle")
    /\ UNCHANGED <<meshEnabled, localMesh, hardware, reinstalls, lostBehind>>

\* The installer, from its URL or by the command; a node id comes later.
RunMeshInstaller ==
    /\ flow.at = "install"
    /\ \/ /\ FlowSaves([flow.copy EXCEPT !.failed = TRUE], "idle")
          /\ UNCHANGED <<localMesh, reinstalls>>
       \/ /\ reinstalls < MaxReinstalls
          /\ reinstalls' = reinstalls + 1
          /\ \E up \in BOOLEAN :
                localMesh' = [present |-> TRUE, running |-> up, node |-> "none"]
          /\ FlowGoesTo("healthy")
          /\ UNCHANGED meshState
    /\ UNCHANGED <<meshEnabled, hardware, lostBehind>>

\* Two minutes for the service.
WaitMeshHealthy ==
    /\ flow.at = "healthy"
    /\ \/ /\ MeshAgentHealthy
          /\ FlowGoesTo("node")
          /\ UNCHANGED meshState
       \/ /\ ~MeshAgentHealthy
          /\ FlowSaves([flow.copy EXCEPT !.failed = TRUE], "idle")
    /\ UNCHANGED <<meshEnabled, localMesh, hardware, reinstalls, lostBehind>>

\* Ninety seconds for the id; the end is written either way.
WaitMeshNode ==
    /\ flow.at = "node"
    /\ FlowSaves([flow.copy EXCEPT !.node = ResolveMeshNode, !.failed = FALSE], "idle")
    /\ UNCHANGED <<meshEnabled, localMesh, hardware, reinstalls, lostBehind>>

-----------------------------------------------------------------------------
(* The hardware report.                                                    *)

\* The id on record is reported; without one the local id, which is filed.
BeginHardwareReport ==
    /\ hardware.at = "idle"
    /\ hardware' =
         IF meshState.node # "none"
           THEN [NoReport EXCEPT !.at = "send", !.node = meshState.node]
         ELSE IF ResolveMeshNode = "none" THEN [NoReport EXCEPT !.at = "send"]
         ELSE [at |-> "file", node |-> ResolveMeshNode,
               copy |-> [meshState EXCEPT !.node = ResolveMeshNode]]
    /\ UNCHANGED <<meshEnabled, meshState, localMesh, flow, reinstalls, lostBehind>>

FileReportNode ==
    /\ hardware.at = "file"
    /\ meshState' \in {hardware.copy, meshState}
    /\ hardware' = [NoReport EXCEPT !.at = "send", !.node = hardware.node]
    /\ UNCHANGED <<meshEnabled, localMesh, flow, reinstalls, lostBehind>>

\* The server takes the report or does not; without an id nothing is recorded.
HardwareAnswered ==
    /\ hardware.at = "send"
    /\ \/ hardware' = NoReport
       \/ /\ hardware.node # "none"
          /\ hardware' = [hardware EXCEPT !.at = "load"]
    /\ UNCHANGED <<meshEnabled, meshState, localMesh, flow, reinstalls, lostBehind>>

LoadForReport ==
    /\ hardware.at = "load"
    /\ hardware' = [hardware EXCEPT !.at = "mark", !.copy = meshState]
    /\ UNCHANGED <<meshEnabled, meshState, localMesh, flow, reinstalls, lostBehind>>

MarkReportSuccess ==
    /\ hardware.at = "mark"
    /\ meshState' \in {meshState,
                       [hardware.copy EXCEPT !.node = hardware.node,
                           !.reported = TRUE, !.failed = FALSE]}
    /\ hardware' = NoReport
    /\ lostBehind' = (lostBehind \/ flow.at # "idle")
    /\ UNCHANGED <<meshEnabled, localMesh, flow, reinstalls>>

-----------------------------------------------------------------------------
(* The machine and the server.                                             *)

MeshSwitched ==
    /\ meshEnabled' = ~meshEnabled
    /\ UNCHANGED <<meshState, localMesh, flow, hardware, reinstalls, lostBehind>>

\* The service starts, stops or is removed; it writes its id once it runs.
LocalMeshChanges ==
    /\ localMesh.present
    /\ \/ localMesh' = [localMesh EXCEPT !.running = ~@]
       \/ localMesh' = [present |-> FALSE, running |-> FALSE, node |-> "none"]
       \/ /\ localMesh.running /\ localMesh.node = "none"
          /\ \E n \in MeshNode : localMesh' = [localMesh EXCEPT !.node = n]
    /\ UNCHANGED <<meshEnabled, meshState, flow, hardware, reinstalls, lostBehind>>

-----------------------------------------------------------------------------
FlowSteps ==
    \/ LoadMeshState \/ LiftPause \/ InspectMesh \/ RecordAttempt
    \/ MeshParametersAnswered \/ RunMeshInstaller \/ WaitMeshHealthy \/ WaitMeshNode

NextMesh ==
    \/ \E reset \in BOOLEAN : TriggerMesh(reset)
    \/ LoadMeshState
    \/ LiftPause
    \/ InspectMesh
    \/ RecordAttempt
    \/ MeshParametersAnswered
    \/ RunMeshInstaller
    \/ WaitMeshHealthy
    \/ WaitMeshNode
    \/ BeginHardwareReport
    \/ FileReportNode
    \/ HardwareAnswered
    \/ LoadForReport
    \/ MarkReportSuccess
    \/ MeshSwitched
    \/ LocalMeshChanges

-----------------------------------------------------------------------------
\* That the node was reported, once on record, is forgotten only if a report
\* succeeded while a flow held its older copy of the entry, which it then wrote
\* (ensureMeshCentralInstalled, markMeshCentralReportSuccess).
ReportedIsKept ==
    [][ meshState.reported /\ ~meshState'.reported => lostBehind ]_meshVars

\* A refusal of the server is no more than a pause: while configurations come in
\* with MeshCentral enabled, this holds again and again.
MeshNotPaused == ~meshEnabled \/ flow.at = "inspect"
=============================================================================
