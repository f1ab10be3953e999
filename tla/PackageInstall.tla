--------------------------- MODULE PackageInstall ---------------------------
(***************************************************************************)
(* What an automation task does to a package, and what it says it did.     *)
(*                                                                         *)
(* A task is authorised by the store's policy and goes to winget, to       *)
(* Chocolatey or to a PSADT session; an install by winget may first try an *)
(* installer from a peer, and a PSADT session that fails in a way it can   *)
(* recover from falls back to winget and then to Chocolatey.  Each tool's  *)
(* exit code is read in its own way.  The desktop process and the service  *)
(* both execute tasks, and a tool that is killed at its time limit may     *)
(* leave an installer at work.                                             *)
(*                                                                         *)
(* Source: internal/automation/executor.go, executor_psadt.go,             *)
(* executor_psadt_provider_windows.go, app/automation_p2p.go,              *)
(* internal/winget/client.go, app/store.go.                                *)
(***************************************************************************)
EXTENDS Naturals, FiniteSets

CONSTANTS
    Executor,       \* the processes that execute tasks
    PackageTasks,   \* the tasks (see PackageTask)
    PSADTPolicies,  \* the policies (see PSADTPolicy)
    MaxToolFaults,  \* bound: tools that fail or are killed
    MaxReleases     \* bound: new versions of the package

PackageTask ==
    [by: {"winget", "choco", "psadt", "msi"}, action: {"install", "update", "remove", "both"},
     approval: BOOLEAN]

\* fallbackPolicy, timeoutAction, unknownExitCodePolicy, and whether ignoreExitCodes has
\* the code the package's installer uses.
PSADTPolicy ==
    [fallback: BOOLEAN, timeout: {"fail", "ignore", "fallback"}, unknownIsFatal: BOOLEAN,
     ignores: BOOLEAN]

ASSUME PackageInstallAssumption ==
    /\ PackageTasks \subseteq PackageTask /\ PSADTPolicies \subseteq PSADTPolicy
    /\ MaxToolFaults \in Nat /\ MaxReleases \in Nat

VARIABLES
    package,      \* on the machine: "absent", "old" or "current"
    strays,       \* what killed tools' installers still do
    psadtPolicy,  \* of the configuration
    p2pInstalls,  \* installs try a peer's installer first
    job,          \* what each process executes
    toolUsed      \* bounds

packageVars == <<package, strays, psadtPolicy, p2pInstalls, job, toolUsed>>

Operation == {"install", "upgrade", "uninstall"}
Tool == {"p2p", "winget", "psadt", "msi", "choco"}

\* How a tool ends, of what its exit code and its output say: "timeout" stands for a
\* message that has the word, "other" for a code nobody lists.
Code == {"ok", "reboot", "noop", "missing", "busy", "denied", "ignorable", "script",
         "fatal", "other", "timeout"}

NoJob == [at |-> "idle", task |-> [by |-> "winget", action |-> "install", approval |-> FALSE],
          op |-> "install", tool |-> "winget", code |-> "ok", fellBack |-> FALSE, met |-> FALSE]

PackageTypeOK ==
    /\ package \in {"absent", "old", "current"}
    /\ strays \subseteq Operation
    /\ psadtPolicy \in PSADTPolicies /\ p2pInstalls \in BOOLEAN
    /\ job \in [Executor ->
         [at: {"idle", "authorize", "running", "success", "failure"},
          task: PackageTask, op: Operation, tool: Tool, code: Code \cup {"refused"},
          fellBack: BOOLEAN, met: BOOLEAN]]
    /\ toolUsed \in [faults: 0..MaxToolFaults, releases: 0..MaxReleases]

-----------------------------------------------------------------------------
(* The steps of a task.                                                    *)

\* "both" is an upgrade first.
FirstOperation(action) ==
    CASE action = "install" -> "install" [] action = "remove" -> "uninstall" [] OTHER -> "upgrade"

\* automationPackageManagerRouter: a peer's installer for an install, when switched on.
ByWinget(op) == IF op = "install" /\ p2pInstalls THEN "p2p" ELSE "winget"
FirstTool(by, op) == IF by = "winget" THEN ByWinget(op) ELSE by

\* A job has failed; a task for both goes on with the install, whatever the reason was.
Failed(j) ==
    IF j.task.action = "both" /\ j.op = "upgrade"
    THEN [NoJob EXCEPT !.at = "authorize", !.task = j.task, !.op = "install"]
    ELSE [j EXCEPT !.at = "failure"]

Tried(j, tool) == [j EXCEPT !.at = "running", !.tool = tool, !.code = "ok", !.met = FALSE]

-----------------------------------------------------------------------------
(* How an exit code is read.                                               *)

\* winget.Client.run: no newer version is no error, for an install or an upgrade.
\* (Faulty form: only the exit code counts.)
WingetSucceedsByCode(code, op) == code = "ok"
WingetSucceeds(code, op) == code = "ok" \/ (code = "noop" /\ op # "uninstall")

\* executeHiddenProcess and executeProcessWithEnv know no success but 0.
ProcessSucceeds(code) == code = "ok"

\* applyPSADTTimeoutAction, normalizePSADTExecutionResult, classifyPSADTExitCode.
\* winget's codes are negative, which is fatal.
Category(code) ==
    CASE code \in {"ok", "reboot"} -> "success"
      [] code = "ignorable" -> IF psadtPolicy.ignores THEN "success" ELSE "recoverable"
      [] code = "timeout" -> IF psadtPolicy.timeout = "ignore" THEN "success" ELSE "recoverable"
      [] code \in {"busy", "script"} -> "recoverable"
      [] code = "other" -> IF psadtPolicy.unknownIsFatal THEN "fatal" ELSE "recoverable"
      [] code \in {"denied", "fatal", "noop", "missing"} -> "fatal"

Succeeded(j) == [j EXCEPT !.at = "success"]

\* What follows the tool's end.
AfterP2P(j) == IF ProcessSucceeds(j.code) THEN Succeeded(j) ELSE Tried(j, "winget")
AfterWinget(j) ==
    IF WingetSucceeds(j.code, j.op) THEN Succeeded(j)
    ELSE IF j.fellBack THEN Tried(j, "choco") ELSE Failed(j)
AfterChocolatey(j) == IF ProcessSucceeds(j.code) THEN Succeeded(j) ELSE Failed(j)
AfterPSADT(j) ==
    CASE Category(j.code) = "success" -> Succeeded(j)
      [] Category(j.code) = "recoverable" /\ psadtPolicy.fallback /\ j.tool = "psadt" ->
            [Tried(j, ByWinget(j.op)) EXCEPT !.fellBack = TRUE]
      [] OTHER -> Failed(j)

\* A tool has ended.
After(j) ==
    CASE j.tool = "p2p" -> AfterP2P(j)
      [] j.tool = "winget" -> AfterWinget(j)
      [] j.tool = "choco" -> AfterChocolatey(j)
      [] OTHER -> AfterPSADT(j)

-----------------------------------------------------------------------------
(* The machine and the tools (external).                                   *)

\* What a tool that succeeds leaves; a peer's installer may be of any version.
Results(tool, op) ==
    IF op = "uninstall" THEN {"absent"}
    ELSE IF tool = "p2p" THEN {"old", "current"} ELSE {"current"}

\* How a tool ends that meets no trouble.
Orderly(tool, op) ==
    IF package = "current" /\ op # "uninstall" /\ tool \in {"winget", "psadt"} THEN {"noop"}
    ELSE IF package = "absent" /\ (op = "uninstall" \/ (op = "upgrade" /\ tool \in {"winget", "psadt"}))
    THEN {"missing"}
    ELSE IF tool = "winget" THEN {"ok"} ELSE {"ok", "reboot"}

\* Another installer at work.
Contended(e) == strays # {} \/ \E f \in Executor \ {e} : job[f].at = "running"

\* Whether the machine is as the task asks: an install asks for any version.
Goal(task, p) ==
    CASE task.action = "remove" -> p = "absent"
      [] task.action = "update" -> p = "current"
      [] OTHER -> p # "absent"

Ended(e, code, p) ==
    job' = [job EXCEPT ![e] = After([@ EXCEPT !.code = code, !.met = Goal(job[e].task, p)])]

ToolEnds(e, code) ==
    /\ job[e].at = "running"
    /\ code \in Orderly(job[e].tool, job[e].op)
    /\ package' \in IF code \in {"ok", "reboot"} THEN Results(job[e].tool, job[e].op) ELSE {package}
    /\ Ended(e, code, package')
    /\ UNCHANGED <<strays, psadtPolicy, p2pInstalls, toolUsed>>

\* Windows Installer takes one installation at a time (exit code 1618).
ToolFindsBusy(e) ==
    /\ job[e].at = "running" /\ Contended(e)
    /\ Ended(e, "busy", package)
    /\ UNCHANGED <<package, strays, psadtPolicy, p2pInstalls, toolUsed>>

ToolFault == toolUsed.faults < MaxToolFaults /\ toolUsed' = [toolUsed EXCEPT !.faults = @ + 1]

ToolFails(e, code) ==
    /\ job[e].at = "running"
    /\ code \in {"denied", "ignorable", "script", "fatal", "other"}
    /\ ToolFault
    /\ Ended(e, code, package)
    /\ UNCHANGED <<package, strays, psadtPolicy, p2pInstalls>>

\* The limit kills the tool, perhaps not what it had started.
ToolIsKilled(e, goesOn) ==
    /\ job[e].at = "running" /\ ToolFault
    /\ Ended(e, "timeout", package)
    /\ strays' = IF goesOn THEN strays \cup {job[e].op} ELSE strays
    /\ UNCHANGED <<package, psadtPolicy, p2pInstalls>>

StrayEnds(op) ==
    /\ op \in strays /\ strays' = strays \ {op}
    /\ package' = CASE op = "uninstall" -> "absent"
                    [] op = "upgrade" /\ package = "absent" -> "absent"
                    [] OTHER -> "current"
    /\ UNCHANGED <<psadtPolicy, p2pInstalls, job, toolUsed>>

Release ==
    /\ package = "current" /\ toolUsed.releases < MaxReleases
    /\ package' = "old" /\ toolUsed' = [toolUsed EXCEPT !.releases = @ + 1]
    /\ UNCHANGED <<strays, psadtPolicy, p2pInstalls, job>>

-----------------------------------------------------------------------------
(* The task: executeTask, executePackageAction.                            *)

BeginTask(e, task) ==
    /\ job[e].at \in {"idle", "success", "failure"}
    /\ job' = [job EXCEPT ![e] =
         [NoJob EXCEPT !.at = IF task.approval THEN "failure" ELSE "authorize",
                       !.task = task, !.op = FirstOperation(task.action),
                       !.code = IF task.approval THEN "refused" ELSE "ok"]]
    /\ UNCHANGED <<package, strays, psadtPolicy, p2pInstalls, toolUsed>>

\* authorizeAutomationPackage: removals are not asked about; StorePolicy has the answer.
Authorize(e) ==
    /\ job[e].at = "authorize"
    /\ job' = [job EXCEPT ![e] = Tried(@, FirstTool(@.task.by, @.op))]
    /\ UNCHANGED <<package, strays, psadtPolicy, p2pInstalls, toolUsed>>

NotAuthorized(e) ==
    /\ job[e].at = "authorize" /\ job[e].op # "uninstall"
    /\ job' = [job EXCEPT ![e] = Failed([@ EXCEPT !.code = "refused"])]
    /\ UNCHANGED <<package, strays, psadtPolicy, p2pInstalls, toolUsed>>

\* The tool is not there: no peer has the installer, Chocolatey or the PSADT module is
\* not installed.
ToolIsMissing(e) ==
    /\ job[e].at = "running" /\ job[e].tool # "winget"
    /\ Ended(e, "script", package)
    /\ UNCHANGED <<package, strays, psadtPolicy, p2pInstalls, toolUsed>>

-----------------------------------------------------------------------------
InitPackages ==
    /\ package = "absent" /\ strays = {}
    /\ psadtPolicy \in PSADTPolicies /\ p2pInstalls \in BOOLEAN
    /\ job = [e \in Executor |-> NoJob]
    /\ toolUsed = [faults |-> 0, releases |-> 0]

NextPackages ==
    \/ \E e \in Executor :
          \/ \E task \in PackageTasks : BeginTask(e, task)
          \/ Authorize(e) \/ NotAuthorized(e) \/ ToolIsMissing(e)
          \/ \E code \in Code : ToolEnds(e, code) \/ ToolFails(e, code)
          \/ ToolFindsBusy(e)
          \/ \E goesOn \in BOOLEAN : ToolIsKilled(e, goesOn)
    \/ \E op \in Operation : StrayEnds(op)
    \/ Release

PackagesSpec == InitPackages /\ [][NextPackages]_packageVars

-----------------------------------------------------------------------------
(* Properties.                                                             *)

\* A task is reported completed only when the machine was as it asks at the end of its
\* last tool, but for the exit code and the timeout the policy ignores.  It is reported
\* failed with the machine as it asks only where a code is read otherwise: something was
\* missing or there already for a tool whose codes say no more, a reboot was due, or
\* trouble of the tool hid that another process had done the work.
OutcomesAreHonest ==
    \A e \in Executor :
        /\ job[e].at = "success" =>
             \/ job[e].met
             \/ job[e].tool \in {"psadt", "msi"} /\
                   ((job[e].code = "ignorable" /\ psadtPolicy.ignores)
                      \/ (job[e].code = "timeout" /\ psadtPolicy.timeout = "ignore"))
        /\ (job[e].at = "failure" /\ job[e].met) =>
             \/ job[e].code \in {"refused", "busy", "denied", "ignorable", "script", "fatal",
                                 "other", "timeout"}
             \/ job[e].code = "missing" /\ job[e].task.action = "remove"
             \/ job[e].code = "noop" /\ job[e].tool = "psadt"
             \/ job[e].code = "reboot" /\ job[e].tool = "choco"
=============================================================================
