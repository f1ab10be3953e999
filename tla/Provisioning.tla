---------------------------- MODULE Provisioning ----------------------------
(***************************************************************************)
(* The credentials of the agent in config.json: the registration with a    *)
(* deploy key at the first start, the onboarding by a peer, the settings   *)
(* of the UI, the configuration that the service keeps of the same file,   *)
(* and the removal of the agent.                                           *)
(*                                                                         *)
(*   app/installer.go, app/debug/installer.go, app/debug/service.go        *)
(*   app/p2p_onboarding.go, app/headless_p2p_runtime.go, app/p2p_http.go   *)
(*   app/agent_config.go, app/mesh.go, app/p2p_bridge.go                   *)
(*   internal/service/manager.go (SharedConfig), app/agent_decommission.go *)
(*                                                                         *)
(* Whoever writes the file reads it first and writes it as a whole, with   *)
(* no lock between goroutines or processes; os.WriteFile empties a file    *)
(* before it fills it. The UI writes the keys of InstallerConfig and reads *)
(* no others; the service writes those of SharedConfig and reads both.     *)
(***************************************************************************)
EXTENDS Naturals

CONSTANTS
    MaxRegistrations,   \* bound: agents registered on the server
    MaxEvents           \* bound: offers, settings, saves, reloads, failed requests and ends of a process

ASSUME ProvisioningAssumption == MaxRegistrations \in Nat \ {0} /\ MaxEvents \in Nat

\* A token: none, the credentials of one registration, or the deploy key in its place.
KeyAsToken == MaxRegistrations + 1
Tokens == 0..KeyAsToken
Registered == 1..MaxRegistrations

Onboarders == {"loop", "peer"}      \* RunOnboardingLoop; a peer's PUT
Boots == {"bootUi", "bootService"}  \* BootstrapAgentCredentialsFromInstallerConfig
Writers == Onboarders \cup Boots \cup {"settings", "saver"}
AgentProcesses == {"ui", "service"}
HomeOf == [w \in Writers |-> IF w \in {"loop", "bootService", "saver"} THEN "service" ELSE "ui"]

VARIABLES
    file,       \* config.json
    override,   \* installer.json: what an installation over another one left
    jobs,       \* per writer, what it is doing, with its copy of the file
    config,     \* sm.config of the service: its AuthToken
    loader,     \* loadConfig, between the new SharedConfig and the end of Unmarshal
    regs,       \* registrations on the server
    outbox,     \* agent_decommission_outbox
    life,       \* installed, or how the cleanup at the removal ended
    excused,    \* a second registration has had a cause: see CredentialsAreKept
    events      \* of those that MaxEvents bounds

provisioningVars == <<file, override, jobs, config, loader, regs, outbox, life, excused, events>>
others == <<config, loader, outbox, life>>

Content == [schema : {"ui", "service"}, token : Tokens, key : BOOLEAN, mesh : BOOLEAN]
Blank == [schema |-> "ui", token |-> 0, key |-> FALSE, mesh |-> FALSE]
NoWrite == [pc |-> "idle", copy |-> Blank, new |-> 0, stale |-> FALSE]
NoLoad == [pc |-> "idle", torn |-> FALSE, data |-> Blank]

Event == events < MaxEvents /\ events' = events + 1

\* The file is not one that the UI wrote: half written, or with the keys of the service.
Foreign == file.torn \/ file.data.schema = "service"

\* loadInstallerConfig: an empty file is an error, and so is one with no server; the
\* override brings a server and may bring a deploy key.
UiCanRead == ~file.torn /\ (override # "none" \/ (~Foreign /\ (file.data.token > 0 \/ file.data.key)))
UiReads ==
    LET data == IF Foreign THEN Blank ELSE file.data IN
    [data EXCEPT !.key = @ \/ override = "key"]
\* isAgentConfigured
Configured == UiCanRead /\ UiReads.token > 0

\* SharedConfig.UnmarshalJSON: both sets of keys, and the deploy key for want of a token.
ServiceReads(data) == IF data.token = 0 /\ data.key THEN KeyAsToken ELSE data.token

-----------------------------------------------------------------------------
(* Writing, by whoever holds a copy.                                       *)

Becomes(w, job) == jobs' = [jobs EXCEPT ![w] = job]
Holds(data) == [NoWrite EXCEPT !.pc = "holding", !.copy = data]

\* What is written of a copy. (Faulty form: the settings are written without the
\* credentials.)
ForgetfulData(w) ==
    LET job == jobs[w] IN
    CASE w = "saver"    -> [Blank EXCEPT !.schema = "service", !.token = job.copy.token]
      [] w = "settings" -> [Blank EXCEPT !.mesh = TRUE]
      [] OTHER          -> [job.copy EXCEPT !.token = job.new, !.key = FALSE]
WrittenData(w) ==
    LET job == jobs[w] IN
    CASE w = "saver"    -> [Blank EXCEPT !.schema = "service", !.token = job.copy.token]
      [] w = "settings" -> [job.copy EXCEPT !.mesh = TRUE]
      [] OTHER          -> [job.copy EXCEPT !.token = job.new, !.key = FALSE]

Truncate(w) ==
    /\ jobs[w].pc = "holding"
    /\ file' = [file EXCEPT !.torn = TRUE] /\ jobs' = [jobs EXCEPT ![w].pc = "filling"]
    /\ UNCHANGED <<others, override, regs, excused, events>>

\* The copies that the others hold are no longer those of the file.
Fill(w) ==
    /\ jobs[w].pc = "filling"
    /\ file' = [torn |-> FALSE, data |-> WrittenData(w)]
    /\ jobs' = [v \in Writers |->
                   IF v = w
                   THEN [NoWrite EXCEPT !.pc = IF w \in Boots /\ override # "none" THEN "scrubbing" ELSE "idle"]
                   ELSE [jobs[v] EXCEPT !.stale = @ \/ jobs[v].pc \in {"registering", "holding", "filling"}]]
    /\ excused' = (excused \/ w = "saver" \/ jobs[w].stale)
    /\ UNCHANGED <<others, override, regs, events>>

\* scrubInstallerConfigSource
Scrub(b) ==
    /\ jobs[b].pc = "scrubbing"
    /\ override' = "scrubbed" /\ Becomes(b, NoWrite)
    /\ UNCHANGED <<file, others, regs, excused, events>>

-----------------------------------------------------------------------------
(* The credentials.                                                        *)

\* Credentials that another writer has ordered and not yet written.
Ordered(w) == \E v \in Writers \ {w} : jobs[v].pc \in {"registering", "merging"} \/ jobs[v].new > 0

\* Register: the server makes an agent of the deploy key.
Register(w, next) ==
    \/ /\ regs < MaxRegistrations /\ regs' = regs + 1
       /\ Becomes(w, [next EXCEPT !.new = regs + 1]) /\ UNCHANGED events
    \/ /\ Event /\ Becomes(w, NoWrite) /\ UNCHANGED regs

\* At the start of either process. With credentials that the server accepts, a deploy
\* key is removed; without, or with ones that it refuses or is not asked about in
\* time, the key is used; the copy is written that was read here.
BootOf(b, data) ==
    \/ /\ data.token > 0 /\ data.key
       /\ Becomes(b, [Holds(data) EXCEPT !.new = data.token]) /\ UNCHANGED <<excused, events>>
    \/ /\ data.token > 0 /\ data.key /\ Event
       /\ Becomes(b, [Holds(data) EXCEPT !.pc = "registering"]) /\ excused' = TRUE
    \/ /\ data.token = 0 /\ data.key
       /\ Becomes(b, [Holds(data) EXCEPT !.pc = "registering"])
       /\ excused' = (excused \/ Ordered(b)) /\ UNCHANGED events
    \/ /\ ~data.key /\ Becomes(b, NoWrite) /\ UNCHANGED <<excused, events>>

Boot(b) ==
    /\ jobs[b].pc = "starting"
    /\ IF UiCanRead THEN BootOf(b, UiReads) ELSE Becomes(b, NoWrite) /\ UNCHANGED <<excused, events>>
    /\ UNCHANGED <<file, override, others, regs>>

BootRegisters(b) ==
    /\ jobs[b].pc = "registering"
    /\ Register(b, [jobs[b] EXCEPT !.pc = "holding"])
    /\ UNCHANGED <<file, override, others, excused>>

\* The loop starts after Bootstrap, if the agent is a generic one, and ends when it
\* finds credentials.
LoopStarts ==
    /\ jobs["loop"].pc = "off" /\ jobs["bootService"].pc = "idle"
    /\ Becomes("loop", [NoWrite EXCEPT !.pc = IF Configured THEN "over" ELSE "idle"])
    /\ UNCHANGED <<file, override, others, regs, excused, events>>

LoopEnds ==
    /\ jobs["loop"].pc = "idle" /\ Configured
    /\ Becomes("loop", [NoWrite EXCEPT !.pc = "over"])
    /\ UNCHANGED <<file, override, others, regs, excused, events>>

\* applyOnboardingOffer: an offer of a peer is taken if the agent has no credentials.
\* (Faulty form: it is always taken.)
TakesAny == ~file.torn
TakesOffer == ~Configured
Offer(o) ==
    /\ jobs[o].pc = "idle" /\ TakesOffer /\ Event
    /\ Becomes(o, [NoWrite EXCEPT !.pc = "registering"])
    /\ excused' = (excused \/ file.torn \/ Ordered(o))
    /\ UNCHANGED <<file, override, others, regs>>

OfferRegisters(o) ==
    /\ jobs[o].pc = "registering"
    /\ Register(o, [jobs[o] EXCEPT !.pc = "merging"])
    /\ UNCHANGED <<file, override, others, excused>>

\* The file is read again; that it cannot be read does not matter.
Merge(o) ==
    /\ jobs[o].pc = "merging"
    /\ Becomes(o, [Holds(IF UiCanRead THEN UiReads ELSE Blank) EXCEPT !.new = jobs[o].new, !.stale = Foreign])
    /\ UNCHANGED <<file, override, others, regs, excused, events>>

-----------------------------------------------------------------------------
(* The settings of the UI, and the configuration of the service.           *)

\* markMeshCentralInstalled and persistAgentUpdatePolicy give up if the file cannot be
\* read; SetP2PConfig then writes a new one.
Settings ==
    /\ jobs["settings"].pc = "idle" /\ Event
    /\ Becomes("settings", [Holds(IF UiCanRead THEN UiReads ELSE Blank) EXCEPT !.stale = Foreign])
    /\ UNCHANGED <<file, override, others, regs, excused>>

\* loadConfig, on request over the pipe and before each look for an update: sm.config
\* is a new SharedConfig before it has been parsed, and stays one if it cannot be.
Up == jobs["bootService"].pc # "down"
LoadBegins ==
    /\ Up /\ loader.pc = "idle" /\ Event
    /\ config' = 0 /\ loader' = [pc |-> "parsing", torn |-> file.torn, data |-> file.data]
    /\ UNCHANGED <<file, override, jobs, regs, outbox, life, excused>>

LoadEnds ==
    /\ loader.pc = "parsing"
    /\ config' = IF loader.torn THEN config ELSE ServiceReads(loader.data)
    /\ loader' = NoLoad
    /\ UNCHANGED <<file, override, jobs, regs, outbox, life, excused, events>>

\* setLastSync and saveConfig, after each inventory: the copy in memory is written.
Save ==
    /\ Up /\ jobs["saver"].pc = "idle" /\ Event
    /\ Becomes("saver", Holds([Blank EXCEPT !.token = config]))
    /\ UNCHANGED <<file, override, others, regs, excused>>

-----------------------------------------------------------------------------
(* A process ends, at any point, and starts again; the agent is removed.   *)

\* The service does not start over a file that it cannot parse.
StartedJobs(up) ==
    [w \in Writers |-> [NoWrite EXCEPT !.pc = CASE w = "bootService" -> IF up THEN "starting" ELSE "down"
                                                [] w = "bootUi"      -> "starting"
                                                [] w = "loop"        -> "off"
                                                [] OTHER             -> "idle"]]
Crash(p) ==
    /\ Event
    /\ jobs' = [w \in Writers |-> IF HomeOf[w] = p THEN StartedJobs(~file.torn)[w] ELSE jobs[w]]
    /\ IF p = "service"
       THEN config' = (IF file.torn THEN 0 ELSE ServiceReads(file.data)) /\ loader' = NoLoad
       ELSE UNCHANGED <<config, loader>>
    /\ excused' = (excused \/ \E w \in Writers : HomeOf[w] = p /\ (jobs[w].new > 0 \/ jobs[w].pc = "filling"))
    /\ UNCHANGED <<file, override, regs, outbox, life>>

\* RunAgentDecommissionCleanup: the server is asked to delete the agent. After a failure
\* the process ends in enqueueAgentDecommissionOutbox: the error it is to store is the
\* outer one, which is nil.
Remove ==
    /\ life = "installed" /\ Configured
    /\ life' \in {"deleted", "failed"}
    /\ UNCHANGED <<file, override, jobs, config, loader, regs, outbox, excused, events>>

-----------------------------------------------------------------------------
\* The installer left a deploy key, or nothing (a generic agent); or it ran over an
\* agent of either kind, or one with credentials.
InitProvisioning ==
    /\ \E token \in {0, 1}, key \in BOOLEAN :
          /\ token = 1 => ~key
          /\ file = [torn |-> FALSE, data |-> [Blank EXCEPT !.token = token, !.key = key]]
          /\ regs = token
    /\ override \in {"none", "key"}
    /\ jobs = StartedJobs(TRUE)
    /\ config = ServiceReads(file.data) /\ loader = NoLoad
    /\ outbox = "empty" /\ life = "installed" /\ excused = FALSE
    /\ events = 0

Working ==
    \/ \E w \in Writers : Truncate(w) \/ Fill(w)
    \/ \E b \in Boots : Boot(b) \/ BootRegisters(b) \/ Scrub(b)
    \/ \E o \in Onboarders : Offer(o) \/ OfferRegisters(o) \/ Merge(o)
    \/ LoopStarts \/ LoopEnds
    \/ Settings \/ LoadBegins \/ LoadEnds \/ Save
    \/ \E p \in AgentProcesses : Crash(p)

NextProvisioning == (life = "installed" /\ Working) \/ Remove

ProvisioningSpec == InitProvisioning /\ [][NextProvisioning]_provisioningVars

-----------------------------------------------------------------------------
(* Properties.                                                             *)

\* The ranges of the variables.
ProvisioningTypeOK ==
    /\ file \in [torn : BOOLEAN, data : Content] /\ override \in {"none", "key", "scrubbed"}
    /\ jobs \in [Writers -> [pc : {"off", "over", "down", "idle", "starting", "registering", "merging",
                                   "holding", "filling", "scrubbing"},
                             copy : Content, new : 0..MaxRegistrations, stale : BOOLEAN]]
    /\ config \in Tokens /\ loader \in [pc : {"idle", "parsing"}, torn : BOOLEAN, data : Content]
    /\ regs \in 0..MaxRegistrations /\ outbox \in {"empty", "queued"}
    /\ life \in {"installed", "deleted", "failed"} /\ excused \in BOOLEAN
    /\ events \in 0..MaxEvents

\* Credentials that the UI can read give way only to newer ones, to a save of the
\* service, to a writer whose copy is older than they are or not one of the file, or
\* to an offer taken up before they came: the onboarder sees them and replaces them.
LossNeedsOverlap ==
    [][\A w \in Writers :
          (Fill(w) /\ file.data.schema = "ui" /\ file.data.token > 0)
             => \/ file'.data.schema = "ui" /\ file'.data.token >= file.data.token
                \/ w = "saver" \/ jobs[w].stale \/ (w \in Onboarders /\ jobs[w].copy.token > 0)]_provisioningVars

\* Credentials that are there are kept, and none is asked for a second time: the agent
\* registers once, unless two registrations overlap, a copy was written that was not of
\* the file as it was, the service saved it, a process ended with new credentials in its
\* hands, a peer's offer met a half written file, or the server could not be asked about
\* the credentials beside a new deploy key.
CredentialsAreKept == [](regs <= 1 \/ excused) /\ LossNeedsOverlap

\* manager.go:71: "SharedConfig representa a configuração compartilhada entre service e
\* UI": credentials that the service wrote are found by the UI.
SharedWithUi ==
    (~file.torn /\ ServiceReads(file.data) \in Registered) => Configured
=============================================================================
