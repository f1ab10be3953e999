----------------------------- MODULE AgentConfig -----------------------------
(***************************************************************************)
(* The agent's configuration and the settings it is turned into.           *)
(*                                                                         *)
(* The coordinator's loop refreshes: it fetches the configuration, files   *)
(* the answer in SQLite, keeps it in memory and applies it, one setting    *)
(* after the other: the P2P switch (a copy of the P2P settings is read,    *)
(* changed and written back), the security of the connection (one step     *)
(* under the lock, then a reload), what other components are handed, and   *)
(* the client and site.  A failed fetch applies what was filed.            *)
(*                                                                         *)
(* The same settings have other writers: the bootstrap at the start, the   *)
(* debug screen, whose save carries no security at all, and the P2P        *)
(* screen, which replaces all the P2P settings.                            *)
(*                                                                         *)
(* Source: app/agent_config.go, app/sync.go (refreshAgentConfiguration),   *)
(* app/debug/service.go, app/p2p_bridge.go.                                *)
(***************************************************************************)
EXTENDS Naturals

CONSTANTS
    Configurations,  \* what the server may answer (see Configuration)
    MaxPublished,    \* bound: configurations the server has, one after the other
    MaxSaves,        \* bound: saves on the two screens
    MaxMishaps,      \* bound: answers that do not parse, rows that are not written
    MaxAgentStarts   \* bound: starts of the process after the first

\* A switch the server may leave out keeps its value; a hash it leaves out is empty.
Switch == {"on", "off", "absent"}
Configuration ==
    [hash: {"", "A", "B"}, enforce: Switch, handshake: Switch, p2p: Switch, site: {1, 2}]

ASSUME ConfigurationsAssumption ==
    /\ Configurations # {} /\ Configurations \subseteq Configuration
    /\ MaxPublished \in Nat \ {0}
    /\ MaxSaves \in Nat /\ MaxMishaps \in Nat /\ MaxAgentStarts \in Nat

VARIABLES
    published,    \* how many configurations the server has had
    answer,       \* the last of them, with its number
    configuration,  \* the one in memory (agentConfig)
    filed,        \* the row agent_configuration_raw
    connection,   \* the runtime configuration: credentials and security
    p2p,          \* the P2P settings: the switch and the rest
    filedTuning,  \* the rest, in config.json
    handed,       \* the one whose update policy, poll interval, MeshCentral switch
                  \* and windows the other components have
    refresh,      \* the refresh under way
    boot,         \* the bootstrap
    configUsed,   \* bounds
    overridden,  \* history: settings another writer took from the configuration
    missedRow     \* history: an answer was not written to SQLite

configVars == <<published, answer, configuration, filed, connection, p2p, filedTuning,
                handed, refresh, boot, configUsed, overridden, missedRow>>

settings == <<connection, p2p, filedTuning, handed>>
bookkeeping == <<configUsed, overridden, missedRow>>
serverVars == <<published, answer>>

None == [number |-> 0]
Unparsable == [number |-> 0, broken |-> TRUE]
Numbered(n, c) == [number |-> n, of |-> c]
IsConfiguration(x) == x \notin {None, Unparsable}

SomeConfiguration ==
    {None} \cup {Numbered(n, c) : n \in 1..MaxPublished, c \in Configurations}
Connection == [known: BOOLEAN, hash: {"", "A", "B"}, enforce: BOOLEAN]
P2PSettings == [enabled: BOOLEAN, tuning: 0..MaxSaves]

Resting == [at |-> "idle", of |-> None, copy |-> [enabled |-> TRUE, tuning |-> 0],
            fresh |-> FALSE, moved |-> FALSE, repeats |-> FALSE, reloads |-> 0]

AgentConfigTypeOK ==
    /\ published \in 1..MaxPublished /\ answer \in SomeConfiguration
    /\ configuration \in SomeConfiguration /\ handed \in SomeConfiguration
    /\ filed \in SomeConfiguration \cup {Unparsable}
    /\ connection \in Connection /\ p2p \in P2PSettings /\ filedTuning \in 0..MaxSaves
    /\ refresh \in [at: {"start", "idle", "store", "copy", "switch", "secure", "hand", "context", "again"},
                    of: SomeConfiguration, copy: P2PSettings, fresh: BOOLEAN,
                    moved: BOOLEAN, repeats: BOOLEAN, reloads: 0..3]
    /\ boot \in [copy: Connection, at: {"read", "write", "over"}, left: 0..2]
    /\ configUsed \in [saves: 0..MaxSaves, mishaps: 0..MaxMishaps, starts: 0..MaxAgentStarts]
    /\ overridden \subseteq {"security", "p2p", "tuning"} /\ missedRow \in BOOLEAN

-----------------------------------------------------------------------------
(* What a configuration says of a setting: parseAgentConfiguration.        *)

Follow(switch, value) == IF switch = "absent" THEN value ELSE switch = "on"

\* ApplyRemoteConnectionSecurity: hashes are assigned, switches only when present.
\* (Faulty form: a hash the server took away stays.)
SecuredKeepingHash(conn, c) ==
    [conn EXCEPT !.hash = IF c.hash = "" THEN @ ELSE c.hash, !.enforce = Follow(c.enforce, @)]
Secured(conn, c) == [conn EXCEPT !.hash = c.hash, !.enforce = Follow(c.enforce, @)]

\* The secure handshake is on whatever the server says, so that a configuration that
\* switches it off differs from the runtime each time it is applied.
\* (Faulty form: a switch that is absent is compared as if it were off.)
SecurityChangesWhenAbsent(conn, c) ==
    conn.hash # c.hash \/ conn.enforce # (c.enforce = "on") \/ c.handshake = "off"
SecurityChanges(conn, c) == Secured(conn, c) # conn \/ c.handshake = "off"

-----------------------------------------------------------------------------
(* The refresh: refreshAgentConfiguration, setAgentConfiguration,          *)
(* applyAgentConfiguration.                                                *)

\* The settings this configuration governs are as it left them, and stay so.
InForce(c) == configuration = c /\ "security" \notin overridden

CanFetch == connection.known /\ refresh.at \in {"start", "idle"}

Apply(x, fresh) ==
    refresh' = [Resting EXCEPT !.at = "store", !.of = x, !.fresh = fresh,
                               !.repeats = InForce(x)]
GiveUp == refresh' = [Resting EXCEPT !.at = "idle"]

\* The answer is written to SQLite, then parsed.
Fetched(x, row) ==
    /\ CanFetch
    /\ filed' = row
    /\ missedRow' = (row # x /\ row # Unparsable)
    /\ IF x = Unparsable THEN GiveUp ELSE Apply(x, TRUE)
    /\ UNCHANGED <<serverVars, configuration, settings, boot, overridden>>

FetchConfiguration == Fetched(answer, answer) /\ UNCHANGED configUsed

Mishap == configUsed.mishaps < MaxMishaps
          /\ configUsed' = [configUsed EXCEPT !.mishaps = @ + 1]

\* An answer that does not parse counts as a refresh all the same.
FetchUnparsable == Fetched(Unparsable, Unparsable) /\ Mishap

\* CacheSet fails, which nobody looks at.
FetchWithoutRow == Fetched(answer, filed) /\ Mishap

\* No answer, or an error: loadCachedAgentConfiguration.
\* (Faulty form: the error is returned without a look at the row.)
FetchGivesUp ==
    /\ CanFetch /\ GiveUp
    /\ UNCHANGED <<serverVars, configuration, filed, settings, boot, bookkeeping>>
FetchFallsBack ==
    /\ CanFetch
    /\ IF IsConfiguration(filed) THEN Apply(filed, FALSE) ELSE GiveUp
    /\ UNCHANGED <<serverVars, configuration, filed, settings, boot, bookkeeping>>

\* A row lives thirty days.
RowExpires ==
    /\ filed # None
    /\ filed' = None
    /\ UNCHANGED <<serverVars, configuration, settings, refresh, boot, bookkeeping>>

NextStage(from, to) == refresh.at = from /\ refresh' = [refresh EXCEPT !.at = to]

\* setAgentConfiguration: the previous one is kept for the comparison at the end.
StoreConfiguration ==
    /\ refresh.at = "store"
    /\ configuration' = refresh.of
    /\ refresh' = [refresh EXCEPT !.at = IF refresh.of.of.p2p = "absent" THEN "secure" ELSE "copy",
                                  !.moved = configuration = None
                                            \/ configuration.of.site # refresh.of.of.site]
    /\ UNCHANGED <<serverVars, filed, settings, boot, bookkeeping>>

CopyP2P ==
    /\ refresh.at = "copy"
    /\ refresh' = [refresh EXCEPT !.at = "switch", !.copy = p2p]
    /\ UNCHANGED <<serverVars, configuration, filed, settings, boot, bookkeeping>>

\* The copy is written back, with what a save on the screen changed since.
SwitchP2P ==
    /\ NextStage("switch", "secure")
    /\ p2p' = [refresh.copy EXCEPT !.enabled = Follow(refresh.of.of.p2p, @)]
    /\ overridden' = (overridden \ {"p2p"})
                        \cup (IF refresh.copy.tuning # p2p.tuning THEN {"tuning"} ELSE {})
    /\ UNCHANGED <<serverVars, configuration, filed, connection, filedTuning, handed, boot,
                   configUsed, missedRow>>

\* ApplyRemoteConnectionSecurity, from applyAgentConfiguration and, for a fetched
\* configuration, once more at the end of the refresh.
ApplySecurity(from, to) ==
    /\ refresh.at = from
    /\ connection' = Secured(connection, refresh.of.of)
    /\ refresh' = [refresh EXCEPT !.at = to,
                     !.reloads = @ + IF SecurityChanges(connection, refresh.of.of) THEN 1 ELSE 0]
    /\ overridden' = overridden \ {"security"}
    /\ UNCHANGED <<serverVars, configuration, filed, p2p, filedTuning, handed, boot,
                   configUsed, missedRow>>

\* persistAgentUpdatePolicy, setPollEvery, ensureMeshCentralInstalled, ApplyAgentConfig.
HandOut ==
    /\ NextStage("hand", "context")
    /\ handed' = refresh.of
    /\ UNCHANGED <<serverVars, configuration, filed, connection, p2p, filedTuning, boot, bookkeeping>>

\* The subjects of NATS name the client and the site.
FollowContext ==
    /\ refresh.at = "context"
    /\ refresh' = [refresh EXCEPT !.at = IF refresh.fresh THEN "again" ELSE "idle",
                                  !.reloads = @ + IF refresh.moved THEN 1 ELSE 0]
    /\ UNCHANGED <<serverVars, configuration, filed, settings, boot, bookkeeping>>

-----------------------------------------------------------------------------
(* The other writers.                                                      *)

\* ApplyRuntimeConnectionConfig: the security it writes is the one it read.
BootstrapReads ==
    /\ boot.at = "read" /\ boot.left > 0
    /\ boot' = [boot EXCEPT !.at = "write", !.copy = connection]
    /\ UNCHANGED <<serverVars, configuration, filed, settings, refresh, bookkeeping>>

\* Known credentials are applied first; when the server refuses them, new ones follow.
BootstrapWrites ==
    /\ boot.at = "write"
    /\ connection' = [boot.copy EXCEPT !.known = TRUE]
    /\ boot' = [boot EXCEPT !.at = IF boot.left > 1 THEN "read" ELSE "over", !.left = @ - 1]
    /\ overridden' = overridden \cup
         (IF connection' # [connection EXCEPT !.known = TRUE] THEN {"security"} ELSE {})
    /\ refresh' = [refresh EXCEPT !.repeats = FALSE]
    /\ UNCHANGED <<serverVars, configuration, filed, p2p, filedTuning, handed, configUsed, missedRow>>

Saving == configUsed.saves < MaxSaves /\ configUsed' = [configUsed EXCEPT !.saves = @ + 1]

\* SetConfig with what the debug screen sends: servers and credentials.
SaveDebugScreen ==
    /\ Saving
    /\ connection' = [known |-> TRUE, hash |-> "", enforce |-> FALSE]
    /\ overridden' = overridden \cup {"security"}
    /\ refresh' = [refresh EXCEPT !.repeats = FALSE]
    /\ UNCHANGED <<serverVars, configuration, filed, p2p, filedTuning, handed, boot, missedRow>>

\* SetP2PConfig: all the settings at once, in memory and in config.json.
SaveP2PScreen(enabled) ==
    /\ Saving
    /\ p2p' = [enabled |-> enabled, tuning |-> configUsed.saves + 1]
    /\ filedTuning' = configUsed.saves + 1
    /\ overridden' = (overridden \cup {"p2p"}) \ {"tuning"}
    /\ UNCHANGED <<serverVars, configuration, filed, connection, handed, refresh, boot, missedRow>>

\* The administrator changes the configuration on the server.
PublishConfiguration(c) ==
    /\ published < MaxPublished
    /\ published' = published + 1 /\ answer' = Numbered(published + 1, c)
    /\ UNCHANGED <<configuration, filed, settings, refresh, boot, bookkeeping>>

\* NewApp and LoadConnectionConfigFromProduction: no configuration, no security
\* (LoadPersistedConfig has no caller), P2P on.
AgentStarted(known, tuning) ==
    /\ configuration' = None /\ handed' = None
    /\ connection' = [known |-> known, hash |-> "", enforce |-> FALSE]
    /\ p2p' = [enabled |-> TRUE, tuning |-> tuning]
    /\ refresh' = [Resting EXCEPT !.at = "start"]
    /\ boot' = [copy |-> connection', at |-> "read", left |-> 2]
    /\ overridden' = {}

ProcessStarts ==
    /\ configUsed.starts < MaxAgentStarts
    /\ configUsed' = [configUsed EXCEPT !.starts = @ + 1]
    /\ AgentStarted(connection.known, filedTuning)
    /\ UNCHANGED <<serverVars, filed, filedTuning, missedRow>>

-----------------------------------------------------------------------------
InitAgentConfig ==
    /\ published = 1 /\ answer \in {Numbered(1, c) : c \in Configurations}
    /\ configuration = None /\ filed = None /\ handed = None
    /\ connection \in [known: BOOLEAN, hash: {""}, enforce: {FALSE}]
    /\ p2p = [enabled |-> TRUE, tuning |-> 0] /\ filedTuning = 0
    /\ refresh = [Resting EXCEPT !.at = "start"]
    /\ boot = [copy |-> connection, at |-> "read", left |-> 2]
    /\ configUsed = [saves |-> 0, mishaps |-> 0, starts |-> 0]
    /\ overridden = {} /\ missedRow = FALSE

RefreshSteps ==
    \/ FetchConfiguration \/ FetchUnparsable \/ FetchWithoutRow \/ FetchFallsBack
    \/ StoreConfiguration \/ CopyP2P \/ SwitchP2P
    \/ ApplySecurity("secure", "hand") \/ HandOut \/ FollowContext
    \/ ApplySecurity("again", "idle")

NextAgentConfig ==
    \/ RefreshSteps \/ RowExpires
    \/ BootstrapReads \/ BootstrapWrites
    \/ SaveDebugScreen \/ \E enabled \in BOOLEAN : SaveP2PScreen(enabled)
    \/ \E c \in Configurations : PublishConfiguration(c)
    \/ ProcessStarts

AgentConfigSpec == InitAgentConfig /\ [][NextAgentConfig]_configVars

-----------------------------------------------------------------------------
(* Properties.                                                             *)

\* Between refreshes the connection's security, the P2P switch and what the other
\* components were handed are those of the configuration in memory, whichever way it
\* came, but for a setting another writer overwrote; and the P2P settings the user saved
\* last are in force, unless a save fell between a refresh's read and its write.
SettingsFollow ==
    refresh.at = "idle" =>
      /\ configuration # None =>
           /\ "security" \notin overridden =>
                Secured(connection, configuration.of).enforce = connection.enforce
                /\ connection.hash = configuration.of.hash
           /\ "p2p" \notin overridden => p2p.enabled = Follow(configuration.of.p2p, p2p.enabled)
           /\ handed = configuration
      /\ "tuning" \notin overridden => p2p.tuning = filedTuning

\* A refresh that brings the configuration already in force leaves the connection alone
\* (every reload ends the session and the commands' answers go to the outbox), unless
\* it switches the handshake off, which the agent takes for a change each time.
RefreshesAreQuiet ==
    refresh.repeats /\ refresh.of.of.handshake # "off" => refresh.reloads = 0

\* What the server configures holds, and holding it disturbs nothing.
ConfigurationIsFollowed == SettingsFollow /\ RefreshesAreQuiet

\* An agent that could not fetch runs on what it filed: no refresh leaves it without a
\* configuration while a good row is there, and none brings an older configuration back
\* unless the newer one's row was not written.
FallbackIsNewest ==
    /\ [](refresh.at = "idle" /\ configuration = None => ~IsConfiguration(filed))
    /\ [][configuration'.number >= configuration.number \/ missedRow \/ configuration' = None]_configVars
=============================================================================
