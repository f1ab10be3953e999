---------------------------- MODULE AgentContext ----------------------------
(***************************************************************************)
(* Whose data the desktop process shows: the agent's context (client and  *)
(* site, from /api/agent-auth/me) and what is filed under it.             *)
(*                                                                         *)
(* The runtime configuration names an identity.  Every support and        *)
(* knowledge call first resolves the context of that identity, from       *)
(* memory (no expiry), from SQLite (a day) or from the server, and reads  *)
(* the configuration again for its own request.  The debug screen         *)
(* replaces the configuration and then empties both caches, one after the *)
(* other; the bootstrap and the next start replace it and empty nothing.  *)
(*                                                                         *)
(* Source: app/support/service.go, app/support/knowledge.go,              *)
(* app/debug/service.go, app/supportmeta/types.go.                        *)
(***************************************************************************)
EXTENDS Naturals

CONSTANTS
    Caller,         \* calls of the UI and of the chat's tools, run at once
    MaxIdentities,  \* bound: identities the server hands out
    MaxStarts       \* bound: starts of the process after the first

ASSUME ContextAssumption == MaxIdentities \in Nat \ {0} /\ MaxStarts \in Nat

ClientIdentity == 1..MaxIdentities

\* 0 stands for a value that is not there.
MaybeClient == 0..MaxIdentities

VARIABLES
    configured,     \* the identity of the runtime configuration
    installed,      \* the identity of config.json
    memoryInfo,     \* the context in memory
    diskInfo,       \* the context in SQLite
    contextCall,    \* the calls: the context resolved, the credentials read after
    configChange,   \* what is left of a SetConfig: "none", "memory", "disk"
    contextStarts,  \* bound
    contextExcused         \* history: the configuration changed with the caches kept, or
                    \* while a call was under way

contextVars == <<configured, installed, memoryInfo, diskInfo, contextCall,
                 configChange, contextStarts, contextExcused>>

caches == <<memoryInfo, diskInfo>>
identityVars == <<configured, installed, configChange, contextStarts,
                  contextExcused>>

ContextOp == {"tickets", "create", "articles", "refresh"}

NoContextCall == [op |-> "none", at |-> "idle", info |-> 0, token |-> 0]

ContextTypeOK ==
    /\ {configured, installed, memoryInfo, diskInfo} \subseteq MaybeClient
    /\ contextCall \in
         [Caller -> [op: ContextOp \cup {"none"},
                     at: {"idle", "disk", "remember", "ask", "keep", "file", "use",
                          "post", "fetch", "save"},
                     info: MaybeClient, token: MaybeClient]]
    /\ configChange \in {"none", "memory", "disk"}
    /\ contextStarts \in 0..MaxStarts
    /\ contextExcused \in BOOLEAN

InitContext ==
    /\ installed \in {0, 1} /\ configured = installed
    /\ memoryInfo = 0 /\ diskInfo = 0
    /\ contextCall = [c \in Caller |-> NoContextCall]
    /\ configChange = "none"
    /\ contextStarts = 0
    /\ contextExcused = FALSE

CallGoesTo(c, at) == contextCall' = [contextCall EXCEPT ![c].at = at]
CallReturns(c)    == contextCall' = [contextCall EXCEPT ![c] = NoContextCall]
CallsRunning      == \E c \in Caller : contextCall[c].at # "idle"

-----------------------------------------------------------------------------
(* Resolving the context.                                                  *)

\* A call begins; what memory holds is taken as it is.
BeginContextCall(c, op) ==
    /\ contextCall[c].at = "idle"
    /\ contextCall' = [contextCall EXCEPT ![c] =
           [NoContextCall EXCEPT !.op = op, !.info = memoryInfo,
               !.at = IF memoryInfo > 0 THEN "use" ELSE "disk"]]
    /\ contextExcused' = (contextExcused \/ configChange # "none")
    /\ UNCHANGED <<caches, configured, installed, configChange,
                   contextStarts>>

\* Then SQLite; without an entry the configuration is read, and a call without
\* credentials ends.
ReadContextFromDisk(c) ==
    /\ contextCall[c].at = "disk"
    /\ \/ /\ diskInfo > 0
          /\ contextCall' = [contextCall EXCEPT ![c].info = diskInfo, ![c].at = "remember"]
       \/ /\ diskInfo = 0 /\ configured > 0
          /\ contextCall' = [contextCall EXCEPT ![c].token = configured, ![c].at = "ask"]
       \/ /\ diskInfo = 0 /\ configured = 0
          /\ CallReturns(c)
    /\ UNCHANGED <<caches, identityVars>>

\* The answer of /api/agent-auth/me is of the identity that asked; an error, or
\* an answer without a client, ends the call.
ContextAnswered(c) ==
    /\ contextCall[c].at = "ask"
    /\ \/ contextCall' = [contextCall EXCEPT ![c].info = contextCall[c].token, ![c].at = "keep"]
       \/ CallReturns(c)
    /\ UNCHANGED <<caches, identityVars>>

RememberContext(c) ==
    /\ contextCall[c].at \in {"remember", "keep"}
    /\ memoryInfo' = contextCall[c].info
    /\ CallGoesTo(c, IF contextCall[c].at = "keep" THEN "file" ELSE "use")
    /\ UNCHANGED <<diskInfo, identityVars>>

\* A write that fails is only logged.
FileContext(c) ==
    /\ contextCall[c].at = "file"
    /\ diskInfo' \in {contextCall[c].info, diskInfo}
    /\ CallGoesTo(c, "use")
    /\ UNCHANGED <<memoryInfo, identityVars>>

-----------------------------------------------------------------------------
(* What the calls do with it.                                              *)

\* The tickets are only looked at.
ListTickets(c) ==
    /\ contextCall[c].at = "use" /\ contextCall[c].op = "tickets"
    /\ CallReturns(c)
    /\ UNCHANGED <<caches, identityVars>>

\* A new one is posted with the credentials of now: the configuration is read
\* again.
CreateTicket(c) ==
    /\ contextCall[c].at = "use" /\ contextCall[c].op = "create"
    /\ configured > 0
    /\ contextCall' = [contextCall EXCEPT ![c].token = configured, ![c].at = "post"]
    /\ UNCHANGED <<caches, identityVars>>

\* The ticket is opened, or the request fails before or after that.
PostTicket(c) ==
    /\ contextCall[c].at = "post"
    /\ CallReturns(c)
    /\ UNCHANGED <<caches, identityVars>>

\* The articles may be in their cache, filed under the configured server and
\* the context of the caller; the refresh removes that entry and fetches.
LookUpArticles(c) ==
    /\ contextCall[c].at = "use"
    /\ contextCall[c].op \in {"articles", "refresh"}
    /\ \/ contextCall[c].op = "articles"
          /\ CallReturns(c)
       \/ /\ configured > 0
          /\ contextCall' = [contextCall EXCEPT ![c].token = configured, ![c].at = "fetch"]
    /\ UNCHANGED <<caches, identityVars>>

ArticlesAnswered(c) ==
    /\ contextCall[c].at = "fetch"
    /\ CallGoesTo(c, "save") \/ CallReturns(c)
    /\ UNCHANGED <<caches, identityVars>>

\* What the identity of the credentials may read is filed under the context.
SaveArticles(c) ==
    /\ contextCall[c].at = "save"
    /\ CallReturns(c)
    /\ UNCHANGED <<caches, identityVars>>

-----------------------------------------------------------------------------
(* The configuration.                                                      *)

\* Faulty form: only memory is emptied.
SetConfigKeepsDisk(i) ==
    /\ configChange = "none" /\ i # configured
    /\ configured' = i
    /\ configChange' = "none"
    /\ memoryInfo' = 0
    /\ contextExcused' = (contextExcused \/ CallsRunning)
    /\ UNCHANGED <<installed, diskInfo, contextCall,
                   contextStarts>>

\* SetConfig of the debug screen, up to the assignment.
SetConfig(i) ==
    /\ configChange = "none" /\ i # configured
    /\ configured' = i
    /\ configChange' = "memory"
    /\ contextExcused' = (contextExcused \/ CallsRunning)
    /\ UNCHANGED <<installed, caches, contextCall, contextStarts>>

SetConfigForgetsMemory ==
    /\ configChange = "memory"
    /\ memoryInfo' = 0
    /\ configChange' = "disk"
    /\ UNCHANGED <<configured, installed, diskInfo,
                   contextCall, contextStarts, contextExcused>>

\* The deletion may fail, with a line in the log.
SetConfigForgetsDisk ==
    /\ configChange = "disk"
    /\ \/ diskInfo' = 0 /\ UNCHANGED contextExcused
       \/ UNCHANGED diskInfo /\ contextExcused' = TRUE
    /\ configChange' = "none"
    /\ UNCHANGED <<configured, installed, memoryInfo,
                   contextCall, contextStarts>>

\* The bootstrap of a start, without credentials or with some that the server
\* refuses: it registers, writes config.json and applies what it got to the running process.
BootstrapRegisters(i) ==
    /\ i > installed
    /\ installed' = i
    /\ configured' = i
    /\ contextExcused' = (contextExcused \/ configured > 0)
    /\ UNCHANGED <<caches, contextCall, configChange, contextStarts>>

\* A start takes the identity of config.json: what SetConfig persisted elsewhere
\* is read by nobody (LoadPersistedConfig has no caller).  SQLite stays.
ProcessRestarts ==
    /\ contextStarts < MaxStarts
    /\ contextStarts' = contextStarts + 1
    /\ configured' = installed
    /\ memoryInfo' = 0
    /\ contextCall' = [c \in Caller |-> NoContextCall]
    /\ configChange' = "none"
    /\ contextExcused' = (contextExcused \/ configured # installed \/ configChange # "none")
    /\ UNCHANGED <<installed, diskInfo>>

\* The window goes to the tray: memory is emptied (clearMemoryCaches).
ForgetMemory ==
    /\ memoryInfo > 0
    /\ memoryInfo' = 0
    /\ UNCHANGED <<diskInfo, contextCall, identityVars>>

\* The entry of the cache table runs out after a day.
ContextExpires ==
    /\ diskInfo > 0
    /\ diskInfo' = 0
    /\ UNCHANGED <<memoryInfo, contextCall, identityVars>>

-----------------------------------------------------------------------------
NextContext ==
    \/ \E c \in Caller :
          \/ \E op \in ContextOp : BeginContextCall(c, op)
          \/ ReadContextFromDisk(c)
          \/ ContextAnswered(c)
          \/ RememberContext(c)
          \/ FileContext(c)
          \/ ListTickets(c)
          \/ CreateTicket(c)
          \/ PostTicket(c)
          \/ LookUpArticles(c)
          \/ ArticlesAnswered(c)
          \/ SaveArticles(c)
    \/ \E i \in ClientIdentity : SetConfig(i) \/ BootstrapRegisters(i)
    \/ SetConfigForgetsMemory
    \/ SetConfigForgetsDisk
    \/ ProcessRestarts
    \/ ForgetMemory
    \/ ContextExpires

-----------------------------------------------------------------------------
\* A context other than the configured one is kept in memory or in SQLite, or
\* has a ticket opened or articles filed under it with the credentials of
\* another, only after a configuration that changed under a call's feet or with
\* the caches kept (fetchAgentContext, SetConfig).  Between calls SetConfig
\* leaves nothing of the client before it.
StaleContextHasACause ==
    \/ contextExcused
    \/ /\ configChange = "none" =>
             {memoryInfo, diskInfo} \subseteq {0, configured}
       /\ \A c \in Caller : contextCall[c].at \in {"post", "fetch", "save"} =>
             contextCall[c].info = contextCall[c].token
=============================================================================
