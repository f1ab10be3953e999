----------------------------- MODULE StorePolicy -----------------------------
(***************************************************************************)
(* The app-store policy: which packages the user and the automation may   *)
(* install.  It is one answer of the server for winget and one for        *)
(* Chocolatey, put together, and kept in memory for two minutes and in    *)
(* SQLite for thirty days.  Lookups take what is kept; the sync           *)
(* coordinator loads it again whatever is kept.  Nothing orders two loads.*)
(*                                                                         *)
(* Source: app/store.go, app/appstore/types.go, app/sync.go.              *)
(***************************************************************************)
EXTENDS Naturals

CONSTANTS
    Loader,         \* lookups and forced loads that may run at once
    MaxPolicies     \* bound: editions of the policy on the server

ASSUME StoreAssumption == MaxPolicies \in Nat \ {0}

\* A policy is the editions its two halves were answered from.
Edition == 1..MaxPolicies
Policy  == [winget: Edition, chocolatey: Edition]
NoPolicy == [winget |-> 0, chocolatey |-> 0]

VARIABLES
    edition,        \* the server's policy
    storeEnabled,   \* AppStoreEnabled of the agent configuration
    memoryPolicy,   \* PolicyCache
    memoryFresh,    \* it is not older than two minutes
    diskPolicy,     \* the entry "app_store_effective" of the cache table
    load,           \* the loads under way
    storeDisturbed  \* history: two loads overlapped, or a save failed

storeVars == <<edition, storeEnabled, memoryPolicy, memoryFresh, diskPolicy,
               load, storeDisturbed>>

NoStoreLoad == [at |-> "idle", got |-> NoPolicy]

StoreTypeOK ==
    /\ edition \in Edition
    /\ {storeEnabled, memoryFresh, storeDisturbed} \subseteq BOOLEAN
    /\ {memoryPolicy, diskPolicy} \subseteq Policy \cup {NoPolicy}
    /\ load \in [Loader -> [at: {"idle", "disk", "adopt", "winget", "chocolatey",
                                 "set", "save"},
                            got: [winget: {0} \cup Edition, chocolatey: {0} \cup Edition]]]

InitStore ==
    /\ edition = 1
    /\ storeEnabled = TRUE
    /\ memoryPolicy = NoPolicy /\ memoryFresh = FALSE
    /\ diskPolicy = NoPolicy
    /\ load = [l \in Loader |-> NoStoreLoad]
    /\ storeDisturbed = FALSE

StoreLoadEnds(l) == load' = [load EXCEPT ![l] = NoStoreLoad]

\* Two loads at once, from here on.
NoteOverlap(l) ==
    storeDisturbed' = (storeDisturbed \/ \E m \in Loader \ {l} : load[m].at # "idle")

-----------------------------------------------------------------------------
\* PolicyCache.Get.
MemoryAnswers == memoryPolicy # NoPolicy /\ memoryFresh

\* A lookup (catalogue, findAllowedPackage, resolveAllowedPackage) that memory
\* answers is over at once and leaves nothing.
LookUpPolicy(l) ==
    /\ load[l].at = "idle" /\ storeEnabled
    /\ ~MemoryAnswers
    /\ load' = [load EXCEPT ![l].at = "disk"]
    /\ NoteOverlap(l)
    /\ UNCHANGED <<edition, storeEnabled, memoryPolicy, memoryFresh, diskPolicy>>

\* The coordinator looks at neither cache.
ForcePolicyLoad(l) ==
    /\ load[l].at = "idle" /\ storeEnabled
    /\ load' = [load EXCEPT ![l].at = "winget"]
    /\ NoteOverlap(l)
    /\ UNCHANGED <<edition, storeEnabled, memoryPolicy, memoryFresh, diskPolicy>>

ReadPolicyFromDisk(l) ==
    /\ load[l].at = "disk"
    /\ load' = [load EXCEPT ![l] =
           IF diskPolicy = NoPolicy THEN [NoStoreLoad EXCEPT !.at = "winget"]
                                    ELSE [at |-> "adopt", got |-> diskPolicy]]
    /\ UNCHANGED <<edition, storeEnabled, memoryPolicy, memoryFresh, diskPolicy,
                   storeDisturbed>>

\* The two requests; either failing ends the load with what was kept.
PolicyAnswered(l) ==
    /\ load[l].at \in {"winget", "chocolatey"}
    /\ \/ StoreLoadEnds(l)
       \/ /\ load[l].at = "winget"
          /\ load' = [load EXCEPT ![l].got.winget = edition, ![l].at = "chocolatey"]
       \/ /\ load[l].at = "chocolatey"
          /\ load' = [load EXCEPT ![l].got.chocolatey = edition, ![l].at = "set"]
    /\ UNCHANGED <<edition, storeEnabled, memoryPolicy, memoryFresh, diskPolicy,
                   storeDisturbed>>

\* Faulty form: what memory takes from the server is not written through.
SetPolicyInMemoryOnly(l) ==
    /\ load[l].at \in {"adopt", "set"}
    /\ memoryPolicy' = load[l].got
    /\ memoryFresh' = TRUE
    /\ StoreLoadEnds(l)
    /\ diskPolicy' = IF diskPolicy = NoPolicy THEN load[l].got ELSE diskPolicy
    /\ UNCHANGED <<edition, storeEnabled, storeDisturbed>>

\* PolicyCache.Set, with what SQLite held or what the server answered.
SetPolicy(l) ==
    /\ load[l].at \in {"adopt", "set"}
    /\ memoryPolicy' = load[l].got
    /\ memoryFresh' = TRUE
    /\ IF load[l].at = "adopt" THEN StoreLoadEnds(l)
                               ELSE load' = [load EXCEPT ![l].at = "save"]
    /\ UNCHANGED <<edition, storeEnabled, diskPolicy, storeDisturbed>>

\* A save that fails leaves an older policy behind the one in memory.
SavePolicy(l) ==
    /\ load[l].at = "save"
    /\ \/ diskPolicy' = load[l].got /\ UNCHANGED storeDisturbed
       \/ UNCHANGED diskPolicy /\ storeDisturbed' = TRUE
    /\ StoreLoadEnds(l)
    /\ UNCHANGED <<edition, storeEnabled, memoryPolicy, memoryFresh>>

-----------------------------------------------------------------------------
TwoMinutesOfPolicyPass ==
    /\ memoryFresh
    /\ memoryFresh' = FALSE
    /\ UNCHANGED <<edition, storeEnabled, memoryPolicy, diskPolicy, load, storeDisturbed>>

\* clearMemoryCaches when the window goes to the tray.
InvalidatePolicy ==
    /\ memoryPolicy # NoPolicy
    /\ memoryPolicy' = NoPolicy /\ memoryFresh' = FALSE
    /\ UNCHANGED <<edition, storeEnabled, diskPolicy, load, storeDisturbed>>

\* Thirty days.
PolicyExpires ==
    /\ diskPolicy # NoPolicy
    /\ diskPolicy' = NoPolicy
    /\ UNCHANGED <<edition, storeEnabled, memoryPolicy, memoryFresh, load, storeDisturbed>>

\* The server: another edition, or the store switched off or on again, which
\* leaves both caches.
PolicyChanges ==
    /\ edition < MaxPolicies
    /\ edition' = edition + 1
    /\ UNCHANGED <<storeEnabled, memoryPolicy, memoryFresh, diskPolicy, load, storeDisturbed>>

StoreSwitched ==
    /\ storeEnabled' = ~storeEnabled
    /\ UNCHANGED <<edition, memoryPolicy, memoryFresh, diskPolicy, load, storeDisturbed>>

NextStore ==
    \/ \E l \in Loader : \/ LookUpPolicy(l)
                         \/ ForcePolicyLoad(l)
                         \/ ReadPolicyFromDisk(l)
                         \/ PolicyAnswered(l)
                         \/ SetPolicy(l)
                         \/ SavePolicy(l)
    \/ TwoMinutesOfPolicyPass
    \/ InvalidatePolicy
    \/ PolicyExpires
    \/ PolicyChanges
    \/ StoreSwitched

-----------------------------------------------------------------------------
\* What lookups go by is never replaced by an older edition of either half,
\* unless two loads overlapped or a save failed: then SQLite, or the slower
\* load, brings a package back that the server had withdrawn
\* (loadEffectiveAppStorePolicy).
Behind(p, q) == p.winget < q.winget \/ p.chocolatey < q.chocolatey

WithdrawnStaysWithdrawn ==
    [][ memoryPolicy' # NoPolicy /\ Behind(memoryPolicy', memoryPolicy)
          => storeDisturbed ]_storeVars
=============================================================================
