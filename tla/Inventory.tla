------------------------------ MODULE Inventory ------------------------------
(***************************************************************************)
(* The inventory of the machine: the page's process collecting it (at its  *)
(* startup, app/app.go, and for the refreshes of app/inventory/service.go) *)
(* through osquery (internal/inventory), its cache, and the report to the  *)
(* server (app/inventory/sync.go) against the snapshot and the time of the *)
(* last report in the database.                                            *)
(*                                                                         *)
(* A collection is named by its number: what the machine held at that      *)
(* moment.  Collections of different moments never serialise to the same   *)
(* bytes, for the payload holds the time it was collected at.              *)
(***************************************************************************)
EXTENDS Naturals, FiniteSets

CONSTANTS
    MaxCollections,  \* bound: collections
    Refresher,       \* goroutines of the page's calls that refresh a part
    FailingQuery     \* sections whose query osquery itself may fail

ASSUME InventoryAssumption ==
    /\ MaxCollections \in Nat /\ IsFiniteSet(Refresher)
    /\ "startup" \notin Refresher /\ FailingQuery \subseteq {"startup", "ports", "sockets"}

\* The parts of a report that refreshes write: RefreshSoftware, RefreshStartupItems and
\* RefreshListeningPorts one each, RefreshNetworkConnections the last two.
Section == {"software", "startup", "ports", "sockets"}
PartialRefresh == {{"software"}, {"startup"}, {"ports"}, {"ports", "sockets"}}
Part == {"hardware", "software"}

\* Whoever collects in the page's process: its startup goroutine and the calls.
Collector == Refresher \cup {"startup"}
\* A collector's queries go to osqueryd, or to the osqueryi of a collector of the process,
\* which may be stopped under them.
Source == {"none", "osqueryd", "stopped"} \cup Collector

VARIABLES
    moment,        \* collections so far
    page,          \* the page's process: its startup goroutine
    invCache,      \* [loaded, section]
    refresher,     \* [step, sections, at, report]
    osquery,       \* collector -> where its queries go
    cutShort,      \* history: sections left blank because the osqueryi was stopped
    accepted,      \* part -> collections the server accepted
    syncControl,   \* last_sync_at: the collection it was written for, 0 for none
    syncRecent,    \* within 24 h of it
    snapshot       \* latest of inventory_history: the collection, 0 for none

inventoryVars == <<moment, page, invCache, refresher, osquery, cutShort,
                   accepted, syncControl, syncRecent, snapshot>>

Moment == 0 .. MaxCollections
emptyReport == [s \in Section |-> 0]

InventoryTypeOK ==
    /\ moment \in Moment
    /\ page \in [step : {"stopped", "collecting", "collected", "deciding", "sending", "idle"},
                 report : Moment, blank : SUBSET Section, tries : [Part -> 0 .. 2],
                 got : SUBSET Part]
    /\ osquery \in [Collector -> Source] /\ cutShort \subseteq Section
    /\ invCache \in [loaded : BOOLEAN, section : [Section -> Moment]]
    /\ refresher \in [Refresher -> [step : {"idle", "collecting", "collected", "read"},
                                    sections : SUBSET Section, at : Moment,
                                    report : [Section -> Moment]]]
    /\ accepted \in [Part -> SUBSET Moment]
    /\ syncControl \in Moment /\ snapshot \in Moment
    /\ syncRecent \in BOOLEAN

stoppedPage == [step |-> "stopped", report |-> 0, blank |-> {}, tries |-> [p \in Part |-> 0], got |-> {}]
idlePage == [stoppedPage EXCEPT !.step = "idle"]
emptyCache == [loaded |-> FALSE, section |-> emptyReport]
idleRefresher == [step |-> "idle", sections |-> {}, at |-> 0, report |-> emptyReport]

InitInventory ==
    /\ moment = 0 /\ page = stoppedPage
    /\ invCache = emptyCache
    /\ refresher = [r \in Refresher |-> idleRefresher]
    /\ osquery = [c \in Collector |-> "none"] /\ cutShort = {}
    /\ accepted = [p \in Part |-> {}]
    /\ syncControl = 0 /\ syncRecent = FALSE /\ snapshot = 0

unchangedReport == <<accepted, syncControl, syncRecent, snapshot>>
unchangedCache == <<invCache, refresher>>
unchangedOsquery == <<osquery, cutShort>>

Cached(section) == [loaded |-> TRUE, section |-> section]

-----------------------------------------------------------------------------
\* An osqueryi is started at a socket named for the process alone, and taken to be there
\* when anything answers at that name: it may be one another collector started.
Osqueryi(c) == {c} \cup {o \in Collector : osquery[o] = o}

\* The first choice is an osqueryd that answers.
BeginQueries(c) == \E source \in {"osqueryd"} \cup Osqueryi(c) :
                        osquery' = [osquery EXCEPT ![c] = source]

\* A collection through osqueryd that lacks a query it needs is made again through osqueryi.
OsquerydFails(c) ==
    /\ osquery[c] = "osqueryd"
    /\ \E source \in Osqueryi(c) : osquery' = [osquery EXCEPT ![c] = source]
    /\ UNCHANGED <<moment, page, cutShort>>
    /\ UNCHANGED unchangedCache /\ UNCHANGED unchangedReport

\* The osqueryi a collection started is stopped when it ends, whoever else uses it.
EndQueries(c) ==
    osquery' = [o \in Collector |-> CASE o = c -> "none"
                                      [] o # c /\ osquery[o] = c -> "stopped"
                                      [] OTHER -> osquery[o]]

\* The queries run one after the other: an osqueryi stopped meanwhile fails those that are
\* left, the second attempt too.  The programs come before the sections of the page.
LastSections == {{}, {"sockets"}, {"ports", "sockets"}, {"startup", "ports", "sockets"}}
Unanswered(c) == IF osquery[c] = "stopped"
                 THEN {tail \cup failed : tail \in LastSections, failed \in SUBSET FailingQuery}
                 ELSE SUBSET FailingQuery

-----------------------------------------------------------------------------
\* The page's process starts, and looks for the service once: it collects when the
\* service does not answer.
PageStarts ==
    /\ page.step = "stopped"
    /\ \/ page' = idlePage /\ UNCHANGED osquery
       \/ page' = [page EXCEPT !.step = "collecting"] /\ BeginQueries("startup")
    /\ UNCHANGED <<moment, cutShort>>
    /\ UNCHANGED unchangedCache /\ UNCHANGED unchangedReport

\* A whole collection needs the system, its version and the programs; any other query
\* that went unanswered leaves its section blank, without an error.
Collected(c, blank) ==
    /\ moment < MaxCollections /\ moment' = moment + 1
    /\ cutShort' = IF osquery[c] = "stopped" THEN cutShort \cup blank ELSE cutShort
    /\ EndQueries(c)

\* A collection that fails leaves nothing.
CollectedNothing(c) == EndQueries(c) /\ UNCHANGED <<moment, cutShort>>

\* The first collection takes a while; a failed one is kept as the startup error, and
\* not tried again.
StartupCollects ==
    /\ page.step = "collecting"
    /\ \/ \E blank \in Unanswered("startup") :
              /\ Collected("startup", blank)
              /\ page' = [page EXCEPT !.step = "collected", !.report = moment', !.blank = blank]
       \/ CollectedNothing("startup") /\ page' = idlePage
    /\ UNCHANGED unchangedCache /\ UNCHANGED unchangedReport

\* It goes to the cache and to SyncInventoryOnStartup.
StartupCaches ==
    /\ page.step = "collected"
    /\ page' = [page EXCEPT !.step = "deciding"]
    /\ invCache' = Cached([s \in Section |-> IF s \in page.blank THEN 0 ELSE page.report])
    /\ UNCHANGED <<moment, refresher>>
    /\ UNCHANGED unchangedOsquery
    /\ UNCHANGED unchangedReport

\* ShouldSyncInventory: never reported, 24 h ago, no snapshot, or other bytes than the
\* snapshot's.
ShouldSync(report) ==
    syncControl = 0 \/ ~syncRecent \/ snapshot = 0 \/ snapshot # report

\* Without credentials the report is kept as a snapshot only.
DecideSync ==
    /\ page.step = "deciding"
    /\ \E credentials \in BOOLEAN :
        IF credentials /\ ShouldSync(page.report)
        THEN page' = [page EXCEPT !.step = "sending"] /\ UNCHANGED snapshot
        ELSE page' = idlePage /\ snapshot' = page.report
    /\ UNCHANGED <<moment, accepted, syncControl, syncRecent>>
    /\ UNCHANGED unchangedCache /\ UNCHANGED unchangedOsquery

\* Faulty form: one request too many.
SendPartOnceMore(part) ==
    /\ page.step = "sending"
    /\ part \notin page.got /\ page.tries[part] <= 2
    /\ page' = [page EXCEPT !.tries[part] = @ + 1]
    /\ UNCHANGED <<moment, accepted, syncControl, syncRecent,
                   snapshot>>
    /\ UNCHANGED unchangedCache /\ UNCHANGED unchangedOsquery

\* A POST and, if it fails, a PUT of one part; the hardware comes first, and a failure of
\* both does not keep the software back.  The answer to a request that was taken may be
\* lost.
SendPart(part) ==
    /\ page.step = "sending"
    /\ part \notin page.got /\ page.tries[part] < 2
    /\ part = "software" => "hardware" \in page.got \/ page.tries["hardware"] = 2
    /\ \E taken, answered \in BOOLEAN :
        /\ answered => taken
        /\ accepted' = IF taken THEN [accepted EXCEPT ![part] = @ \cup {page.report}]
                       ELSE accepted
        /\ page' = [page EXCEPT !.tries[part] = @ + 1,
                                !.got = IF answered THEN @ \cup {part} ELSE @]
    /\ UNCHANGED <<moment, syncControl, syncRecent, snapshot>>
    /\ UNCHANGED unchangedCache /\ UNCHANGED unchangedOsquery

SentAll == \A p \in Part : p \in page.got \/ page.tries[p] = 2

\* Faulty form: the report counts as made when one part went.
FinishSyncOnAny ==
    /\ page.step = "sending" /\ SentAll
    /\ IF page.got # {}
       THEN snapshot' = page.report /\ syncControl' = page.report /\ syncRecent' = TRUE
       ELSE UNCHANGED <<snapshot, syncControl, syncRecent>>
    /\ page' = idlePage
    /\ UNCHANGED <<moment, accepted>>
    /\ UNCHANGED unchangedCache /\ UNCHANGED unchangedOsquery

\* The snapshot and the time are written only when both parts were accepted.
FinishSync ==
    /\ page.step = "sending" /\ SentAll
    /\ IF page.got = Part
       THEN snapshot' = page.report /\ syncControl' = page.report /\ syncRecent' = TRUE
       ELSE UNCHANGED <<snapshot, syncControl, syncRecent>>
    /\ page' = idlePage
    /\ UNCHANGED <<moment, accepted>>
    /\ UNCHANGED unchangedCache /\ UNCHANGED unchangedOsquery

\* It may end, or crash, at any moment.
PageStops ==
    /\ page.step # "stopped"
    /\ page' = stoppedPage
    /\ invCache' = emptyCache
    /\ refresher' = [r \in Refresher |-> idleRefresher]
    /\ osquery' = [c \in Collector |-> "none"]
    /\ UNCHANGED <<moment, cutShort>>
    /\ UNCHANGED unchangedReport

DayPasses ==
    /\ syncRecent /\ syncRecent' = FALSE
    /\ UNCHANGED <<moment, page, accepted, syncControl,
                   snapshot>>
    /\ UNCHANGED unchangedCache /\ UNCHANGED unchangedOsquery

-----------------------------------------------------------------------------
\* RefreshInventory, and GetInventory when nothing is cached, collect all of it; the
\* other refreshes the sections they are for.
BeginCollection(r, sections) ==
    /\ page.step # "stopped" /\ refresher[r].step = "idle"
    /\ BeginQueries(r)
    /\ refresher' = [refresher EXCEPT ![r] = [@ EXCEPT !.step = "collecting",
                                                       !.sections = sections]]
    /\ UNCHANGED <<moment, page, invCache, cutShort>>
    /\ UNCHANGED unchangedReport

CollectionFails(r) ==
    /\ refresher[r].step = "collecting"
    /\ CollectedNothing(r)
    /\ refresher' = [refresher EXCEPT ![r] = idleRefresher]
    /\ UNCHANGED <<page, invCache>>
    /\ UNCHANGED unchangedReport

\* A whole one is then written as it is.
CollectAll(r) ==
    /\ refresher[r].step = "collecting" /\ refresher[r].sections = Section
    /\ \E blank \in Unanswered(r) :
        /\ Collected(r, blank)
        /\ refresher' = [refresher EXCEPT ![r] =
                [step |-> "read", sections |-> Section \ blank, at |-> moment',
                 report |-> emptyReport]]
    /\ UNCHANGED <<page, invCache>>
    /\ UNCHANGED unchangedReport

\* A refresh of some sections needs all its queries,
CollectPart(r) ==
    /\ refresher[r].step = "collecting" /\ refresher[r].sections # Section
    /\ \E blank \in Unanswered(r) : blank \cap refresher[r].sections = {} /\ Collected(r, {})
    /\ refresher' = [refresher EXCEPT ![r] = [@ EXCEPT !.step = "collected", !.at = moment']]
    /\ UNCHANGED <<page, invCache>>
    /\ UNCHANGED unchangedReport

\* Faulty form: the parts are merged into whatever the cache holds, loaded or not.
ReadCachedAlways(r) ==
    /\ refresher[r].step = "collected"
    /\ refresher' = [refresher EXCEPT ![r] = [@ EXCEPT !.step = "read",
                            !.report = invCache.section]]
    /\ UNCHANGED <<moment, page, invCache>>
    /\ UNCHANGED unchangedReport /\ UNCHANGED unchangedOsquery

\* the cached report is read, if there is one,
ReadCached(r) ==
    /\ refresher[r].step = "collected"
    /\ refresher' = [refresher EXCEPT ![r] =
                        IF invCache.loaded
                        THEN [@ EXCEPT !.step = "read", !.report = invCache.section]
                        ELSE idleRefresher]
    /\ UNCHANGED <<moment, page, invCache>>
    /\ UNCHANGED unchangedReport /\ UNCHANGED unchangedOsquery

\* and written back with them, under a second lock.
WriteMerged(r) ==
    /\ refresher[r].step = "read"
    /\ invCache' = Cached([s \in Section |-> IF s \in refresher[r].sections THEN refresher[r].at
                                     ELSE refresher[r].report[s]])
    /\ refresher' = [refresher EXCEPT ![r] = idleRefresher]
    /\ UNCHANGED <<moment, page>>
    /\ UNCHANGED unchangedReport /\ UNCHANGED unchangedOsquery

\* clearMemoryCaches when the page is hidden, or the watchdog's recovery of the inventory.
ClearCache ==
    /\ page.step # "stopped" /\ invCache.loaded
    /\ invCache' = emptyCache
    /\ UNCHANGED <<moment, page, refresher>>
    /\ UNCHANGED unchangedReport /\ UNCHANGED unchangedOsquery

-----------------------------------------------------------------------------
NextInventory ==
    \/ PageStarts \/ StartupCollects \/ StartupCaches \/ DecideSync
    \/ FinishSync \/ PageStops \/ DayPasses
    \/ \E part \in Part : SendPart(part)
    \/ \E r \in Refresher :
        \/ CollectAll(r) \/ CollectPart(r) \/ CollectionFails(r)
        \/ ReadCached(r) \/ WriteMerged(r)
        \/ \E sections \in PartialRefresh \cup {Section} : BeginCollection(r, sections)
    \/ \E c \in Collector : OsquerydFails(c)
    \/ ClearCache

-----------------------------------------------------------------------------
\* What the database calls reported was accepted by the server in both its parts, and
\* both of one collection, whatever was lost, repeated or cut short (FinishSync).
SyncTimeMeansBothAccepted ==
    syncControl # 0 => \A p \in Part : syncControl \in accepted[p]

\* A section of the cached report is blank only because osquery failed its query in a
\* whole collection, or because another collection of the process stopped the osqueryi
\* they shared: no refresh makes a report of its sections alone, whoever clears the cache
\* meanwhile, and none blanks a section (ReadCached, ClearCache, CollectPart, EndQueries).
CachedReportIsWhole ==
    invCache.loaded =>
        \A s \in Section : invCache.section[s] = 0 => s \in FailingQuery \cup cutShort

\* Neither the server, as far as the database tells, nor the cache has half a report.
ReportsAreWhole == SyncTimeMeansBothAccepted /\ CachedReportIsWhole
=============================================================================
