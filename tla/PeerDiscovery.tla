---------------------------- MODULE PeerDiscovery ----------------------------
(***************************************************************************)
(* How the agents of one network get to know each other                    *)
(* (src/app/p2p.go, p2p_libp2p.go, p2p_gossip.go and the peer registry of  *)
(* p2p_libp2p_transport.go).  A host gets a new libp2p identity every time *)
(* it starts.  mDNS makes one host greet another: the two exchange their   *)
(* agent ids, each registers the other's identity (the first identity of   *)
(* an agent wins for good) and lists it as a peer.  A peer seen for the    *)
(* first time is asked at once for the peers and artifacts it knows; all   *)
(* of them are asked again every 45 s; the discovery tick forgets those    *)
(* unseen for two minutes.                                                 *)
(*                                                                         *)
(* An identity is <<agent, n>>, the n-th host that agent started.          *)
(***************************************************************************)
EXTENDS Naturals, FiniteSets

CONSTANTS Agent, Sharer, Asker, MaxHosts, MaxFinds

\* Sharer: the agents that share artifacts; Asker: those whose user or
\* automation asks for refreshes; MaxHosts[a]: bound on the hosts a
\* starts in a run; MaxFinds: bound on the announcements mDNS reports.
ASSUME DiscoveryAssumption ==
    /\ Sharer \subseteq Agent
    /\ Asker \subseteq Agent
    /\ MaxHosts \in [Agent -> Nat \ {0}]
    /\ MaxFinds \in Nat

VARIABLES
    host,       \* host[a]: number of the libp2p host agent a started last
    running,    \* the agents that run
    links,      \* pairs of agents whose hosts hold an open connection
    registry,   \* registry[a][b]: identity a maps to agent b, 0 for none
    blocklist,  \* blocklist[a]: identities a's connection gater refuses
    peers,      \* peers[a]: agents a lists as peers
    unseen,     \* unseen[a]: peers of a not seen for more than two minutes
    artifacts,  \* artifacts[a]: agents of which a holds a catalogue
    heard,      \* agent ids read from a stream and not yet acted upon
    wanted,     \* gossip requests to be made
    finds       \* mDNS announcements reported so far

discoveryVars == <<host, running, links, registry, blocklist, peers, unseen,
                   artifacts, heard, wanted, finds>>

HostNumber == UNION {1..MaxHosts[a] : a \in Agent}
Identity == Agent \X HostNumber
\* the coordinator's loop, the goroutine for a new peer, and the refreshes the
\* interface and the automation ask for
Requester == {"loop", "new", "refresh"}
Hello == [at : Agent, from : Identity, as : {"initiator", "responder"}]
Want == [at : Agent, of : Agent, for : Requester]

DiscoveryTypeOK ==
    /\ host \in [Agent -> HostNumber]
    /\ running \subseteq Agent
    /\ links \subseteq SUBSET Agent
    /\ registry \in [Agent -> [Agent -> HostNumber \cup {0}]]
    /\ blocklist \in [Agent -> SUBSET Identity]
    /\ peers \in [Agent -> SUBSET Agent]
    /\ unseen \in [Agent -> SUBSET Agent]
    /\ \A a \in Agent : unseen[a] \subseteq peers[a]
    /\ artifacts \in [Agent -> SUBSET Agent]
    /\ heard \subseteq Hello
    /\ wanted \subseteq Want
    /\ finds \in 0..MaxFinds

Unregistered == [b \in Agent |-> 0]

InitDiscovery ==
    /\ host = [a \in Agent |-> 1]
    /\ running = Agent
    /\ links = {}
    /\ registry = [a \in Agent |-> Unregistered]
    /\ blocklist = [a \in Agent |-> {}]
    /\ peers = [a \in Agent |-> {}]
    /\ unseen = [a \in Agent |-> {}]
    /\ artifacts = [a \in Agent |-> {}]
    /\ heard = {}
    /\ wanted = {}
    /\ finds = 0

-----------------------------------------------------------------------------
(* Connections: InterceptPeerDial and InterceptSecured refuse a blocked    *)
(* identity on both sides of a new connection; one that is open stays.     *)

Self(a) == <<a, host[a]>>

Refuses(a, b) == Self(b) \in blocklist[a]

CanReach(a, b) ==
    /\ {a, b} \subseteq running
    /\ {a, b} \in links \/ ~(Refuses(a, b) \/ Refuses(b, a))

\* HandlePeerFound on a: mDNS found b, and the agent ids are exchanged.  What
\* each end does with the id it heard is a step of its own.
HandlePeerFound(a, b) ==
    /\ a # b
    /\ finds < MaxFinds
    /\ finds' = finds + 1
    /\ CanReach(a, b)
    /\ \A h \in heard : {h.at, h.from[1]} # {a, b}
    /\ links' = links \cup {{a, b}}
    /\ heard' = heard \cup {[at |-> a, from |-> Self(b), as |-> "initiator"],
                           [at |-> b, from |-> Self(a), as |-> "responder"]}
    /\ UNCHANGED <<host, running, registry, blocklist, peers, unseen, artifacts,
                   wanted>>

\* The stream breaks, is reset by the other end or times out before the id
\* is read.
GreetingLost(h) ==
    /\ heard' = heard \ {h}
    /\ UNCHANGED <<host, running, links, registry, blocklist, peers, unseen,
                   artifacts, wanted, finds>>

\* RegisterStrict: the first identity of an agent is kept.
Conflicts(a, id) == registry[a][id[1]] \notin {0, id[2]}

\* The id is registered and listed; a peer not listed yet is asked for its
\* peers at once (upsertPeer and the callback of startDiscovery).
Registers(h) ==
    /\ ~Conflicts(h.at, h.from)
    /\ registry' = [registry EXCEPT ![h.at][h.from[1]] = h.from[2]]
    /\ peers' = [peers EXCEPT ![h.at] = @ \cup {h.from[1]}]
    /\ unseen' = [unseen EXCEPT ![h.at] = @ \ {h.from[1]}]
    /\ wanted' = IF h.from[1] \in peers[h.at]
                 THEN wanted
                 ELSE wanted \cup {[at |-> h.at, of |-> h.from[1], for |-> "new"]}
    /\ heard' = heard \ {h}
    /\ UNCHANGED <<host, running, links, blocklist, artifacts, finds>>

\* Faulty form: blocks the identity registered before.
ResponderBlocksTheOther(h) ==
    /\ h.as = "responder"
    /\ Conflicts(h.at, h.from)
    /\ blocklist' = [blocklist EXCEPT ![h.at] = @ \cup {<<h.from[1], registry[h.at][h.from[1]]>>}]
    /\ heard' = heard \ {h}
    /\ UNCHANGED <<host, running, links, registry, peers, unseen, artifacts,
                   wanted, finds>>

\* The greeted side refuses the newcomer's identity from now on.
ResponderBlocks(h) ==
    /\ h.as = "responder"
    /\ Conflicts(h.at, h.from)
    /\ blocklist' = [blocklist EXCEPT ![h.at] = @ \cup {h.from}]
    /\ heard' = heard \ {h}
    /\ UNCHANGED <<host, running, links, registry, peers, unseen, artifacts,
                   wanted, finds>>

\* The initiator only closes the connection.
InitiatorClosesPeer(h) ==
    /\ h.as = "initiator"
    /\ Conflicts(h.at, h.from)
    /\ links' = links \ {{h.at, h.from[1]}}
    /\ heard' = heard \ {h}
    /\ UNCHANGED <<host, running, registry, blocklist, peers, unseen, artifacts,
                   wanted, finds>>

-----------------------------------------------------------------------------
(* Gossip.  The gossip ticker and the discovery ticker share one loop: no  *)
(* tick runs while the loop is asking its peers.                           *)

LoopIsFree(a) ==
    \A w \in wanted : ~(w.at = a /\ w.for = "loop")

\* RefreshPeerArtifactIndex: the peers listed now are asked one by one, by the
\* loop or by whoever asks for a refresh.
RefreshPeerArtifactIndex(a, for) ==
    /\ a \in running
    /\ wanted' = wanted \cup {[at |-> a, of |-> b, for |-> for] : b \in peers[a]}
    /\ UNCHANGED <<host, running, links, registry, blocklist, peers, unseen,
                   artifacts, heard, finds>>

GossipTick(a) == LoopIsFree(a) /\ RefreshPeerArtifactIndex(a, "loop")

RefreshP2PPeerCatalog(a) ==
    /\ a \in Asker
    /\ \A w \in wanted : ~(w.at = a /\ w.for = "refresh")
    /\ RefreshPeerArtifactIndex(a, "refresh")

\* upsertPeerArtifacts: a catalogue that lists nothing replaces none.
UpsertPeerArtifacts(a, b) ==
    artifacts' = IF b \in Sharer THEN [artifacts EXCEPT ![a] = @ \cup {b}] ELSE artifacts

\* handleStreamPeers on b.
KnownPeers(b) == peers[b]

\* applyGossipResponse: every peer that b lists counts as seen now.
ApplyGossipResponse(a, b) ==
    /\ peers' = [peers EXCEPT ![a] = @ \cup KnownPeers(b)]
    /\ unseen' = [unseen EXCEPT ![a] = @ \ KnownPeers(b)]
    /\ UpsertPeerArtifacts(a, b)

\* libp2pFetchPeers, from the host registered for the peer.
\* (The answer is taken as applied when it is given: what it says grows no
\* older than the request that is waiting for it.)
PullPeers(w) ==
    /\ registry[w.at][w.of] = host[w.of]
    /\ CanReach(w.at, w.of)
    /\ wanted' = wanted \ {w}
    /\ links' = links \cup {{w.at, w.of}}
    /\ ApplyGossipResponse(w.at, w.of)
    /\ UNCHANGED <<host, running, registry, blocklist, heard, finds>>

\* No identity is registered for the peer, or the request fails.
FetchFails(w) ==
    /\ wanted' = wanted \ {w}
    /\ UNCHANGED <<host, running, links, registry, blocklist, peers, unseen,
                   artifacts, heard, finds>>

\* Two minutes pass without b being seen by a; the request made when b was
\* first seen has ended by then (it has 30 s), a round over many peers has not.
TwoMinutesPass(a, b) ==
    /\ b \in peers[a] \ unseen[a]
    /\ \A w \in wanted : ~(w.at = a /\ w.of = b /\ w.for = "new")
    /\ unseen' = [unseen EXCEPT ![a] = @ \cup {b}]
    /\ UNCHANGED <<host, running, links, registry, blocklist, peers, artifacts,
                   heard, wanted, finds>>

\* Faulty form: the discovery ticker runs in a goroutine of its own.
DiscoveryTickAnyTime(a) ==
    /\ a \in running
    /\ unseen[a] # {}
    /\ peers' = [peers EXCEPT ![a] = @ \ unseen[a]]
    /\ artifacts' = [artifacts EXCEPT ![a] = @ \ unseen[a]]
    /\ unseen' = [unseen EXCEPT ![a] = {}]
    /\ UNCHANGED <<host, running, links, registry, blocklist, heard, wanted, finds>>

\* discoveryTick: the unseen peers and their catalogues go.
DiscoveryTick(a) ==
    /\ a \in running
    /\ LoopIsFree(a)
    /\ unseen[a] # {}
    /\ peers' = [peers EXCEPT ![a] = @ \ unseen[a]]
    /\ artifacts' = [artifacts EXCEPT ![a] = @ \ unseen[a]]
    /\ unseen' = [unseen EXCEPT ![a] = {}]
    /\ UNCHANGED <<host, running, links, registry, blocklist, heard, wanted, finds>>

-----------------------------------------------------------------------------
(* The agent stops and starts; everything above lives in memory.           *)

AgentStops(a) ==
    /\ a \in running
    /\ running' = running \ {a}
    /\ links' = {l \in links : a \notin l}
    /\ registry' = [registry EXCEPT ![a] = Unregistered]
    /\ blocklist' = [blocklist EXCEPT ![a] = {}]
    /\ peers' = [peers EXCEPT ![a] = {}]
    /\ unseen' = [unseen EXCEPT ![a] = {}]
    /\ artifacts' = [artifacts EXCEPT ![a] = {}]
    /\ heard' = {h \in heard : h.at # a}
    /\ wanted' = {w \in wanted : w.at # a}
    /\ UNCHANGED <<host, finds>>

AgentStarts(a) ==
    /\ a \notin running
    /\ host[a] < MaxHosts[a]
    /\ host' = [host EXCEPT ![a] = @ + 1]
    /\ running' = running \cup {a}
    /\ UNCHANGED <<links, registry, blocklist, peers, unseen, artifacts, heard,
                   wanted, finds>>

NextDiscovery ==
    \/ \E a \in Agent :
         \/ GossipTick(a)
         \/ RefreshP2PPeerCatalog(a)
         \/ DiscoveryTick(a)
         \/ AgentStops(a)
         \/ AgentStarts(a)
    \/ \E a, b \in Agent :
         \/ HandlePeerFound(a, b)
         \/ TwoMinutesPass(a, b)
    \/ \E h \in heard :
         \/ GreetingLost(h)
         \/ Registers(h)
         \/ ResponderBlocks(h)
         \/ InitiatorClosesPeer(h)
    \/ \E w \in wanted : PullPeers(w) \/ FetchFails(w)

-----------------------------------------------------------------------------
(* Properties.                                                             *)

\* An agent never refuses the connections of the very identity it sends its
\* own requests to: only newcomers with another identity are blocked.
UsedIdentityIsNotBlocked ==
    \A a \in Agent : \A id \in blocklist[a] : registry[a][id[1]] # id[2]

\* The catalogue of an agent that is no peer, which no tick will ever remove,
\* comes only from a refresh asked for outside the coordinator's loop: the loop
\* does not forget the peers it is asking.
OrphanCatalogue(a) == artifacts[a] \ peers[a]

OrphanCatalogueNeedsRefresh ==
    [][\A a \in Agent : \A b \in OrphanCatalogue(a)' \ OrphanCatalogue(a) :
          [at |-> a, of |-> b, for |-> "refresh"] \in wanted \ wanted']_discoveryVars

\* Neither the identities an agent uses and refuses, nor the peers and the
\* catalogues it holds, come apart by any order of announcements, greetings,
\* ticks and restarts (UsedIdentityIsNotBlocked, OrphanCatalogueNeedsRefresh).
NeighboursAreSound ==
    /\ OrphanCatalogueNeedsRefresh
    /\ [][UsedIdentityIsNotBlocked']_discoveryVars
=============================================================================
