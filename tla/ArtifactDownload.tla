--------------------------- MODULE ArtifactDownload ---------------------------
(***************************************************************************)
(* An agent takes an installer from its neighbours.  A file is asked for   *)
(* whole from one peer, or chunk by chunk from several; what arrives goes  *)
(* under a temporary name, and gets its own name when its checksum is the  *)
(* one the peer had announced.  Nothing keeps two pulls of a file apart:   *)
(* they write the same ".partial".  The answer on a stream is a JSON       *)
(* header followed by the bytes, and the reader of the header reads ahead. *)
(*                                                                         *)
(* Source: app/p2p_download.go, app/p2p_chunks.go,                         *)
(* app/p2p_libp2p_transport.go, app/p2p_publish.go, app/p2p_cleanup.go.    *)
(***************************************************************************)
EXTENDS Naturals, Sequences

CONSTANTS
    Pull,           \* downloads that may run at once: the window, the automation
    Peer,           \* the neighbours that share the file
    MaxIssues,      \* bound: issues of the installer
    MaxChanges,     \* bound: publications, here and there, and clean-ups
    LineEndIsRead   \* FALSE: the code.  TRUE: some readers take the header's line end
                    \* off and lose nothing, so that what follows a download that
                    \* works is reached as well

ASSUME ArtifactAssumption ==
    Peer # {} /\ MaxIssues \in Nat \ {0} /\ MaxChanges \in Nat /\ LineEndIsRead \in BOOLEAN

\* A file is a sequence of blocks, each a block of an issue of the installer;
\* NewLine is a block no issue has.  Every issue has two, a chunk is one.
\* A file that is not there is written as a sequence no file can be.
Issue    == 1..MaxIssues
NewLine  == 0
Chunk    == 1..2
Whole(v) == [c \in Chunk |-> v]
NoFile   == <<MaxIssues + 1>>
File     == {NoFile} \cup Seq({NewLine} \cup Issue)

VARIABLES
    served,         \* the file in the directory of each peer
    own,            \* the file in the agent's directory
    partial,        \* its ".partial"
    chunkFile,      \* the chunks kept in its ".parts" directory
    pull,           \* the downloads under way
    overwritten,    \* a pull wrote to the ".partial" between the check and the
                    \* renaming of another
    changes         \* those that MaxChanges bounds

artifactVars == <<served, own, partial, chunkFile, pull, overwritten, changes>>

NoPull == [at |-> "idle", from |-> {}, checksum |-> NoFile, data |-> <<>>,
           got |-> [c \in Chunk |-> "wait"], errors |-> [p \in Peer |-> 0]]

ArtifactTypeOK ==
    /\ served \in [Peer -> File]
    /\ {own, partial} \subseteq File
    /\ chunkFile \in [Chunk -> File]
    /\ \A w \in Pull :
          /\ pull[w].at \in {"idle", "access", "copy", "check", "chunks", "rename"}
          /\ pull[w].from \subseteq Peer
          /\ pull[w].checksum \in File
          /\ pull[w].got \in [Chunk -> {"wait", "kept", "bad"}]
    /\ overwritten \in BOOLEAN /\ changes \in 0..MaxChanges

InitArtifact ==
    /\ served = [p \in Peer |-> Whole(1)]
    /\ own = NoFile /\ partial = NoFile
    /\ chunkFile = [c \in Chunk |-> NoFile]
    /\ pull = [w \in Pull |-> NoPull]
    /\ overwritten = FALSE /\ changes = 0

PullEnds(w) == pull' = [pull EXCEPT ![w] = NoPull]

\* Windows removes and renames no file that another handle has open.
OpenElsewhere(w) == \E u \in Pull \ {w} : pull[u].at = "copy"

RemovePartial(w) == partial' = IF OpenElsewhere(w) THEN partial ELSE NoFile

Change == changes < MaxChanges /\ changes' = changes + 1

NoteWriting(w) ==
    overwritten' = (overwritten \/ \E u \in Pull \ {w} : pull[u].at = "rename")

-----------------------------------------------------------------------------
\* handleStreamArtifactGet puts the header and its line end on the stream, then
\* the range; nothing follows the line end but the range.
OnStream(range) == <<NewLine>> \o range

\* The decoder of the header has read the first `ahead` blocks of what follows
\* it, and the buffer under the decoder another `lost`, which nobody reads
\* again: the reader goes on with the buffer of the decoder and the stream.
AfterHeader(range, ahead, lost) ==
    LET stream == OnStream(range)
    IN  SubSeq(stream, 1, ahead) \o SubSeq(stream, ahead + lost + 1, Len(stream))

ReadAheads(range) ==
    {r \in (0..Len(range) + 1) \X (0..Len(range) + 1) :
        /\ r[1] + r[2] <= Len(range) + 1
        /\ r[2] > 0 => r[1] > 0}

\* What a reader may take for the range.
Received(range) ==
    {AfterHeader(range, r[1], r[2]) : r \in ReadAheads(range)}
        \cup (IF LineEndIsRead THEN {range} ELSE {})

-----------------------------------------------------------------------------
\* libp2pRequestAccess: the peer answers with the checksum of its file.
RequestAccess(w, p) ==
    /\ pull[w].at = "idle"
    /\ served[p] # NoFile
    /\ pull' = [pull EXCEPT ![w] = [NoPull EXCEPT !.at = "access", !.from = {p},
                                                  !.checksum = served[p]]]
    /\ UNCHANGED <<served, own, partial, chunkFile, overwritten, changes>>

\* The range of a file that is gone, or empty, is an error and not a header.
GetWhole(w) ==
    /\ pull[w].at = "access"
    /\ \E p \in pull[w].from :
          IF served[p] \in {NoFile, <<>>}
          THEN PullEnds(w) /\ UNCHANGED <<partial, overwritten>>
          ELSE /\ \E data \in Received(served[p]) :
                     pull' = [pull EXCEPT ![w].at = "copy", ![w].from = {}, ![w].data = data]
               /\ partial' = <<>>
               /\ NoteWriting(w)
    /\ UNCHANGED <<served, own, chunkFile, changes>>

\* Both pulls write from the start of the file: the longer leaves its tail.
Over(data, file) ==
    data \o SubSeq(file, Len(data) + 1, Len(file))

\* The stream may end early, or break, which an error tells.
CopyAnswer(w) ==
    /\ pull[w].at = "copy"
    /\ \/ \E n \in 0..Len(pull[w].data) :
             partial' = Over(SubSeq(pull[w].data, 1, n), partial)
          /\ pull' = [pull EXCEPT ![w].at = "check", ![w].data = <<>>]
          /\ NoteWriting(w)
       \/ RemovePartial(w) /\ PullEnds(w) /\ UNCHANGED overwritten
    /\ UNCHANGED <<served, own, chunkFile, changes>>

\* Faulty form: the checksum of what arrived is not compared.
ChecksumPullSkipped(w) ==
    /\ pull[w].at = "check"
    /\ pull' = [pull EXCEPT ![w].at = "rename"]
    /\ UNCHANGED <<served, own, partial, chunkFile, overwritten, changes>>

\* computeFileSHA256 of whatever the ".partial" holds by now.
ChecksumPull(w) ==
    /\ pull[w].at = "check"
    /\ IF partial = pull[w].checksum
       THEN pull' = [pull EXCEPT ![w].at = "rename"] /\ UNCHANGED partial
       ELSE RemovePartial(w) /\ PullEnds(w)
    /\ UNCHANGED <<served, own, chunkFile, overwritten, changes>>

\* The ".partial", whatever it holds by now, gets its name; the ".parts" of a swarm go.
RenamePartial(w) ==
    /\ pull[w].at = "rename"
    /\ IF partial # NoFile /\ ~OpenElsewhere(w)
       THEN /\ own' = partial /\ partial' = NoFile
            /\ chunkFile' = IF \E c \in Chunk : pull[w].got[c] = "kept"
                            THEN [c \in Chunk |-> NoFile] ELSE chunkFile
       ELSE RemovePartial(w) /\ UNCHANGED <<own, chunkFile>>
    /\ PullEnds(w)
    /\ UNCHANGED <<served, overwritten, changes>>

-----------------------------------------------------------------------------
\* downloadArtifactSwarm: at least two peers give access, and the first of them
\* the manifest, which must have a chunk.
FetchManifest(w) ==
    /\ pull[w].at = "idle"
    /\ \E from \in SUBSET Peer : \E first \in from :
          /\ from # {first}
          /\ \A p \in from : served[p] # NoFile
          /\ served[first] # <<>>
          /\ pull' = [pull EXCEPT ![w] = [NoPull EXCEPT !.at = "chunks", !.from = from,
                                                        !.checksum = served[first]]]
    /\ UNCHANGED <<served, own, partial, chunkFile, overwritten, changes>>

\* pickPeer: none of the others has failed fewer chunks.
BestPeers(w) ==
    {p \in pull[w].from : \A q \in pull[w].from : pull[w].errors[p] <= pull[w].errors[q]}

RangeOf(file, c) == IF file # NoFile /\ c <= Len(file) THEN <<file[c]>> ELSE <<>>

\* What libp2pDownloadChunk may have read of a range: no more than its length,
\* and nothing of a stream that broke or of a range the peer does not have.
ChunkAnswers(p, c) ==
    LET range == RangeOf(served[p], c)
    IN  {<<>>} \cup {SubSeq(data, 1, Len(range)) : data \in Received(range)}

\* A chunk of the right hash is taken from the ".parts" of an earlier pull.
GetChunk(w, c) ==
    /\ pull[w].at = "chunks" /\ pull[w].got[c] = "wait"
    /\ IF chunkFile[c] = RangeOf(pull[w].checksum, c)
       THEN /\ pull' = [pull EXCEPT ![w].got[c] = "kept"]
            /\ UNCHANGED chunkFile
       ELSE \E p \in BestPeers(w) : \E answer \in ChunkAnswers(p, c) :
               IF answer = RangeOf(pull[w].checksum, c)
               THEN /\ chunkFile' = [chunkFile EXCEPT ![c] = answer]
                    /\ pull' = [pull EXCEPT ![w].got[c] = "kept"]
               ELSE /\ pull' = [pull EXCEPT ![w].got[c] = "bad", ![w].errors[p] = @ + 1]
                    /\ UNCHANGED chunkFile
    /\ UNCHANGED <<served, own, partial, overwritten, changes>>

\* The chunk files put together, as far as they are there: a swarm that ended
\* has removed those of the others.
Assembled ==
    IF chunkFile[1] = NoFile THEN <<>>
    ELSE IF chunkFile[2] = NoFile THEN chunkFile[1] ELSE chunkFile[1] \o chunkFile[2]

\* All the chunks are in and make a file of the right hash; a chunk that failed
\* ends the pull and leaves the others for the next.
AssembleChunks(w) ==
    /\ pull[w].at = "chunks"
    /\ \A c \in Chunk : pull[w].got[c] # "wait"
    /\ IF \E c \in Chunk : pull[w].got[c] = "bad"
       THEN PullEnds(w) /\ UNCHANGED <<partial, overwritten>>
       ELSE /\ NoteWriting(w)
            /\ IF Assembled = pull[w].checksum
               THEN /\ partial' = Assembled
                    /\ pull' = [pull EXCEPT ![w].at = "rename", ![w].from = {},
                                            ![w].errors = NoPull.errors]
               ELSE /\ partial' = IF OpenElsewhere(w) THEN Assembled ELSE NoFile
                    /\ PullEnds(w)
    /\ UNCHANGED <<served, own, chunkFile, changes>>

-----------------------------------------------------------------------------
\* PublishFile copies to ".importing" and renames.
PublishFile(v) ==
    /\ Change /\ own' = Whole(v)
    /\ UNCHANGED <<served, partial, chunkFile, pull, overwritten>>

\* os.WriteFile empties the file before it writes.
PublishTestArtifact(v) ==
    /\ \/ Change /\ own' = <<>>
       \/ own = <<>> /\ own' = Whole(v) /\ UNCHANGED changes
    /\ UNCHANGED <<served, partial, chunkFile, pull, overwritten>>

\* The same at a peer, and its clean-up.
PeerPublishes(p, v) ==
    /\ Change /\ served' = [served EXCEPT ![p] = Whole(v)]
    /\ UNCHANGED <<own, partial, chunkFile, pull, overwritten>>

PeerLosesFile(p) ==
    /\ Change /\ \E left \in {NoFile, <<>>} : served' = [served EXCEPT ![p] = left]
    /\ UNCHANGED <<own, partial, chunkFile, pull, overwritten>>

\* cleanupExpiredP2PTempArtifacts takes files by their age alone, the
\* ".partial" of a pull that is not writing it too.
CleanUpExpired ==
    /\ Change
    /\ \/ own # NoFile /\ own' = NoFile /\ UNCHANGED partial
       \/ /\ partial # NoFile /\ \A w \in Pull : pull[w].at # "copy"
          /\ partial' = NoFile /\ UNCHANGED own
    /\ UNCHANGED <<served, chunkFile, pull, overwritten>>

NextArtifact ==
    \/ \E w \in Pull : \/ \E p \in Peer : RequestAccess(w, p)
                       \/ GetWhole(w)
                       \/ CopyAnswer(w)
                       \/ ChecksumPull(w)
                       \/ RenamePartial(w)
                       \/ FetchManifest(w)
                       \/ \E c \in Chunk : GetChunk(w, c)
                       \/ AssembleChunks(w)
    \/ \E v \in Issue : \/ PublishFile(v)
                        \/ PublishTestArtifact(v)
                        \/ \E p \in Peer : PeerPublishes(p, v)
    \/ \E p \in Peer : PeerLosesFile(p)
    \/ CleanUpExpired

-----------------------------------------------------------------------------
\* What stands under the name of the artifact is an issue somebody published,
\* whole, whatever two pulls did to the ".partial" they share and whatever the
\* peer changed between the checksum and the bytes, unless a pull wrote to the
\* ".partial" in between the check and the renaming of another.  An empty file
\* is a test artifact caught before it was written, here or at the peer.
ArtifactIsWhole ==
    own \in {NoFile, <<>>} \cup {Whole(v) : v \in Issue} \/ overwritten

\* The comment on the answer's header: after it, the sender sends exactly the
\* bytes of the range (p2p_libp2p_transport.go:78), so a reader that has them
\* all has the range.
HeaderIsFollowedByTheRange ==
    [][ \A w \in Pull : pull[w].at = "access" /\ pull'[w].at = "copy"
          => \E p \in pull[w].from : pull'[w].data = served[p] ]_artifactVars
=============================================================================
