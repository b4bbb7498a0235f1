---------------------------- MODULE FrameStream ----------------------------
(***************************************************************************)
(* One hop of the camera pictures over UDP (src/src/network/               *)
(* udp_handler.py): a UDPFrameSender cuts each JPEG into chunks, a         *)
(* UDPFrameReceiver puts them together again, and the AI server keeps the  *)
(* last result (src/src/ai_server.py).  The camera application sends to    *)
(* the hub this way, and the hub to the AI server: FrameRelay has both.    *)
(*                                                                         *)
(* The network loses, reorders and may duplicate datagrams: any datagram   *)
(* sent may be received next, and one that never is, is lost.  The bytes   *)
(* of a chunk are the number of the frame it was cut from, counted from    *)
(* the beginning and over restarts of the sender.                          *)
(***************************************************************************)
EXTENDS Integers, Sequences, FiniteSets

CONSTANTS
    IdModulus,          \* 65536, what the 16 bits of a frame id can count
    MaxDuplicates,      \* bound: datagrams the network delivers once more
    MaxTotal,           \* bound: chunks of a frame
    MaxFrames,          \* bound: frames sent
    MaxRestarts         \* bound: restarts of the two programs

ASSUME IdAssumption == IdModulus \in Nat \ {0}
ASSUME BoundsAssumption ==
    /\ MaxTotal \in Nat \ {0}
    /\ {MaxFrames, MaxRestarts, MaxDuplicates} \subseteq Nat

VARIABLES
    next_id,         \* UDPFrameSender._frame_id
    network,         \* datagrams that may still arrive
    frames,          \* UDPFrameReceiver._frames
    latest,          \* the latest bytes: for each chunk the frame it is of
    receiving,       \* the loop around receive_packets runs
    duplicates,      \* datagrams that were delivered and may come once more
    restarts,        \* restarts of the sender and of the receiver
    sent,            \* history: the frame id and the chunks of each frame sent
    arrived,         \* history: the chunks <<frame, chunk_id>> that arrived
    again,           \* history: the frames of which a chunk arrived twice
    yielded          \* history: the frames whose chunks were all yielded

vars == <<next_id, network, frames, latest, receiving, duplicates, restarts, sent,
          arrived, again, yielded>>

FrameNumbers == 1 .. Len(sent)
ChunkIds(total) == 0 .. total - 1
Totals == 1 .. MaxTotal

Datagram ==
    [frame_id : 0 .. IdModulus - 1, chunk_id : ChunkIds(MaxTotal),
     total_chunks : Totals, payload : FrameNumbers]

\* An entry of _frames; "chunks" maps the chunk ids so far to their payload.
IsEntry(e) ==
    /\ DOMAIN e = {"total", "chunks"}
    /\ e.total \in Totals
    /\ DOMAIN e.chunks \subseteq ChunkIds(MaxTotal)
    /\ \A c \in DOMAIN e.chunks : e.chunks[c] \in FrameNumbers

TypeOK ==
    /\ next_id \in 0 .. IdModulus - 1
    /\ sent \in Seq([frame_id : 0 .. IdModulus - 1, total : Totals])
    /\ network \subseteq Datagram
    /\ DOMAIN frames \subseteq 0 .. IdModulus - 1
    /\ \A id \in DOMAIN frames : IsEntry(frames[id])
    /\ latest \in Seq(FrameNumbers)
    /\ receiving \in BOOLEAN
    /\ duplicates \in 0 .. MaxDuplicates
    /\ restarts \in 0 .. MaxRestarts
    /\ arrived \subseteq FrameNumbers \X ChunkIds(MaxTotal)
    /\ again \subseteq FrameNumbers
    /\ yielded \subseteq FrameNumbers

NoEntries == [id \in {} |-> 0]

Init ==
    /\ next_id = 0
    /\ network = {}
    /\ frames = NoEntries
    /\ latest = <<>>
    /\ receiving = TRUE
    /\ duplicates = 0
    /\ restarts = 0
    /\ sent = <<>>
    /\ arrived = {}
    /\ again = {}
    /\ yielded = {}

-----------------------------------------------------------------------------
\* The datagrams of frame n, of total chunks.
Chunked(n, total) ==
    {[frame_id |-> next_id, chunk_id |-> c, total_chunks |-> total, payload |-> n] :
        c \in ChunkIds(total)}

\* Mutant: the frame id is not wrapped.
SendNoWrap(total) ==
    /\ Len(sent) < MaxFrames
    /\ network' = network \cup Chunked(Len(sent) + 1, total)
    /\ next_id' = next_id + 1
    /\ sent' = Append(sent, [frame_id |-> next_id, total |-> total])
    /\ UNCHANGED <<frames, latest, receiving, duplicates, restarts, arrived, again,
                   yielded>>

\* _send_encoded: every chunk of one frame.
Send(total) ==
    /\ Len(sent) < MaxFrames
    /\ network' = network \cup Chunked(Len(sent) + 1, total)
    /\ next_id' = (next_id + 1) % IdModulus
    /\ sent' = Append(sent, [frame_id |-> next_id, total |-> total])
    /\ UNCHANGED <<frames, latest, receiving, duplicates, restarts, arrived, again,
                   yielded>>

\* The sending program ends and is started again.
Restart ==
    /\ restarts < MaxRestarts
    /\ restarts' = restarts + 1
    /\ next_id' = 0
    /\ UNCHANGED <<network, frames, latest, receiving, duplicates, sent, arrived,
                   again, yielded>>

\* The receiving one: what it had received, whole or not, is lost.
ReceiverRestart ==
    /\ restarts < MaxRestarts
    /\ restarts' = restarts + 1
    /\ frames' = NoEntries
    /\ latest' = <<>>
    /\ receiving' = TRUE
    /\ arrived' = {}
    /\ again' = {}
    /\ yielded' = {}
    /\ UNCHANGED <<next_id, network, duplicates, sent>>

-----------------------------------------------------------------------------
NewEntry(d) == [total |-> d.total_chunks, chunks |-> NoEntries]

\* Mutant: the chunks of a new entry are those of another one.
EntryShared(d) ==
    IF d.frame_id \in DOMAIN frames THEN frames[d.frame_id]
    ELSE IF frames = NoEntries THEN NewEntry(d)
    ELSE [NewEntry(d) EXCEPT
              !.chunks = frames[CHOOSE id \in DOMAIN frames : TRUE].chunks]

EntryFor(d) ==
    IF d.frame_id \in DOMAIN frames THEN frames[d.frame_id] ELSE NewEntry(d)

\* The entry with the chunk of d in it: a chunk of the same id is replaced, and
\* the total stays what the first datagram said.
Filled(d) ==
    [EntryFor(d) EXCEPT !.chunks =
        [c \in DOMAIN @ \cup {d.chunk_id} |->
            IF c = d.chunk_id THEN d.payload ELSE @[c]]]

\* Mutant: the last chunk is taken for the end of the frame.
FullAtLast(e) == e.total - 1 \in DOMAIN e.chunks

\* As many chunks as announced.
Full(e) == Cardinality(DOMAIN e.chunks) = e.total

InOrder(e) == DOMAIN e.chunks = ChunkIds(e.total)

\* Mutant: a new frame supersedes the ones that are not complete.
StoredAlone(d) == [id \in {d.frame_id} |-> Filled(d)]

Stored(d) ==
    [id \in DOMAIN frames \cup {d.frame_id} |->
        IF id = d.frame_id THEN Filled(d) ELSE frames[id]]

\* recvfrom
Arrive(d) ==
    /\ receiving
    /\ d \in network
    /\ \/ network' = network \ {d} /\ UNCHANGED duplicates
       \/ /\ duplicates < MaxDuplicates
          /\ duplicates' = duplicates + 1
          /\ UNCHANGED network
    /\ arrived' = arrived \cup {<<d.payload, d.chunk_id>>}
    /\ again' = IF <<d.payload, d.chunk_id>> \in arrived
                THEN again \cup {d.payload} ELSE again
    /\ UNCHANGED <<next_id, restarts, sent>>

\* _handle_packet, when chunks are still missing
StoreChunk(d) ==
    /\ Arrive(d)
    /\ ~ Full(Filled(d))
    /\ frames' = Stored(d)
    /\ UNCHANGED <<latest, receiving, yielded>>

Joined(e) == [i \in 1 .. e.total |-> e.chunks[i - 1]]

IsFrame(bytes, n) == bytes = [i \in 1 .. sent[n].total |-> n]

\* _handle_packet, when that was the last one; the AI server's loop then
\* replaces the latest bytes.
Yield(d) ==
    /\ Arrive(d)
    /\ Full(Filled(d))
    /\ InOrder(Filled(d))
    /\ latest' = Joined(Filled(d))
    /\ frames' = [id \in DOMAIN frames \ {d.frame_id} |-> frames[id]]
    /\ yielded' = yielded \cup {n \in FrameNumbers : IsFrame(latest', n)}
    /\ UNCHANGED receiving

\* _handle_packet, when the count is right and a chunk id is not: joining them
\* raises KeyError, which ends the generator and the thread that iterates it.
ChunkMissing(d) ==
    /\ Arrive(d)
    /\ Full(Filled(d))
    /\ ~ InOrder(Filled(d))
    /\ frames' = Stored(d)
    /\ receiving' = FALSE
    /\ UNCHANGED <<latest, yielded>>

Next ==
    \/ \E total \in Totals : Send(total)
    \/ Restart \/ ReceiverRestart
    \/ \E d \in network : StoreChunk(d) \/ Yield(d) \/ ChunkMissing(d)

Spec == Init /\ [][Next]_vars

-----------------------------------------------------------------------------
(***************************************************************************)
(* Properties.                                                             *)
(***************************************************************************)

\* A frame whose id no other frame has.
Unique(n) ==
    \A m \in FrameNumbers : sent[m].frame_id = sent[n].frame_id => m = n

\* Chunks of a frame are never yielded without the rest of it, or with chunks
\* of another one, as long as its id is its own (_handle_packet joins whatever
\* has the same frame id).
UniqueFramesWhole ==
    \A i \in 1 .. Len(latest) : Unique(latest[i]) => IsFrame(latest, latest[i])

\* A frame all of whose datagrams arrived, in whatever order and however often,
\* was yielded, and nothing of it stays in memory unless one came again: what
\* _handle_packet keeps of a frame for good is due to the network.
ArrivedYielded ==
    \A n \in FrameNumbers :
        Unique(n) /\ {n} \X ChunkIds(sent[n].total) \subseteq arrived =>
            /\ n \in yielded
            /\ sent[n].frame_id \in DOMAIN frames => n \in again

\* The receiving loop can only be ended by two frames of the same id that have
\* different numbers of chunks (the KeyError of _handle_packet).
EndedByReuse ==
    receiving \/ \E m, n \in FrameNumbers :
                    /\ sent[m].frame_id = sent[n].frame_id
                    /\ sent[m].total # sent[n].total
=============================================================================
