-------------------------- MODULE FrameStreamProofs --------------------------
(***************************************************************************)
(* Proofs about FrameStream for any number of ids, of chunks, of frames,   *)
(* of restarts and of duplicates, over a network that loses and reorders.  *)
(***************************************************************************)
EXTENDS FrameStream, FiniteSetTheorems, SequenceTheorems, TLAPS

\* The frame n with chunk c is what the bytes of a datagram, or of a chunk in
\* an entry, say.
ChunkOf(n, c, id) ==
    /\ n \in FrameNumbers
    /\ sent[n].frame_id = id
    /\ c \in ChunkIds(sent[n].total)

NetworkFits ==
    \A d \in network :
        /\ ChunkOf(d.payload, d.chunk_id, d.frame_id)
        /\ d.total_chunks = sent[d.payload].total

\* An entry has the total of one frame of its id, and chunks of such frames that
\* are in A, the ones that have arrived.
EntryFits(id, e, A) ==
    /\ \E m \in FrameNumbers : sent[m].frame_id = id /\ sent[m].total = e.total
    /\ \A c \in DOMAIN e.chunks :
          ChunkOf(e.chunks[c], c, id) /\ <<e.chunks[c], c>> \in A

EntriesFit == \A id \in DOMAIN frames : EntryFits(id, frames[id], arrived)

\* What was yielded last has as many chunks as one frame, all of its id.
LatestFits ==
    latest # <<>> =>
        \E m \in FrameNumbers :
            /\ Len(latest) = sent[m].total
            /\ \A i \in 1 .. Len(latest) : sent[latest[i]].frame_id = sent[m].frame_id

AllArrived(n) == {n} \X ChunkIds(sent[n].total) \subseteq arrived

\* A frame with an id of its own: what arrived of it is in its entry, which is
\* not full, until it is yielded; an entry after that is of repeated chunks.
KeptUntilYielded(n) ==
    LET id == sent[n].frame_id
    IN  /\ n \in yielded => AllArrived(n)
        /\ n \in yielded /\ id \in DOMAIN frames => n \in again
        /\ n \notin yielded =>
              \A c \in ChunkIds(MaxTotal) :
                  <<n, c>> \in arrived => id \in DOMAIN frames /\ c \in DOMAIN frames[id].chunks
        /\ id \in DOMAIN frames => ~ Full(frames[id])

UniqueFramesKept == \A n \in FrameNumbers : Unique(n) => KeptUntilYielded(n)

Inv ==
    /\ TypeOK
    /\ NetworkFits /\ EntriesFit /\ LatestFits
    /\ UniqueFramesKept
    /\ EndedByReuse

-----------------------------------------------------------------------------
LEMMA BoundsType ==
  /\ IdModulus \in Nat \ {0} /\ MaxTotal \in Nat \ {0}
  /\ MaxFrames \in Nat /\ MaxRestarts \in Nat /\ MaxDuplicates \in Nat
  BY IdAssumption, BoundsAssumption

LEMMA SentType ==
  ASSUME TypeOK
  PROVE  /\ Len(sent) \in Nat
         /\ FrameNumbers = DOMAIN sent
         /\ FrameNumbers \subseteq Nat
         /\ \A n \in FrameNumbers :
               /\ sent[n].frame_id \in 0 .. IdModulus - 1
               /\ sent[n].total \in Totals
<1>1. sent \in Seq([frame_id : 0 .. IdModulus - 1, total : Totals])
  BY DEF TypeOK
<1>2. Len(sent) \in Nat /\ FrameNumbers = DOMAIN sent
  BY <1>1, LenProperties DEF FrameNumbers
<1>3. \A n \in FrameNumbers : sent[n] \in [frame_id : 0 .. IdModulus - 1, total : Totals]
  BY <1>1, ElementOfSeq DEF FrameNumbers
<1> QED
  BY <1>2, <1>3 DEF FrameNumbers

LEMMA InitInv == Init => Inv
<1> SUFFICES ASSUME Init PROVE Inv
  OBVIOUS
<1>1. FrameNumbers = {} /\ DOMAIN frames = {}
  BY EmptySeq DEF Init, FrameNumbers, NoEntries
<1>2. TypeOK
  BY <1>1, EmptySeq, BoundsType DEF Init, TypeOK
<1> QED
  BY <1>1, <1>2
  DEF Init, Inv, NetworkFits, EntriesFit, LatestFits, UniqueFramesKept, EndedByReuse

-----------------------------------------------------------------------------
LEMMA ChunkIdsCount ==
  ASSUME NEW total \in Totals
  PROVE  IsFiniteSet(ChunkIds(total)) /\ Cardinality(ChunkIds(total)) = total
<1>1. total \in Nat /\ total >= 1
  BY BoundsType DEF Totals
<1>2. /\ IsFiniteSet(0 .. total - 1)
      /\ Cardinality(0 .. total - 1) = IF 0 > total - 1 THEN 0 ELSE (total - 1) - 0 + 1
  BY <1>1, FS_Interval
<1> QED
  BY <1>1, <1>2 DEF ChunkIds

\* An entry with the announced number of chunks, but not of these, has chunks
\* of two frames of different sizes.
LEMMA FullOutOfOrder ==
  ASSUME TypeOK, NEW id, NEW e, NEW A, EntryFits(id, e, A), Full(e), ~ InOrder(e)
  PROVE  \E m, n \in FrameNumbers :
            /\ sent[m].frame_id = id /\ sent[n].frame_id = id
            /\ sent[m].total # sent[n].total
<1>1. PICK m \in FrameNumbers : sent[m].frame_id = id /\ sent[m].total = e.total
  BY DEF EntryFits
<1> SUFFICES ASSUME \A n \in FrameNumbers : sent[n].frame_id = id => sent[n].total = e.total
             PROVE  FALSE
  BY <1>1
<1>2. e.total \in Totals
  BY <1>1, SentType
<1>3. DOMAIN e.chunks \subseteq ChunkIds(e.total)
  BY DEF EntryFits, ChunkOf
<1>4. Cardinality(DOMAIN e.chunks) = e.total
  BY DEF Full
<1>5. DOMAIN e.chunks = ChunkIds(e.total)
  BY <1>2, <1>3, <1>4, ChunkIdsCount, FS_Subset
<1> QED
  BY <1>5 DEF InOrder

\* The entry for a datagram, with its chunk.
LEMMA FilledEntry ==
  ASSUME Inv, NEW d \in network
  PROVE  LET old == EntryFor(d)
             e == Filled(d)
         IN  /\ IsEntry(e)
             /\ e.total = old.total
             /\ DOMAIN e.chunks = DOMAIN old.chunks \cup {d.chunk_id}
             /\ e.chunks[d.chunk_id] = d.payload
             /\ \A c \in DOMAIN old.chunks \ {d.chunk_id} : e.chunks[c] = old.chunks[c]
             /\ EntryFits(d.frame_id, e, arrived \cup {<<d.payload, d.chunk_id>>})
<1> DEFINE old == EntryFor(d)
           e == Filled(d)
           new == [c \in DOMAIN old.chunks \cup {d.chunk_id} |->
                      IF c = d.chunk_id THEN d.payload ELSE old.chunks[c]]
<1>1. /\ d \in Datagram
      /\ ChunkOf(d.payload, d.chunk_id, d.frame_id)
      /\ d.total_chunks = sent[d.payload].total
  BY DEF Inv, TypeOK, NetworkFits
<1>2. IsEntry(old) /\ EntryFits(d.frame_id, old, arrived)
  <2>1. CASE d.frame_id \in DOMAIN frames
    BY <2>1 DEF EntryFor, Inv, TypeOK, EntriesFit
  <2>2. CASE d.frame_id \notin DOMAIN frames
    <3>1. old = [total |-> d.total_chunks, chunks |-> NoEntries]
      BY <2>2 DEF EntryFor, NewEntry
    <3>2. DOMAIN old = {"total", "chunks"} /\ old.total = d.total_chunks /\ DOMAIN old.chunks = {}
      BY <3>1 DEF NoEntries
    <3> HIDE DEF old
    <3> QED
      BY <1>1, <3>2 DEF IsEntry, EntryFits, ChunkOf, Datagram
  <2> QED
    BY <2>1, <2>2
<1>3. e = [old EXCEPT !.chunks = new]
  BY DEF Filled
<1> HIDE DEF old, e
<1>4. /\ DOMAIN e = {"total", "chunks"}
      /\ e.total = old.total /\ e.chunks = new
  BY <1>2, <1>3 DEF IsEntry
<1>5. IsEntry(e)
  BY <1>1, <1>2, <1>4 DEF IsEntry, Datagram
<1>6. EntryFits(d.frame_id, e, arrived \cup {<<d.payload, d.chunk_id>>})
  BY <1>1, <1>2, <1>4 DEF EntryFits
<1> QED
  BY <1>4, <1>5, <1>6 DEF old, e

-----------------------------------------------------------------------------
\* What the arrival of a datagram changes, whatever becomes of it.
LEMMA ArriveStep ==
  ASSUME Inv, NEW d \in network, Arrive(d)
  PROVE  /\ sent' = sent /\ next_id' = next_id /\ restarts' = restarts
         /\ network' \subseteq network
         /\ duplicates' \in 0 .. MaxDuplicates
         /\ arrived' = arrived \cup {<<d.payload, d.chunk_id>>}
         /\ arrived' \subseteq FrameNumbers \X ChunkIds(MaxTotal)
         /\ again \subseteq again' /\ again' \subseteq FrameNumbers
         /\ <<d.payload, d.chunk_id>> \in arrived => d.payload \in again'
         /\ NetworkFits'
<1>1. d \in Datagram
  BY DEF Inv, TypeOK
<1>2. d.payload \in FrameNumbers /\ d.chunk_id \in ChunkIds(MaxTotal)
  BY <1>1 DEF Datagram
<1>3. /\ sent' = sent /\ next_id' = next_id /\ restarts' = restarts
      /\ network' \subseteq network
      /\ arrived' = arrived \cup {<<d.payload, d.chunk_id>>}
      /\ again \subseteq again' /\ again' \subseteq again \cup {d.payload}
      /\ <<d.payload, d.chunk_id>> \in arrived => d.payload \in again'
  BY DEF Arrive
<1>4. duplicates' \in 0 .. MaxDuplicates
  BY BoundsType DEF Arrive, Inv, TypeOK
<1>5. arrived' \subseteq FrameNumbers \X ChunkIds(MaxTotal) /\ again' \subseteq FrameNumbers
  BY <1>2, <1>3 DEF Inv, TypeOK
<1>6. NetworkFits'
  BY <1>3 DEF Inv, NetworkFits, ChunkOf, FrameNumbers, ChunkIds
<1> QED
  BY <1>3, <1>4, <1>5, <1>6

\* The frame a datagram of a unique frame's id is of.
LEMMA DatagramOfUnique ==
  ASSUME Inv, NEW d \in network, NEW n \in FrameNumbers, Unique(n)
  PROVE  sent[n].frame_id = d.frame_id <=> d.payload = n
  BY DEF Inv, NetworkFits, ChunkOf, Unique

\* A datagram whose frame stays incomplete, or can never be complete.
LEMMA StoredStep ==
  ASSUME Inv, NEW d \in network, Arrive(d), frames' = Stored(d),
         receiving' \in BOOLEAN, UNCHANGED <<latest, yielded>>,
         \A n \in FrameNumbers :
            Unique(n) /\ sent[n].frame_id = d.frame_id => ~ Full(Filled(d))
  PROVE  TypeOK' /\ NetworkFits' /\ EntriesFit' /\ LatestFits' /\ UniqueFramesKept'
<1> DEFINE e == Filled(d)
           id == d.frame_id
<1>1. /\ IsEntry(e)
      /\ DOMAIN e.chunks = DOMAIN EntryFor(d).chunks \cup {d.chunk_id}
      /\ EntryFits(id, e, arrived')
  BY FilledEntry, ArriveStep
<1>2. /\ DOMAIN frames' = DOMAIN frames \cup {id}
      /\ frames'[id] = e
      /\ \A i \in DOMAIN frames \ {id} : frames'[i] = frames[i]
  BY DEF Stored
<1>3. /\ sent' = sent /\ arrived \subseteq arrived'
      /\ arrived' = arrived \cup {<<d.payload, d.chunk_id>>}
      /\ again \subseteq again' /\ NetworkFits'
      /\ <<d.payload, d.chunk_id>> \in arrived => d.payload \in again'
  BY ArriveStep
<1>4. id \in 0 .. IdModulus - 1 /\ d \in Datagram
  BY DEF Inv, TypeOK, Datagram
<1> HIDE DEF e
<1>5. TypeOK'
  <2>1. \A i \in DOMAIN frames' : IsEntry(frames'[i])
    BY <1>1, <1>2 DEF Inv, TypeOK
  <2>2. (\A i \in DOMAIN frames : IsEntry(frames[i]))'
    BY <1>3, <2>1 DEF IsEntry, FrameNumbers
  <2>3. DOMAIN frames' \subseteq 0 .. IdModulus - 1
    BY <1>2, <1>4 DEF Inv, TypeOK
  <2>4. network' \subseteq Datagram'
    BY <1>3, ArriveStep DEF Inv, TypeOK, Datagram, FrameNumbers
  <2>5. latest' \in Seq(FrameNumbers') /\ yielded' \subseteq FrameNumbers'
    BY <1>3 DEF Inv, TypeOK, FrameNumbers
  <2>6. arrived' \subseteq (FrameNumbers' \X ChunkIds(MaxTotal)) /\ again' \subseteq FrameNumbers'
    BY <1>3, ArriveStep DEF FrameNumbers
  <2>7. /\ next_id' \in 0 .. IdModulus - 1
        /\ sent' \in Seq([frame_id : 0 .. IdModulus - 1, total : Totals])
        /\ restarts' \in 0 .. MaxRestarts /\ duplicates' \in 0 .. MaxDuplicates
    BY ArriveStep DEF Inv, TypeOK
  <2> QED
    BY <2>2, <2>3, <2>4, <2>5, <2>6, <2>7 DEF TypeOK
<1>6. EntriesFit'
  <2>1. ASSUME NEW i \in DOMAIN frames' PROVE EntryFits(i, frames'[i], arrived')
    <3>1. CASE i = id
      BY <1>1, <1>2, <3>1
    <3>2. CASE i # id
      BY <1>2, <1>3, <3>2 DEF Inv, EntriesFit, EntryFits
    <3> QED
      BY <3>1, <3>2
  <2> QED
    BY <1>3, <2>1 DEF EntriesFit, EntryFits, ChunkOf, FrameNumbers
<1>7. LatestFits'
  BY <1>3 DEF Inv, LatestFits, FrameNumbers
<1>8. ASSUME NEW n \in FrameNumbers, Unique(n)
      PROVE  KeptUntilYielded(n)'
  <2>1. KeptUntilYielded(n)
    BY <1>8 DEF Inv, UniqueFramesKept
  <2>2. n \in yielded => AllArrived(n) /\ AllArrived(n)'
    BY <1>3, <2>1 DEF KeptUntilYielded, AllArrived
  <2>3. CASE sent[n].frame_id # id
    <3>1. d.payload # n
      BY <1>8, <2>3, DatagramOfUnique
    <3>2. \A c : <<n, c>> \in arrived' => <<n, c>> \in arrived
      BY <1>3, <3>1
    <3> QED
      BY <1>2, <1>3, <2>1, <2>2, <2>3, <3>2 DEF KeptUntilYielded, Full
  <2>4. CASE sent[n].frame_id = id
    <3>1. d.payload = n
      BY <1>8, <2>4, DatagramOfUnique
    <3>2. n \in yielded => n \in again'
      <4>1. d.chunk_id \in ChunkIds(sent[n].total)
        BY <3>1 DEF Inv, NetworkFits, ChunkOf
      <4> QED
        BY <1>3, <2>2, <3>1, <4>1 DEF AllArrived
    <3>3. ASSUME n \notin yielded, NEW c \in ChunkIds(MaxTotal), <<n, c>> \in arrived'
          PROVE  c \in DOMAIN e.chunks
      <4>1. CASE <<n, c>> \in arrived
        <5>1. id \in DOMAIN frames /\ c \in DOMAIN frames[id].chunks
          BY <2>1, <2>4, <3>3, <4>1 DEF KeptUntilYielded
        <5> QED
          BY <1>1, <5>1 DEF EntryFor
      <4>2. CASE <<n, c>> \notin arrived
        BY <1>1, <1>3, <3>3, <4>2
      <4> QED
        BY <4>1, <4>2
    <3>4. ~ Full(e)
      BY <1>8, <2>4 DEF e
    <3> QED
      BY <1>2, <1>3, <2>2, <2>4, <3>2, <3>3, <3>4 DEF KeptUntilYielded, Full
  <2> QED
    BY <2>3, <2>4
<1>9. UniqueFramesKept'
  BY <1>3, <1>8 DEF UniqueFramesKept, Unique, FrameNumbers
<1> QED
  BY <1>3, <1>5, <1>6, <1>7, <1>9

LEMMA StoreChunkInv ==
  ASSUME Inv, NEW d \in network, StoreChunk(d)
  PROVE  Inv'
<1>1. TypeOK' /\ NetworkFits' /\ EntriesFit' /\ LatestFits' /\ UniqueFramesKept'
  BY StoredStep DEF StoreChunk, Inv, TypeOK
<1>2. EndedByReuse'
  BY DEF StoreChunk, Arrive, Inv, EndedByReuse, FrameNumbers
<1> QED
  BY <1>1, <1>2 DEF Inv

LEMMA ChunkMissingInv ==
  ASSUME Inv, NEW d \in network, ChunkMissing(d)
  PROVE  Inv'
<1>1. /\ Arrive(d) /\ Full(Filled(d)) /\ ~ InOrder(Filled(d))
      /\ frames' = Stored(d) /\ receiving' = FALSE /\ UNCHANGED <<latest, yielded>>
  BY DEF ChunkMissing
<1>2. PICK m, n \in FrameNumbers :
          /\ sent[m].frame_id = d.frame_id /\ sent[n].frame_id = d.frame_id
          /\ sent[m].total # sent[n].total
  BY <1>1, FilledEntry, FullOutOfOrder DEF Inv
<1>3. \A k \in FrameNumbers : Unique(k) => sent[k].frame_id # d.frame_id
  BY <1>2 DEF Unique
<1>4. TypeOK' /\ NetworkFits' /\ EntriesFit' /\ LatestFits' /\ UniqueFramesKept'
  BY <1>1, <1>3, StoredStep
<1>5. EndedByReuse'
  BY <1>1, <1>2, ArriveStep DEF EndedByReuse, FrameNumbers
<1> QED
  BY <1>4, <1>5 DEF Inv

-----------------------------------------------------------------------------
LEMMA YieldInv ==
  ASSUME Inv, NEW d \in network, Yield(d)
  PROVE  Inv'
<1> DEFINE e == Filled(d)
           id == d.frame_id
<1>1. /\ IsEntry(e) /\ e.total \in Totals
      /\ EntryFits(id, e, arrived')
  BY FilledEntry, ArriveStep DEF Yield, IsEntry
<1>2. /\ DOMAIN e.chunks = ChunkIds(e.total)
      /\ latest' = Joined(e)
      /\ frames' = [i \in DOMAIN frames \ {id} |-> frames[i]]
      /\ yielded' = yielded \cup {n \in FrameNumbers : IsFrame(latest', n)}
      /\ receiving' = receiving
  BY DEF Yield, InOrder
<1>3. /\ sent' = sent /\ arrived \subseteq arrived'
      /\ arrived' = arrived \cup {<<d.payload, d.chunk_id>>}
      /\ again \subseteq again' /\ NetworkFits'
  BY ArriveStep DEF Yield
<1> HIDE DEF e
<1>4. e.total \in Nat /\ e.total >= 1
  BY <1>1 DEF Totals
<1>5. /\ latest' = [i \in 1 .. e.total |-> e.chunks[i - 1]]
      /\ \A i \in 1 .. e.total : i - 1 \in DOMAIN e.chunks /\ e.chunks[i - 1] \in FrameNumbers
  BY <1>1, <1>2, <1>4 DEF Joined, ChunkIds, IsEntry
<1>6. latest' \in Seq(FrameNumbers) /\ Len(latest') = e.total
  <2>1. latest' \in [1 .. e.total -> FrameNumbers]
    BY <1>5
  <2>2. latest' \in Seq(FrameNumbers)
    BY <1>4, <2>1, SeqDef
  <2>3. Len(latest') \in Nat /\ DOMAIN latest' = 1 .. Len(latest')
    BY <2>2, LenProperties
  <2> QED
    BY <1>4, <2>1, <2>2, <2>3
<1>7. TypeOK'
  <2>1. (\A i \in DOMAIN frames : IsEntry(frames[i]))'
    BY <1>2, <1>3 DEF Inv, TypeOK, IsEntry, FrameNumbers
  <2>2. DOMAIN frames' \subseteq 0 .. IdModulus - 1
    BY <1>2 DEF Inv, TypeOK
  <2>3. network' \subseteq Datagram'
    BY <1>3, ArriveStep DEF Yield, Inv, TypeOK, Datagram, FrameNumbers
  <2>4. latest' \in Seq(FrameNumbers') /\ yielded' \subseteq FrameNumbers'
    BY <1>2, <1>3, <1>6 DEF Inv, TypeOK, FrameNumbers
  <2>5. arrived' \subseteq (FrameNumbers' \X ChunkIds(MaxTotal)) /\ again' \subseteq FrameNumbers'
    BY <1>3, ArriveStep DEF Yield, FrameNumbers
  <2>6. /\ next_id' \in 0 .. IdModulus - 1
        /\ sent' \in Seq([frame_id : 0 .. IdModulus - 1, total : Totals])
        /\ restarts' \in 0 .. MaxRestarts /\ duplicates' \in 0 .. MaxDuplicates
        /\ receiving' \in BOOLEAN
    BY ArriveStep DEF Yield, Inv, TypeOK
  <2> QED
    BY <2>1, <2>2, <2>3, <2>4, <2>5, <2>6 DEF TypeOK
<1>8. EntriesFit'
  BY <1>2, <1>3 DEF Inv, EntriesFit, EntryFits, ChunkOf, FrameNumbers
<1>9. LatestFits'
  <2>1. PICK m \in FrameNumbers : sent[m].frame_id = id /\ sent[m].total = e.total
    BY <1>1 DEF EntryFits
  <2>2. \A i \in 1 .. e.total : sent[latest'[i]].frame_id = id
    BY <1>1, <1>5 DEF EntryFits, ChunkOf
  <2> QED
    BY <1>3, <1>6, <2>1, <2>2 DEF LatestFits, FrameNumbers
<1>10. ASSUME NEW n \in FrameNumbers, Unique(n)
       PROVE  KeptUntilYielded(n)'
  <2>1. KeptUntilYielded(n)
    BY <1>10 DEF Inv, UniqueFramesKept
  <2>2. sent[n].total \in Nat /\ sent[n].total >= 1
    BY SentType DEF Inv, Totals
  <2>3. CASE sent[n].frame_id = id
    <3>1. /\ e.total = sent[n].total
          /\ \A c \in DOMAIN e.chunks : e.chunks[c] = n /\ <<n, c>> \in arrived'
      BY <1>1, <1>10, <2>3 DEF EntryFits, ChunkOf, Unique
    <3>2. latest' = [i \in 1 .. sent[n].total |-> n]
      BY <1>5, <3>1
    <3>3. n \in yielded'
      BY <1>2, <3>2 DEF IsFrame
    <3>4. AllArrived(n)'
      BY <1>2, <1>3, <3>1 DEF AllArrived
    <3>5. id \notin DOMAIN frames'
      BY <1>2
    <3> QED
      BY <1>3, <2>3, <3>3, <3>4, <3>5 DEF KeptUntilYielded
  <2>4. CASE sent[n].frame_id # id
    <3>1. ~ IsFrame(latest', n)
      <4>1. SUFFICES ASSUME latest' = [i \in 1 .. sent[n].total |-> n] PROVE FALSE
        BY DEF IsFrame
      <4>2. latest'[1] = n
        BY <2>2, <4>1
      <4>3. latest'[1] = e.chunks[0] /\ 0 \in DOMAIN e.chunks
        BY <1>2, <1>4, <1>5 DEF ChunkIds
      <4>4. sent[e.chunks[0]].frame_id = id
        BY <1>1, <4>3 DEF EntryFits, ChunkOf
      <4> QED
        BY <2>4, <4>2, <4>3, <4>4
    <3>2. n \in yielded' <=> n \in yielded
      BY <1>2, <3>1
    <3>3. d.payload # n
      BY <1>10, <2>4, DatagramOfUnique
    <3>4. \A c : <<n, c>> \in arrived' <=> <<n, c>> \in arrived
      BY <1>3, <3>3
    <3>5. /\ sent[n].frame_id \in DOMAIN frames' <=> sent[n].frame_id \in DOMAIN frames
          /\ sent[n].frame_id \in DOMAIN frames =>
                frames'[sent[n].frame_id] = frames[sent[n].frame_id]
      BY <1>2, <2>4
    <3>6. AllArrived(n) => AllArrived(n)'
      BY <1>3 DEF AllArrived
    <3> QED
      BY <1>3, <2>1, <3>2, <3>4, <3>5, <3>6 DEF KeptUntilYielded, Full
  <2> QED
    BY <2>3, <2>4
<1>11. UniqueFramesKept'
  BY <1>3, <1>10 DEF UniqueFramesKept, Unique, FrameNumbers
<1>12. EndedByReuse'
  BY <1>2, <1>3 DEF Inv, EndedByReuse, FrameNumbers
<1> QED
  BY <1>3, <1>7, <1>8, <1>9, <1>11, <1>12 DEF Inv

-----------------------------------------------------------------------------
\* A new frame leaves the old ones as they are.
LEMMA SendStep ==
  ASSUME Inv, NEW total \in Totals, Send(total)
  PROVE  LET m == Len(sent) + 1
         IN  /\ sent' \in Seq([frame_id : 0 .. IdModulus - 1, total : Totals])
             /\ FrameNumbers' = FrameNumbers \cup {m}
             /\ m \notin FrameNumbers
             /\ \A n \in FrameNumbers : sent'[n] = sent[n]
             /\ sent'[m].frame_id = next_id /\ sent'[m].total = total
             /\ next_id \in 0 .. IdModulus - 1 /\ next_id' \in 0 .. IdModulus - 1
<1> DEFINE row == [frame_id |-> next_id, total |-> total]
<1>1. /\ sent' = Append(sent, row)
      /\ next_id' = (next_id + 1) % IdModulus
  BY DEF Send
<1>2. next_id \in 0 .. IdModulus - 1 /\ next_id' \in 0 .. IdModulus - 1
  <2>1. next_id \in 0 .. IdModulus - 1
    BY DEF Inv, TypeOK
  <2> QED
    BY <1>1, <2>1, BoundsType
<1>3. row \in [frame_id : 0 .. IdModulus - 1, total : Totals]
  BY <1>2
<1>4. sent \in Seq([frame_id : 0 .. IdModulus - 1, total : Totals])
  BY DEF Inv, TypeOK
<1>5. /\ sent' \in Seq([frame_id : 0 .. IdModulus - 1, total : Totals])
      /\ Len(sent') = Len(sent) + 1
      /\ \A n \in 1 .. Len(sent) : sent'[n] = sent[n]
      /\ sent'[Len(sent) + 1] = row
  BY <1>1, <1>3, <1>4, AppendProperties
<1>6. Len(sent) \in Nat
  BY <1>4, LenProperties
<1> QED
  BY <1>2, <1>5, <1>6 DEF FrameNumbers

LEMMA SendInv ==
  ASSUME Inv, NEW total \in Totals, Send(total)
  PROVE  Inv'
<1> DEFINE m == Len(sent) + 1
<1>1. /\ sent' \in Seq([frame_id : 0 .. IdModulus - 1, total : Totals])
      /\ FrameNumbers' = FrameNumbers \cup {m}
      /\ m \notin FrameNumbers
      /\ \A n \in FrameNumbers : sent'[n] = sent[n]
      /\ sent'[m].frame_id = next_id /\ sent'[m].total = total
      /\ next_id \in 0 .. IdModulus - 1 /\ next_id' \in 0 .. IdModulus - 1
  BY SendStep
<1>2. /\ network' = network \cup Chunked(m, total)
      /\ UNCHANGED <<frames, latest, receiving, duplicates, restarts, arrived, again, yielded>>
  BY DEF Send
<1> HIDE DEF m
<1>3. /\ total \in Nat /\ ChunkIds(total) \subseteq ChunkIds(MaxTotal)
  BY BoundsType DEF Totals, ChunkIds
<1>4. NetworkFits'
  <2>1. ASSUME NEW d \in network
        PROVE  ChunkOf(d.payload, d.chunk_id, d.frame_id)' /\ d.total_chunks = sent'[d.payload].total
    BY <1>1 DEF Inv, NetworkFits, ChunkOf
  <2>2. ASSUME NEW d \in Chunked(m, total)
        PROVE  ChunkOf(d.payload, d.chunk_id, d.frame_id)' /\ d.total_chunks = sent'[d.payload].total
    BY <1>1 DEF Chunked, ChunkOf
  <2> QED
    BY <1>2, <2>1, <2>2 DEF NetworkFits
<1>5. TypeOK'
  <2>1. network' \subseteq Datagram'
    <3>1. network \subseteq Datagram'
      BY <1>1 DEF Inv, TypeOK, Datagram
    <3>2. Chunked(m, total) \subseteq Datagram'
      BY <1>1, <1>3 DEF Chunked, Datagram
    <3> QED
      BY <1>2, <3>1, <3>2
  <2>2. (\A i \in DOMAIN frames : IsEntry(frames[i]))'
    BY <1>1, <1>2 DEF Inv, TypeOK, IsEntry
  <2>3. latest' \in Seq(FrameNumbers')
    <3>1. latest \in Seq(FrameNumbers) /\ FrameNumbers \subseteq FrameNumbers'
      BY <1>1 DEF Inv, TypeOK
    <3>2. Len(latest) \in Nat /\ latest \in [1 .. Len(latest) -> FrameNumbers]
      BY <3>1, LenProperties
    <3>3. latest \in [1 .. Len(latest) -> FrameNumbers']
      BY <3>1, <3>2
    <3> QED
      BY <1>2, <3>2, <3>3, SeqDef
  <2> QED
    BY <1>1, <1>2, <2>1, <2>2, <2>3 DEF Inv, TypeOK
<1>6. EntriesFit'
  <2>1. ASSUME NEW i \in DOMAIN frames PROVE EntryFits(i, frames[i], arrived)'
    <3>1. EntryFits(i, frames[i], arrived)
      BY DEF Inv, EntriesFit
    <3>2. \A n \in FrameNumbers : n \in FrameNumbers' /\ sent'[n] = sent[n]
      BY <1>1
    <3>3. \A n, c : ChunkOf(n, c, i) => ChunkOf(n, c, i)'
      BY <3>2 DEF ChunkOf
    <3> QED
      BY <1>2, <3>1, <3>2, <3>3 DEF EntryFits
  <2> QED
    BY <1>2, <2>1 DEF EntriesFit
<1>7. LatestFits'
  <2> SUFFICES ASSUME latest # <<>>
               PROVE  \E k \in FrameNumbers' :
                         /\ Len(latest) = sent'[k].total
                         /\ \A i \in 1 .. Len(latest) :
                               sent'[latest[i]].frame_id = sent'[k].frame_id
    BY <1>2 DEF LatestFits
  <2>1. PICK k \in FrameNumbers :
            /\ Len(latest) = sent[k].total
            /\ \A i \in 1 .. Len(latest) : sent[latest[i]].frame_id = sent[k].frame_id
    BY DEF Inv, LatestFits
  <2>2. \A i \in 1 .. Len(latest) : latest[i] \in FrameNumbers
    BY ElementOfSeq DEF Inv, TypeOK
  <2>3. \A n \in FrameNumbers : n \in FrameNumbers' /\ sent'[n] = sent[n]
    BY <1>1
  <2>4. \A i \in 1 .. Len(latest) : sent'[latest[i]] = sent[latest[i]]
    BY <2>2, <2>3
  <2>5. k \in FrameNumbers' /\ sent'[k] = sent[k]
    BY <2>3
  <2> QED
    BY <2>1, <2>4, <2>5
<1>8. ASSUME NEW n \in FrameNumbers', Unique(n)'
      PROVE  KeptUntilYielded(n)'
  <2>1. CASE n = m
    <3>1. n \notin yielded /\ \A c : <<n, c>> \notin arrived
      BY <1>1, <2>1 DEF Inv, TypeOK
    <3>2. next_id \notin DOMAIN frames
      <4> SUFFICES ASSUME next_id \in DOMAIN frames PROVE FALSE
        OBVIOUS
      <4>1. PICK k \in FrameNumbers : sent[k].frame_id = next_id
        BY DEF Inv, EntriesFit, EntryFits
      <4> QED
        BY <1>1, <1>8, <2>1, <4>1 DEF Unique
    <3> QED
      BY <1>1, <1>2, <2>1, <3>1, <3>2 DEF KeptUntilYielded
  <2>2. CASE n # m
    <3>1. n \in FrameNumbers /\ sent'[n] = sent[n]
      BY <1>1, <2>2
    <3>2. Unique(n)
      BY <1>1, <1>8, <3>1 DEF Unique
    <3>3. KeptUntilYielded(n)
      BY <3>1, <3>2 DEF Inv, UniqueFramesKept
    <3> QED
      BY <1>2, <3>1, <3>3 DEF KeptUntilYielded, AllArrived, Full
  <2> QED
    BY <2>1, <2>2
<1>9. UniqueFramesKept'
  BY <1>8 DEF UniqueFramesKept
<1>10. EndedByReuse'
  BY <1>1, <1>2 DEF Inv, EndedByReuse
<1> QED
  BY <1>4, <1>5, <1>6, <1>7, <1>9, <1>10 DEF Inv

-----------------------------------------------------------------------------
\* A sender that starts again, by an action of whatever program it is part of.
LEMMA SenderStartsAgain ==
  ASSUME Inv, next_id' = 0, restarts' \in 0 .. MaxRestarts,
         UNCHANGED <<network, frames, latest, receiving, duplicates, sent, arrived, again, yielded>>
  PROVE  Inv'
<1>1. next_id' \in 0 .. IdModulus - 1
  BY BoundsType
<1>2. TypeOK'
  BY <1>1 DEF Inv, TypeOK, Datagram, IsEntry, FrameNumbers
<1>3. NetworkFits' /\ EntriesFit' /\ LatestFits' /\ EndedByReuse'
  BY DEF Inv, NetworkFits, EntriesFit, LatestFits, EndedByReuse, EntryFits, ChunkOf, FrameNumbers
<1>4. UniqueFramesKept'
  BY DEF Inv, UniqueFramesKept, KeptUntilYielded, AllArrived, Unique, Full, FrameNumbers
<1> QED
  BY <1>2, <1>3, <1>4 DEF Inv

LEMMA RestartInv ==
  ASSUME Inv, Restart
  PROVE  Inv'
<1>1. restarts' \in 0 .. MaxRestarts
  BY BoundsType DEF Inv, TypeOK, Restart
<1> QED
  BY <1>1, SenderStartsAgain DEF Restart

LEMMA ReceiverRestartInv ==
  ASSUME Inv, ReceiverRestart
  PROVE  Inv'
<1>1. /\ restarts' = restarts + 1 /\ restarts < MaxRestarts
      /\ frames' = NoEntries /\ latest' = <<>> /\ receiving' = TRUE
      /\ arrived' = {} /\ again' = {} /\ yielded' = {}
      /\ UNCHANGED <<next_id, network, duplicates, sent>>
  BY DEF ReceiverRestart
<1>2. restarts' \in 0 .. MaxRestarts
  BY <1>1, BoundsType DEF Inv, TypeOK
<1>3. DOMAIN frames' = {}
  BY <1>1 DEF NoEntries
<1>4. TypeOK'
  <2>1. latest' \in Seq(FrameNumbers')
    BY <1>1, EmptySeq
  <2> QED
    BY <1>1, <1>2, <1>3, <2>1 DEF Inv, TypeOK, Datagram, FrameNumbers
<1>5. NetworkFits' /\ EntriesFit' /\ LatestFits' /\ EndedByReuse'
  BY <1>1, <1>3 DEF Inv, NetworkFits, EntriesFit, LatestFits, EndedByReuse, ChunkOf, FrameNumbers
<1>6. UniqueFramesKept'
  BY <1>1, <1>3 DEF UniqueFramesKept, KeptUntilYielded
<1> QED
  BY <1>4, <1>5, <1>6 DEF Inv

LEMMA StutterInv ==
  ASSUME Inv, UNCHANGED vars
  PROVE  Inv'
<1>1. UNCHANGED <<next_id, network, frames, latest, receiving, duplicates, restarts, sent,
                  arrived, again, yielded>>
  BY DEF vars
<1>2. TypeOK'
  BY <1>1 DEF Inv, TypeOK, Datagram, IsEntry, FrameNumbers
<1>3. NetworkFits' /\ EntriesFit' /\ LatestFits' /\ EndedByReuse'
  BY <1>1
  DEF Inv, NetworkFits, EntriesFit, LatestFits, EndedByReuse, EntryFits, ChunkOf, FrameNumbers
<1>4. UniqueFramesKept'
  BY <1>1 DEF Inv, UniqueFramesKept, KeptUntilYielded, AllArrived, Unique, Full, FrameNumbers
<1> QED
  BY <1>2, <1>3, <1>4 DEF Inv

LEMMA NextInv == Inv /\ [Next]_vars => Inv'
  BY SendInv, RestartInv, ReceiverRestartInv, StoreChunkInv, YieldInv, ChunkMissingInv,
     StutterInv
  DEF Next

-----------------------------------------------------------------------------
\* A unique frame is complete once all of its datagrams have arrived.
LEMMA ArrivedComplete ==
  ASSUME Inv, NEW n \in FrameNumbers, Unique(n), AllArrived(n), n \notin yielded
  PROVE  FALSE
<1> DEFINE id == sent[n].frame_id
           e == frames[id]
<1>1. KeptUntilYielded(n)
  BY DEF Inv, UniqueFramesKept
<1>2. sent[n].total \in Totals /\ ChunkIds(sent[n].total) \subseteq ChunkIds(MaxTotal)
  BY SentType, BoundsType DEF Inv, Totals, ChunkIds
<1>3. id \in DOMAIN frames /\ ChunkIds(sent[n].total) \subseteq DOMAIN e.chunks
  <2>1. 0 \in ChunkIds(sent[n].total)
    BY <1>2, BoundsType DEF Totals, ChunkIds
  <2> QED
    BY <1>1, <1>2, <2>1 DEF KeptUntilYielded, AllArrived
<1>4. /\ e.total = sent[n].total
      /\ DOMAIN e.chunks \subseteq ChunkIds(sent[n].total)
  <2>1. EntryFits(id, e, arrived)
    BY <1>3 DEF Inv, EntriesFit
  <2>2. \A m \in FrameNumbers : sent[m].frame_id = id => m = n
    BY DEF Unique
  <2> HIDE DEF id, e
  <2>3. e.total = sent[n].total
    BY <2>1, <2>2 DEF EntryFits
  <2>4. \A c \in DOMAIN e.chunks : c \in ChunkIds(sent[n].total)
    BY <2>1, <2>2 DEF EntryFits, ChunkOf
  <2> QED
    BY <2>3, <2>4
<1>5. Cardinality(DOMAIN e.chunks) = sent[n].total
  BY <1>2, <1>3, <1>4, ChunkIdsCount
<1> QED
  BY <1>1, <1>3, <1>4, <1>5 DEF KeptUntilYielded, Full

LEMMA InvSuffices ==
  ASSUME Inv
  PROVE  TypeOK /\ UniqueFramesWhole /\ ArrivedYielded /\ EndedByReuse
<1>1. UniqueFramesWhole
  <2> SUFFICES ASSUME NEW i \in 1 .. Len(latest), Unique(latest[i])
               PROVE  IsFrame(latest, latest[i])
    BY DEF UniqueFramesWhole
  <2> DEFINE n == latest[i]
  <2>1. latest \in Seq(FrameNumbers) /\ Len(latest) \in Nat /\ DOMAIN latest = 1 .. Len(latest)
    BY LenProperties DEF Inv, TypeOK
  <2>2. \A j \in 1 .. Len(latest) : latest[j] \in FrameNumbers
    BY <2>1, ElementOfSeq
  <2>3. latest # <<>>
    BY <2>1, EmptySeq
  <2>4. PICK m \in FrameNumbers :
            /\ Len(latest) = sent[m].total
            /\ \A j \in 1 .. Len(latest) : sent[latest[j]].frame_id = sent[m].frame_id
    BY <2>3 DEF Inv, LatestFits
  <2>5. m = n /\ \A j \in 1 .. Len(latest) : latest[j] = n
    BY <2>2, <2>4 DEF Unique
  <2>6. latest = [j \in 1 .. Len(latest) |-> latest[j]]
    BY <2>1, SeqDef
  <2> QED
    BY <2>4, <2>5, <2>6 DEF IsFrame
<1>2. ArrivedYielded
  <2> SUFFICES ASSUME NEW n \in FrameNumbers, Unique(n), AllArrived(n)
               PROVE  n \in yielded /\ (sent[n].frame_id \in DOMAIN frames => n \in again)
    BY DEF ArrivedYielded, AllArrived
  <2>1. n \in yielded
    BY ArrivedComplete
  <2> QED
    BY <2>1 DEF Inv, UniqueFramesKept, KeptUntilYielded
<1> QED
  BY <1>1, <1>2 DEF Inv

LEMMA SpecInv == Spec => []Inv
  BY InitInv, NextInv, PTL DEF Spec

\* A hop's ids stay within their 16 bits, its entries within the chunks sent.
THEOREM StreamTypeCorrect == Spec => []TypeOK
  BY SpecInv, InvSuffices, PTL

\* _handle_packet never joins chunks of a frame with an id of its own to others,
\* nor yields it without all of them, whatever is lost, late or repeated and
\* whoever restarts.
THEOREM StreamFramesWhole == Spec => []UniqueFramesWhole
  BY SpecInv, InvSuffices, PTL

\* Such a frame is yielded as soon as its last datagram has arrived, in any
\* order, and stays in _frames afterwards only if a datagram came again.
THEOREM StreamArrivedYielded == Spec => []ArrivedYielded
  BY SpecInv, InvSuffices, PTL

\* The KeyError that ends the receiving loop takes two frames of one id and of
\* different numbers of chunks.
THEOREM StreamEndedByReuse == Spec => []EndedByReuse
  BY SpecInv, InvSuffices, PTL
=============================================================================
