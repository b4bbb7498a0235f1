-------------------------- MODULE FrameRelayProofs --------------------------
(***************************************************************************)
(* Proofs about FrameRelay: both hops keep the invariant of FrameStream,   *)
(* and what the hub forwarded is one picture.                              *)
(***************************************************************************)
EXTENDS FrameRelay, FrameStreamProofs

\* What is proved of FrameStream, for the second hop.
HopProofs == INSTANCE FrameStreamProofs WITH
    next_id <- fwd_next_id, network <- fwd_network, frames <- ai_frames,
    latest <- ai_latest, receiving <- ai_receiving,
    duplicates <- fwd_duplicates, restarts <- fwd_restarts, sent <- fwd_sent,
    arrived <- ai_arrived, again <- ai_again, yielded <- ai_yielded,
    MaxFrames <- MaxForwards, MaxDuplicates <- MaxForwardDuplicates

HopInv == HopProofs!Inv

ForwardedType ==
    /\ forwarded \in Seq(Seq(FrameNumbers))
    /\ Len(forwarded) = Len(fwd_sent)

\* Bytes that are a picture and are cut into as many chunks, if the frame ids
\* in them were used once.
Whole(bytes, total) ==
    (\A i \in 1 .. Len(bytes) : Unique(bytes[i])) =>
        /\ \E m \in FrameNumbers : IsFrame(bytes, m)
        /\ total = Len(bytes)

ForwardedFits ==
    \A n \in 1 .. Len(forwarded) : Whole(forwarded[n], fwd_sent[n].total)

RelayInv == Inv /\ HopInv /\ ForwardedType /\ ForwardedFits

-----------------------------------------------------------------------------
\* The second hop, by itself.
LEMMA HopBounds ==
  /\ HopProofs!IdAssumption /\ HopProofs!BoundsAssumption
  /\ HopProofs!Totals = Totals
  BY IdAssumption, BoundsAssumption, ForwardsAssumption
  DEF HopProofs!IdAssumption, HopProofs!BoundsAssumption, HopProofs!Totals, Totals

LEMMA HopInitInv == Hop!Init => HopInv
<1> SUFFICES ASSUME Hop!Init PROVE HopInv
  OBVIOUS
<1>1. HopProofs!Init
  BY DEF Hop!Init, HopProofs!Init, Hop!NoEntries, HopProofs!NoEntries
<1> QED
  BY <1>1, HopBounds, HopProofs!InitInv DEF HopInv

\* A sender appends to what was sent; nobody else changes it.
LEMMA HopSendInv ==
  ASSUME HopInv, NEW total \in Totals, Hop!Send(total)
  PROVE  /\ HopInv'
         /\ fwd_sent' = Append(fwd_sent, [frame_id |-> fwd_next_id, total |-> total])
<1>1. HopProofs!Send(total)
  BY DEF Hop!Send, HopProofs!Send, Hop!Chunked, HopProofs!Chunked,
         Hop!ChunkIds, HopProofs!ChunkIds
<1>2. HopInv'
  BY <1>1, HopBounds, HopProofs!SendInv DEF HopInv
<1> QED
  BY <1>2 DEF Hop!Send

LEMMA HopStarts ==
  ASSUME HopInv, fwd_next_id' = 0,
         UNCHANGED <<fwd_network, ai_frames, ai_latest, ai_receiving, fwd_duplicates,
                     fwd_restarts, fwd_sent, ai_arrived, ai_again, ai_yielded>>
  PROVE  HopInv'
<1>1. fwd_restarts' \in 0 .. MaxRestarts
  BY DEF HopInv, HopProofs!Inv, HopProofs!TypeOK
<1> QED
  BY <1>1, HopBounds, HopProofs!SenderStartsAgain DEF HopInv

LEMMA HopReceiveInv ==
  ASSUME HopInv, NEW d \in fwd_network,
         Hop!StoreChunk(d) \/ Hop!Yield(d) \/ Hop!ChunkMissing(d)
  PROVE  HopInv' /\ fwd_sent' = fwd_sent
<1>1. HopProofs!StoreChunk(d) \/ HopProofs!Yield(d) \/ HopProofs!ChunkMissing(d)
  <2>1. \A e : HopProofs!Full(e) <=> Hop!Full(e)
    BY DEF Hop!Full, HopProofs!Full, Hop!Cardinality, HopProofs!Cardinality
  <2>2. \A e : HopProofs!InOrder(e) <=> Hop!InOrder(e)
    BY DEF Hop!InOrder, HopProofs!InOrder, Hop!ChunkIds, HopProofs!ChunkIds
  <2>3. HopProofs!EntryFor(d) = Hop!EntryFor(d)
    BY DEF Hop!EntryFor, HopProofs!EntryFor, Hop!NewEntry, HopProofs!NewEntry,
           Hop!NoEntries, HopProofs!NoEntries
  <2>4. HopProofs!Filled(d) = Hop!Filled(d)
    BY <2>3 DEF Hop!Filled, HopProofs!Filled
  <2>5. HopProofs!Stored(d) = Hop!Stored(d)
    BY <2>4 DEF Hop!Stored, HopProofs!Stored
  <2>6. HopProofs!Joined(Hop!Filled(d)) = Hop!Joined(Hop!Filled(d))
    BY DEF Hop!Joined, HopProofs!Joined
  <2>7. HopProofs!Arrive(d) <=> Hop!Arrive(d)
    BY DEF Hop!Arrive, HopProofs!Arrive
  <2>8. /\ HopProofs!FrameNumbers = Hop!FrameNumbers
        /\ \A bytes, n : HopProofs!IsFrame(bytes, n) <=> Hop!IsFrame(bytes, n)
    BY DEF Hop!IsFrame, HopProofs!IsFrame, Hop!FrameNumbers, HopProofs!FrameNumbers
  <2> QED
    BY <2>1, <2>2, <2>4, <2>5, <2>6, <2>7, <2>8
    DEF Hop!StoreChunk, Hop!Yield, Hop!ChunkMissing,
        HopProofs!StoreChunk, HopProofs!Yield, HopProofs!ChunkMissing
<1>2. HopInv'
  BY <1>1, HopBounds, HopProofs!StoreChunkInv, HopProofs!YieldInv, HopProofs!ChunkMissingInv
  DEF HopInv
<1> QED
  BY <1>2 DEF Hop!StoreChunk, Hop!Yield, Hop!ChunkMissing, Hop!Arrive

LEMMA HopReceiverRestartInv ==
  ASSUME HopInv, Hop!ReceiverRestart
  PROVE  HopInv' /\ fwd_sent' = fwd_sent
<1>1. HopProofs!ReceiverRestart
  BY DEF Hop!ReceiverRestart, HopProofs!ReceiverRestart, Hop!NoEntries, HopProofs!NoEntries
<1>2. HopInv'
  BY <1>1, HopBounds, HopProofs!ReceiverRestartInv DEF HopInv
<1> QED
  BY <1>2 DEF Hop!ReceiverRestart

LEMMA HopRests ==
  ASSUME HopInv, UNCHANGED hopVars
  PROVE  HopInv' /\ fwd_sent' = fwd_sent
<1>1. UNCHANGED HopProofs!vars
  BY DEF hopVars, HopProofs!vars
<1>2. HopInv'
  BY <1>1, HopBounds, HopProofs!StutterInv DEF HopInv
<1> QED
  BY <1>2 DEF hopVars

-----------------------------------------------------------------------------
LEMMA RelayInitInv == RelayInit => RelayInv
<1> SUFFICES ASSUME RelayInit PROVE RelayInv
  OBVIOUS
<1>1. Inv /\ HopInv
  BY InitInv, HopInitInv DEF RelayInit
<1>2. forwarded = <<>> /\ fwd_sent = <<>>
  BY DEF RelayInit, Hop!Init
<1>3. ForwardedType /\ Len(forwarded) = 0
  BY <1>2, EmptySeq DEF ForwardedType
<1> QED
  BY <1>1, <1>3 DEF RelayInv, ForwardedFits

\* The camera's frames stay what they are, and an id that two of them have is
\* never one frame's own again.
SentGrows ==
    /\ FrameNumbers \subseteq FrameNumbers'
    /\ \A n \in FrameNumbers : sent'[n] = sent[n]

LEMMA CameraGrows ==
  ASSUME Inv, Next \/ UNCHANGED vars
  PROVE  SentGrows
<1>1. ASSUME NEW total \in Totals, Send(total) PROVE SentGrows
  BY <1>1, SendStep DEF SentGrows
<1>2. ASSUME sent' = sent PROVE SentGrows
  BY <1>2 DEF SentGrows, FrameNumbers
<1> QED
  BY <1>1, <1>2
  DEF Next, Restart, ReceiverRestart, StoreChunk, Yield, ChunkMissing, Arrive, vars

LEMMA WholeStays ==
  ASSUME SentGrows, NEW bytes \in Seq(FrameNumbers), NEW total, Whole(bytes, total)
  PROVE  Whole(bytes, total)'
<1> SUFFICES ASSUME \A i \in 1 .. Len(bytes) : Unique(bytes[i])'
             PROVE  /\ \E m \in FrameNumbers' : IsFrame(bytes, m)'
                    /\ total = Len(bytes)
  BY DEF Whole
<1>1. \A i \in 1 .. Len(bytes) : bytes[i] \in FrameNumbers
  BY ElementOfSeq
<1>2. \A i \in 1 .. Len(bytes) : Unique(bytes[i])
  BY <1>1 DEF Unique, SentGrows
<1>3. PICK m \in FrameNumbers : IsFrame(bytes, m)
  BY <1>2 DEF Whole
<1>4. IsFrame(bytes, m)'
  BY <1>3 DEF IsFrame, SentGrows
<1> QED
  BY <1>2, <1>3, <1>4 DEF Whole, SentGrows

\* Sequences of frames remain that when there are more frames.
LEMMA SeqOfMore ==
  ASSUME NEW S, NEW T, S \subseteq T, NEW s \in Seq(S)
  PROVE  s \in Seq(T)
<1>1. Len(s) \in Nat /\ s \in [1 .. Len(s) -> S]
  BY LenProperties
<1>2. s \in [1 .. Len(s) -> T]
  BY <1>1
<1> QED
  BY <1>1, <1>2, SeqDef

LEMMA NothingForwarded ==
  ASSUME RelayInv, SentGrows, Inv', HopInv', UNCHANGED <<forwarded, fwd_sent>>
  PROVE  RelayInv'
<1>1. ForwardedType'
  <2>1. forwarded \in Seq(Seq(FrameNumbers)) /\ Seq(FrameNumbers) \subseteq Seq(FrameNumbers')
    BY SeqOfMore DEF RelayInv, ForwardedType, SentGrows
  <2>2. forwarded \in Seq(Seq(FrameNumbers'))
    BY <2>1, SeqOfMore
  <2> QED
    BY <2>2 DEF RelayInv, ForwardedType
<1>2. ForwardedFits'
  <2> SUFFICES ASSUME NEW n \in 1 .. Len(forwarded)
               PROVE  Whole(forwarded[n], fwd_sent[n].total)'
    BY DEF ForwardedFits
  <2>1. forwarded[n] \in Seq(FrameNumbers)
    BY ElementOfSeq DEF RelayInv, ForwardedType
  <2>2. PICK bytes \in Seq(FrameNumbers) : bytes = forwarded[n]
    BY <2>1
  <2>3. PICK total : total = fwd_sent[n].total
    OBVIOUS
  <2>4. Whole(bytes, total)'
    BY <2>2, <2>3, WholeStays DEF RelayInv, ForwardedFits
  <2> QED
    BY <2>2, <2>3, <2>4 DEF Whole, Unique, IsFrame
<1> QED
  BY <1>1, <1>2 DEF RelayInv

-----------------------------------------------------------------------------
\* What is yielded is not empty, and so of as many chunks as some frame.
LEMMA YieldedSize ==
  ASSUME Inv, NEW d \in network, Yield(d)
  PROVE  /\ latest' \in Seq(FrameNumbers)
         /\ Len(latest') \in Totals
         /\ \E i \in 1 .. Len(latest') : TRUE
<1>1. Inv' /\ sent' = sent
  BY YieldInv, ArriveStep DEF Yield
<1>2. latest' \in Seq(FrameNumbers)
  BY <1>1 DEF Inv, TypeOK, FrameNumbers
<1>3. latest' # <<>>
  <2>1. IsEntry(Filled(d))
    BY FilledEntry
  <2>2. Filled(d).total \in Nat /\ Filled(d).total >= 1
    BY <2>1, BoundsType DEF IsEntry, Totals
  <2>3. latest' = Joined(Filled(d))
    BY DEF Yield
  <2>4. 1 \in DOMAIN latest'
    BY <2>2, <2>3 DEF Joined
  <2> QED
    BY <2>4, EmptySeq
<1>4. PICK m \in FrameNumbers' : Len(latest') = sent'[m].total
  BY <1>1, <1>3 DEF Inv, LatestFits
<1>5. Len(latest') \in Totals
  BY <1>1, <1>4, SentType DEF Inv, FrameNumbers
<1> QED
  BY <1>2, <1>5, BoundsType DEF Totals

LEMMA HubForwardsInv ==
  ASSUME RelayInv, NEW d \in network, HubForwards(d)
  PROVE  RelayInv'
<1>1. Yield(d) /\ forwarded' = Append(forwarded, latest')
  BY DEF HubForwards
<1>2. Inv' /\ SentGrows /\ sent' = sent
  BY <1>1, YieldInv, ArriveStep DEF RelayInv, Yield, SentGrows, FrameNumbers
<1>3. /\ latest' \in Seq(FrameNumbers) /\ Len(latest') \in Totals
      /\ \E i \in 1 .. Len(latest') : TRUE
  BY <1>1, YieldedSize DEF RelayInv
<1>4. PICK total \in Recut(latest') : Hop!Send(total)
  BY DEF HubForwards
<1>5. total \in Totals
  BY <1>3, <1>4, BoundsType DEF Recut, Totals
<1>6. HopInv' /\ fwd_sent' = Append(fwd_sent, [frame_id |-> fwd_next_id, total |-> total])
  BY <1>4, <1>5, HopSendInv DEF RelayInv
<1>7. PICK new \in Nat : new = Len(forwarded) + 1
  BY LenProperties DEF RelayInv, ForwardedType
<1>8. PICK bytes \in Seq(FrameNumbers) : bytes = latest'
  BY <1>3
<1>9. /\ forwarded' \in Seq(Seq(FrameNumbers)) /\ Len(forwarded') = new
      /\ forwarded'[new] = bytes
      /\ \A n \in 1 .. Len(forwarded) : forwarded'[n] = forwarded[n]
  BY <1>1, <1>3, <1>7, <1>8, AppendProperties DEF RelayInv, ForwardedType
<1>10. /\ Len(fwd_sent') = new /\ fwd_sent'[new].total = total
       /\ \A n \in 1 .. Len(forwarded) : fwd_sent'[n] = fwd_sent[n]
  <2>1. /\ fwd_sent \in Seq([frame_id : 0 .. IdModulus - 1, total : Totals])
        /\ fwd_next_id \in 0 .. IdModulus - 1
    BY HopBounds DEF RelayInv, HopInv, HopProofs!Inv, HopProofs!TypeOK
  <2>2. [frame_id |-> fwd_next_id, total |-> total] \in
            [frame_id : 0 .. IdModulus - 1, total : Totals]
    BY <1>5, <2>1
  <2> QED
    BY <1>6, <1>7, <2>1, <2>2, AppendProperties DEF RelayInv, ForwardedType
<1>11. ForwardedType'
  BY <1>2, <1>9, <1>10 DEF ForwardedType, FrameNumbers
<1>12. Whole(bytes, total)'
  <2> SUFFICES ASSUME \A i \in 1 .. Len(bytes) : Unique(bytes[i])'
               PROVE  (\E m \in FrameNumbers' : IsFrame(bytes, m)') /\ total = Len(bytes)
    BY DEF Whole
  <2>1. PICK i \in 1 .. Len(bytes) : TRUE
    BY <1>3, <1>8
  <2>2. bytes[i] \in FrameNumbers
    BY <1>8, <2>1, ElementOfSeq
  <2>3. UniqueFramesWhole'
    BY <1>2, InvSuffices, PTL
  <2>4. IsFrame(bytes, bytes[i])'
    BY <1>8, <2>1, <2>3 DEF UniqueFramesWhole, Unique, IsFrame
  <2>5. IsFrame(bytes, bytes[i])
    BY <1>2, <2>4 DEF IsFrame
  <2>6. total \in Recut(bytes)
    BY <1>4, <1>8
  <2> QED
    BY <1>2, <2>2, <2>4, <2>5, <2>6 DEF Recut, FrameNumbers
<1>13. ForwardedFits'
  <2> SUFFICES ASSUME NEW n \in 1 .. new
               PROVE  Whole(forwarded[n], fwd_sent[n].total)'
    BY <1>9 DEF ForwardedFits
  <2>1. CASE n = new
    BY <1>9, <1>10, <1>12, <2>1 DEF Whole, Unique, IsFrame
  <2>2. CASE n \in 1 .. Len(forwarded)
    <3>1. PICK held \in Seq(FrameNumbers) : held = forwarded[n]
      BY <2>2, ElementOfSeq DEF RelayInv, ForwardedType
    <3>2. PICK size : size = fwd_sent[n].total
      OBVIOUS
    <3>3. Whole(held, size)'
      BY <1>2, <2>2, <3>1, <3>2, WholeStays DEF RelayInv, ForwardedFits
    <3>4. held = forwarded'[n] /\ size = fwd_sent'[n].total
      BY <1>9, <1>10, <2>2, <3>1, <3>2
    <3> QED
      BY <3>3, <3>4 DEF Whole, Unique, IsFrame
  <2> QED
    BY <1>7, <2>1, <2>2
<1> QED
  BY <1>2, <1>6, <1>11, <1>13 DEF RelayInv

LEMMA RelayNextInv == RelayInv /\ [RelayNext]_relayVars => RelayInv'
<1> SUFFICES ASSUME RelayInv, [RelayNext]_relayVars PROVE RelayInv'
  OBVIOUS
<1>1. ASSUME NEW total \in PictureSizes, CameraSends(total) PROVE RelayInv'
  <2>1. total \in Totals /\ Send(total) /\ UNCHANGED <<hopVars, forwarded>>
    BY <1>1, PictureSizesAssumption DEF CameraSends
  <2>2. Inv' /\ SentGrows
    BY <2>1, SendInv, CameraGrows DEF RelayInv, Next
  <2> QED
    BY <2>1, <2>2, HopRests, NothingForwarded DEF RelayInv
<1>2. CASE CameraRestarts
  <2>1. Inv' /\ SentGrows
    BY <1>2, RestartInv, CameraGrows DEF CameraRestarts, RelayInv, Next
  <2> QED
    BY <1>2, <2>1, HopRests, NothingForwarded DEF RelayInv, CameraRestarts
<1>3. CASE HubRestarts
  <2>1. Inv' /\ SentGrows
    BY <1>3, ReceiverRestartInv, CameraGrows DEF HubRestarts, RelayInv, Next
  <2>2. HopInv' /\ UNCHANGED <<forwarded, fwd_sent>>
    BY <1>3, HopStarts DEF HubRestarts, RelayInv
  <2> QED
    BY <2>1, <2>2, NothingForwarded
<1>4. CASE AIRestarts
  <2>1. Inv' /\ SentGrows
    BY <1>4, StutterInv, CameraGrows DEF AIRestarts, RelayInv
  <2>2. HopInv' /\ UNCHANGED <<forwarded, fwd_sent>>
    BY <1>4, HopReceiverRestartInv DEF AIRestarts, RelayInv
  <2> QED
    BY <2>1, <2>2, NothingForwarded
<1>5. ASSUME NEW d \in network, HubStores(d) \/ HubLoopEnds(d) PROVE RelayInv'
  <2>1. StoreChunk(d) \/ ChunkMissing(d)
    BY <1>5 DEF HubStores, HubLoopEnds
  <2>2. UNCHANGED <<hopVars, forwarded>>
    BY <1>5 DEF HubStores, HubLoopEnds
  <2>3. Inv' /\ SentGrows
    BY <2>1, StoreChunkInv, ChunkMissingInv, CameraGrows DEF RelayInv, Next
  <2> QED
    BY <2>2, <2>3, HopRests, NothingForwarded DEF RelayInv
<1>6. ASSUME NEW d \in network, HubForwards(d) PROVE RelayInv'
  BY <1>6, HubForwardsInv
<1>7. ASSUME NEW d \in fwd_network, AIReceives(d) PROVE RelayInv'
  <2>1. Inv' /\ SentGrows
    BY <1>7, StutterInv, CameraGrows DEF AIReceives, RelayInv
  <2>2. HopInv' /\ UNCHANGED <<forwarded, fwd_sent>>
    BY <1>7, HopReceiveInv DEF AIReceives, RelayInv
  <2> QED
    BY <2>1, <2>2, NothingForwarded
<1>8. CASE UNCHANGED relayVars
  <2>1. UNCHANGED vars /\ UNCHANGED hopVars /\ UNCHANGED forwarded
    BY <1>8 DEF relayVars
  <2>2. Inv' /\ SentGrows
    BY <2>1, StutterInv, CameraGrows DEF RelayInv
  <2> QED
    BY <2>1, <2>2, HopRests, NothingForwarded DEF RelayInv
<1> QED
  BY <1>1, <1>2, <1>3, <1>4, <1>5, <1>6, <1>7, <1>8 DEF RelayNext

LEMMA RelayInvSuffices ==
  ASSUME RelayInv
  PROVE  RelayTypeOK /\ PictureWhole
<1>1. Hop!TypeOK /\ Hop!UniqueFramesWhole
  <2>1. HopProofs!TypeOK /\ HopProofs!UniqueFramesWhole
    BY HopBounds, HopProofs!InvSuffices DEF RelayInv, HopInv
  <2>2. Hop!TypeOK
    BY <2>1 DEF Hop!TypeOK, HopProofs!TypeOK, Hop!Totals, HopProofs!Totals,
       Hop!Datagram, HopProofs!Datagram, Hop!ChunkIds, HopProofs!ChunkIds,
       Hop!FrameNumbers, HopProofs!FrameNumbers, Hop!IsEntry, HopProofs!IsEntry
  <2>3. Hop!UniqueFramesWhole
    BY <2>1 DEF Hop!UniqueFramesWhole, HopProofs!UniqueFramesWhole, Hop!Unique, HopProofs!Unique,
       Hop!IsFrame, HopProofs!IsFrame, Hop!FrameNumbers, HopProofs!FrameNumbers
  <2> QED
    BY <2>2, <2>3
<1>2. RelayTypeOK
  BY <1>1 DEF RelayInv, Inv, ForwardedType, RelayTypeOK
<1>3. PictureWhole
  <2> SUFFICES ASSUME NEW i \in 1 .. Len(ai_latest), Hop!Unique(ai_latest[i]),
                      \A m \in Inside(ai_latest[i]) : Unique(m)
               PROVE  /\ Hop!IsFrame(ai_latest, ai_latest[i])
                      /\ \E m \in FrameNumbers : IsFrame(forwarded[ai_latest[i]], m)
                      /\ fwd_sent[ai_latest[i]].total = Len(forwarded[ai_latest[i]])
    BY DEF PictureWhole
  <2> DEFINE n == ai_latest[i]
  <2>1. Hop!IsFrame(ai_latest, n)
    BY <1>1 DEF Hop!UniqueFramesWhole
  <2>2. n \in 1 .. Len(forwarded)
    <3>1. ai_latest \in Seq(1 .. Len(fwd_sent))
      BY <1>1 DEF Hop!TypeOK, Hop!FrameNumbers
    <3> QED
      BY <3>1, ElementOfSeq DEF RelayInv, ForwardedType
  <2>3. \A k \in 1 .. Len(forwarded[n]) : Unique(forwarded[n][k])
    BY DEF Inside
  <2> QED
    BY <2>1, <2>2, <2>3 DEF RelayInv, ForwardedFits, Whole
<1> QED
  BY <1>2, <1>3

LEMMA RelaySpecInv == RelaySpec => []RelayInv
  BY RelayInitInv, RelayNextInv, PTL DEF RelaySpec

\* Both hops and what the hub forwards stay well typed.
THEOREM RelayTypeCorrect == RelaySpec => []RelayTypeOK
  BY RelaySpecInv, RelayInvSuffices, PTL

\* Through both hops, with the hub putting together and cutting anew, the AI
\* server is given one whole picture of the camera, unless a frame id was used
\* twice on the way.
THEOREM RelayPictureWhole == RelaySpec => []PictureWhole
  BY RelaySpecInv, RelayInvSuffices, PTL

\* What is proved of a hop by itself holds of the camera's when the hub goes on
\* to forward what it receives.
THEOREM RelayFirstHop ==
  RelaySpec => [](UniqueFramesWhole /\ ArrivedYielded /\ EndedByReuse)
<1>1. RelayInv => UniqueFramesWhole /\ ArrivedYielded /\ EndedByReuse
  BY InvSuffices DEF RelayInv
<1> QED
  BY <1>1, RelaySpecInv, PTL
=============================================================================
