----------------------------- MODULE FrameRelay -----------------------------
(***************************************************************************)
(* The way of a camera's pictures: from the camera application             *)
(* (src/src/cart_camera_app.py) to the hub, whose forwarding loop          *)
(* (MainPC2Hub.forward_front_cam and forward_cart_cam,                     *)
(* src/src/main_hub.py) sends the bytes of each frame on to the AI server. *)
(*                                                                         *)
(* The first hop is FrameStream itself, with the hub for its receiver; the *)
(* second is an instance of it, with the hub for its sender.  The hub cuts *)
(* what it forwards again, with frame ids of its own; its frames are       *)
(* numbered as they are forwarded, and what each one holds is kept in      *)
(* "forwarded", as the camera's frames its chunks are of.                  *)
(***************************************************************************)
EXTENDS FrameStream

CONSTANTS
    PictureSizes,    \* the numbers of chunks of the camera's pictures
    MaxForwards,     \* bound: frames the hub forwards
    MaxForwardDuplicates   \* bound: as MaxDuplicates, for what it forwards

ASSUME PictureSizesAssumption == PictureSizes \subseteq Totals
ASSUME ForwardsAssumption == MaxForwards \in Nat /\ MaxForwardDuplicates \in Nat

VARIABLES
    fwd_next_id,     \* _frame_id of the hub's forwarder
    fwd_network,     \* datagrams from the hub
    ai_frames,       \* _frames of the AI server's receiver
    ai_latest,       \* _latest_obstacle_bytes or _latest_product_bytes
    ai_receiving,    \* _obstacle_udp_loop or _product_udp_loop runs
    fwd_duplicates,  \* datagrams of the hub's that may come once more
    fwd_restarts,    \* restarts of the hub's forwarder and of the AI server
    fwd_sent, ai_arrived, ai_again, ai_yielded,   \* history, as in FrameStream
    forwarded        \* history: what each frame of fwd_sent holds

hopVars == <<fwd_next_id, fwd_network, ai_frames, ai_latest, ai_receiving,
             fwd_duplicates, fwd_restarts, fwd_sent, ai_arrived, ai_again, ai_yielded>>
relayVars == <<vars, hopVars, forwarded>>

Hop == INSTANCE FrameStream WITH
    next_id <- fwd_next_id, network <- fwd_network, frames <- ai_frames,
    latest <- ai_latest, receiving <- ai_receiving,
    duplicates <- fwd_duplicates, restarts <- fwd_restarts, sent <- fwd_sent,
    arrived <- ai_arrived, again <- ai_again, yielded <- ai_yielded,
    MaxFrames <- MaxForwards, MaxDuplicates <- MaxForwardDuplicates

RelayTypeOK ==
    /\ TypeOK
    /\ Hop!TypeOK
    /\ forwarded \in Seq(Seq(FrameNumbers))
    /\ Len(forwarded) = Len(fwd_sent)

RelayInit ==
    /\ Init
    /\ Hop!Init
    /\ forwarded = <<>>

\* _stream_camera, and the end and the start of the application.
CameraSends(total) == Send(total) /\ UNCHANGED <<hopVars, forwarded>>
CameraRestarts == Restart /\ UNCHANGED <<hopVars, forwarded>>

HubStores(d) == StoreChunk(d) /\ UNCHANGED <<hopVars, forwarded>>
HubLoopEnds(d) == ChunkMissing(d) /\ UNCHANGED <<hopVars, forwarded>>

\* The number of chunks some bytes are cut into: as many as they were put
\* together from, or fewer when one of them that is not the last is a short one
\* of another frame.
Recut(bytes) ==
    IF \E n \in FrameNumbers : IsFrame(bytes, n) THEN {Len(bytes)}
    ELSE 1 .. Len(bytes)

\* A frame is complete in the hub and is sent on.
HubForwards(d) ==
    /\ Yield(d)
    /\ \E total \in Recut(latest') : Hop!Send(total)
    /\ forwarded' = Append(forwarded, latest')

\* The hub is both the receiver of one hop and the sender of the other.
HubRestarts ==
    /\ ReceiverRestart
    /\ fwd_next_id' = 0
    /\ UNCHANGED <<fwd_network, ai_frames, ai_latest, ai_receiving, fwd_duplicates,
                   fwd_restarts, fwd_sent, ai_arrived, ai_again, ai_yielded, forwarded>>

AIReceives(d) ==
    /\ Hop!StoreChunk(d) \/ Hop!Yield(d) \/ Hop!ChunkMissing(d)
    /\ UNCHANGED <<vars, forwarded>>

AIRestarts == Hop!ReceiverRestart /\ UNCHANGED <<vars, forwarded>>

RelayNext ==
    \/ \E total \in PictureSizes : CameraSends(total)
    \/ CameraRestarts \/ HubRestarts \/ AIRestarts
    \/ \E d \in network : HubStores(d) \/ HubForwards(d) \/ HubLoopEnds(d)
    \/ \E d \in fwd_network : AIReceives(d)

RelaySpec == RelayInit /\ [][RelayNext]_relayVars

-----------------------------------------------------------------------------
(***************************************************************************)
(* Properties.                                                             *)
(***************************************************************************)

\* The camera's frames in what the hub forwarded as frame n.
Inside(n) == {forwarded[n][i] : i \in 1 .. Len(forwarded[n])}

\* What the AI server looks at is one whole picture of the camera, as long as
\* the frame ids in it were used once, on each of the two hops.
PictureWhole ==
    \A i \in 1 .. Len(ai_latest) :
        LET n == ai_latest[i]
        IN  Hop!Unique(n) /\ (\A m \in Inside(n) : Unique(m)) =>
                /\ Hop!IsFrame(ai_latest, n)
                /\ \E m \in FrameNumbers : IsFrame(forwarded[n], m)
                /\ fwd_sent[n].total = Len(forwarded[n])
=============================================================================
