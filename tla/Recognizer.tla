----------------------------- MODULE Recognizer -----------------------------
(***************************************************************************)
(* ProductRecognizer.recognize_with_trigger                                *)
(* (src/src/detectors/product_dl.py): which detections of a product in the *)
(* camera's frames count as one more item put in the cart.                 *)
(*                                                                         *)
(* A frame is the set of product ids among its boxes.  That several boxes  *)
(* of a frame have the same id makes no difference: the first one settles  *)
(* the state of the product for this frame.  Their order only decides      *)
(* which added product the result names, which is left open.  A frame      *)
(* whose prediction fails, or has no result, changes nothing and is no     *)
(* step.                                                                   *)
(***************************************************************************)
EXTENDS Integers

CONSTANTS
    Products,
    NoProduct,
    RequiredDuration,   \* required_duration, 1.5 s
    LostAfter,          \* 2 s without a detection end the tracking
    Cooldown,           \* cooldown_seconds, 3 s
    MaxTime             \* bound: how long the camera is watched

ASSUME NoProductAssumption == NoProduct \notin Products
ASSUME DurationAssumption ==
    /\ RequiredDuration \in Nat \ {0}
    /\ LostAfter \in Nat
    /\ Cooldown \in Nat \ {0}
    /\ MaxTime \in Nat

VARIABLES
    now,               \* the clock
    first_seen,        \* tracked_objects[..]["first_seen"]
    last_seen,         \* tracked_objects[..]["last_seen"]
    last_added,        \* product -> when it was added, while that is kept
    event,             \* the product the last frame reported as added
    added_at           \* history: product -> when it was last added

vars == <<now, first_seen, last_seen, last_added, event, added_at>>

\* The products in tracked_objects.
Tracked == DOMAIN first_seen

\* A partial function from products to times.
IsMap(f, S) == DOMAIN f \subseteq Products /\ \A p \in DOMAIN f : f[p] \in S

TypeOK ==
    /\ now \in Nat
    /\ IsMap(first_seen, 0 .. now)
    /\ IsMap(last_seen, 0 .. now)
    /\ DOMAIN last_seen = Tracked
    /\ IsMap(last_added, 0 .. now)
    /\ event \in Products \cup {NoProduct}
    /\ IsMap(added_at, 0 .. now)

NoEntries == [p \in {} |-> 0]

Init ==
    /\ now = 0
    /\ first_seen = NoEntries
    /\ last_seen = NoEntries
    /\ last_added = NoEntries
    /\ event = NoProduct
    /\ added_at = NoEntries

-----------------------------------------------------------------------------
\* Mutant: the wrong one of the two durations is compared.
CoolingTooShort(p) ==
    p \in DOMAIN last_added /\ now - last_added[p] < RequiredDuration

\* Added less than the cooldown ago: its detections are passed over.
Cooling(p) == p \in DOMAIN last_added /\ now - last_added[p] < Cooldown

\* The detections of a frame that count, and those that complete an addition.
Counted(seen) == {p \in seen : ~ Cooling(p)}
Added(seen) ==
    {p \in Counted(seen) \cap Tracked : now - first_seen[p] >= RequiredDuration}

\* Tracking after the boxes of a frame: started, refreshed or completed; what
\* was then not seen for too long is removed.
LastSeen(seen, p) == IF p \in Counted(seen) THEN now ELSE last_seen[p]
Kept(seen) ==
    {p \in (Tracked \cup Counted(seen)) \ Added(seen) :
        now - LastSeen(seen, p) <= LostAfter}

\* The map f with the present time for the products in S.
Stamp(f, S) == [p \in DOMAIN f \cup S |-> IF p \in S THEN now ELSE f[p]]

\* Mutant: entries are removed when they are half through.
CoolingEntriesHalf(stamped) ==
    {p \in DOMAIN stamped : 2 * (now - stamped[p]) <= Cooldown}

\* The entries of last_added whose cooldown still runs after this frame.
CoolingEntries(stamped) == {p \in DOMAIN stamped : now - stamped[p] <= Cooldown}

\* Mutant: an added product stays in one half of tracked_objects.
FrameHalfDeleted(seen) ==
    LET stamped == Stamp(last_added, Added(seen))
    IN  /\ first_seen' =
              [p \in Kept(seen) |-> IF p \in Tracked THEN first_seen[p] ELSE now]
        /\ last_seen' = [p \in Kept(seen) \cup Added(seen) |-> LastSeen(seen, p)]
        /\ last_added' = [p \in CoolingEntries(stamped) |-> stamped[p]]
        /\ event' \in IF Added(seen) = {} THEN {NoProduct} ELSE Added(seen)
        /\ added_at' = Stamp(added_at, Added(seen))
        /\ UNCHANGED now

\* One call of recognize_with_trigger.
Frame(seen) ==
    LET stamped == Stamp(last_added, Added(seen))
    IN  /\ first_seen' =
              [p \in Kept(seen) |-> IF p \in Tracked THEN first_seen[p] ELSE now]
        /\ last_seen' = [p \in Kept(seen) |-> LastSeen(seen, p)]
        /\ last_added' = [p \in CoolingEntries(stamped) |-> stamped[p]]
        /\ event' \in IF Added(seen) = {} THEN {NoProduct} ELSE Added(seen)
        /\ added_at' = Stamp(added_at, Added(seen))
        /\ UNCHANGED now

Tick ==
    /\ now < MaxTime
    /\ now' = now + 1
    /\ UNCHANGED <<first_seen, last_seen, last_added, event, added_at>>

Next ==
    \/ \E seen \in SUBSET Products : Frame(seen)
    \/ Tick

Spec == Init /\ [][Next]_vars

-----------------------------------------------------------------------------
(***************************************************************************)
(* Properties.                                                             *)
(***************************************************************************)

\* An item put in the cart once is added once: between two additions of the
\* same product lie its whole cooldown and a whole new tracking period, even
\* though its cooldown entry is removed in the meantime.
AdditionsSpaced ==
    [][\A p \in DOMAIN added_at \cap DOMAIN added_at' :
          added_at'[p] # added_at[p] =>
              added_at'[p] - added_at[p] >= Cooldown + RequiredDuration]_vars

\* Tracking of a product never started while its cooldown ran.
TrackedAfterCooldown ==
    \A p \in Tracked \cap DOMAIN added_at :
        first_seen[p] >= added_at[p] + Cooldown

\* Every product that is added is reported to the caller.
AdditionsReported ==
    [][\A p \in DOMAIN added_at' :
          (p \notin DOMAIN added_at \/ added_at'[p] # added_at[p]) => event' = p]_vars
=============================================================================
