-------------------------- MODULE ProductChainProofs --------------------------
(***************************************************************************)
(* Proofs about Recognizer, alone and in ProductChain, for any products,   *)
(* durations and bounds.                                                   *)
(***************************************************************************)
EXTENDS ProductChain, TLAPS

(***************************************************************************)
(* The cooldown entry of a product is removed when it has run out, so the  *)
(* spacing of its additions cannot be read off last_added alone.  CoolInv  *)
(* says what remains known: while there is an entry it is the time of the  *)
(* last addition, and when there is none the cooldown is over.             *)
(***************************************************************************)
CoolInv ==
    \A p \in DOMAIN added_at :
        IF p \in DOMAIN last_added
        THEN last_added[p] = added_at[p]
        ELSE now - added_at[p] >= Cooldown

\* What is in its cooldown has been added at some time.
AddedInv == DOMAIN last_added \subseteq DOMAIN added_at

Inv == TypeOK /\ CoolInv /\ AddedInv /\ TrackedAfterCooldown

LEMMA InitInv == Init => Inv
  BY DurationAssumption
  DEF Init, Inv, TypeOK, CoolInv, AddedInv, TrackedAfterCooldown, IsMap, NoEntries, Tracked

LEMMA TickInv == Inv /\ Tick => Inv'
<1> SUFFICES ASSUME Inv, Tick PROVE Inv'
  OBVIOUS
<1>1. TypeOK'
  <2>1. now \in Nat /\ now' = now + 1 /\ now' \in Nat
    BY DEF Inv, TypeOK, Tick
  <2>2. 0 .. now \subseteq 0 .. now'
    BY <2>1
  <2> QED
    BY <2>1, <2>2 DEF Inv, TypeOK, Tick, IsMap, Tracked
<1>2. CoolInv' /\ AddedInv' /\ TrackedAfterCooldown'
  BY DurationAssumption DEF Inv, TypeOK, IsMap, Tick, CoolInv, AddedInv, TrackedAfterCooldown, Tracked
<1> QED
  BY <1>1, <1>2 DEF Inv

\* The maps of the next state, entry by entry.
NextMaps(seen) ==
    /\ Added(seen) \subseteq Tracked
    /\ DOMAIN added_at' = DOMAIN added_at \cup Added(seen)
    /\ \A p \in DOMAIN added_at' :
          added_at'[p] = IF p \in Added(seen) THEN now ELSE added_at[p]
    /\ DOMAIN last_added' \subseteq DOMAIN last_added \cup Added(seen)
    /\ \A p \in DOMAIN last_added' :
          last_added'[p] = IF p \in Added(seen) THEN now ELSE last_added[p]
    /\ \A p \in (DOMAIN last_added \cup Added(seen)) \ DOMAIN last_added' :
          p \notin Added(seen) /\ now - last_added[p] > Cooldown
    /\ DOMAIN first_seen' \subseteq (Tracked \cup Counted(seen)) \ Added(seen)
    /\ \A p \in DOMAIN first_seen' :
          first_seen'[p] = IF p \in Tracked THEN first_seen[p] ELSE now

LEMMA FrameMaps ==
  ASSUME Inv, NEW seen \in SUBSET Products, Frame(seen)
  PROVE  NextMaps(seen)
<1> DEFINE stamped == Stamp(last_added, Added(seen))
<1>1. /\ DOMAIN stamped = DOMAIN last_added \cup Added(seen)
      /\ \A p \in DOMAIN stamped :
            stamped[p] = IF p \in Added(seen) THEN now ELSE last_added[p]
  BY DEF Stamp
<1>2. last_added' = [p \in CoolingEntries(stamped) |-> stamped[p]]
  BY DEF Frame
<1> HIDE DEF stamped
<1>3. /\ DOMAIN last_added' \subseteq DOMAIN last_added \cup Added(seen)
      /\ \A p \in DOMAIN last_added' :
            last_added'[p] = IF p \in Added(seen) THEN now ELSE last_added[p]
  BY <1>1, <1>2 DEF CoolingEntries
<1>4. \A p \in (DOMAIN last_added \cup Added(seen)) \ DOMAIN last_added' :
          p \notin Added(seen) /\ now - last_added[p] > Cooldown
  <2>1. \A p \in DOMAIN stamped : stamped[p] \in Int
    BY <1>1 DEF Inv, TypeOK, IsMap
  <2>2. now \in Nat /\ Cooldown \in Nat
    BY DurationAssumption DEF Inv, TypeOK
  <2>3. \A p \in DOMAIN stamped \ DOMAIN last_added' : now - stamped[p] > Cooldown
    BY <1>2, <2>1, <2>2 DEF CoolingEntries
  <2> QED
    BY <1>1, <2>2, <2>3
<1>5. /\ DOMAIN added_at' = DOMAIN added_at \cup Added(seen)
      /\ \A p \in DOMAIN added_at' :
            added_at'[p] = IF p \in Added(seen) THEN now ELSE added_at[p]
  BY DEF Frame, Stamp
<1>6. /\ DOMAIN first_seen' \subseteq (Tracked \cup Counted(seen)) \ Added(seen)
      /\ \A p \in DOMAIN first_seen' :
            first_seen'[p] = IF p \in Tracked THEN first_seen[p] ELSE now
  BY DEF Frame, Kept
<1>7. Added(seen) \subseteq Tracked
  BY DEF Added
<1> QED
  BY <1>3, <1>4, <1>5, <1>6, <1>7 DEF NextMaps

LEMMA FrameType ==
  ASSUME Inv, NEW seen \in SUBSET Products, Frame(seen)
  PROVE  TypeOK'
<1>1. now' = now /\ now \in Nat /\ now \in 0 .. now
  BY DEF Frame, Inv, TypeOK
<1> NextMaps(seen)
  BY FrameMaps
<1>2. Tracked \subseteq Products /\ Counted(seen) \subseteq Products /\ Added(seen) \subseteq Products
  BY DEF Inv, TypeOK, IsMap, Tracked, Counted, Added
<1>3. /\ DOMAIN first_seen' \subseteq Products
      /\ \A p \in DOMAIN first_seen' : first_seen'[p] \in 0 .. now
  BY <1>1, <1>2 DEF NextMaps, Inv, TypeOK, IsMap, Tracked
<1>4. DOMAIN last_seen' = DOMAIN first_seen'
  BY DEF Frame
<1>5. \A p \in DOMAIN last_seen' : last_seen'[p] \in 0 .. now
  <2>1. \A p \in Kept(seen) : LastSeen(seen, p) \in 0 .. now
    BY <1>1 DEF Kept, LastSeen, Inv, TypeOK, IsMap, Tracked
  <2>2. last_seen' = [p \in Kept(seen) |-> LastSeen(seen, p)]
    BY DEF Frame
  <2> QED
    BY <2>1, <2>2
<1>6. /\ DOMAIN last_added' \subseteq Products
      /\ \A p \in DOMAIN last_added' : last_added'[p] \in 0 .. now
  BY <1>1, <1>2 DEF NextMaps, Inv, TypeOK, IsMap
<1>7. /\ DOMAIN added_at' \subseteq Products
      /\ \A p \in DOMAIN added_at' : added_at'[p] \in 0 .. now
  BY <1>1, <1>2 DEF NextMaps, Inv, TypeOK, IsMap
<1>8. event' \in Products \cup {NoProduct}
  BY <1>2 DEF Frame
<1> QED
  BY <1>1, <1>3, <1>4, <1>5, <1>6, <1>7, <1>8 DEF TypeOK, Tracked, IsMap

LEMMA FrameInv ==
  ASSUME Inv, NEW seen \in SUBSET Products, Frame(seen)
  PROVE  Inv'
<1>1. NextMaps(seen) /\ TypeOK' /\ now' = now
  BY FrameMaps, FrameType DEF Frame
<1>2. now \in Nat /\ Cooldown \in Nat
  BY DurationAssumption DEF Inv, TypeOK
<1>3. \A p \in DOMAIN added_at : added_at[p] \in Nat
  BY DEF Inv, TypeOK, IsMap
<1>4. AddedInv'
  BY <1>1 DEF NextMaps, Inv, AddedInv
<1>5. CoolInv'
  <2> SUFFICES ASSUME NEW p \in DOMAIN added_at'
               PROVE  IF p \in DOMAIN last_added'
                      THEN last_added'[p] = added_at'[p]
                      ELSE now' - added_at'[p] >= Cooldown
    BY DEF CoolInv
  <2>1. CASE p \in Added(seen)
    BY <1>1, <2>1 DEF NextMaps
  <2>2. CASE p \notin Added(seen) /\ p \in DOMAIN last_added
    <3>1. added_at'[p] = added_at[p] /\ last_added[p] = added_at[p] /\ p \in DOMAIN added_at
      BY <1>1, <2>2 DEF NextMaps, Inv, CoolInv, AddedInv
    <3>2. CASE p \in DOMAIN last_added'
      BY <1>1, <2>2, <3>1, <3>2 DEF NextMaps
    <3>3. CASE p \notin DOMAIN last_added'
      <4>1. now - last_added[p] > Cooldown
        BY <1>1, <2>2, <3>3 DEF NextMaps
      <4> QED
        BY <1>1, <1>2, <1>3, <3>1, <3>3, <4>1
    <3> QED
      BY <3>2, <3>3
  <2>3. CASE p \notin Added(seen) /\ p \notin DOMAIN last_added
    BY <1>1, <2>3 DEF NextMaps, Inv, CoolInv
  <2> QED
    BY <2>1, <2>2, <2>3
<1>6. TrackedAfterCooldown'
  <2> SUFFICES ASSUME NEW p \in DOMAIN first_seen' \cap DOMAIN added_at'
               PROVE  first_seen'[p] >= added_at'[p] + Cooldown
    BY DEF TrackedAfterCooldown, Tracked
  <2>1. /\ p \in DOMAIN added_at /\ added_at'[p] = added_at[p]
        /\ p \in Tracked \cup Counted(seen)
        /\ first_seen'[p] = IF p \in Tracked THEN first_seen[p] ELSE now
    BY <1>1 DEF NextMaps
  <2>2. CASE p \in Tracked
    BY <2>1, <2>2 DEF Inv, TrackedAfterCooldown
  <2>3. CASE p \notin Tracked
    <3>1. ~ Cooling(p) /\ first_seen'[p] = now
      BY <2>1, <2>3 DEF Counted
    <3>2. now - added_at[p] >= Cooldown
      BY <1>2, <1>3, <2>1, <3>1 DEF Cooling, Inv, CoolInv
    <3> QED
      BY <1>2, <1>3, <2>1, <3>1, <3>2
  <2> QED
    BY <2>2, <2>3
<1> QED
  BY <1>1, <1>4, <1>5, <1>6 DEF Inv

LEMMA NextInv == Inv /\ [Next]_vars => Inv'
<1> SUFFICES ASSUME Inv, [Next]_vars PROVE Inv'
  OBVIOUS
<1>1. CASE Tick
  BY <1>1, TickInv
<1>2. ASSUME NEW seen \in SUBSET Products, Frame(seen) PROVE Inv'
  BY <1>2, FrameInv
<1>3. CASE UNCHANGED vars
  BY <1>3 DEF vars, Inv, TypeOK, IsMap, CoolInv, AddedInv, TrackedAfterCooldown, Tracked
<1> QED
  BY <1>1, <1>2, <1>3 DEF Next

(***************************************************************************)
(* The recognizer's maps always hold products and past times, and a        *)
(* product is never tracked from a moment within its cooldown              *)
(* (recognize_with_trigger).                                               *)
(***************************************************************************)
THEOREM RecognizerInvariant == Spec => [](TypeOK /\ TrackedAfterCooldown)
<1>1. Inv => TypeOK /\ TrackedAfterCooldown
  BY DEF Inv
<1> QED
  BY <1>1, InitInv, NextInv, PTL DEF Spec

(***************************************************************************)
(* Between two additions of one product lie the cooldown and the required  *)
(* duration, whatever frames the camera delivers and whatever the          *)
(* durations are: recognize_with_trigger never counts one stay of a        *)
(* product in view twice within that time.                                 *)
(***************************************************************************)
THEOREM RecognizerSpacing == Spec => AdditionsSpaced
<1> DEFINE Spaced ==
      \A p \in DOMAIN added_at \cap DOMAIN added_at' :
          added_at'[p] # added_at[p] =>
              added_at'[p] - added_at[p] >= Cooldown + RequiredDuration
<1>1. Inv /\ [Next]_vars => [Spaced]_vars
  <2> SUFFICES ASSUME Inv, Next, NEW p \in DOMAIN added_at \cap DOMAIN added_at',
                      added_at'[p] # added_at[p]
               PROVE  added_at'[p] - added_at[p] >= Cooldown + RequiredDuration
    OBVIOUS
  <2>1. PICK seen \in SUBSET Products : Frame(seen)
    BY DEF Next, Tick
  <2>2. p \in Added(seen) /\ p \in Tracked /\ added_at'[p] = now
    BY <2>1, FrameMaps DEF NextMaps
  <2>3. now - first_seen[p] >= RequiredDuration
    BY <2>2 DEF Added
  <2>4. first_seen[p] >= added_at[p] + Cooldown
    BY <2>2 DEF Inv, TrackedAfterCooldown
  <2>5. now \in Nat /\ added_at[p] \in Nat /\ first_seen[p] \in Nat
    BY <2>2 DEF Inv, TypeOK, IsMap, Tracked
  <2> QED
    BY <2>2, <2>3, <2>4, <2>5, DurationAssumption
<1> QED
  BY <1>1, InitInv, NextInv, PTL DEF Spec, AdditionsSpaced

-----------------------------------------------------------------------------

\* The part of ChainTypeOK that is not about the recogniser.
EventsTypeOK ==
    /\ reports \in Seq([product : Products, at : 0 .. now])
    /\ fate \in [Events -> Fates]
    /\ waiting \in {0} \cup Events
    /\ session \in BOOLEAN
    /\ last_product_id \in Products \cup {NoProduct}
    /\ last_product_ts \in 0 .. now
    /\ faults \in 0 .. MaxFaults

\* What TimePasses assumes of the hub, as a fact about the state.
DecidedInTime ==
    \A n \in Events : fate[n] = "sent" => now - reports[n].at <= DecideWithin

(***************************************************************************)
(* Why no event is a duplicate without faults.  Reports of one product     *)
(* follow its additions, and these are a cooldown and a tracking period    *)
(* apart; what the debounce remembers is the decision on some report of    *)
(* the product, at most DecideWithin after it.                             *)
(***************************************************************************)
ReportsFollowAdditions ==
    \A n \in Events :
        /\ reports[n].product \in DOMAIN added_at
        /\ reports[n].at <= added_at[reports[n].product]

ReportsSpaced ==
    \A m, n \in Events :
        m < n /\ reports[m].product = reports[n].product =>
            reports[n].at - reports[m].at >= Cooldown + RequiredDuration

DecidedReport(m) ==
    /\ fate[m] # "sent"
    /\ reports[m].product = last_product_id
    /\ last_product_ts <= reports[m].at + DecideWithin

DebounceRemembers ==
    last_product_id # NoProduct => \E m \in Events : DecidedReport(m)

\* The bound under which the debounce is harmless.
Prompt == DecideWithin + DebounceInterval <= Cooldown + RequiredDuration

Faultless ==
    Prompt /\ faults = 0 =>
        /\ ReportsFollowAdditions
        /\ ReportsSpaced
        /\ DebounceRemembers
        /\ NothingDebounced

ChainInv == Inv /\ EventsTypeOK /\ DecidedInTime /\ Faultless

-----------------------------------------------------------------------------
LEMMA ChainInitInv == ChainInit => ChainInv
<1> SUFFICES ASSUME ChainInit PROVE ChainInv
  OBVIOUS
<1>1. Inv
  BY InitInv DEF ChainInit
<1>2. reports = <<>> /\ Events = {} /\ fate = <<>> /\ now = 0
  BY DEF ChainInit, Init, Events
<1>3. fate \in [Events -> Fates]
  <2>1. fate \in Seq(Fates) /\ Len(fate) = 0
    BY <1>2
  <2> QED
    BY <1>2, <2>1
<1>4. EventsTypeOK
  <2>1. session \in BOOLEAN
    BY DEF ChainInit
  <2>2. reports \in Seq([product : Products, at : 0 .. now])
    BY <1>2
  <2>3. /\ last_product_ts \in 0 .. now
        /\ faults \in 0 .. MaxFaults
        /\ waiting \in {0} \cup Events
        /\ last_product_id \in Products \cup {NoProduct}
    BY <1>2, IntervalAssumption DEF ChainInit
  <2> QED
    BY <1>3, <2>1, <2>2, <2>3 DEF EventsTypeOK
<1>5. DecidedInTime /\ Faultless
  BY <1>2
  DEF ChainInit, DecidedInTime, Faultless, ReportsFollowAdditions, ReportsSpaced,
      DebounceRemembers, NothingDebounced
<1> QED
  BY <1>1, <1>4, <1>5 DEF ChainInv

\* The recogniser's invariant needs nothing of the chain: a restart of the AI
\* server empties all its maps.
LEMMA RecognizerKept ==
  ASSUME Inv, [ChainNext]_allVars
  PROVE  Inv'
<1>1. [Next]_vars => Inv'
  BY NextInv
<1>2. CASE AIRestarts
  BY <1>2
  DEF AIRestarts, NoEntries, Inv, TypeOK, IsMap, CoolInv, AddedInv, TrackedAfterCooldown, Tracked
<1>3. CASE ~ AIRestarts
  <2>1. [Next]_vars
    BY <1>3
    DEF ChainNext, Inspect, PushReturns, TimePasses, NoSessionFor, Debounced, Accepted,
        Handled, Fails, SessionChanges, HubRestarts, allVars, Next
  <2> QED
    BY <1>1, <2>1
<1> QED
  BY <1>2, <1>3

-----------------------------------------------------------------------------
\* A step that reports nothing and lets no time pass: events only move on from
\* "sent", the recogniser is as it was or the step is a fault.
LEMMA EventsMoveOn ==
  ASSUME ChainInv, UNCHANGED <<now, reports>>,
         fate' \in [Events -> Fates],
         \A n \in Events : fate'[n] = "sent" => fate[n] = "sent",
         faults' \in 0 .. MaxFaults,
         faults' = 0 => faults = 0 /\ UNCHANGED added_at,
         Prompt /\ faults' = 0 => DebounceRemembers',
         \A n \in Events :
             Prompt /\ faults' = 0 /\ fate'[n] = "duplicate" => fate[n] = "duplicate",
         waiting' \in {0} \cup Events, session' \in BOOLEAN,
         last_product_id' \in Products \cup {NoProduct},
         last_product_ts' \in 0 .. now
  PROVE  EventsTypeOK' /\ DecidedInTime' /\ Faultless'
<1>1. Events' = Events
  BY DEF Events
<1>2. EventsTypeOK'
  BY <1>1 DEF ChainInv, EventsTypeOK
<1>3. DecidedInTime'
  BY <1>1 DEF ChainInv, DecidedInTime
<1>4. Faultless'
  <2> SUFFICES ASSUME Prompt, faults' = 0
               PROVE  /\ ReportsFollowAdditions' /\ ReportsSpaced'
                      /\ DebounceRemembers' /\ NothingDebounced'
    BY DEF Faultless, Prompt
  <2>1. ReportsFollowAdditions /\ ReportsSpaced /\ NothingDebounced /\ faults = 0
    BY DEF ChainInv, Faultless
  <2>2. ReportsFollowAdditions' /\ ReportsSpaced'
    BY <1>1, <2>1 DEF ReportsFollowAdditions, ReportsSpaced
  <2>3. NothingDebounced'
    BY <1>1, <2>1 DEF NothingDebounced
  <2> QED
    BY <2>2, <2>3
<1> QED
  BY <1>2, <1>3, <1>4

\* What the debounce remembers stays decided while its memory is the same.
LEMMA MemoryKept ==
  ASSUME ChainInv, UNCHANGED <<reports, last_product_id, last_product_ts>>, Prompt, faults = 0,
         \A n \in Events : fate'[n] = "sent" => fate[n] = "sent"
  PROVE  DebounceRemembers'
<1>1. DebounceRemembers /\ Events' = Events
  BY DEF ChainInv, Faultless, Events
<1>2. ASSUME NEW m \in Events, DecidedReport(m) PROVE DecidedReport(m)'
  BY <1>2 DEF DecidedReport
<1> QED
  BY <1>1, <1>2 DEF DebounceRemembers

LEMMA ChainFacts ==
  ASSUME ChainInv
  PROVE  /\ now \in Nat /\ faults \in Nat /\ faults <= MaxFaults /\ MaxFaults \in Nat
         /\ Events = 1 .. Len(reports) /\ Len(reports) \in Nat
         /\ fate \in [Events -> Fates]
         /\ \A n \in Events : /\ reports[n] \in [product : Products, at : 0 .. now]
                              /\ reports[n].at \in Nat /\ reports[n].at <= now
         /\ last_product_ts \in Nat /\ last_product_ts <= now
         /\ waiting \in {0} \cup Events /\ session \in BOOLEAN
         /\ last_product_id \in Products \cup {NoProduct}
<1>1. now \in Nat
  BY DEF ChainInv, Inv, TypeOK
<1>2. reports \in Seq([product : Products, at : 0 .. now])
  BY DEF ChainInv, EventsTypeOK
<1>3. Events = 1 .. Len(reports) /\ Len(reports) \in Nat
  BY <1>2 DEF Events
<1>4. \A n \in Events : reports[n] \in [product : Products, at : 0 .. now]
  <2> DEFINE Report == [product : Products, at : 0 .. now]
  <2>1. reports \in Seq(Report)
    BY <1>2
  <2> HIDE DEF Report
  <2>2. \A n \in Events : reports[n] \in Report
    BY <1>3, <2>1
  <2> QED
    BY <2>2 DEF Report
<1>5. faults \in 0 .. MaxFaults /\ MaxFaults \in Nat /\ last_product_ts \in 0 .. now
  BY IntervalAssumption DEF ChainInv, EventsTypeOK
<1>6. fate \in [Events -> Fates] /\ waiting \in {0} \cup Events /\ session \in BOOLEAN
      /\ last_product_id \in Products \cup {NoProduct}
  BY DEF ChainInv, EventsTypeOK
<1> QED
  BY <1>1, <1>3, <1>4, <1>5, <1>6

\* The steps between faults that neither report nor take time.
LEMMA QuietSteps ==
  ASSUME ChainInv,
         \/ PushReturns \/ SessionChanges
         \/ \E n \in Events : NoSessionFor(n) \/ Handled(n)
  PROVE  EventsTypeOK' /\ DecidedInTime' /\ Faultless'
<1> USE ChainFacts
<1>1. CASE PushReturns
  <2>1. Prompt /\ faults = 0 => DebounceRemembers'
    BY <1>1, MemoryKept DEF PushReturns, hubVars
  <2> QED
    BY <1>1, <2>1, EventsMoveOn DEF PushReturns, hubVars, vars
<1>2. CASE SessionChanges
  <2>1. DebounceRemembers'
    BY <1>2 DEF SessionChanges, DebounceRemembers
  <2>2. session' \in BOOLEAN
    BY <1>2 DEF SessionChanges
  <2>3. UNCHANGED <<now, reports, fate, waiting, faults, added_at>>
        /\ last_product_id' = NoProduct /\ last_product_ts' = 0
    BY <1>2 DEF SessionChanges, vars
  <2> QED
    BY <2>1, <2>2, <2>3, EventsMoveOn
<1>3. ASSUME NEW n \in Events, NoSessionFor(n) \/ Handled(n)
      PROVE  EventsTypeOK' /\ DecidedInTime' /\ Faultless'
  <2>1. /\ UNCHANGED <<now, reports, waiting, session, last_product_id, last_product_ts>>
        /\ UNCHANGED <<faults, added_at>>
    BY <1>3 DEF NoSessionFor, Handled, vars, hubVars
  <2>2. \E f \in Fates \ {"sent", "duplicate"} : fate' = [fate EXCEPT ![n] = f]
    BY <1>3 DEF NoSessionFor, Handled, Becomes, Fates
  <2>3. /\ fate' \in [Events -> Fates]
        /\ \A m \in Events : fate'[m] \in {"sent", "duplicate"} => fate[m] = fate'[m]
    BY <2>2
  <2>4. Prompt /\ faults = 0 => DebounceRemembers'
    BY <2>1, <2>3, MemoryKept
  <2> QED
    BY <2>1, <2>3, <2>4, EventsMoveOn
<1> QED
  BY <1>1, <1>2, <1>3

LEMMA FaultSteps ==
  ASSUME ChainInv,
         AIRestarts \/ HubRestarts \/ \E n \in Events : Fails(n)
  PROVE  EventsTypeOK' /\ DecidedInTime' /\ Faultless'
<1> USE ChainFacts
<1>1. faults' \in 0 .. MaxFaults /\ faults' # 0 /\ UNCHANGED <<now, reports>>
  BY DEF AIRestarts, HubRestarts, Fails, Fault, vars
<1>2. CASE AIRestarts
  BY <1>1, <1>2, EventsMoveOn DEF AIRestarts, hubVars
<1>3. CASE HubRestarts
  <2>1. /\ fate' \in [Events -> Fates]
        /\ \A n \in Events : fate'[n] = "sent" => fate[n] = "sent"
    BY <1>3 DEF HubRestarts, Fates
  <2>2. session' \in BOOLEAN
    BY <1>3 DEF HubRestarts
  <2> QED
    BY <1>1, <1>3, <2>1, <2>2, EventsMoveOn DEF HubRestarts
<1>4. ASSUME NEW n \in Events, Fails(n)
      PROVE  EventsTypeOK' /\ DecidedInTime' /\ Faultless'
  <2>1. /\ fate' \in [Events -> Fates]
        /\ \A m \in Events : fate'[m] = "sent" => fate[m] = "sent"
    BY <1>4 DEF Fails, Becomes, Fates
  <2> QED
    BY <1>1, <1>4, <2>1, EventsMoveOn DEF Fails, hubVars
<1> QED
  BY <1>2, <1>3, <1>4

LEMMA AcceptedStep ==
  ASSUME ChainInv, NEW n \in Events, Accepted(n)
  PROVE  EventsTypeOK' /\ DecidedInTime' /\ Faultless'
<1> USE ChainFacts
<1>1. /\ UNCHANGED <<now, reports, waiting, session, faults, added_at>>
      /\ last_product_id' = reports[n].product /\ last_product_ts' = now
      /\ fate' = [fate EXCEPT ![n] = "accepted"]
      /\ fate[n] = "sent"
  BY DEF Accepted, Becomes, vars
<1>2. /\ fate' \in [Events -> Fates] /\ fate'[n] = "accepted"
      /\ \A m \in Events : fate'[m] \in {"sent", "duplicate"} => fate[m] = fate'[m]
  BY <1>1 DEF Fates
<1>3. reports[n].at \in Nat /\ now - reports[n].at <= DecideWithin
  BY <1>1 DEF ChainInv, DecidedInTime
<1>4. now <= reports[n].at + DecideWithin
  BY <1>3, IntervalAssumption
<1>5. DecidedReport(n)'
  BY <1>1, <1>2, <1>4 DEF DecidedReport
<1>6. DebounceRemembers'
  <2>1. Events' = Events
    BY <1>1 DEF Events
  <2> QED
    BY <1>5, <2>1 DEF DebounceRemembers
<1>7. last_product_id' \in Products \cup {NoProduct} /\ last_product_ts' \in 0 .. now
  BY <1>1
<1> QED
  BY <1>1, <1>2, <1>6, <1>7, EventsMoveOn

\* Without faults an event that has come in time is no duplicate: an earlier
\* report of its product is too old, and there is no later one yet.
LEMMA NeverDuplicate ==
  ASSUME ChainInv, Prompt, faults = 0, NEW n \in Events, fate[n] = "sent"
  PROVE  ~ Duplicate(reports[n].product)
<1> USE ChainFacts, IntervalAssumption, DurationAssumption
<1> SUFFICES ASSUME Duplicate(reports[n].product) PROVE FALSE
  OBVIOUS
<1>1. /\ last_product_id = reports[n].product
      /\ now - last_product_ts < DebounceInterval
  BY DEF Duplicate
<1>2. reports[n].product # NoProduct
  BY NoProductAssumption
<1>3. PICK m \in Events : DecidedReport(m)
  BY <1>1, <1>2 DEF ChainInv, Faultless, DebounceRemembers
<1>4. /\ m # n /\ reports[m].product = reports[n].product
      /\ last_product_ts <= reports[m].at + DecideWithin
  BY <1>1, <1>3 DEF DecidedReport
<1>5. now - reports[n].at <= DecideWithin
  BY DEF ChainInv, DecidedInTime
<1>6. ReportsSpaced
  BY DEF ChainInv, Faultless
<1>7. CASE m < n
  <2>1. reports[n].at - reports[m].at >= Cooldown + RequiredDuration
    BY <1>4, <1>6, <1>7 DEF ReportsSpaced
  <2> QED
    BY <1>1, <1>4, <2>1 DEF Prompt
<1>8. CASE n < m
  <2>1. reports[m].at - reports[n].at >= Cooldown + RequiredDuration
    BY <1>4, <1>6, <1>8 DEF ReportsSpaced
  <2>2. reports[m].at <= now
    OBVIOUS
  <2>3. last_product_ts <= now
    OBVIOUS
  <2> QED
    BY <1>1, <1>5, <2>1, <2>2, <2>3 DEF Prompt
<1> QED
  BY <1>4, <1>7, <1>8

LEMMA DebouncedStep ==
  ASSUME ChainInv, NEW n \in Events, Debounced(n)
  PROVE  EventsTypeOK' /\ DecidedInTime' /\ Faultless'
<1> USE ChainFacts
<1>1. /\ UNCHANGED <<now, reports, waiting, session, last_product_id, last_product_ts>>
      /\ UNCHANGED <<faults, added_at>>
      /\ fate' = [fate EXCEPT ![n] = "duplicate"] /\ fate[n] = "sent"
      /\ Duplicate(reports[n].product)
  BY DEF Debounced, Becomes, vars, hubVars
<1>2. ~ (Prompt /\ faults = 0)
  BY <1>1, NeverDuplicate
<1>3. /\ fate' \in [Events -> Fates]
      /\ \A m \in Events : fate'[m] = "sent" => fate[m] = "sent"
  BY <1>1 DEF Fates
<1> QED
  BY <1>1, <1>2, <1>3, EventsMoveOn

LEMMA TimeStep ==
  ASSUME ChainInv, TimePasses
  PROVE  EventsTypeOK' /\ DecidedInTime' /\ Faultless'
<1> USE ChainFacts
<1>1. /\ UNCHANGED <<reports, fate, waiting, session, last_product_id, last_product_ts>>
      /\ UNCHANGED <<faults, added_at>>
      /\ now' = now + 1 /\ Events' = Events
  BY DEF TimePasses, Tick, chainVars, hubVars, Events
<1>2. EventsTypeOK'
  <2>1. 0 .. now \subseteq 0 .. now'
    BY <1>1
  <2>2. reports' \in Seq([product : Products, at : 0 .. now'])
    <3>1. \A n \in 1 .. Len(reports) : reports[n] \in [product : Products, at : 0 .. now']
      BY <2>1
    <3>2. reports \in Seq([product : Products, at : 0 .. now])
      BY DEF ChainInv, EventsTypeOK
    <3>3. reports = [n \in 1 .. Len(reports) |-> reports[n]]
      BY <3>2
    <3> DEFINE Report == [product : Products, at : 0 .. now']
    <3>4. \A n \in 1 .. Len(reports) : reports[n] \in Report
      BY <3>1
    <3> HIDE DEF Report
    <3>5. reports \in Seq(Report)
      BY <3>3, <3>4
    <3> QED
      BY <1>1, <3>5 DEF Report
  <2> QED
    BY <1>1, <2>1, <2>2 DEF EventsTypeOK, ChainInv
<1>3. DecidedInTime'
  <2> SUFFICES ASSUME NEW n \in Events, fate[n] = "sent"
               PROVE  now + 1 - reports[n].at <= DecideWithin
    BY <1>1 DEF DecidedInTime
  <2>1. now - reports[n].at < DecideWithin
    BY DEF TimePasses
  <2> QED
    BY <2>1, IntervalAssumption
<1>4. Faultless'
  BY <1>1
  DEF ChainInv, Faultless, ReportsFollowAdditions, ReportsSpaced, DebounceRemembers,
      DecidedReport, NothingDebounced
<1> QED
  BY <1>2, <1>3, <1>4

-----------------------------------------------------------------------------
\* A frame that adds nothing to what was reported.
LEMMA UnreportedFrame ==
  ASSUME ChainInv, NEW seen \in SUBSET Products, Frame(seen),
         UNCHANGED <<reports, fate, waiting, hubVars, faults>>, event' = NoProduct
  PROVE  EventsTypeOK' /\ DecidedInTime' /\ Faultless'
<1> USE ChainFacts
<1>1. Added(seen) = {} /\ now' = now
  BY NoProductAssumption DEF Frame, Added, Counted
<1>2. \A p \in DOMAIN added_at : p \in DOMAIN added_at' /\ added_at'[p] = added_at[p]
  BY <1>1, FrameMaps DEF ChainInv, NextMaps
<1>3. UNCHANGED <<reports, fate, waiting, session, last_product_id, last_product_ts, faults>>
      /\ Events' = Events
  BY DEF hubVars, Events
<1>4. EventsTypeOK' /\ DecidedInTime'
  BY <1>1, <1>3 DEF ChainInv, EventsTypeOK, DecidedInTime
<1>5. Faultless'
  BY <1>2, <1>3
  DEF ChainInv, Faultless, ReportsFollowAdditions, ReportsSpaced, DebounceRemembers,
      DecidedReport, NothingDebounced
<1> QED
  BY <1>4, <1>5

\* A frame that completes an addition, which is pushed or fails to be.
LEMMA ReportedFrame ==
  ASSUME ChainInv, NEW seen \in SUBSET Products, Frame(seen),
         event' # NoProduct, UNCHANGED hubVars,
         NEW f \in {"sent", "failed"}, Push(event', f, waiting'),
         waiting' \in {0, Len(reports) + 1},
         faults' \in 0 .. MaxFaults,
         faults' = 0 => f = "sent" /\ faults = 0
  PROVE  EventsTypeOK' /\ DecidedInTime' /\ Faultless'
<1> USE ChainFacts
<1> DEFINE k == Len(reports) + 1
           p == event'
           Report == [product : Products, at : 0 .. now]
<1>1. p \in Added(seen) /\ p \in Products /\ now' = now
  <2>1. p \in Added(seen) /\ now' = now
    BY DEF Frame
  <2>2. Added(seen) \subseteq Products
    BY DEF Added, Counted
  <2> QED
    BY <2>1, <2>2
<1>2. /\ reports' = Append(reports, [product |-> p, at |-> now])
      /\ fate' = Append(fate, f)
  BY DEF Push
<1>3. reports \in Seq(Report) /\ [product |-> p, at |-> now] \in Report
  BY <1>1 DEF ChainInv, EventsTypeOK
<1> HIDE DEF p, Report
<1>4. /\ reports' \in Seq(Report) /\ Len(reports') = k
      /\ \A n \in 1 .. Len(reports) : reports'[n] = reports[n]
      /\ reports'[k] = [product |-> p, at |-> now]
  BY <1>2, <1>3
<1>5. Events = 1 .. Len(reports) /\ Events' = 1 .. k /\ Events' = Events \cup {k}
      /\ k \notin Events
  BY <1>4 DEF Events
<1>6. /\ fate' \in [Events' -> Fates]
      /\ \A n \in Events : fate'[n] = fate[n]
      /\ fate'[k] = f
  <2>1. fate \in Seq(Fates) /\ Len(fate) = Len(reports)
    <3>1. fate = [n \in 1 .. Len(reports) |-> fate[n]]
      OBVIOUS
    <3>2. \A n \in 1 .. Len(reports) : fate[n] \in Fates
      OBVIOUS
    <3> HIDE DEF Fates
    <3> QED
      BY <3>1, <3>2
  <2>2. f \in Fates
    BY DEF Fates
  <2> HIDE DEF Fates
  <2>3. /\ fate' \in Seq(Fates) /\ Len(fate') = k
        /\ \A n \in 1 .. Len(reports) : fate'[n] = fate[n]
        /\ fate'[k] = f
    BY <1>2, <2>1, <2>2
  <2> QED
    BY <1>5, <2>3
<1>7. \A n \in Events : reports'[n] = reports[n]
  BY <1>4, <1>5
<1>8. UNCHANGED <<session, last_product_id, last_product_ts>>
  BY DEF hubVars
<1>9. EventsTypeOK'
  BY <1>1, <1>4, <1>5, <1>6, <1>8 DEF EventsTypeOK, Report
<1>10. DecidedInTime'
  <2>1. reports'[k].at = now /\ now - now <= DecideWithin
    BY <1>4, IntervalAssumption
  <2> QED
    BY <1>1, <1>5, <1>6, <1>7, <2>1 DEF ChainInv, DecidedInTime
<1>11. ASSUME Prompt, faults' = 0
       PROVE  /\ ReportsFollowAdditions' /\ ReportsSpaced'
              /\ DebounceRemembers' /\ NothingDebounced'
  <2>1. /\ ReportsFollowAdditions /\ ReportsSpaced
        /\ DebounceRemembers /\ NothingDebounced /\ f = "sent"
    BY <1>11 DEF ChainInv, Faultless
  <2>2. NextMaps(seen)
    BY FrameMaps DEF ChainInv
  <2>3. \A q \in DOMAIN added_at : added_at[q] \in Nat /\ added_at[q] <= now
    BY DEF ChainInv, Inv, TypeOK, IsMap
  <2>4. /\ p \in DOMAIN added_at' /\ added_at'[p] = now
        /\ \A q \in DOMAIN added_at : q \in DOMAIN added_at' /\ added_at[q] <= added_at'[q]
        /\ \A q \in DOMAIN added_at : added_at'[q] \in Nat
    BY <1>1, <2>2, <2>3 DEF NextMaps
  <2>5. reports'[k].product = p /\ reports'[k].at = now
    BY <1>4
  <2>6. ReportsFollowAdditions'
    <3>1. ASSUME NEW n \in Events
          PROVE  /\ reports[n].product \in DOMAIN added_at'
                 /\ reports[n].at <= added_at'[reports[n].product]
      BY <2>1, <2>3, <2>4 DEF ReportsFollowAdditions
    <3>2. ASSUME NEW n \in Events'
          PROVE  /\ reports'[n].product \in DOMAIN added_at'
                 /\ reports'[n].at <= added_at'[reports'[n].product]
      <4>1. CASE n \in Events
        BY <1>7, <3>1, <4>1
      <4>2. CASE n \notin Events
        <5>1. n = k
          BY <1>5, <3>2, <4>2
        <5>2. now <= now
          BY <1>1
        <5> QED
          BY <2>4, <2>5, <5>1, <5>2
      <4> QED
        BY <4>1, <4>2
    <3> QED
      BY <3>2 DEF ReportsFollowAdditions
  <2>7. p \in DOMAIN added_at => now - added_at[p] >= Cooldown + RequiredDuration
    <3> SUFFICES ASSUME p \in DOMAIN added_at
                 PROVE  now - added_at[p] >= Cooldown + RequiredDuration
      OBVIOUS
    <3>1. p \in Tracked /\ now - first_seen[p] >= RequiredDuration
      BY <1>1 DEF Added
    <3>2. first_seen[p] >= added_at[p] + Cooldown
      BY <3>1 DEF ChainInv, Inv, TrackedAfterCooldown
    <3>3. first_seen[p] \in Nat /\ added_at[p] \in Nat
      BY <2>3, <3>1 DEF ChainInv, Inv, TypeOK, IsMap, Tracked
    <3> QED
      BY <3>1, <3>2, <3>3, DurationAssumption
  <2>8. ReportsSpaced'
    <3>1. ASSUME NEW m \in Events, reports[m].product = p
          PROVE  now - reports[m].at >= Cooldown + RequiredDuration
      BY <2>1, <2>3, <2>7, <3>1, DurationAssumption DEF ReportsFollowAdditions
    <3>2. \A m, n \in Events' :
             m < n => m \in Events /\ (n \in Events \/ n = k)
      BY <1>5
    <3> QED
      BY <1>5, <1>7, <2>1, <2>5, <3>1, <3>2 DEF ReportsSpaced
  <2>9. DebounceRemembers'
    <3>1. ASSUME NEW m \in Events, DecidedReport(m) PROVE DecidedReport(m)'
      BY <1>6, <1>7, <1>8, <3>1 DEF DecidedReport
    <3> QED
      BY <1>5, <1>8, <2>1, <3>1 DEF DebounceRemembers
  <2>10. NothingDebounced'
    BY <1>5, <1>6, <1>11, <2>1 DEF NothingDebounced, ChainInv, Faultless
  <2> QED
    BY <2>6, <2>8, <2>9, <2>10
<1> QED
  BY <1>9, <1>10, <1>11 DEF Faultless, Prompt

LEMMA InspectStep ==
  ASSUME ChainInv, NEW seen \in SUBSET Products, Inspect(seen)
  PROVE  EventsTypeOK' /\ DecidedInTime' /\ Faultless'
<1> USE ChainFacts
<1>1. CASE event' = NoProduct
  BY <1>1, UnreportedFrame DEF Inspect
<1>2. CASE event' # NoProduct /\ Push(event', "sent", Len(reports) + 1) /\ UNCHANGED faults
  <2>1. waiting' = Len(reports) + 1
    BY <1>2 DEF Push
  <2> QED
    BY <1>2, <2>1, ReportedFrame DEF Inspect
<1>3. CASE event' # NoProduct /\ Push(event', "failed", 0) /\ Fault
  <2>1. waiting' = 0
    BY <1>3 DEF Push
  <2> QED
    BY <1>3, <2>1, ReportedFrame DEF Inspect, Fault
<1> QED
  BY <1>1, <1>2, <1>3 DEF Inspect

LEMMA ChainNextInv ==
  ASSUME ChainInv, [ChainNext]_allVars
  PROVE  ChainInv'
<1>1. Inv'
  BY RecognizerKept DEF ChainInv
<1>2. EventsTypeOK' /\ DecidedInTime' /\ Faultless'
  <2>1. CASE UNCHANGED allVars
    BY <2>1
    DEF allVars, vars, chainVars, hubVars, ChainInv, EventsTypeOK, DecidedInTime, Faultless,
        ReportsFollowAdditions, ReportsSpaced, DebounceRemembers, DecidedReport,
        NothingDebounced, Events
  <2>2. CASE ChainNext
    BY <2>2, InspectStep, QuietSteps, FaultSteps, AcceptedStep, DebouncedStep, TimeStep
    DEF ChainNext
  <2> QED
    BY <2>1, <2>2
<1> QED
  BY <1>1, <1>2 DEF ChainInv

(***************************************************************************)
(* The debounce of SmartCartEngine (_is_new_product_detection) is          *)
(* harmless: if the hub decides on an event within                         *)
(* Cooldown + RequiredDuration - DebounceInterval (2.5 s with the values   *)
(* of the code), then without faults no item that the recogniser counted   *)
(* is dropped as a duplicate, for any products, durations and sessions.    *)
(***************************************************************************)
THEOREM DebounceHarmless ==
  ASSUME DecideWithin + DebounceInterval <= Cooldown + RequiredDuration
  PROVE  ChainSpec => []NothingDebounced
<1>1. Prompt
  BY DEF Prompt
<1>2. ChainInv => NothingDebounced
  BY <1>1 DEF ChainInv, Faultless, NothingDebounced
<1>3. ChainInv /\ [ChainNext]_allVars => ChainInv'
  BY ChainNextInv
<1> QED
  BY <1>2, <1>3, ChainInitInv, PTL DEF ChainSpec

(***************************************************************************)
(* Events, what became of them and what the hub remembers stay well typed, *)
(* whatever fails and however long the hub takes: in particular the loop   *)
(* waits for an event that was reported, and times are not in the future.  *)
(***************************************************************************)
THEOREM ChainTypeCorrect == ChainSpec => []ChainTypeOK
<1>1. ChainInv => ChainTypeOK
  BY DEF ChainInv, Inv, EventsTypeOK, ChainTypeOK
<1>2. ChainInv /\ [ChainNext]_allVars => ChainInv'
  BY ChainNextInv
<1> QED
  BY <1>1, <1>2, ChainInitInv, PTL DEF ChainSpec

(***************************************************************************)
(* Around the recogniser the AI server's loop may wait, fail and be        *)
(* started again, and the hub with it: still no product is tracked from a  *)
(* moment within its cooldown (recognize_with_trigger).                    *)
(***************************************************************************)
THEOREM ChainTracksAfterCooldown == ChainSpec => [](TypeOK /\ TrackedAfterCooldown)
<1>1. ChainInit => Inv
  BY InitInv DEF ChainInit
<1>2. Inv /\ [ChainNext]_allVars => Inv'
  BY RecognizerKept
<1>3. Inv => TypeOK /\ TrackedAfterCooldown
  BY DEF Inv
<1> QED
  BY <1>1, <1>2, <1>3, PTL DEF ChainSpec
=============================================================================
