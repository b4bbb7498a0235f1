-------------------------- MODULE ObstacleDetector --------------------------
(***************************************************************************)
(* ObstacleDetector.detect (src/src/detectors/obstacle_dl.py) with the     *)
(* RiskEngine it calls (src/src/detectors/risk_engine.py): how the boxes   *)
(* of the front camera's frames become a danger level.                     *)
(*                                                                         *)
(* Objects are the keys (class name, track id) of RiskEngine.states.  A    *)
(* frame is handled box by box: Assess is the body of the loop of update   *)
(* for one box, EndFrame what follows the loop.  The tracker gives ids to  *)
(* all boxes of a frame or to none (_parse_results of obstacle_tracker.py, *)
(* same directory); without one a box has -1, so that all boxes of a class *)
(* are taken for one object.                                               *)
(*                                                                         *)
(* What the geometry of a box comes to is chosen freely: where it is,      *)
(* whether it is very close, whether it approaches, and the level its pTTC *)
(* is short enough for.                                                    *)
(***************************************************************************)
EXTENDS Integers

CONSTANTS
    Objects,
    Unidentified,       \* those with the track id -1
    StreakWarn, StreakCaution,
    HysteresisFrames,
    StaleFrames,
    MaxFrames,          \* bound: frames, empty ones included
    MaxBoxes            \* bound: boxes in a frame

ASSUME StreakAssumption == StreakCaution \in Nat /\ StreakWarn \in Nat
ASSUME ObjectsAssumption == Unidentified \subseteq Objects
ASSUME FramesAssumption == HysteresisFrames \in Nat /\ StaleFrames \in Nat
ASSUME BoundsAssumption == MaxFrames \in Nat /\ MaxBoxes \in Nat

SAFE == 0
CAUTION == 1
WARN == 2
Levels == {SAFE, CAUTION, WARN}

VARIABLES
    states,          \* RiskEngine.states: object -> TrackState
    frame_index,     \* ObstacleDetector.frame_index
    boxes,           \* boxes of the present frame so far
    highest,         \* max_risk_level over these boxes
    level,           \* the "level" of the last result
    frames,          \* history: frames so far, empty ones included
    past,            \* history: what each object has shown (see Past)
    holders          \* history: the objects with that level in its frame

vars == <<states, frame_index, boxes, highest, level, frames, past, holders>>

Tracked == DOMAIN states

Track ==
    [approach_streak : Nat, risk_level : Levels, hold_frames : Nat,
     last_seen_frame : Nat]

\* Since the state of an object was created: the number of its boxes, whether
\* one was very close, and how many called for a lower level since the level
\* was last raised.
Past == [seen : Nat, close : BOOLEAN, lower : Nat]

TypeOK ==
    /\ Tracked \subseteq Objects
    /\ \A o \in Tracked : states[o] \in Track
    /\ past \in [Tracked -> Past]
    /\ frame_index \in Nat
    /\ boxes \in 0 .. MaxBoxes
    /\ {highest, level} \subseteq Levels
    /\ frames \in 0 .. MaxFrames
    /\ holders \subseteq Objects

Init ==
    /\ states = [o \in {} |-> SAFE]
    /\ past = [o \in {} |-> SAFE]
    /\ frame_index = 0
    /\ boxes = 0
    /\ highest = SAFE
    /\ level = SAFE
    /\ frames = 0
    /\ holders = {}

-----------------------------------------------------------------------------
\* What a box shows.  The near center band contains the center band.
Zones == {"outside", "near_center", "center"}
Box == [zone : Zones, mega_close : BOOLEAN, approaching : BOOLEAN, pttc : Levels]

\* The first box of a state has no distance before it to compare with: it does
\* not approach and its pTTC is infinite.
BoxesOf(o) ==
    {b \in Box : o \notin Tracked => ~ b.approaching /\ b.pttc = SAFE}

\* The objects of the boxes of the present frame so far.
InFrame == {o \in Tracked : states[o].last_seen_frame = frame_index}

\* An id is given to one box of a frame, and to all or none of them.
MayCome(o) ==
    IF o \in Unidentified
    THEN InFrame \subseteq Unidentified
    ELSE o \notin InFrame /\ InFrame \cap Unidentified = {}

NewTrack ==
    [approach_streak |-> 0, risk_level |-> SAFE, hold_frames |-> 0,
     last_seen_frame |-> frame_index]
NewPast == [seen |-> 0, close |-> FALSE, lower |-> 0]

StateOf(o) == IF o \in Tracked THEN states[o] ELSE NewTrack
PastOf(o) == IF o \in Tracked THEN past[o] ELSE NewPast

Ahead(b) == b.approaching /\ b.zone # "outside"
VeryClose(b) == b.mega_close /\ b.zone # "outside"

\* Mutant: every box in the near center band counts.
StreakOfAll(st, b) ==
    IF b.zone # "outside" THEN st.approach_streak + 1 ELSE 0

\* Mutant: a streak that is over goes on falling.
StreakUnbounded(st, b) ==
    IF Ahead(b) THEN st.approach_streak + 1 ELSE st.approach_streak - 1

Streak(st, b) ==
    IF Ahead(b) THEN st.approach_streak + 1
    ELSE IF st.approach_streak > 0 THEN st.approach_streak - 1 ELSE 0

CallsForWarn(b, streak) ==
    \/ VeryClose(b)
    \/ b.zone = "center" /\ streak >= StreakWarn /\ b.pttc = WARN

CallsForCaution(b, streak) ==
    b.zone # "outside" /\ streak >= StreakCaution /\ b.pttc # SAFE

CandidateLevel(b, streak) ==
    IF CallsForWarn(b, streak) THEN WARN
    ELSE IF CallsForCaution(b, streak) THEN CAUTION ELSE SAFE

\* Mutant: a candidate that is not higher than the level lowers it.
HysteresisShort(st, candidate) ==
    IF candidate > st.risk_level
    THEN [st EXCEPT !.risk_level = candidate, !.hold_frames = HysteresisFrames]
    ELSE IF st.hold_frames > 1
    THEN [st EXCEPT !.hold_frames = @ - 1]
    ELSE [st EXCEPT !.risk_level = candidate]

\* A level is raised at once, and lowered when hold_frames is used up; nothing
\* but a raise sets hold_frames again.
Hysteresis(st, candidate) ==
    IF candidate > st.risk_level
    THEN [st EXCEPT !.risk_level = candidate, !.hold_frames = HysteresisFrames]
    ELSE IF candidate = st.risk_level
    THEN st
    ELSE IF st.hold_frames > 0
    THEN [st EXCEPT !.hold_frames = @ - 1]
    ELSE [st EXCEPT !.risk_level = candidate]

Assessed(o, b) ==
    LET streak == Streak(StateOf(o), b)
    IN  Hysteresis([StateOf(o) EXCEPT !.approach_streak = streak,
                                      !.last_seen_frame = frame_index],
                   CandidateLevel(b, streak))

\* The history that goes with it.
Recorded(o, b) ==
    LET before == StateOf(o)
        candidate == CandidateLevel(b, Streak(before, b))
        p == PastOf(o)
    IN  [seen |-> p.seen + 1,
         close |-> p.close \/ VeryClose(b),
         lower |-> IF candidate > before.risk_level THEN 0
                   ELSE IF candidate < before.risk_level THEN p.lower + 1
                   ELSE p.lower]

Put(f, o, v) == [x \in DOMAIN f \cup {o} |-> IF x = o THEN v ELSE f[x]]

\* Mutant: the level of the last box.
MaxRiskOfLast(st) == st.risk_level

\* max_risk_level of detect, with one more box.
MaxRisk(st) == IF st.risk_level > highest THEN st.risk_level ELSE highest

\* One box: its state, and max_risk_level of detect.
Assess(o, b) ==
    LET st == Assessed(o, b)
    IN  /\ frames < MaxFrames
        /\ boxes < MaxBoxes
        /\ MayCome(o)
        /\ boxes' = boxes + 1
        /\ states' = Put(states, o, st)
        /\ past' = Put(past, o, Recorded(o, b))
        /\ highest' = MaxRisk(st)
        /\ UNCHANGED <<frame_index, level, frames, holders>>

Fresh(o) == frame_index - states[o].last_seen_frame <= StaleFrames

Report(l) ==
    /\ level' = l
    /\ holders' = {o \in InFrame : states[o].risk_level = l}
    /\ frames' = frames + 1

\* After the loop: the states of objects not seen for long are removed.
EndFrame ==
    /\ boxes > 0
    /\ LET fresh == {o \in Tracked : Fresh(o)}
       IN  /\ states' = [o \in fresh |-> states[o]]
           /\ past' = [o \in fresh |-> past[o]]
    /\ Report(highest)
    /\ frame_index' = frame_index + 1
    /\ boxes' = 0
    /\ highest' = SAFE

\* No boxes, or an exception of the tracker: the risk engine is not called and
\* the frame is not counted.
EmptyFrame ==
    /\ boxes = 0
    /\ frames < MaxFrames
    /\ Report(SAFE)
    /\ UNCHANGED <<states, past, frame_index, boxes, highest>>

Next ==
    \/ \E o \in Objects : \E b \in BoxesOf(o) : Assess(o, b)
    \/ EndFrame
    \/ EmptyFrame

Spec == Init /\ [][Next]_vars

-----------------------------------------------------------------------------
(***************************************************************************)
(* Properties.                                                             *)
(***************************************************************************)

\* No alarm from a glimpse: an object that was never very close has a raised
\* level only after it was seen often enough for the streak of that level,
\* and once more for the first distance (approach_streak and the EMA in
\* RiskEngine.update).
AlarmNeedsStreak ==
    \A o \in Tracked :
        ~ past[o].close =>
            /\ states[o].risk_level >= CAUTION =>
                  past[o].seen > StreakCaution \/ past[o].seen > StreakWarn
            /\ states[o].risk_level = WARN => past[o].seen > StreakWarn

\* The level of an object is never lowered before HysteresisFrames boxes since
\* it was raised have called for less (the hysteresis of RiskEngine.update).
LoweredAfterHold ==
    [][\A o \in Tracked \cap DOMAIN states' :
          states'[o].risk_level < states[o].risk_level =>
              past[o].lower >= HysteresisFrames]_vars

\* The level that detect returns does not fall in a frame with boxes while an
\* object with an id that had it is among them, before HysteresisFrames boxes of that
\* object have called for less.  (In a frame without boxes, or without that
\* object, it falls at once.)
LevelHeldInView ==
    [][level' < level /\ boxes > 0 =>
          \A o \in (holders \cap InFrame) \ Unidentified :
              past[o].lower >= HysteresisFrames]_vars
=============================================================================
