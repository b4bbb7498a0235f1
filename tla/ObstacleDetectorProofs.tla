------------------------ MODULE ObstacleDetectorProofs ------------------------
(***************************************************************************)
(* Proofs about ObstacleDetector for any objects, with ids or without, and *)
(* any streaks, hysteresis, numbers of frames and of boxes in a frame.     *)
(***************************************************************************)
EXTENDS ObstacleDetector, TLAPS

\* What the state of an object and its history have to do with each other: the
\* streak is shorter than the boxes are many; a level that no very close box
\* raised took a streak; the boxes that called for less and the frames it is
\* still held make up the hysteresis.
Remembered(st, p) ==
    /\ ~ p.close /\ st.risk_level # SAFE =>
          p.seen > StreakCaution \/ p.seen > StreakWarn
    /\ ~ p.close /\ st.risk_level = WARN => p.seen > StreakWarn
    /\ st.risk_level # SAFE => p.lower + st.hold_frames >= HysteresisFrames

StatesRemembered ==
    \A o \in Tracked :
        /\ Remembered(states[o], past[o])
        /\ states[o].approach_streak < past[o].seen

\* The present frame: it is within the bound, nothing is newer, nothing is in it
\* before the first box, and no object with an id has a level above "highest".
FrameFits ==
    /\ boxes > 0 => frames < MaxFrames
    /\ \A o \in Tracked : states[o].last_seen_frame <= frame_index
    /\ boxes = 0 => InFrame = {}
    /\ \A o \in InFrame \ Unidentified : states[o].risk_level <= highest

\* The objects that had the level of the last frame: each still has it, or has
\* been seen since and has kept it, or called for less often enough.
HoldersKeep ==
    \A o \in holders \ Unidentified :
        /\ o \in Tracked
        /\ o \notin InFrame => states[o].risk_level = level
        /\ \/ states[o].risk_level >= level
           \/ past[o].lower >= HysteresisFrames

Inv == TypeOK /\ StatesRemembered /\ FrameFits /\ HoldersKeep

-----------------------------------------------------------------------------
LEMMA ConstantsType ==
  /\ StreakCaution \in Nat /\ StreakWarn \in Nat
  /\ HysteresisFrames \in Nat /\ StaleFrames \in Nat
  /\ MaxFrames \in Nat /\ MaxBoxes \in Nat
  /\ Unidentified \subseteq Objects
  BY StreakAssumption, FramesAssumption, BoundsAssumption, ObjectsAssumption

LEMMA InitInv == Init => Inv
<1> SUFFICES ASSUME Init PROVE Inv
  OBVIOUS
<1>1. Tracked = {} /\ DOMAIN past = {}
  BY DEF Init, Tracked
<1>2. past \in [Tracked -> Past]
  BY <1>1 DEF Init
<1>3. TypeOK
  BY <1>1, <1>2, ConstantsType DEF Init, TypeOK, Levels, SAFE
<1>4. StatesRemembered /\ FrameFits /\ HoldersKeep
  BY <1>1 DEF Init, StatesRemembered, FrameFits, HoldersKeep, InFrame
<1> QED
  BY <1>3, <1>4 DEF Inv

-----------------------------------------------------------------------------
\* The streak of a box, and what a candidate level takes.
LEMMA StreakGrows ==
  ASSUME NEW st \in Track, NEW b \in Box
  PROVE  /\ Streak(st, b) \in Nat
         /\ Streak(st, b) <= st.approach_streak + 1
         /\ ~ Ahead(b) => Streak(st, b) <= st.approach_streak
<1>1. st.approach_streak \in Nat
  BY DEF Track
<1> QED
  BY <1>1 DEF Streak

LEMMA CandidateNeedsStreak ==
  ASSUME NEW b \in Box, NEW n \in Nat
  PROVE  /\ CandidateLevel(b, n) \in Levels
         /\ CandidateLevel(b, n) = WARN => VeryClose(b) \/ n >= StreakWarn
         /\ CandidateLevel(b, n) # SAFE =>
               VeryClose(b) \/ n >= StreakWarn \/ n >= StreakCaution
  BY ConstantsType
  DEF CandidateLevel, CallsForWarn, CallsForCaution, Levels, SAFE, CAUTION, WARN

\* One box: the level rises to the candidate at once, and falls when it is no
\* longer held.
LEMMA HysteresisCases ==
  ASSUME NEW st \in Track, NEW c \in Levels
  PROVE  LET new == Hysteresis(st, c)
         IN  /\ new \in Track
             /\ new.approach_streak = st.approach_streak
             /\ new.last_seen_frame = st.last_seen_frame
             /\ \/ /\ c > st.risk_level
                   /\ new.risk_level = c /\ new.hold_frames = HysteresisFrames
                \/ /\ c = st.risk_level
                   /\ new = st
                \/ /\ c < st.risk_level /\ st.hold_frames > 0
                   /\ new.risk_level = st.risk_level
                   /\ new.hold_frames = st.hold_frames - 1
                \/ /\ c < st.risk_level /\ st.hold_frames = 0
                   /\ new.risk_level = c /\ new.hold_frames = st.hold_frames
<1>1. /\ st.approach_streak \in Nat /\ st.hold_frames \in Nat
      /\ st.last_seen_frame \in Nat /\ st.risk_level \in Levels
  BY DEF Track
<1>2. st.risk_level \in Nat /\ c \in Nat
  BY <1>1 DEF Levels, SAFE, CAUTION, WARN
<1>3. CASE c > st.risk_level
  BY <1>1, <1>3, ConstantsType DEF Hysteresis, Track
<1>4. CASE c = st.risk_level
  BY <1>1, <1>2, <1>4 DEF Hysteresis
<1>5. CASE c < st.risk_level /\ st.hold_frames > 0
  BY <1>1, <1>2, <1>5 DEF Hysteresis, Track
<1>6. CASE c < st.risk_level /\ st.hold_frames = 0
  BY <1>1, <1>2, <1>6 DEF Hysteresis, Track
<1> QED
  BY <1>1, <1>2, <1>3, <1>4, <1>5, <1>6

\* The state an object has before a box, and its history.
LEMMA StateBefore ==
  ASSUME Inv, NEW o
  PROVE  /\ StateOf(o) \in Track /\ PastOf(o) \in Past
         /\ Remembered(StateOf(o), PastOf(o))
         /\ \/ o \in Tracked /\ StateOf(o).approach_streak < PastOf(o).seen
            \/ o \notin Tracked /\ StateOf(o).approach_streak = 0 /\ PastOf(o).seen = 0
<1>1. CASE o \in Tracked
  BY <1>1 DEF Inv, TypeOK, StatesRemembered, StateOf, PastOf
<1>2. CASE o \notin Tracked
  <2>1. StateOf(o) = NewTrack /\ PastOf(o) = NewPast
    BY <1>2 DEF StateOf, PastOf
  <2>2. frame_index \in Nat /\ frames \in Nat
    BY ConstantsType DEF Inv, TypeOK
  <2>3. NewTrack \in Track /\ NewPast \in Past
    BY <2>2 DEF NewTrack, NewPast, Track, Past, Levels
  <2>4. NewTrack.approach_streak = 0 /\ NewTrack.risk_level = SAFE /\ NewPast.seen = 0
    BY DEF NewTrack, NewPast
  <2> QED
    BY <1>2, <2>1, <2>3, <2>4 DEF Remembered, SAFE, WARN
<1> QED
  BY <1>1, <1>2

LEMMA BoxRemembered ==
  ASSUME Inv, NEW o, NEW b \in BoxesOf(o)
  PROVE  /\ Assessed(o, b) \in Track /\ Recorded(o, b) \in Past
         /\ Remembered(Assessed(o, b), Recorded(o, b))
         /\ Assessed(o, b).approach_streak < Recorded(o, b).seen
         /\ Assessed(o, b).last_seen_frame = frame_index
         /\ Assessed(o, b).risk_level < StateOf(o).risk_level =>
               /\ PastOf(o).lower >= HysteresisFrames
               /\ Recorded(o, b).lower >= HysteresisFrames
<1> DEFINE st == StateOf(o)
           p == PastOf(o)
           n == Streak(st, b)
           c == CandidateLevel(b, n)
           mid == [st EXCEPT !.approach_streak = n, !.last_seen_frame = frame_index]
           new == Assessed(o, b)
           rec == Recorded(o, b)
<1>1. /\ st \in Track /\ p \in Past /\ b \in Box
      /\ Remembered(st, p)
      /\ n \in Nat
      /\ n < p.seen + 1
      /\ p.seen \in Nat /\ p.lower \in Nat /\ p.close \in BOOLEAN
  <2>1. b \in Box /\ (o \notin Tracked => ~ Ahead(b))
    BY DEF BoxesOf, Ahead
  <2>2. st \in Track /\ p \in Past /\ Remembered(st, p)
    BY StateBefore
  <2>3. st.approach_streak \in Nat /\ p.seen \in Nat
    BY <2>2 DEF Track, Past
  <2>4. n \in Nat /\ n < p.seen + 1
    BY <2>1, <2>2, <2>3, StateBefore, StreakGrows
  <2> QED
    BY <2>1, <2>2, <2>4 DEF Past
<1>2. /\ c \in Levels
      /\ c = WARN => VeryClose(b) \/ n >= StreakWarn
      /\ c # SAFE => VeryClose(b) \/ n >= StreakWarn \/ n >= StreakCaution
  BY <1>1, CandidateNeedsStreak
<1>3. /\ mid \in Track
      /\ mid.approach_streak = n /\ mid.last_seen_frame = frame_index
      /\ mid.risk_level = st.risk_level /\ mid.hold_frames = st.hold_frames
      /\ st.risk_level \in Levels /\ st.hold_frames \in Nat
  <2>1. frame_index \in Nat
    BY DEF Inv, TypeOK
  <2> HIDE DEF st, n
  <2> QED
    BY <1>1, <2>1 DEF Track
<1>4. new = Hysteresis(mid, c)
  BY DEF Assessed
<1>5. /\ rec.seen = p.seen + 1
      /\ rec.close = (p.close \/ VeryClose(b))
      /\ rec.lower = IF c > st.risk_level THEN 0
                     ELSE IF c < st.risk_level THEN p.lower + 1 ELSE p.lower
      /\ rec \in Past
  <2>1. rec = [seen |-> p.seen + 1,
               close |-> p.close \/ VeryClose(b),
               lower |-> IF c > st.risk_level THEN 0
                         ELSE IF c < st.risk_level THEN p.lower + 1 ELSE p.lower]
    BY DEF Recorded
  <2>2. (p.close \/ VeryClose(b)) \in BOOLEAN
    OBVIOUS
  <2> HIDE DEF rec, p, st, c
  <2> QED
    BY <1>1, <2>1, <2>2 DEF Past
<1> HIDE DEF st, p, n, c, mid, new, rec
<1>6. /\ new \in Track
      /\ new.approach_streak = n
      /\ new.last_seen_frame = frame_index
      /\ \/ /\ c > st.risk_level
            /\ new.risk_level = c /\ new.hold_frames = HysteresisFrames
         \/ /\ c = st.risk_level
            /\ new.risk_level = st.risk_level /\ new.hold_frames = st.hold_frames
         \/ /\ c < st.risk_level /\ st.hold_frames > 0
            /\ new.risk_level = st.risk_level /\ new.hold_frames = st.hold_frames - 1
         \/ /\ c < st.risk_level /\ st.hold_frames = 0
            /\ new.risk_level = c /\ new.hold_frames = st.hold_frames
  BY <1>2, <1>3, <1>4, HysteresisCases
<1>7. c \in Nat /\ st.risk_level \in Nat
  BY <1>2, <1>3 DEF Levels, SAFE, CAUTION, WARN
<1>8. Remembered(new, rec)
  <2>1. new.risk_level # SAFE => rec.lower + new.hold_frames >= HysteresisFrames
    BY <1>1, <1>2, <1>3, <1>5, <1>6, <1>7, ConstantsType
    DEF Remembered, Levels, SAFE, CAUTION, WARN
  <2>2. ~ rec.close => ~ p.close /\ ~ VeryClose(b)
    BY <1>5
  <2>3. ~ rec.close /\ new.risk_level # SAFE =>
            rec.seen > StreakCaution \/ rec.seen > StreakWarn
    <3>1. CASE c = SAFE
      BY <1>1, <1>3, <1>5, <1>6, <1>7, <2>2, <3>1, ConstantsType
      DEF Remembered, Levels, SAFE, CAUTION, WARN
    <3>2. CASE c # SAFE
      BY <1>1, <1>2, <1>5, <2>2, <3>2, ConstantsType
    <3> QED
      BY <3>1, <3>2
  <2>4. ~ rec.close /\ new.risk_level = WARN => rec.seen > StreakWarn
    <3>1. CASE c = WARN
      BY <1>1, <1>2, <1>5, <2>2, <3>1, ConstantsType
    <3>2. CASE c # WARN
      BY <1>1, <1>3, <1>5, <1>6, <1>7, <2>2, <3>2, ConstantsType
      DEF Remembered, Levels, SAFE, CAUTION, WARN
    <3> QED
      BY <3>1, <3>2
  <2> QED
    BY <2>1, <2>3, <2>4 DEF Remembered
<1>9. new.risk_level < st.risk_level =>
          p.lower >= HysteresisFrames /\ rec.lower >= HysteresisFrames
  BY <1>1, <1>3, <1>5, <1>6, <1>7, ConstantsType DEF Remembered, SAFE, Levels, CAUTION, WARN
<1> QED
  BY <1>1, <1>5, <1>6, <1>8, <1>9 DEF new, rec, st, p

-----------------------------------------------------------------------------
\* A box changes the state and the history of its object only.
LEMMA AssessChanges ==
  ASSUME Inv, NEW o \in Objects, NEW b \in BoxesOf(o), Assess(o, b)
  PROVE  /\ Tracked' = Tracked \cup {o}
         /\ states'[o] = Assessed(o, b) /\ past'[o] = Recorded(o, b)
         /\ \A x \in Tracked \ {o} : states'[x] = states[x] /\ past'[x] = past[x]
         /\ past' = [x \in Tracked' |-> past'[x]]
<1>1. states' = Put(states, o, Assessed(o, b)) /\ past' = Put(past, o, Recorded(o, b))
  BY DEF Assess
<1>2. DOMAIN past = Tracked
  BY DEF Inv, TypeOK
<1> QED
  BY <1>1, <1>2 DEF Put, Tracked

LEMMA AssessInv ==
  ASSUME Inv, NEW o \in Objects, NEW b \in BoxesOf(o), Assess(o, b)
  PROVE  Inv'
<1> DEFINE new == Assessed(o, b)
           rec == Recorded(o, b)
<1>1. /\ new \in Track /\ rec \in Past
      /\ Remembered(new, rec)
      /\ new.approach_streak < rec.seen
      /\ new.last_seen_frame = frame_index
      /\ new.risk_level < StateOf(o).risk_level => rec.lower >= HysteresisFrames
  BY BoxRemembered
<1>2. /\ Tracked' = Tracked \cup {o}
      /\ states'[o] = new /\ past'[o] = rec
      /\ \A x \in Tracked \ {o} : states'[x] = states[x] /\ past'[x] = past[x]
      /\ past' = [x \in Tracked' |-> past'[x]]
  BY AssessChanges
<1>3. /\ boxes' = boxes + 1 /\ boxes < MaxBoxes
      /\ highest' = MaxRisk(new)
      /\ MayCome(o)
      /\ frames < MaxFrames
      /\ UNCHANGED <<frame_index, level, frames, holders>>
  BY DEF Assess
<1> HIDE DEF new, rec
<1>4. /\ new.risk_level \in Levels /\ highest \in Levels
      /\ highest' \in Levels
      /\ highest <= highest' /\ new.risk_level <= highest'
  <2>1. new.risk_level \in Levels /\ highest \in Levels
    BY <1>1 DEF Track, Inv, TypeOK
  <2> QED
    BY <1>3, <2>1 DEF MaxRisk, Levels, SAFE, CAUTION, WARN
<1>5. TypeOK'
  <2>1. Tracked' \subseteq Objects /\ \A x \in Tracked' : states'[x] \in Track
    BY <1>1, <1>2 DEF Inv, TypeOK
  <2>2. past' \in [Tracked' -> Past]
    <3>1. \A x \in Tracked' : past'[x] \in Past
      BY <1>1, <1>2 DEF Inv, TypeOK
    <3> QED
      BY <1>2, <3>1
  <2>3. boxes' \in 0 .. MaxBoxes
    BY <1>3, ConstantsType DEF Inv, TypeOK
  <2> QED
    BY <1>3, <1>4, <2>1, <2>2, <2>3 DEF Inv, TypeOK, Track, Past
<1>6. StatesRemembered'
  <2> SUFFICES ASSUME NEW x \in Tracked'
               PROVE  /\ Remembered(states'[x], past'[x])
                      /\ states'[x].approach_streak < past'[x].seen
    BY DEF StatesRemembered, Remembered
  <2>1. CASE x = o
    BY <1>1, <1>2, <2>1
  <2>2. CASE x # o
    BY <1>2, <2>2 DEF Inv, StatesRemembered
  <2> QED
    BY <2>1, <2>2
<1>7. InFrame' = InFrame \cup {o}
  BY <1>1, <1>2, <1>3 DEF InFrame
<1>8. FrameFits'
  <2>1. \A x \in Tracked' : states'[x].last_seen_frame <= frame_index'
    BY <1>1, <1>2, <1>3 DEF Inv, TypeOK, FrameFits
  <2>2. boxes' # 0
    BY <1>3 DEF Inv, TypeOK
  <2>3. ASSUME NEW x \in InFrame' \ Unidentified
        PROVE  states'[x].risk_level <= highest'
    <3>1. CASE x = o
      BY <1>2, <1>4, <3>1
    <3>2. CASE x # o
      <4>1. x \in InFrame \ Unidentified /\ x \in Tracked
        BY <1>7, <3>2 DEF InFrame
      <4>2. states[x].risk_level <= highest /\ states'[x] = states[x]
        BY <1>2, <3>2, <4>1 DEF Inv, FrameFits
      <4>3. states[x].risk_level \in Levels
        BY <4>1 DEF Inv, TypeOK, Track
      <4> QED
        BY <1>4, <4>2, <4>3 DEF Levels, SAFE, CAUTION, WARN
    <3> QED
      BY <3>1, <3>2
  <2> QED
    BY <1>3, <2>1, <2>2, <2>3 DEF FrameFits
<1>9. HoldersKeep'
  <2> SUFFICES ASSUME NEW x \in holders \ Unidentified
               PROVE  /\ x \in Tracked'
                      /\ x \notin InFrame' => states'[x].risk_level = level
                      /\ \/ states'[x].risk_level >= level
                         \/ past'[x].lower >= HysteresisFrames
    BY <1>3 DEF HoldersKeep
  <2>1. /\ x \in Tracked
        /\ x \notin InFrame => states[x].risk_level = level
        /\ \/ states[x].risk_level >= level
           \/ past[x].lower >= HysteresisFrames
    BY DEF Inv, HoldersKeep
  <2>2. CASE x = o
    <3>1. o \notin InFrame
      BY <1>3, <2>2 DEF MayCome
    <3>2. StateOf(o) = states[o] /\ states[o].risk_level = level
      BY <2>1, <2>2, <3>1 DEF StateOf
    <3>3. level \in Levels
      BY DEF Inv, TypeOK
    <3>4. new.risk_level >= level \/ rec.lower >= HysteresisFrames
      BY <1>1, <1>4, <3>2, <3>3 DEF Levels, SAFE, CAUTION, WARN
    <3> QED
      BY <1>2, <1>7, <2>1, <2>2, <3>4
  <2>3. CASE x # o
    BY <1>2, <1>7, <2>1, <2>3
  <2> QED
    BY <2>2, <2>3
<1> QED
  BY <1>5, <1>6, <1>8, <1>9 DEF Inv

-----------------------------------------------------------------------------
LEMMA EndFrameInv ==
  ASSUME Inv, EndFrame
  PROVE  Inv'
<1> DEFINE fresh == {o \in Tracked : Fresh(o)}
<1>1. /\ boxes > 0
      /\ states' = [o \in fresh |-> states[o]]
      /\ past' = [o \in fresh |-> past[o]]
      /\ level' = highest
      /\ holders' = {o \in InFrame : states[o].risk_level = highest}
      /\ frames' = frames + 1
      /\ frame_index' = frame_index + 1 /\ boxes' = 0 /\ highest' = SAFE
  BY DEF EndFrame, Report
<1>2. fresh \subseteq Tracked /\ Tracked' = fresh
  BY <1>1 DEF Tracked
<1>3. TypeOK'
  <2>1. frames' \in 0 .. MaxFrames
    BY <1>1, ConstantsType DEF Inv, TypeOK, FrameFits
  <2>2. past' \in [Tracked' -> Past] /\ \A o \in Tracked' : states'[o] \in Track
    BY <1>1, <1>2 DEF Inv, TypeOK
  <2>3. holders' \subseteq Objects
    BY <1>1 DEF InFrame, Inv, TypeOK
  <2>4. frame_index' \in Nat /\ boxes' \in 0 .. MaxBoxes /\ {highest', level'} \subseteq Levels
    BY <1>1, ConstantsType DEF Inv, TypeOK, Levels
  <2> QED
    BY <1>2, <2>1, <2>2, <2>3, <2>4 DEF Inv, TypeOK, Track, Past
<1>4. StatesRemembered'
  BY <1>1, <1>2 DEF Inv, StatesRemembered, Remembered
<1>5. /\ \A o \in Tracked' : states'[o].last_seen_frame < frame_index'
      /\ InFrame' = {}
  <2>1. \A o \in Tracked : states[o].last_seen_frame \in Nat /\ frame_index \in Nat
    BY DEF Inv, TypeOK, Track
  <2>2. \A o \in Tracked' : states'[o].last_seen_frame < frame_index'
    BY <1>1, <1>2, <2>1 DEF Inv, FrameFits
  <2> QED
    BY <1>1, <1>2, <2>1, <2>2 DEF InFrame
<1>6. FrameFits'
  <2>1. \A o \in Tracked' : states'[o].last_seen_frame <= frame_index'
    BY <1>1, <1>2, <1>5 DEF Inv, TypeOK, Track
  <2> QED
    BY <1>1, <1>5, <2>1 DEF FrameFits
<1>7. HoldersKeep'
  <2> SUFFICES ASSUME NEW o \in holders' PROVE o \in Tracked' /\ states'[o].risk_level = level'
    BY <1>3 DEF HoldersKeep, TypeOK, Levels, SAFE, CAUTION, WARN
  <2>1. o \in Tracked /\ states[o].last_seen_frame = frame_index /\ states[o].risk_level = highest
    BY <1>1 DEF InFrame
  <2>2. o \in fresh
    BY <2>1, ConstantsType DEF Fresh, Inv, TypeOK
  <2> QED
    BY <1>1, <1>2, <2>1, <2>2
<1> QED
  BY <1>3, <1>4, <1>6, <1>7 DEF Inv

LEMMA EmptyFrameInv ==
  ASSUME Inv, EmptyFrame
  PROVE  Inv'
<1>1. /\ boxes = 0 /\ frames < MaxFrames
      /\ level' = SAFE /\ holders' = {} /\ frames' = frames + 1
      /\ UNCHANGED <<states, past, frame_index, boxes, highest>>
  BY DEF EmptyFrame, Report, Inv, FrameFits
<1>2. frames' \in 0 .. MaxFrames
  BY <1>1, ConstantsType DEF Inv, TypeOK
<1>3. Tracked' = Tracked /\ InFrame' = InFrame
  BY <1>1 DEF Tracked, InFrame
<1>4. TypeOK'
  BY <1>1, <1>2, <1>3 DEF Inv, TypeOK, Track, Past, Levels
<1>5. StatesRemembered' /\ FrameFits' /\ HoldersKeep'
  BY <1>1, <1>3 DEF Inv, StatesRemembered, Remembered, FrameFits, HoldersKeep
<1> QED
  BY <1>4, <1>5 DEF Inv

LEMMA NextInv == Inv /\ [Next]_vars => Inv'
<1> SUFFICES ASSUME Inv, [Next]_vars PROVE Inv'
  OBVIOUS
<1>1. CASE UNCHANGED vars
  BY <1>1
  DEF vars, Inv, TypeOK, StatesRemembered, FrameFits, HoldersKeep, Tracked, InFrame,
      Track, Past, Levels, Remembered
<1> QED
  BY <1>1, AssessInv, EndFrameInv, EmptyFrameInv DEF Next

-----------------------------------------------------------------------------
LEMMA InvGivesStreak == Inv => TypeOK /\ AlarmNeedsStreak
<1> SUFFICES ASSUME Inv PROVE AlarmNeedsStreak
  BY DEF Inv
<1>1. ASSUME NEW o \in Tracked
      PROVE  states[o].risk_level >= CAUTION => states[o].risk_level # SAFE
  BY DEF CAUTION, SAFE
<1> QED
  BY <1>1 DEF Inv, StatesRemembered, Remembered, AlarmNeedsStreak

(***************************************************************************)
(* The risk engine's states are well typed, whatever the boxes show.       *)
(***************************************************************************)
THEOREM DetectorTypeCorrect == Spec => []TypeOK
  BY InitInv, NextInv, InvGivesStreak, PTL DEF Spec

(***************************************************************************)
(* No object raises the level from a glimpse: what was never very close    *)
(* has been seen more often than the streak of its level is long           *)
(* (approach_streak in RiskEngine.update).                                 *)
(***************************************************************************)
THEOREM DetectorNeedsStreak == Spec => []AlarmNeedsStreak
  BY InitInv, NextInv, InvGivesStreak, PTL DEF Spec

\* A level that falls was held by the hysteresis before.
LEMMA FallsAfterHold ==
  ASSUME Inv, Next, NEW o \in Tracked, o \in DOMAIN states',
         states'[o].risk_level < states[o].risk_level
  PROVE  past[o].lower >= HysteresisFrames
<1>1. states[o].risk_level \in Levels
  BY DEF Inv, TypeOK, Track
<1>2. states'[o] # states[o]
  BY <1>1 DEF Levels, SAFE, CAUTION, WARN
<1>3. ASSUME NEW x \in Objects, NEW b \in BoxesOf(x), Assess(x, b)
      PROVE  past[o].lower >= HysteresisFrames
  <2>1. x = o /\ states'[o] = Assessed(o, b)
    BY <1>2, <1>3, AssessChanges
  <2> QED
    BY <1>3, <2>1, BoxRemembered DEF StateOf, PastOf
<1>4. CASE EndFrame \/ EmptyFrame
  BY <1>2, <1>4 DEF EndFrame, EmptyFrame
<1> QED
  BY <1>3, <1>4 DEF Next

(***************************************************************************)
(* A level of an object is lowered only after HysteresisFrames boxes have  *)
(* called for less (hold_frames in RiskEngine.update).                     *)
(***************************************************************************)
THEOREM DetectorHolds == Spec => LoweredAfterHold
<1>1. Inv /\ [Next]_vars =>
        [\A o \in Tracked \cap DOMAIN states' :
           states'[o].risk_level < states[o].risk_level =>
               past[o].lower >= HysteresisFrames]_vars
  BY FallsAfterHold
<1> QED
  BY <1>1, InitInv, NextInv, PTL DEF Spec, LoweredAfterHold

(***************************************************************************)
(* The level detect returns does not fall while the object that held it is *)
(* in the picture with its id, before its hysteresis is over.              *)
(***************************************************************************)
THEOREM DetectorLevelHeld == Spec => LevelHeldInView
<1>1. ASSUME Inv, Next, level' < level, boxes > 0,
             NEW o \in (holders \cap InFrame) \ Unidentified
      PROVE  past[o].lower >= HysteresisFrames
  <2>1. EndFrame
    <3>1. level \in Levels
      BY <1>1 DEF Inv, TypeOK
    <3>2. level' # level
      BY <1>1, <3>1 DEF Levels, SAFE, CAUTION, WARN
    <3> QED
      BY <1>1, <3>2 DEF Next, Assess, EmptyFrame
  <2>2. level' = highest
    BY <2>1 DEF EndFrame, Report
  <2>3. states[o].risk_level <= highest /\ o \in Tracked
    BY <1>1 DEF Inv, FrameFits, InFrame
  <2>4. states[o].risk_level \in Levels /\ highest \in Levels /\ level \in Levels
    BY <1>1, <2>3 DEF Inv, TypeOK, Track
  <2>5. states[o].risk_level >= level \/ past[o].lower >= HysteresisFrames
    BY <1>1 DEF Inv, HoldersKeep
  <2> QED
    BY <1>1, <2>2, <2>3, <2>4, <2>5 DEF Levels, SAFE, CAUTION, WARN
<1>2. Inv /\ [Next]_vars =>
        [level' < level /\ boxes > 0 =>
           \A o \in (holders \cap InFrame) \ Unidentified :
               past[o].lower >= HysteresisFrames]_vars
  BY <1>1
<1> QED
  BY <1>2, InitInv, NextInv, PTL DEF Spec, LevelHeldInView
=============================================================================
