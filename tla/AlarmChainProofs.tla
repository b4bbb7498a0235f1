--------------------------- MODULE AlarmChainProofs ---------------------------
(***************************************************************************)
(* Proofs about the way of a danger to the LED, for any number of hub      *)
(* threads, levels, sessions and waiting signals.                          *)
(***************************************************************************)
EXTENDS AlarmChain, CartHubProofs

(***************************************************************************)
(* Types.  The hub takes the steps of CartHub, whatever the loop and the   *)
(* UI do.                                                                  *)
(***************************************************************************)
Alarm == [by : Threads \cup {NoThread}, level : Levels]

\* The parts of AlarmTypeOK that are not the hub's.
LoopTypeOK ==
    /\ danger \in Levels
    /\ last_sent_level \in Levels \cup {NoLevel}
    /\ pushing \in Threads \cup {NoThread}
    /\ level \in Levels
    /\ heard \in {"nothing", "event", "change"}
LedTypeOK ==
    /\ alarms \in Seq(Alarm)
    /\ signals \in Seq(Levels)
    /\ led \in Levels
    /\ starting \in Threads \cup {NoThread}

AlarmInv == Inv /\ LoopTypeOK /\ LedTypeOK

LEMMA AlarmInvTypeOK == AlarmInv => AlarmTypeOK
  BY InvTypeOK DEF AlarmInv, LoopTypeOK, LedTypeOK, AlarmTypeOK, Alarm

LEMMA ArrivalOf ==
  ASSUME NEW t \in Threads, ReceiveStart(t) \/ ReceiveCheckout(t) \/ \E l \in Levels : ReceiveObstacle(t, l)
  PROVE  Arrival(t)
  BY DEF Arrival

LEMMA HubGoesOnWorks ==
  ASSUME NEW t \in Threads, HubGoesOn(t)
  PROVE  Work(t)
  BY DEF HubGoesOn, HubSendsAlarm, Work, Obstacle

LEMMA ChainHub ==
  ASSUME Inv, LoopTypeOK, [ChainNext]_allVars
  PROVE  Inv'
<1>1. ASSUME NEW t \in Threads, Push(t) \/ AskStart(t) \/ AskCheckout(t)
      PROVE  Inv'
  BY <1>1, ArrivalOf, ArrivalInv DEF Push, AskStart, AskCheckout, LoopTypeOK
<1>2. ASSUME NEW t \in Threads, HubGoesOn(t) \/ HubFails(t)
      PROVE  Inv'
  BY <1>2, HubGoesOnWorks, NextInv DEF HubFails, Next
<1>3. CASE HubRestarts
  BY <1>3, RestartInv DEF HubRestarts
<1>4. CASE \/ DangerChanges \/ PushReturns \/ PushTimesOut \/ PushInVain \/ AiRestarts
           \/ StartAnswered \/ StartTimesOut \/ EmitAlarm \/ Light \/ UiRestarts
           \/ HubStopsWaiting \/ UNCHANGED allVars
  BY <1>4, AsideInv
  DEF DangerChanges, PushReturns, PushTimesOut, PushInVain, AiRestarts, StartAnswered,
      StartTimesOut, EmitAlarm, Light, UiRestarts, HubStopsWaiting, allVars, vars
<1> QED
  BY <1>1, <1>2, <1>3, <1>4 DEF ChainNext

LEMMA LoopTyped ==
  ASSUME Inv, LoopTypeOK, [ChainNext]_allVars
  PROVE  LoopTypeOK'
<1> USE DEF LoopTypeOK
<1>0. NORMAL \in Levels /\ Levels' = Levels
  BY NoJobType DEF Levels
<1>1. ASSUME NEW t \in Threads, Push(t) \/ AskStart(t) \/ AskCheckout(t)
      PROVE  LoopTypeOK'
  BY <1>0, <1>1 DEF Push, AskStart, AskCheckout, aiVars, chainVars
<1>2. ASSUME NEW t \in Threads, HubGoesOn(t)
      PROVE  LoopTypeOK'
  BY <1>0, <1>2 DEF HubGoesOn, HubSendsAlarm, Hearing, aiVars
<1>3. ASSUME NEW t \in Threads, HubFails(t)
      PROVE  LoopTypeOK'
  BY <1>0, <1>3 DEF HubFails, aiVars, chainVars
<1>4. CASE DangerChanges \/ PushReturns \/ PushTimesOut \/ PushInVain \/ AiRestarts
  BY <1>0, <1>4
  DEF DangerChanges, PushReturns, PushTimesOut, PushInVain, AiRestarts, PushEnds, aiVars
<1>5. CASE StartAnswered \/ StartTimesOut \/ EmitAlarm \/ Light \/ UiRestarts
  BY <1>0, <1>5 DEF StartAnswered, StartTimesOut, EmitAlarm, Light, UiRestarts, aiVars
<1>6. CASE HubStopsWaiting \/ HubRestarts \/ UNCHANGED allVars
  BY <1>0, <1>6 DEF HubStopsWaiting, HubRestarts, allVars, chainVars, aiVars
<1> QED
  BY <1>1, <1>2, <1>3, <1>4, <1>5, <1>6 DEF ChainNext

\* Whom an alarm at the port belongs to may be forgotten.
LEMMA AlarmsDisowned ==
  ASSUME alarms \in Seq(Alarm)
  PROVE  /\ \A i \in DOMAIN alarms : [alarms EXCEPT ![i].by = NoThread] \in Seq(Alarm)
         /\ [i \in DOMAIN alarms |-> [alarms[i] EXCEPT !.by = NoThread]] \in Seq(Alarm)
<1>1. /\ Len(alarms) \in Nat /\ DOMAIN alarms = 1 .. Len(alarms)
      /\ \A i \in DOMAIN alarms : alarms[i] \in Alarm
  BY LenProperties, ElementOfSeq
<1>2. \A i \in DOMAIN alarms : [alarms[i] EXCEPT !.by = NoThread] \in Alarm
  BY <1>1 DEF Alarm
<1>3. ASSUME NEW i \in DOMAIN alarms
      PROVE  [alarms EXCEPT ![i].by = NoThread] \in Seq(Alarm)
  <2> DEFINE a == [alarms[i] EXCEPT !.by = NoThread]
  <2>1. a \in Alarm
    BY <1>2
  <2>2. [alarms EXCEPT ![i] = a] \in Seq(Alarm)
    BY <1>1, <2>1, ExceptSeq
  <2> QED
    BY <2>2
<1>4. [i \in DOMAIN alarms |-> [alarms[i] EXCEPT !.by = NoThread]] \in Seq(Alarm)
  BY <1>1, <1>2, SeqOfFunction
<1> QED
  BY <1>3, <1>4

LEMMA LedTyped ==
  ASSUME Inv, LedTypeOK, [ChainNext]_allVars
  PROVE  LedTypeOK'
<1> USE DEF LedTypeOK
<1>0. NORMAL \in Levels /\ Levels' = Levels /\ <<>> \in Seq(Alarm) /\ <<>> \in Seq(Levels)
  BY NoJobType, EmptySeq DEF Levels
<1>1. ASSUME NEW t \in Threads, Push(t) \/ AskStart(t) \/ AskCheckout(t)
      PROVE  LedTypeOK'
  BY <1>0, <1>1 DEF Push, AskStart, AskCheckout, ledVars, chainVars
<1>2. ASSUME NEW t \in Threads, HubSendsAlarm(t)
      PROVE  LedTypeOK'
  <2>1. [by |-> t, level |-> job[t].level] \in Alarm
    BY JobType DEF Alarm
  <2> QED
    BY <1>0, <1>2, <2>1, AppendProperties DEF HubSendsAlarm
<1>3. ASSUME NEW t \in Threads, HubGoesOn(t) \/ HubFails(t), ~ HubSendsAlarm(t)
      PROVE  LedTypeOK'
  BY <1>0, <1>3 DEF HubGoesOn, HubFails, ledVars, chainVars
<1>4. CASE \/ DangerChanges \/ PushReturns \/ PushTimesOut \/ PushInVain \/ AiRestarts
           \/ UNCHANGED allVars
  BY <1>0, <1>4
  DEF DangerChanges, PushReturns, PushTimesOut, PushInVain, AiRestarts, PushEnds, ledVars,
      allVars, chainVars
<1>5. CASE StartAnswered \/ StartTimesOut \/ UiRestarts
  BY <1>0, <1>5 DEF StartAnswered, StartTimesOut, UiRestarts
<1>6. CASE EmitAlarm
  <2>1. Head(alarms) \in Alarm /\ Tail(alarms) \in Seq(Alarm)
    BY <1>6, HeadTailProperties DEF EmitAlarm
  <2>2. Head(alarms).level \in Levels
    BY <2>1 DEF Alarm
  <2> QED
    BY <1>0, <1>6, <2>1, <2>2, AppendProperties DEF EmitAlarm
<1>7. CASE Light
  BY <1>0, <1>7, HeadTailProperties DEF Light
<1>8. CASE HubStopsWaiting \/ HubRestarts
  BY <1>0, <1>8, AlarmsDisowned DEF HubStopsWaiting, HubRestarts
<1> QED
  BY <1>1, <1>2, <1>3, <1>4, <1>5, <1>6, <1>7, <1>8 DEF ChainNext, HubGoesOn

LEMMA AlarmInit == ChainInit => AlarmInv
  BY InitInv, NoJobType, EmptySeq DEF ChainInit, AlarmInv, LoopTypeOK, LedTypeOK

LEMMA AlarmNext == AlarmInv /\ [ChainNext]_allVars => AlarmInv'
  BY ChainHub, LoopTyped, LedTyped DEF AlarmInv

(***************************************************************************)
(* Loop, hub and UI hold values of their types for any number of threads,  *)
(* with messages given up, and with every part restarted at any moment.    *)
(***************************************************************************)
THEOREM AlarmTypeCorrect == ChainSpec => []AlarmTypeOK
  BY AlarmInit, AlarmNext, AlarmInvTypeOK, PTL DEF ChainSpec

-----------------------------------------------------------------------------
(***************************************************************************)
(* What holds while there is no fault.  An event has one handler, the one  *)
(* the loop waits for: it works, or its alarm is at the UI's port, or it   *)
(* is at rest.  What the LED will show once all that is on its way has     *)
(* come follows from there.                                                *)
(***************************************************************************)
\* Where the handler of the loop's event is.
EventAt == IF pushing = NoThread THEN "idle" ELSE pc[pushing]

OneEvent ==
    /\ \A t \in Threads : pc[t] \in ObstacleLabels => t = pushing
    /\ EventAt \in ObstacleLabels \cup {"idle"}
    /\ EventAt # "idle" => alarms = <<>> /\ job[pushing].level = level
    /\ \/ alarms = <<>>
       \/ pushing # NoThread /\ alarms = <<[by |-> pushing, level |-> level]>>

\* The level the LED ends with.
LastOf(s, l) == IF s = <<>> THEN l ELSE s[Len(s)]
Coming ==
    IF EventAt = "send_alarm" \/ alarms # <<>> THEN level ELSE LastOf(signals, led)

\* The engine's level is on its way to the LED, or there.  After a reset the
\* engine has the level it begins with, and the LED what it had before.
LedFollows ==
    last_obstacle_level # NORMAL \/ heard = "change" => Coming = last_obstacle_level

\* The level of the loop's last event, and whether the engine has compared it.
SentLevel == IF pushing = NoThread THEN last_sent_level ELSE level
Compared == EventAt \notin {"obstacle", "compare"}

\* What the loop takes for sent is what the engine has.
EngineFollows == heard # "nothing" /\ Compared => last_obstacle_level = SentLevel

Follows == OneEvent /\ LedFollows /\ EngineFollows

-----------------------------------------------------------------------------
\* Steps of handlers that are not about an obstacle.
NoObstacleStep(t) ==
    /\ pc[t] \notin ObstacleLabels \cup {"idle"}
    /\ pc'[t] \notin ObstacleLabels
    /\ OthersStay(t)
    /\ last_obstacle_level' = IF Resets(t) THEN NORMAL ELSE last_obstacle_level

LEMMA StartStep ==
  ASSUME HandlersTypeOK, NEW t \in Threads, Start(t)
  PROVE  NoObstacleStep(t)
<1>1. OthersStay(t)
  BY WorkOthersStay DEF Work
<1>2. /\ pc[t] \in StartLabels
      /\ pc'[t] \in StartLabels \cup {"idle"}
  BY GoFacts, DoneFacts
  DEF Start, StartBegin, StartEndPrevious, StartReset, StartInsert, StartAssign, StartReply,
      StartLabels, BeforeInsert
<1>3. last_obstacle_level' = IF Resets(t) THEN NORMAL ELSE last_obstacle_level
  BY DEF Start, StartBegin, StartEndPrevious, StartReset, StartInsert, StartAssign, StartReply,
         reset, Resets, hubVars
<1> QED
  BY <1>1, <1>2, <1>3 DEF NoObstacleStep, StartLabels, BeforeInsert, ObstacleLabels

LEMMA CheckoutStep ==
  ASSUME HandlersTypeOK, NEW t \in Threads, Checkout(t)
  PROVE  NoObstacleStep(t)
<1>1. OthersStay(t)
  BY WorkOthersStay DEF Work
<1>2. /\ pc[t] \in CheckoutLabels
      /\ pc'[t] \in CheckoutLabels \cup {"idle"}
  BY GoFacts, DoneFacts
  DEF Checkout, CheckoutBegin, CheckoutList, CheckoutCreateOrder, CheckoutOrderRefused,
      CheckoutAddDetail, CheckoutEndSession, CheckoutNotify, CheckoutClear, CheckoutReset,
      CheckoutLabels
<1>3. last_obstacle_level' = IF Resets(t) THEN NORMAL ELSE last_obstacle_level
  BY DEF Checkout, CheckoutBegin, CheckoutList, CheckoutCreateOrder, CheckoutOrderRefused,
         CheckoutAddDetail, CheckoutEndSession, CheckoutNotify, CheckoutClear, CheckoutReset,
         reset, Resets, hubVars
<1> QED
  BY <1>1, <1>2, <1>3 DEF NoObstacleStep, CheckoutLabels, ObstacleLabels

LEMMA CartStep ==
  ASSUME HandlersTypeOK, NEW t \in Threads, ChangeCart(t)
  PROVE  NoObstacleStep(t)
<1>1. OthersStay(t)
  BY WorkOthersStay DEF Work
<1>2. /\ pc[t] \in CartLabels
      /\ pc'[t] \in CartLabels \cup {"idle"}
  BY GoFacts, DoneFacts
  DEF ChangeCart, UpdateDelete, UpdateInsert, UpdateInsertRefused, RemoveItem, ProductBegin,
      ProductTake, ProductDuplicate, ProductNew, ProductNotAdded, ProductAdd, ListAgain, SendCart,
      CartLabels
<1>3. last_obstacle_level' = last_obstacle_level
  BY DEF ChangeCart, UpdateDelete, UpdateInsert, UpdateInsertRefused, RemoveItem, ProductBegin,
         ProductTake, ProductDuplicate, ProductNew, ProductNotAdded, ProductAdd, ListAgain,
         SendCart, hubVars
<1> QED
  BY <1>1, <1>2, <1>3 DEF NoObstacleStep, CartLabels, ObstacleLabels, Resets

-----------------------------------------------------------------------------
LEMMA FollowsFacts ==
  ASSUME AlarmInv, Follows
  PROVE  /\ Inv /\ HandlersTypeOK /\ LoopTypeOK /\ LedTypeOK
         /\ OneEvent /\ LedFollows /\ EngineFollows
         /\ pushing = NoThread => EventAt = "idle" /\ alarms = <<>>
         /\ pushing # NoThread => pushing \in Threads /\ EventAt = pc[pushing]
         /\ NoThread \notin Threads
         /\ "idle" \notin ObstacleLabels
  BY NoThreadAssumption DEF AlarmInv, Inv, LoopTypeOK, Follows, OneEvent, EventAt, ObstacleLabels

\* A handler t that has no event works on; it may reset the engine.
LEMMA FollowsElsewhere ==
  ASSUME AlarmInv, Follows, NEW t \in Threads, OthersStay(t), t # pushing,
         pc'[t] \notin ObstacleLabels,
         UNCHANGED <<last_sent_level, pushing, level, alarms, signals, led>>,
         \/ UNCHANGED <<last_obstacle_level, heard>>
         \/ last_obstacle_level' = NORMAL /\ heard' = "nothing"
  PROVE  Follows'
<1> USE FollowsFacts
<1>1. /\ EventAt' = EventAt
      /\ EventAt # "idle" => job'[pushing] = job[pushing]
  BY DEF EventAt, OthersStay
<1>2. OneEvent'
  BY <1>1 DEF OneEvent, OthersStay, ObstacleLabels
<1>3. Coming' = Coming /\ SentLevel' = SentLevel /\ (Compared' <=> Compared)
  BY <1>1 DEF Coming, SentLevel, Compared, LastOf
<1>4. LedFollows' /\ EngineFollows'
  BY <1>3 DEF LedFollows, EngineFollows, NORMAL
<1> QED
  BY <1>2, <1>4 DEF Follows

\* Steps between the port and the LED.
LEMMA FollowsAtUi ==
  ASSUME AlarmInv, Follows, Coming' = Coming,
         UNCHANGED <<pc, job, last_obstacle_level, heard, last_sent_level, pushing, level>>,
         alarms' = alarms \/ alarms' = <<>>
  PROVE  Follows'
<1> USE FollowsFacts
<1>1. EventAt' = EventAt
  BY DEF EventAt
<1>2. OneEvent'
  BY <1>1 DEF OneEvent, ObstacleLabels
<1>3. SentLevel' = SentLevel /\ (Compared' <=> Compared)
  BY <1>1 DEF SentLevel, Compared
<1>4. LedFollows' /\ EngineFollows'
  BY <1>3 DEF LedFollows, EngineFollows, NORMAL
<1> QED
  BY <1>2, <1>4 DEF Follows

LEMMA ArrivalFollows ==
  ASSUME AlarmInv, Follows, NEW t \in Threads, AskStart(t) \/ AskCheckout(t)
  PROVE  Follows'
<1> USE FollowsFacts
<1>1. /\ pc'[t] \in {"start", "checkout"} /\ OthersStay(t)
      /\ UNCHANGED <<hubVars, aiVars, alarms, signals, led, heard>>
      /\ t # pushing
  BY GoFacts
  DEF AskStart, AskCheckout, Fresh, ReceiveStart, ReceiveCheckout, Receive, chainVars, ledVars
<1> QED
  BY <1>1, FollowsElsewhere DEF hubVars, aiVars, ObstacleLabels

LEMMA PushFollows ==
  ASSUME AlarmInv, Follows, NEW t \in Threads, Push(t)
  PROVE  Follows'
<1> USE FollowsFacts
<1>1. /\ pushing = NoThread /\ alarms = <<>> /\ EventAt = "idle"
      /\ pushing' = t /\ level' = danger /\ danger \in Levels
      /\ UNCHANGED <<hubVars, last_sent_level, alarms, signals, led, heard>>
  BY DEF Push, ledVars, LoopTypeOK, ReceiveObstacle, Receive
<1>2. /\ pc'[t] = "obstacle" /\ OthersStay(t)
      /\ job'[t] = [NoJob EXCEPT !.level = danger]
  BY GoFacts DEF Push, ReceiveObstacle, Receive
<1>3. job'[t].level = danger
  BY <1>2 DEF NoJob
<1>4. EventAt' = "obstacle"
  BY <1>1, <1>2 DEF EventAt
<1>5. OneEvent'
  BY <1>1, <1>2, <1>3, <1>4 DEF OneEvent, OthersStay, ObstacleLabels
<1>6. Coming' = Coming
  BY <1>1, <1>4 DEF Coming, LastOf
<1>7. LedFollows' /\ EngineFollows'
  BY <1>1, <1>4, <1>6 DEF LedFollows, EngineFollows, Compared, hubVars, NORMAL
<1> QED
  BY <1>5, <1>7 DEF Follows

LEMMA PushReturnsFollows ==
  ASSUME AlarmInv, Follows, PushReturns
  PROVE  Follows'
<1> USE FollowsFacts
<1>1. /\ pushing # NoThread /\ EventAt = "idle"
      /\ \A i \in DOMAIN alarms : alarms[i].by # pushing
      /\ pushing' = NoThread /\ last_sent_level' = level
      /\ UNCHANGED <<vars, alarms, signals, led, heard>>
  BY DEF PushReturns, PushEnds, AtRest, ledVars
<1>2. alarms = <<>>
  <2>1. SUFFICES ASSUME alarms = <<[by |-> pushing, level |-> level]>> PROVE FALSE
    BY DEF OneEvent
  <2>2. 1 \in DOMAIN alarms /\ alarms[1].by = pushing
    BY <2>1
  <2> QED
    BY <1>1, <2>2
<1>3. EventAt' = "idle" /\ SentLevel' = SentLevel /\ Compared /\ Coming' = Coming
  BY <1>1, <1>2 DEF EventAt, SentLevel, Compared, Coming, LastOf
<1>4. OneEvent'
  <2>1. \A t \in Threads : pc[t] \notin ObstacleLabels
    BY <1>1 DEF OneEvent, EventAt
  <2> QED
    BY <1>1, <1>2, <1>3, <2>1 DEF OneEvent, vars, ObstacleLabels
<1>5. LedFollows' /\ EngineFollows'
  BY <1>1, <1>3 DEF LedFollows, EngineFollows, vars, hubVars, NORMAL
<1> QED
  BY <1>4, <1>5 DEF Follows

-----------------------------------------------------------------------------
\* The handler of the loop's event.
LEMMA SendAlarmFollows ==
  ASSUME AlarmInv, Follows, NEW t \in Threads, HubSendsAlarm(t)
  PROVE  Follows'
<1> USE FollowsFacts
<1>1. /\ t = pushing /\ EventAt = "send_alarm" /\ alarms = <<>> /\ job[t].level = level
      /\ pc[t] = "send_alarm"
  BY DEF HubSendsAlarm, SendAlarm, OneEvent, EventAt, ObstacleLabels
<1>2. /\ pc'[t] = "idle" /\ OthersStay(t)
      /\ alarms' = <<[by |-> t, level |-> level]>>
      /\ UNCHANGED <<hubVars, last_sent_level, pushing, level, heard>>
  BY <1>1, DoneFacts DEF HubSendsAlarm, SendAlarm, aiVars
<1>3. EventAt' = "idle" /\ SentLevel' = SentLevel /\ Compared /\ Coming' = level /\ Coming = level
  <2>1. alarms' # <<>>
    BY <1>2
  <2> QED
    BY <1>1, <1>2, <2>1 DEF EventAt, SentLevel, Compared, Coming
<1>4. OneEvent'
  BY <1>1, <1>2, <1>3 DEF OneEvent, OthersStay, ObstacleLabels
<1>5. LedFollows' /\ EngineFollows'
  BY <1>2, <1>3 DEF LedFollows, EngineFollows, hubVars, NORMAL
<1> QED
  BY <1>4, <1>5 DEF Follows

LEMMA ObstacleFollows ==
  ASSUME AlarmInv, Follows, NEW t \in Threads, Obstacle(t), pc[t] # "send_alarm",
         heard' = Hearing(t), UNCHANGED <<aiVars, ledVars>>
  PROVE  Follows'
<1> USE FollowsFacts
<1>1. pc[t] \in {"obstacle", "compare"} /\ ~ Resets(t)
  BY DEF Obstacle, ObstacleDropped, ObstacleLog, ObstacleUnchanged, ObstacleChanged, SendAlarm, Resets
<1>2. t = pushing /\ EventAt = pc[t] /\ alarms = <<>> /\ job[t].level = level
  BY <1>1 DEF OneEvent, EventAt, ObstacleLabels
<1>3. /\ pc'[t] \in {"idle", "compare", "send_alarm"} /\ OthersStay(t)
      /\ pc'[t] # "idle" => job'[t] = job[t]
  BY GoFacts, DoneFacts
  DEF Obstacle, ObstacleDropped, ObstacleLog, ObstacleUnchanged, ObstacleChanged, SendAlarm
<1>4. UNCHANGED <<last_sent_level, pushing, level, alarms, signals, led>>
  BY DEF aiVars, ledVars
<1>5. EventAt' = pc'[t] /\ SentLevel' = level
  BY <1>2, <1>4 DEF EventAt, SentLevel
<1>6. OneEvent'
  BY <1>2, <1>3, <1>4, <1>5 DEF OneEvent, OthersStay, ObstacleLabels
<1>7. pc'[t] # "send_alarm" => Coming' = Coming
  BY <1>1, <1>2, <1>4, <1>5 DEF Coming, LastOf
<1>8. CASE ObstacleDropped(t)
  <2>1. pc'[t] = "idle" /\ heard' = "nothing" /\ last_obstacle_level' = last_obstacle_level
    BY <1>8, DoneFacts DEF ObstacleDropped, Hearing, Drops, hubVars
  <2>2. LedFollows' /\ EngineFollows'
    BY <1>7, <2>1 DEF LedFollows, EngineFollows, NORMAL
  <2> QED
    BY <1>6, <2>2 DEF Follows
<1>9. CASE ObstacleLog(t)
  <2>1. /\ pc'[t] = "compare" /\ last_obstacle_level' = last_obstacle_level
        /\ heard' = "change" => heard = "change"
    BY <1>1, <1>9, GoFacts DEF ObstacleLog, Hearing, Drops, hubVars
  <2>2. LedFollows' /\ EngineFollows'
    BY <1>5, <1>7, <2>1 DEF LedFollows, EngineFollows, Compared, NORMAL
  <2> QED
    BY <1>6, <2>2 DEF Follows
<1>10. CASE ObstacleUnchanged(t)
  <2>1. /\ pc'[t] = "idle" /\ last_obstacle_level' = last_obstacle_level /\ heard' = heard
        /\ last_obstacle_level = level
    BY <1>1, <1>2, <1>10, DoneFacts DEF ObstacleUnchanged, Hearing, Drops, hubVars
  <2>2. LedFollows' /\ EngineFollows'
    BY <1>5, <1>7, <2>1 DEF LedFollows, EngineFollows, NORMAL
  <2> QED
    BY <1>6, <2>2 DEF Follows
<1>11. CASE ObstacleChanged(t)
  <2>1. pc'[t] = "send_alarm" /\ last_obstacle_level' = level
    BY <1>2, <1>11, GoFacts DEF ObstacleChanged
  <2>2. Coming' = level
    BY <1>4, <1>5, <2>1 DEF Coming
  <2>3. LedFollows' /\ EngineFollows'
    BY <1>5, <2>1, <2>2 DEF LedFollows, EngineFollows
  <2> QED
    BY <1>6, <2>3 DEF Follows
<1> QED
  BY <1>8, <1>9, <1>10, <1>11 DEF Obstacle, SendAlarm

LEMMA HubFollows ==
  ASSUME AlarmInv, Follows, NEW t \in Threads, HubGoesOn(t)
  PROVE  Follows'
<1> USE FollowsFacts
<1>1. CASE HubSendsAlarm(t)
  BY <1>1, SendAlarmFollows
<1>2. CASE /\ Work(t) /\ pc[t] # "send_alarm" /\ heard' = Hearing(t)
           /\ UNCHANGED <<danger, aiVars, ledVars>>
  <2>1. CASE Obstacle(t)
    BY <1>2, <2>1, ObstacleFollows
  <2>2. CASE NoObstacleStep(t)
    <3>1. /\ t # pushing /\ pc[t] # "obstacle"
      BY <2>2 DEF NoObstacleStep, OneEvent, EventAt, ObstacleLabels
    <3>2. \/ UNCHANGED <<last_obstacle_level, heard>>
          \/ last_obstacle_level' = NORMAL /\ heard' = "nothing"
      BY <1>2, <2>2, <3>1 DEF NoObstacleStep, Hearing, Drops
    <3> QED
      BY <1>2, <2>2, <3>1, <3>2, FollowsElsewhere DEF NoObstacleStep, aiVars, ledVars
  <2> QED
    BY <1>2, <2>1, <2>2, StartStep, CheckoutStep, CartStep DEF Work
<1> QED
  BY <1>1, <1>2 DEF HubGoesOn

-----------------------------------------------------------------------------
\* The UI takes an alarm, and lights it: the level to come stays the same.
LEMMA LastAppended ==
  ASSUME NEW s \in Seq(Levels), NEW l \in Levels, NEW k
  PROVE  LastOf(Append(s, l), k) = l
<1>1. /\ Append(s, l) # <<>> /\ Len(Append(s, l)) = Len(s) + 1
      /\ Append(s, l)[Len(s) + 1] = l
  BY AppendProperties
<1> QED
  BY <1>1 DEF LastOf

LEMMA LastOfTail ==
  ASSUME NEW s \in Seq(Levels), s # <<>>, NEW k
  PROVE  LastOf(Tail(s), Head(s)) = LastOf(s, k)
<1>1. /\ Tail(s) \in Seq(Levels) /\ Len(Tail(s)) = Len(s) - 1
      /\ \A i \in 1 .. Len(Tail(s)) : Tail(s)[i] = s[i + 1]
      /\ Len(s) \in Nat \ {0}
  BY HeadTailProperties, EmptySeq
<1>2. CASE Tail(s) = <<>>
  <2>1. Len(s) = 1
    BY <1>1, <1>2, EmptySeq
  <2>2. Head(s) = s[1]
    OBVIOUS
  <2> QED
    BY <1>2, <2>1, <2>2 DEF LastOf
<1>3. CASE Tail(s) # <<>>
  <2>1. Len(Tail(s)) \in Nat \ {0}
    BY <1>1, <1>3, EmptySeq
  <2>2. Tail(s)[Len(Tail(s))] = s[Len(s)]
    BY <1>1, <2>1
  <2> QED
    BY <1>3, <2>2 DEF LastOf
<1> QED
  BY <1>2, <1>3

LEMMA EmitFollows ==
  ASSUME AlarmInv, Follows, EmitAlarm
  PROVE  Follows'
<1> USE FollowsFacts
<1> DEFINE a == [by |-> pushing, level |-> level]
<1>1. alarms = <<a>> /\ EventAt = "idle"
  BY DEF EmitAlarm, OneEvent
<1>2. Head(alarms) = a /\ Tail(alarms) = <<>>
  BY <1>1
<1>3. signals' = Append(signals, level) /\ alarms' = <<>>
  BY <1>2 DEF EmitAlarm
<1>4. UNCHANGED <<pc, job, last_obstacle_level, heard, last_sent_level, pushing, level, led>>
  BY DEF EmitAlarm, vars, hubVars, aiVars
<1>5. EventAt' = "idle"
  BY <1>1, <1>4 DEF EventAt
<1>6. Coming' = LastOf(signals', led')
  BY <1>3, <1>5 DEF Coming
<1>7. LastOf(signals', led') = level
  BY <1>3, LastAppended DEF LoopTypeOK, LedTypeOK
<1>8. Coming = level
  BY <1>1 DEF Coming, EmitAlarm
<1> QED
  BY <1>3, <1>4, <1>6, <1>7, <1>8, FollowsAtUi

LEMMA LightFollows ==
  ASSUME AlarmInv, Follows, Light
  PROVE  Follows'
<1> USE FollowsFacts
<1>1. UNCHANGED <<pc, job, last_obstacle_level, heard, last_sent_level, pushing, level, alarms>>
  BY DEF Light, vars, hubVars, aiVars
<1>2. LastOf(signals', led') = LastOf(signals, led)
  BY LastOfTail DEF Light, LedTypeOK
<1>3. Coming' = Coming
  BY <1>1, <1>2 DEF Coming, EventAt
<1> QED
  BY <1>1, <1>3, FollowsAtUi

LEMMA AsideFollows ==
  ASSUME AlarmInv, Follows, DangerChanges \/ StartAnswered \/ UNCHANGED allVars
  PROVE  Follows'
<1>1. /\ UNCHANGED <<pc, job, last_obstacle_level, heard, last_sent_level, pushing, level>>
      /\ UNCHANGED <<alarms, signals, led>>
  BY DEF DangerChanges, StartAnswered, allVars, chainVars, vars, hubVars, aiVars, ledVars
<1>2. Coming' = Coming
  BY <1>1 DEF Coming, EventAt, LastOf
<1> QED
  BY <1>1, <1>2, FollowsAtUi

\* Faults are counted, and never taken back.
LEMMA ChainFaults ==
  ASSUME [ChainNext]_allVars
  PROVE  /\ faults' = faults \/ Fault
         /\ \/ Fault
            \/ \E t \in Threads : Push(t) \/ AskStart(t) \/ AskCheckout(t) \/ HubGoesOn(t)
            \/ PushReturns \/ EmitAlarm \/ Light
            \/ DangerChanges \/ StartAnswered \/ UNCHANGED allVars
<1>1. ASSUME NEW t \in Threads, Push(t) \/ AskStart(t) \/ AskCheckout(t)
      PROVE  faults' = faults
  BY <1>1
  DEF Push, AskStart, AskCheckout, ReceiveObstacle, ReceiveStart, ReceiveCheckout, Receive
<1>2. ASSUME NEW t \in Threads, HubGoesOn(t)
      PROVE  faults' = faults \/ Fault
  BY <1>2, HubGoesOnWorks, FaultsCounted DEF Next
<1>3. ASSUME NEW t \in Threads, HubFails(t)
      PROVE  Fault
  BY <1>3 DEF HubFails, DatabaseRaises, SendLost
<1>4. PushTimesOut \/ PushInVain \/ AiRestarts \/ StartTimesOut \/ UiRestarts
          \/ HubStopsWaiting \/ HubRestarts => Fault
  BY DEF PushTimesOut, PushInVain, AiRestarts, StartTimesOut, UiRestarts, HubStopsWaiting,
         HubRestarts, Restart
<1>5. PushReturns \/ EmitAlarm \/ Light \/ DangerChanges \/ StartAnswered \/ UNCHANGED allVars
          => faults' = faults
  BY DEF PushReturns, EmitAlarm, Light, DangerChanges, StartAnswered, allVars, vars
<1> QED
  BY <1>1, <1>2, <1>3, <1>4, <1>5 DEF ChainNext

LEMMA FollowsNext ==
  ASSUME AlarmInv, faults = 0 => Follows, [ChainNext]_allVars, faults' = 0
  PROVE  Follows'
<1>1. ~ Fault /\ faults = 0
  BY ChainFaults, BoundsAssumption DEF Fault, AlarmInv, Inv, FaultsTypeOK
<1> QED
  BY <1>1, ChainFaults, PushFollows, ArrivalFollows, HubFollows, PushReturnsFollows,
     EmitFollows, LightFollows, AsideFollows

LEMMA FollowsInit == ChainInit => Follows
<1> SUFFICES ASSUME ChainInit PROVE Follows
  OBVIOUS
<1>1. pushing = NoThread /\ EventAt = "idle" /\ \A t \in Threads : pc[t] = "idle"
  BY DEF ChainInit, Init, EventAt
<1> QED
  BY <1>1 DEF ChainInit, Init, Follows, OneEvent, LedFollows, EngineFollows, ObstacleLabels

(***************************************************************************)
(* For any number of hub threads and sessions: as long as no fault has     *)
(* happened, once the engine has been told of an event and none was        *)
(* dropped since, a raised level is on the LED whenever nothing is at      *)
(* work, and after a change so is a lowered one.  The loop compares with   *)
(* what it sent, the engine with what it was told, and neither sees the    *)
(* LED (_obstacle_inference_loop, process_obstacle_event, set_level).      *)
(***************************************************************************)
THEOREM AlarmLedShowsDanger == ChainSpec => []LedShowsDanger
<1>1. AlarmInv /\ (faults = 0 => Follows) => LedShowsDanger
  <2> SUFFICES ASSUME AlarmInv, Follows, Calm, Heeded
               PROVE  /\ danger # NORMAL => led = danger
                      /\ heard = "change" => led = danger
    BY DEF LedShowsDanger, Heeded
  <2>1. EventAt = "idle" /\ Coming = led /\ Compared /\ SentLevel = danger
    BY DEF Calm, EventAt, Coming, LastOf, Compared, SentLevel
  <2>2. last_obstacle_level = danger
    BY <2>1 DEF Heeded, Follows, EngineFollows
  <2> QED
    BY <2>1, <2>2 DEF Follows, LedFollows
<1>2. ChainInit => AlarmInv /\ (faults = 0 => Follows)
  BY AlarmInit, FollowsInit
<1>3. AlarmInv /\ (faults = 0 => Follows) /\ [ChainNext]_allVars
          => AlarmInv' /\ (faults = 0 => Follows)'
  BY AlarmNext, FollowsNext
<1> QED
  BY <1>1, <1>2, <1>3, PTL DEF ChainSpec
=============================================================================
