----------------------------- MODULE AlarmChain -----------------------------
(***************************************************************************)
(* How a danger in front of the cart reaches the LED: the obstacle loop of *)
(* the AI server (AIServer._obstacle_inference_loop and _push_event,       *)
(* src/src/ai_server.py), the hub, and the UI's TCP and GUI threads        *)
(* (src/src/ui/ui_controller_v2.py, LEDWidget of dashboard_v2.py).         *)
(*                                                                         *)
(* The loop sends a level only when it differs from the last one it sent,  *)
(* and waits for the hub's answer before it goes on.  It does not look at  *)
(* the answer: what the hub dropped, or what did not reach it, counts as   *)
(* sent.                                                                   *)
(*                                                                         *)
(* The hub's handler waits in send_request until the UI's TCP thread has   *)
(* taken SHOW_ALARM; the GUI thread, which lights the LED, serves signals  *)
(* except while it waits for the answer to START_SESSION.                  *)
(***************************************************************************)
EXTENDS CartHub

CONSTANTS
    NoThread,      \* none of the hub's threads
    NoLevel,       \* the None last_sent_level begins with
    MaxSignals     \* bound: signals waiting for the GUI thread

ASSUME NoThreadAssumption == NoThread \notin Threads
ASSUME NoLevelAssumption == NoLevel \notin Nat
ASSUME MaxSignalsAssumption == MaxSignals \in Nat \ {0}

VARIABLES
    danger,            \* the level detect returns for the present picture
    last_sent_level,   \* of _obstacle_inference_loop
    pushing,           \* the hub thread with the event _push_event waits for
    level,             \* the level of that event
    alarms,            \* SHOW_ALARM at the UI's port, in order: each with the
                       \* hub thread waiting for it, NoThread if none does
    signals,           \* danger_updated on the way to the GUI thread
    led,               \* LEDWidget.current_level
    starting,          \* the hub thread whose START_SESSION the GUI waits for
    heard              \* history: what the engine has been told since it was
                       \* last reset, and since the hub last dropped an event
                       \* for want of a session: "nothing", an "event", or a
                       \* "change" of the level

aiVars == <<last_sent_level, pushing, level>>
ledVars == <<alarms, signals, led, starting>>
chainVars == <<danger, aiVars, ledVars, heard>>
allVars == <<vars, chainVars>>

AlarmTypeOK ==
    /\ TypeOK
    /\ danger \in Levels
    /\ last_sent_level \in Levels \cup {NoLevel}
    /\ pushing \in Threads \cup {NoThread}
    /\ level \in Levels
    /\ alarms \in Seq([by : Threads \cup {NoThread}, level : Levels])
    /\ signals \in Seq(Levels)
    /\ led \in Levels
    /\ starting \in Threads \cup {NoThread}
    /\ heard \in {"nothing", "event", "change"}

ChainInit ==
    /\ Init
    /\ danger = NORMAL
    /\ last_sent_level = NoLevel
    /\ pushing = NoThread
    /\ level = NORMAL
    /\ alarms = <<>>
    /\ signals = <<>>
    /\ led = NORMAL
    /\ starting = NoThread
    /\ heard = "nothing"

\* The thread neither works nor waits in send_request for the UI.
AtRest(t) == pc[t] = "idle" /\ \A i \in DOMAIN alarms : alarms[i].by # t

\* A new connection gets a thread of its own.
Fresh(t) == AtRest(t) /\ t # pushing /\ t # starting

-----------------------------------------------------------------------------
\* The AI server's obstacle loop

\* The picture changes.
DangerChanges ==
    /\ danger' \in Levels \ {danger}
    /\ UNCHANGED <<vars, aiVars, ledVars, heard>>

\* A level that was not the last one sent goes to the hub.
Push(t) ==
    /\ pushing = NoThread
    /\ danger # last_sent_level
    /\ Fresh(t)
    /\ ReceiveObstacle(t, danger)
    /\ pushing' = t
    /\ level' = danger
    /\ UNCHANGED <<danger, last_sent_level, ledVars, heard>>

PushEnds(l) ==
    /\ last_sent_level' = l
    /\ pushing' = NoThread
    /\ level' = NORMAL
    /\ UNCHANGED <<danger, ledVars, heard>>

\* The hub has answered, {} or the status.
PushReturns ==
    /\ pushing # NoThread
    /\ AtRest(pushing)
    /\ PushEnds(level)
    /\ UNCHANGED vars

\* TCPClient gives up after 5 s; the handler in the hub goes on.
PushTimesOut ==
    /\ pushing # NoThread
    /\ ~ AtRest(pushing)
    /\ Fault
    /\ PushEnds(level)
    /\ UNCHANGED <<dbVars, hubVars, pc, job, receipts>>

\* The hub cannot be reached.
PushInVain ==
    /\ pushing = NoThread
    /\ danger # last_sent_level
    /\ Fault
    /\ PushEnds(danger)
    /\ UNCHANGED <<dbVars, hubVars, pc, job, receipts>>

\* The AI server is started again; what it has asked the hub goes on there.
AiRestarts ==
    /\ Fault
    /\ PushEnds(NoLevel)
    /\ UNCHANGED <<dbVars, hubVars, pc, job, receipts>>

-----------------------------------------------------------------------------
\* The UI

\* The GUI thread serves a click after the signals before it.
Served == starting = NoThread /\ signals = <<>>

AskStart(t) ==
    /\ Served
    /\ Fresh(t)
    /\ ReceiveStart(t)
    /\ starting' = t
    /\ UNCHANGED <<danger, aiVars, alarms, signals, led, heard>>

AskCheckout(t) ==
    /\ Served
    /\ Fresh(t)
    /\ ReceiveCheckout(t)
    /\ UNCHANGED chainVars

\* START_SESSION is answered, or the connection is gone with the hub ...
StartAnswered ==
    /\ starting # NoThread
    /\ AtRest(starting)
    /\ starting' = NoThread
    /\ UNCHANGED <<vars, danger, aiVars, alarms, signals, led, heard>>

\* ... or 5 s have passed.
StartTimesOut ==
    /\ starting # NoThread
    /\ Fault
    /\ starting' = NoThread
    /\ UNCHANGED <<dbVars, hubVars, pc, job, receipts>>
    /\ UNCHANGED <<danger, aiVars, alarms, signals, led, heard>>

\* _tcp_server_loop: one connection after the other; when it closes one,
\* send_request returns in the hub.
EmitAlarm ==
    /\ alarms # <<>>
    /\ Len(signals) < MaxSignals
    /\ signals' = Append(signals, Head(alarms).level)
    /\ alarms' = Tail(alarms)
    /\ UNCHANGED <<vars, danger, aiVars, led, starting, heard>>

\* Mutant: the LED is left as it is when the danger is over.
LightRaised ==
    /\ starting = NoThread
    /\ signals # <<>>
    /\ led' = IF Head(signals) = NORMAL THEN led ELSE Head(signals)
    /\ signals' = Tail(signals)
    /\ UNCHANGED <<vars, danger, aiVars, alarms, starting, heard>>

\* set_danger_level and LEDWidget.set_level.
Light ==
    /\ starting = NoThread
    /\ signals # <<>>
    /\ led' = Head(signals)
    /\ signals' = Tail(signals)
    /\ UNCHANGED <<vars, danger, aiVars, alarms, starting, heard>>

\* The UI is started again, with a green LED.
UiRestarts ==
    /\ Fault
    /\ alarms' = <<>>
    /\ signals' = <<>>
    /\ led' = NORMAL
    /\ starting' = NoThread
    /\ UNCHANGED <<dbVars, hubVars, pc, job, receipts, danger, aiVars, heard>>

-----------------------------------------------------------------------------
\* The hub's steps, with what they do to the UI

Resets(t) == pc[t] \in {"start_reset", "checkout_reset"}

\* An event the hub drops counts as sent in the loop all the same.
Drops(t) == pc[t] = "obstacle" /\ session_id = NoSession

\* What the engine has been told after this step of t.
Hearing(t) ==
    IF Resets(t) \/ Drops(t) THEN "nothing"
    ELSE IF last_obstacle_level' # last_obstacle_level THEN "change"
    ELSE IF pc[t] = "obstacle" /\ heard = "nothing" THEN "event"
    ELSE heard

HubSendsAlarm(t) ==
    /\ SendAlarm(t)
    /\ alarms' = Append(alarms, [by |-> t, level |-> job[t].level])
    /\ UNCHANGED <<danger, aiVars, signals, led, starting, heard>>

HubGoesOn(t) ==
    \/ HubSendsAlarm(t)
    \/ /\ Work(t)
       /\ pc[t] # "send_alarm"
       /\ heard' = Hearing(t)
       /\ UNCHANGED <<danger, aiVars, ledVars>>

\* send_request gives up after 5 s, with the message still to be taken.
HubStopsWaiting ==
    \E i \in DOMAIN alarms :
        /\ alarms[i].by # NoThread
        /\ Fault
        /\ alarms' = [alarms EXCEPT ![i].by = NoThread]
        /\ UNCHANGED <<dbVars, hubVars, pc, job, receipts>>
        /\ UNCHANGED <<danger, aiVars, signals, led, starting, heard>>

HubFails(t) ==
    /\ DatabaseRaises(t) \/ SendLost(t)
    /\ UNCHANGED chainVars

HubRestarts ==
    /\ Restart
    /\ alarms' = [i \in DOMAIN alarms |-> [alarms[i] EXCEPT !.by = NoThread]]
    /\ heard' = "nothing"
    /\ UNCHANGED <<danger, aiVars, signals, led, starting>>

-----------------------------------------------------------------------------
ChainNext ==
    \/ \E t \in Threads :
          \/ Push(t) \/ AskStart(t) \/ AskCheckout(t)
          \/ HubGoesOn(t) \/ HubFails(t)
    \/ DangerChanges
    \/ PushReturns \/ PushTimesOut \/ PushInVain \/ AiRestarts
    \/ StartAnswered \/ StartTimesOut \/ EmitAlarm \/ Light \/ UiRestarts
    \/ HubStopsWaiting \/ HubRestarts

ChainSpec == ChainInit /\ [][ChainNext]_allVars

\* The loop, the hub's threads and the two threads of the UI are scheduled; a
\* thread is always started for a connection in the end (strong: the threads
\* of the model are few).
ChainFairSpec ==
    /\ ChainSpec
    /\ \A t \in Threads : WF_allVars(HubGoesOn(t))
    /\ SF_allVars(\E t \in Threads : Push(t))
    /\ WF_allVars(PushReturns)
    /\ WF_allVars(StartAnswered)
    /\ WF_allVars(EmitAlarm)
    /\ WF_allVars(Light)

-----------------------------------------------------------------------------
(***************************************************************************)
(* Properties.                                                             *)
(***************************************************************************)

\* The loop has seen the present picture and nothing is at work.
Calm ==
    /\ Idle /\ pushing = NoThread /\ last_sent_level = danger
    /\ alarms = <<>> /\ signals = <<>>

\* The session's LED follows the loop: since the last reset an event has come,
\* and none was dropped after it.
Heeded == faults = 0 /\ session_id # NoSession /\ heard # "nothing"

\* Without faults, once an event has come to the open session, a raised level
\* is on the LED whenever nothing is at work: the two comparisons, of the loop
\* and of the engine, together miss no change.  Once a change has been sent,
\* the LED shows no danger that is over either.  An event that was dropped
\* takes all this back, in a later session too: the loop does not repeat it.
LedShowsDanger ==
    Calm /\ Heeded =>
        /\ danger # NORMAL => led = danger
        /\ heard = "change" => led = danger

\* A level that neither the loop nor the engine has as its last one, with
\* nothing at work in the hub.
New(l) ==
    /\ Idle /\ pushing = NoThread /\ alarms = <<>>
    /\ session_id # NoSession
    /\ l \notin {last_sent_level, last_obstacle_level}

\* A danger that stays in the picture comes to the LED, unless a fault or the
\* end of the session comes before it.  After a fault, which may have left the
\* LED wrong, this is so again for the next level that is new.
DangerReachesLed ==
    \A l \in Levels \ {NORMAL}, f \in 0 .. MaxFaults :
        danger = l /\ faults = f /\ (Heeded \/ New(l))
            ~> \/ led = l \/ danger # l \/ faults # f
               \/ session_id = NoSession \/ (f = 0 /\ heard = "nothing")
=============================================================================
