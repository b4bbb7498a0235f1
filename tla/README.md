# Smart shopping cart: TLA+ models, model checking and proofs

The program is a shopping cart that counts what is put into it and warns of
obstacles. Four processes take part: the camera application, the AI server, the
main hub with its MySQL tables, and the cart's UI. This directory models the
parts in which the difficulty lies (what the hub's threads do to sessions,
carts, orders and the screen while requests, events, exceptions and restarts
interleave; what their one database connection does to them; how a counted item
and a raised danger find their way through three processes; what the detectors
count and raise; which pictures come out of two UDP hops), checks them with TLC
and proves the most important facts with TLAPS.

The modules and `PROJECT.json` name files with the repository's root at `src/`;
below, `main_hub.py` is `src/src/main_hub.py` and so on, and `TEST_REPORT` is
`src/docs/TEST_REPORT.md`.

    tlc -workers 2 -config hub_concurrent.cfg MCCartHub.tla    # a run
    tlapm CartHubProofs.tla                                    # the proofs

## 1. Inventory

| Component | State | Operations | Talks to |
|---|---|---|---|
| Camera app (`cart_camera_app.py`, `UDPFrameSender`) | `_frame_id` | cut a JPEG into chunks, send | hub, UDP |
| AI server (`ai_server.py`) | the latest bytes per camera, `last_sent_level` | two receive loops, obstacle loop, product loop, `_push_event` | hub, UDP in, TCP out |
| Product recogniser (`detectors/product_dl.py`) | `tracked_objects`, `last_added` | `recognize_with_trigger` per frame | AI server |
| Obstacle detector (`detectors/obstacle_dl.py`, `risk_engine.py`) | `states` per object, `frame_index` | `detect` per frame | AI server |
| Main hub (`main_hub.py`) | `session_id` | `START_SESSION`, `CHECKOUT`, `UPDATE_QUANTITY`, `REMOVE_ITEM`, `PRODUCT_DETECTED`, `OBSTACLE_DANGER`; forwards frames | all |
| Database connection (`database/db_handler.py`) | `_conn`, one for all threads, autocommit off | `execute`, `insert`, `fetch_one`, `fetch_all` | hub's threads, MySQL |
| Engine (`core/engine.py`) | `last_obstacle_level`, `_last_product_id`, `_last_product_ts` | debounce, cart changes followed by a refresh of the screen, alarm on change, `reset` | tables, UI |
| Tables (`database/transaction_dao.py`, `create_databases.sql`) | `shopping_sessions`, `cart_items`, `orders`, `order_details` | the DAO's statements, each committed on its own | hub |
| UI (`ui/ui_controller_v2.py`, `dashboard_v2.py`) | `current_session_id`, page, table, dialog, LED | buttons; `UPDATE_CART`, `SHOW_ALARM`, `CHECKOUT_DONE` | hub, TCP both ways |
| Transports (`network/*.py`) | one thread per TCP connection; pending UDP frames | request with answer in 5 s; send and reassemble | |

How they interact. Pictures go camera -> hub -> AI server over UDP. The AI
server pushes events to the hub over TCP and waits for the answer. The UI sends
requests to the hub over TCP: START from its GUI thread, waiting; the others
without waiting. The hub sends to the UI over TCP and, waiting for the UI to
have handled the message, sends the next. Every connection the hub accepts is
served by a thread of its own; nothing locks `session_id`, the engine's
attributes or the single database connection.

What is hard, and what makes each part correct:

* **Hub**: handlers read `session_id` again at every step of a checkout, so any
  other handler may come between. Correct: an order is complete before the
  customer is told of it; a session has one order; orders bill the cart;
  products go into open sessions; every request is answered.
* **Screen**: cart changes list and send in two steps, and messages may be
  lost. Correct: the table shows the cart of the session it belongs to.
* **Session ids**: kept in the hub, the UI and the tables. Correct: the three
  agree whenever nothing is on its way, nobody shops with a billed session.
* **Database connection**: the hub's threads send statements and read answers
  on the same connection, and commit or roll back one transaction. Correct: a
  call with no other beside it is exact; what a mix-up loses is lost near a
  call that raised; nothing is left over for later calls; every call ends.
* **Checkout dialog**: it keeps the total it was opened with. Correct: the
  customer is billed what was quoted, unless the cart changed meanwhile.
* **Alarm**: two comparisons with "the last level" in a row, in the AI server
  and the engine, of which one is reset with the session; then a queue to the
  UI's TCP thread and one of signals to its GUI thread, which may be waiting.
  Correct: a raised danger that stays comes to the LED and is on it when
  nothing is at work.
* **Recogniser**: entries for tracking and cooldown, removed by different
  comparisons from the ones that test them. Correct: one item is counted once.
* **Product chain**: a cooldown in the AI server and a debounce in the engine,
  measured at different moments. Correct: the debounce drops no genuine item.
* **Obstacle detector**: streak and hysteresis, per object or, for boxes
  without a track id, per class. Correct: no alarm from a glimpse, and no fall
  of the level while the object that held it is in view.
* **Frames**: loss, reordering, duplication, a 16-bit id that comes round and
  restarts at 0, and a second hop on which the hub cuts anew what it received.
  Correct: what the AI server looks at is one picture, and whole.

`PROJECT.json` lists the components, and the hazards with the line where each
one bites and the property that covers it.

## 2. Modules

| Module | Models | Extends |
|---|---|---|
| `SalesDb` | the four tables; one operator per statement of `TransactionDAO` | |
| `SalesLedger` | abstract specification: what the tables promise | |
| `CartHub` | hub and engine: every handler, by threads that interleave | `SalesDb` |
| `DbConnection` | `DBHandler`: the connection the threads share | |
| `SmartCart` | hub and UI: buttons, answers, messages on their way | `CartHub` |
| `AlarmChain` | AI server's obstacle loop, hub, UI down to the LED | `CartHub` |
| `Recognizer` | `recognize_with_trigger` | |
| `ProductChain` | the product loop around it, and the hub's decision | `Recognizer` |
| `ObstacleDetector` | `detect` with `RiskEngine.update` | |
| `FrameStream` | one UDP hop: sender, network, receiver, latest buffer | |
| `FrameRelay` | camera, hub and AI server: two hops | `FrameStream`, and an instance of it |
| `MC*` | instances for TLC: small sets for the constants | |
| `*Proofs` | theorems (section 5) | the module they are about |

**SalesDb.** Ids are AUTO_INCREMENT, so a table is a sequence. An order row
keeps the listing it was priced from in place of `total_amount` and
`total_items`, both sums over that listing. `UniqueItemKey` says whether
`fix_duplicate_cart_items.sql` has been run: with the key, `ON DUPLICATE KEY
UPDATE` raises the quantity and a second plain INSERT is refused; without it,
rows of one product add up in the listing. Both are run.

**CartHub.** `pc[t]` is the next call of handler thread `t`, `job[t]` its
parameters and locals. One action is one statement sent to the database (with
its commit), one message to the UI, or one stretch of Python between two such
calls that uses shared attributes: `StartBegin` .. `StartReply` are
`_handle_ui_start`, `CheckoutBegin` .. `CheckoutReset` are
`_handle_ui_checkout`, `UpdateDelete` .. `SendCart` the cart changes with the
UPDATE_CART that ends each, `ObstacleDropped` .. `SendAlarm` are
`_handle_obstacle`. `DatabaseRaises`, `SendLost` and `Restart` are the faults;
`IntervalElapses` is the end of the 2 s of the debounce. `receipts` is the
history of the CHECKOUT_DONE that were sent; what the UI does with the other
messages is in `SmartCart` and `AlarmChain`.

**DbConnection.** `conn` is `DBHandler._conn`, `links` the connections made so
far. A thread's call goes through `Call` (with the test of `_get_connection`),
`Connect`, `Execute`, `Result`, `Commit`, `Committed`, or `Rollback`,
`RolledBack`. `pymysql` and the server are external, and this much of them is
assumed: whoever reads takes the oldest unread answer, whoever asked; an answer
must carry the number after the last packet's, otherwise `pymysql` closes the
connection and raises (`ConnectionError`); the transaction belongs to the
connection. `beside` is history: the calls that were under way while one was.

**SmartCart.** Adds the GUI thread (`PressStart`, `TakeReply`, `StartTimesOut`,
`ConfirmCheckout`, ...), the UI's TCP thread (`EmitCart`,
`HandleCheckoutDone`) and the messages on their way (`updates`, `notices`).
START blocks the GUI thread until the answer or for 5 s, and whatever comes
back, the shopping page is shown. CHECKOUT and cart changes do not wait. The
hub waits in `send_request` until the UI has handled a message
(`HubClearsSession`), 5 s at most (`HubStopsWaiting`). `updates` are in the
order of the TCP accept queue and then of the Qt signal queue. `quoted` is the
listing behind the total in the dialog, `overtaken` the history of changes
since it was opened.

**AlarmChain.** `Push` and `PushReturns` are the obstacle loop with
`last_sent_level` and `_push_event`, which waits for the hub and ignores what
it answers; `danger` is what `detect` returns for the present picture.
`EmitAlarm` is the UI's TCP thread, `Light` the GUI thread, which serves no
signal while it waits for START. `PushTimesOut`, `StartTimesOut`,
`HubStopsWaiting` are the 5 s of `TCPClient`; each of the three programs may be
restarted. `heard` is history: what the engine has been told since its last
reset, and nothing again when the hub drops an event.

**Recognizer.** A frame is the set of products its boxes show. Frames come at
any moment, and any number of them.

**ProductChain.** `Inspect` is one round of the product loop; while
`_push_event` waits no frame is looked at. The hub decides on an event
(`NoSessionFor`, `Debounced`, `Accepted`) within `DecideWithin` of its being
sent, and adds the product later (`Handled`); `fate` is what became of each
event.

**ObstacleDetector.** `Assess` is the loop of `RiskEngine.update` for one box,
`EndFrame` the rest, `EmptyFrame` the early return of `detect`. What the
geometry comes to (zone, very close, approaching, the level pTTC is short
enough for) is a free choice for each box. `Unidentified` are the boxes without
a track id, which share a state and may come several times in a frame. `past`
(for each object its boxes, whether one was very close, and its calls for less)
and `holders` (the objects with the level `detect` returned) are history.

**FrameStream, FrameRelay.** The payload of a chunk is the number of the frame
it was cut from. Any datagram sent may be the next to arrive, never, or more
than once; sender and receiver may be restarted. In `FrameRelay` the hub
forwards each frame it completes in the same step (`HubForwards`) and cuts it
anew (`Recut`); `forwarded` remembers what each of its frames holds.

Abstractions to know of:

* In `CartHub` a statement and its commit are one step. By `DbConnection` that
  is what a call does that has no other beside it (`AloneExact`); two threads
  in the connection at the same moment can take each other's answers and commit
  or roll back each other's statements. What `CartHub` and the modules that
  extend it show, `ReceiptsRecorded` and `LedgerSpec` included, is about
  handlers that interleave between calls, not inside them.
* The debounce and the comparison of alarm levels, each a few lines of Python
  without a call, are one step.
* Toasts, prices and times are left out; the rows of `obstacle_logs`, which
  nothing reads, are left out, the INSERT that may raise is kept.

## 3. The abstract specification

`SalesLedger` says what a reader of the tables may rely on: sessions are
opened in order and never opened again; a session has at most one bill, whose
content is fixed when it is written; its lines are added once each; and a bill
is announced to the customer only when all its lines are there. `CartHub`
implements it through the mapping in `CartHub!Ledger` (one bill per session,
announced when `CHECKOUT_DONE` was sent): `LedgerSpec` is a property of
`hub_concurrent` and `hub_faults`. It deliberately does not say that the bill
is the cart's, because the code does not ensure that (section 6).

## 4. Runs

| Run | Instance | Shows |
|---|---|---|
| `hub_sequential` | 1 thread, 3 products of which 2 in the catalogue, 2 levels, 2 sessions, quantities to 2 | handled one after the other, requests keep session, cart and orders in agreement; events go into an open session; an order bills the cart; a checkout ends its session |
| `hub_concurrent` | 2 threads, 2 sessions, without the unique key | what is left when handlers interleave: no order lacks details, the hub implements `SalesLedger` |
| `hub_faults` | 2 threads, with the unique key, 1 session, 2 exceptions, lost messages or restarts | receipts stand for complete orders, the hub implements `SalesLedger`, and every request is answered, with faults at any points |
| `connection` | 2 threads, 3 calls, 1 lost connection | a call by itself is exact; what a mix-up loses is lost near a call that raised; nothing is left over; every call ends |
| `cart` | hub and UI, 1 hub thread, 2 sessions, 2 faults | ids, table and cart agree, and the bill is what the dialog quoted (before the first fault); nobody shops with a billed session, receipts cover the cart and START returns (always) |
| `alarm` | 2 hub threads, 3 levels, 1 session, 1 fault, a queue of 1 signal | a raised danger is on the LED whenever nothing is at work (before the first fault), and one that stays comes to the LED (after the fault, the next new level) |
| `products` | 2 products of which 1 in the catalogue, 8 units of time, 1 fault | additions are a cooldown and a tracking period apart; the debounce drops none of them |
| `detector` | 3 objects, one of them without an id, 5 frames of up to 2 boxes | no object raises the level before its streak or lowers it before the hysteresis; the level does not fall while its holder is in view |
| `relay` | 2 pictures of 2 or 3 chunks, ids modulo 2, 1 duplicate, 1 restart on each hop | what the AI server looks at is one whole picture; all that arrived comes out; a loop ends only by a reused id |
| `hub_late_product` | 2 threads | **violated**: `ReceiptCoversCart` |
| `cart_next_billed` | hub and UI, 2 threads | **violated**: `NoBillWhileShopping` |
| `recognizer_lost_event` | 2 products | **violated**: `AdditionsReported` |

Why the bounds are enough. *Two threads* give every order of the steps of two
handlers, and each interference described below needs two. *Two sessions* are
the one that ends and the one that begins: an effect on a third session would
go through the same `session_id`. *Quantity 2* tells none, one and several
apart; a third product is one the catalogue does not know. *One fault* reaches
every partial effect, and two a fault during the recovery from one (a timeout,
then a restart). *Three calls* on the connection are two that mix and the next,
which finds what they left; a third thread adds calls that begin before the
first of them has ended and end after the last, which the theorem about
`LostNearARaise` covers. A queue of one signal is full, and so can hold up the
TCP thread, with every signal. `alarm` has one session, which is enough for a
danger to come to the LED; what an event leaves that is let in before a checkout
and ends after it, and the next session finds, takes two sessions and more
threads than TLC can follow with fairness and faults, and is covered by the
theorem about `LedShowsDanger`.

In `products` the durations (tracking 2, cooldown 3, debounce 3, decision
within 2, answer within 4) are not the program's half seconds (3, 6, 4 and 10)
but keep the one relation `NothingDebounced` needs, with equality: decision and
debounce together are a cooldown and a tracking period. With 3 units for the
decision TLC finds the genuine item that is dropped. Eight units cover the
second addition and what is decided about it. The detector runs with shorter
streaks and hysteresis (2, 1 and 2 for 12, 6 and 25): the code compares them
only with counters that move by one. Ids modulo 2 let two frames share an id
by a restart and have ids of their own without one, with two frames in flight.
All three are proved for every value of these constants as well (section 5).

**Fairness.** `FairSpec` of `CartHub`: weak fairness of each thread's `Work`.
Handler threads are scheduled by the operating system, a database call ends by
an answer or an exception, a message by an answer or after the 5 s of
`TCPClient`, and no loop of the hub waits for another handler. No request needs
to arrive. `FairSpec` of `DbConnection`: weak fairness of each thread's `Step`:
the server answers, or the connection ends and reading from it raises; a thread
that waits for an answer another has taken is not assumed to get one, that it
ends is what `EveryCallEnds` says. `CartFairSpec` is weak fairness of the hub's
threads, the UI's TCP thread and its GUI thread's reactions, never of a button.
`ChainFairSpec` of `AlarmChain` is the same for its threads, and strong
fairness of `Push`: `TCPServer` starts a thread for every connection, and only
the model's few threads could be taken again and again by requests of the UI.

`cart`, `connection`, `detector` and `relay` are without the deadlock check:
the system may stay in standby, and in the others the bound ends the behaviour.

## 5. Proofs

Each theorem holds for every value of the constants. The assumptions are the
named ASSUMEs of the modules, which TLC evaluates in the runs: the catalogue is
among the products, None is no product, bounds, thresholds and intervals are
natural numbers, the tracking period, the cooldown, the ids' modulus and the
sizes of pictures are not zero, and the hub decides no later than the client
waits. The bounds in the guards (`MaxCalls`, `MaxFaults`, ...) are arbitrary in
the proofs.

| Theorem | States |
|---|---|
| `CartHubProofs!HubTypeCorrect`, `HubReceiptsRecorded` | `Spec => []TypeOK`, `Spec => []ReceiptsRecorded` |
| `CartHubProofs!HubImplementsLedger` | `Spec => LedgerSpec` |
| `CartHubProofs!HubOrdersItemised` | `Spec => [](faults = 0 => OrdersItemised)` |
| `SmartCartProofs!HubSessionInSync`, `HubQuantityUpdated` | one handler: `Spec` implies `[](faults = 0 => SessionInSync)`, `[](faults = 0 => QuantityUpdated)` |
| `SmartCartProofs!HubEventsInOpenSession`, `HubOrderBillsCart` | one handler, `MaxFaults = 0`: `Spec` implies `EventsInOpenSession`, `OrderBillsCart` |
| `SmartCartProofs!CartTypeCorrect` | `CartSpec => []CartTypeOK` |
| `SmartCartProofs!CartNoBillWhileShopping`, `CartReceiptCoversCart` | one handler: `CartSpec` implies `[]NoBillWhileShopping`, `[]ReceiptCoversCart`, with every fault |
| `SmartCartProofs!CartSessionIdsAgree`, `CartTableShowsCart`, `CartShopperHasSession`, `CartBilledAsQuoted` | one handler: `CartSpec` implies `[]` of the first three, and `BilledAsQuoted` (each speaks of the time before the first fault) |
| `AlarmChainProofs!AlarmTypeCorrect`, `AlarmLedShowsDanger` | `ChainSpec => []AlarmTypeOK`, `ChainSpec => []LedShowsDanger` (before the first fault) |
| `DbConnectionProofs!ConnTypeCorrect`, `ConnectionLeavesNothing`, `ConnectionExactAlone`, `ConnectionLossNoticed` | `Spec` implies `[]` of `ConnTypeOK`, `NothingLeftOver`, `AloneExact`, `LostNearARaise` |
| `ProductChainProofs!RecognizerInvariant`, `RecognizerSpacing` | `Spec => [](TypeOK /\ TrackedAfterCooldown)`, `Spec => AdditionsSpaced`, of `Recognizer` |
| `ProductChainProofs!ChainTypeCorrect`, `ChainTracksAfterCooldown` | `ChainSpec => []ChainTypeOK`, `ChainSpec => [](TypeOK /\ TrackedAfterCooldown)` |
| `ProductChainProofs!DebounceHarmless` | `ChainSpec => []NothingDebounced`, if `DecideWithin + DebounceInterval <= Cooldown + RequiredDuration` |
| `ObstacleDetectorProofs!DetectorTypeCorrect`, `DetectorNeedsStreak`, `DetectorHolds`, `DetectorLevelHeld` | `Spec` implies `[]TypeOK`, `[]AlarmNeedsStreak`, `LoweredAfterHold`, `LevelHeldInView` |
| `FrameStreamProofs!StreamTypeCorrect`, `StreamFramesWhole`, `StreamArrivedYielded`, `StreamEndedByReuse` | `Spec` implies `[]` of `TypeOK`, `UniqueFramesWhole`, `ArrivedYielded`, `EndedByReuse` |
| `FrameRelayProofs!RelayTypeCorrect`, `RelayFirstHop`, `RelayPictureWhole` | `RelaySpec` implies `[]` of `RelayTypeOK`, the three of the first hop, `PictureWhole` |

Two assumptions of theorems are not about constants of the code. *One handler* (`OneHandler`:
`Threads` has one element) says that requests come one at a time. The hub does
not ensure it, and with two threads these properties fail; the counterexamples
are in section 6. What is proved is that the hub's and the UI's code is right
where nothing interleaves inside the hub, with everything between hub and UI
still interleaving. `MaxFaults = 0` stands where an action property has no
state to say "before the first fault" with: an exception in START leaves the
hub with an id that is no longer open (section 6).

*Receipts.* `ReceiptsRecorded` is not inductive: that an order has all its
details when CHECKOUT_DONE is sent rests on where the handler is. The invariant
`Inv` of `CartHubProofs` therefore has a `Promise` for each handler: at
`order`, what is to be written is what was listed; at `detail`, what is still
to be written together with what is there covers the order; at `notify` the
order is complete. No lock protects these promises from the other handlers.
They survive because orders are only appended, details are only added (the
first part of the module proves this of every statement of `SalesDb`), a detail
is only added for a product of the order, and locals belong to one thread.
`HandlerStep` says this once for all steps; each action then shows its own
promise. `DetailsFit` (the details of an order are among its products) is what
makes "covers" an equality.

*Ledger.* The mapping takes "the order of this session" for the session's
bill, which is a function only if no two orders have one session:
`UniqueOrders`, kept because `create_order` refuses a second one. With it, each
of five kinds of step is one step of `SalesLedger` (`LedgerOpens`,
`LedgerCloses`, `LedgerBills`, `LedgerAddsLine`, `LedgerAnnounces`), and every
other step leaves `ledgerVars` alone. That a bill is announced complete is the
`Promise` at `notify`.

*Orders itemised.* `OrdersItemised` speaks of moments at which no checkout is at
work. The invariant behind it, `OrdersAttended`, speaks of all: an order is
complete, or some handler is filling it and still has all that is missing to
write. Any number of checkouts may be under way, so the handler is an
existential, and the `Promise` of `Inv` turns its end into a complete order.

*One request at a time.* `Sequential` says for each label of the one handler how
the hub's id and the ACTIVE rows are related there (`SessionKnown`: between
requests they are in step, after `end_session` none is active, before the
assignment the new row and nothing else is), and what its locals still have in
common with the cart (`CartKnown`: at the INSERT of an update the line is gone,
after it the quantity is there, at `create_order` the listing is the cart).

*Bills.* `BillInv` is kept with exceptions, lost messages, timeouts and restarts
at every point, so nothing may rest on hub and UI agreeing. What it rests on is
that ids are not used again: the dialog drops the UI's id as CHECKOUT is sent,
and the UI gets one back only with an answer to START, whose session is not
billed (`UiUnbilled`). In the hub, a handler that is going to change a cart has
a session that is not billed, or the hub's, one that is billing has listed the
cart as it is, and the hub's session has a receipt only at `clear`
(`BillKnown`).

*Agreement.* Before the first fault the two programs' states are tied together:
the messages on their way fit the request the handler is at (`MessagesAgree`),
the UI has the hub's session exactly when it is not on standby (`UiAgrees`), the
last listing on its way, or else the table, is the cart unless the handler has
still to send it (`TableAgrees`, with `LastItems` for the last of the listings),
and what the dialog quoted is the cart unless it was overtaken (`DialogAgrees`).
`AgreementInv` adds `Sequential` and `BillInv`; each of the four properties is a
consequence at the moments it is about.

*LED.* `Follows` is kept by any number of threads, because only one of them has
an event of the obstacle loop, which waits for it (`OneEvent`). `Coming` is
the level the LED ends at when all alarms and signals on their way have been
served; it is the engine's level unless a reset has forgotten that
(`LedFollows`), and the engine has what the loop takes for sent once it has
compared it (`EngineFollows`), unless nothing was `heard` since.

*Connection.* A statement that waits in a transaction or an answer that waits
to be read belongs to a thread that is still in its call (`PendingOwned`), and
on each open connection as many threads wait as answers do (`AnswersAwaited`, a
statement about cardinalities, since who reads whose answer is anybody's
guess). When no call is under way, nothing is left. What happens to a write is
`Fates`: once executed it is stored, or waits in a transaction, or its refusal
waits to be read, or it is `Noticed`, a call near it having raised or being
sure to. The last holds although the call that reads a refusal may have begun
after the write returned: as long as an answer waits some call is under way,
and `Company` says of calls that overlap that they are recorded so, on either
side, and that there is no moment of rest between them. `Alone` says that a
thread whose call has had no other beside it finds in the connection what it put
there and nothing else; two things make that so, that nothing was left when it
began and that the first to come would be beside it.

*Recogniser.* Cooldown entries vanish, so the spacing does not follow from
them. `Inv` of `ProductChainProofs` relates them to the history: an entry is the
time of the last addition, a product whose entry is gone was added at least a
cooldown ago, and what is tracked was first seen a cooldown after its last
addition. The next addition then needs `RequiredDuration` more.

*Debounce.* From the recogniser's spacing, reports of one product are a
cooldown and a tracking period apart. What the engine remembers is the moment
of a decision, at most `DecideWithin` after its report; the next report's
decision is later than the debounce if `DecideWithin + DebounceInterval` is no
more than the spacing. With 3 s, 1.5 s and 2 s the hub has 2.5 s; beyond them
the code's own numbers no longer suffice (section 6). The types of
`ProductChain` (`ChainTypeOK`) follow from the same invariant without that
bound.

*Detector.* The history `past` is tied to the states the code keeps: a streak
is at most the boxes seen, a raised level took a streak, and the calls for less
together with what is left of `hold_frames` make the hysteresis
(`StatesRemembered`). For the level of a whole frame, `HoldersKeep` says that
an object that held it has it still, until its own hysteresis is over.

*Frames.* Every datagram on its way and every chunk in an entry says what it
was cut from (`NetworkFits`, `EntriesFit`). An id of one frame only then has an
entry of chunks of that frame only, and an entry with as many chunks as the
frame has is the frame (`ChunkIdsCount`). What arrived of such a frame is in
its entry until it is yielded (`KeptUntilYielded`). An entry whose count is
right and whose ids are not has chunks of two sizes (`FullOutOfOrder`), which
is `EndedByReuse`. `FrameRelayProofs` takes these lemmas for the second hop
through an INSTANCE, and adds that what the hub forwarded is one picture cut
into as many chunks (`ForwardedFits`), provided its ids were used once.

Only model-checked: `HandlersFinish`, `CheckoutEndsSession`, `EveryCallEnds`,
`StartReturnsToCustomer` and `DangerReachesLed`. They say that something
happens under fairness, which is out of this prover's reach. Every other
property of the passing runs, invariant, action property or refinement, is
stated by a theorem above.

## 6. Where the code and its documents disagree

Shown by runs that TLC refutes:

1. `ReceiptCoversCart` (`hub_late_product`): the checkout lists the cart at
   `main_hub.py:195` and ends the session several calls later; a product
   counted in between is in the cart and not in the order. `TEST_REPORT:268`
   expects as many order details as cart items.
2. `NoBillWhileShopping` (`cart_next_billed`): CHECKOUT bills the hub's current
   session and does not look at the session id it carries
   (`main_hub.py:144-145`). If START is handled first, the new customer's
   session is billed. `TEST_REPORT:246` has the id sent for the purpose.
3. `AdditionsReported` (`recognizer_lost_event`): two products that complete
   their time in the same frame are both marked as added, one is reported
   (`product_dl.py:226-233`). `TEST_REPORT:158` has all products tracked
   independently.

Further behaviours the models contain, which the passing properties are
phrased around:

* Two STARTs at once both see no session at `main_hub.py:157` and leave two
  ACTIVE rows, against the comment at 156. (`SessionInSync` is checked with
  one thread.)
* A START during a checkout: `end_session(self.session_id)` at 230 ends the new
  session, or line 246 forgets it; `TEST_REPORT:99` wants one id everywhere.
* A late CHECKOUT_DONE clears the next customer's id in the UI
  (`ui_controller_v2.py:465`).
* A product whose handler read the session id before a checkout is added to the
  COMPLETED session (`main_hub.py:325`, `engine.py:148`; `TEST_REPORT:98`).
* When the INSERT of START raises, the hub keeps the id it has just ended
  (`main_hub.py:157-184`). (`EventsInOpenSession` is checked without faults.)
* Of two cart changes, the older listing can be sent last and stay on the
  screen (`engine.py:156-166`, `195-201`, `212-218`; `TEST_REPORT:221`); the
  UI shows it even in the next customer's session (`ui_controller_v2.py:363`).
* An empty cart is checked out (`main_hub.py:198`), against `TEST_REPORT:210`.
* After an exception between `create_order` and the last detail
  (`main_hub.py:213-226`) the order stays incomplete, and the UNIQUE key
  refuses to repeat it (`TEST_REPORT:247`).
* `update_item_quantity` deletes and inserts in two commits
  (`transaction_dao.py:101-116`): when the INSERT fails the line is gone, and
  the caller is not told.
* Two threads in the connection at once (`db_handler.py:60`): one can take the
  other's answer for its own, an id or a listing included; a commit stores the
  other's statement and a rollback undoes it. A thread that finds no connection
  replaces one another thread has just made (`db_handler.py:33-34`). With three
  threads, a write that was refused can return as if stored while the refusal
  waits for a call that begins after it; all calls beside the write return. This
  came up in the proof, and is why `LostNearARaise` does not ask for a call
  beside the write.
* The checkout dialog keeps the total it was opened with
  (`dashboard_v2.py:594`; `TEST_REPORT:236`); `BilledAsQuoted` excludes carts
  that changed behind it (`overtaken`).
* `reset` forgets a raised level without telling the UI (`engine.py:221-225`);
  the NORMAL that follows is no change at line 81 and the LED stays raised,
  into the next session, until the first change of the level there. An event
  compared after the reset of a checkout lights the LED with no session open:
  it was let in before, and leaves its level in the engine too. The START that
  follows finds no session and resets nothing (`main_hub.py:157-163`), and when
  the danger ends before it, the hub drops the NORMAL: the next session begins
  with a level that is over, in the engine and on the LED. This came up in the
  proof of `LedShowsDanger`, where `heard` now takes a dropped event back.
* A level sent before START is dropped by the hub and not sent again
  (`ai_server.py:115-117`, `main_hub.py:308-313`; `TEST_REPORT:424`). This is
  why `LedShowsDanger` and `DangerReachesLed` ask for `heard`. After a push
  timed out, the next level can overtake its handler. A UI that is started
  again has a green LED until the next change.
* An AI server that is started again has forgotten its cooldowns
  (`product_dl.py:28`): an item still in the picture is counted once more.
* When the hub takes longer than 2.5 s to decide on an event, the debounce can
  drop a genuine item (`engine.py:173`): the time is the decision's, not the
  detection's.
* The recogniser refreshes `last_seen` before the clean-up looks at it
  (`product_dl.py:218`, 258-265): a gap of more than 2 s without frames counts
  as being seen.
* The streak falls by one on a miss (`risk_engine.py:140-143`), so WARN needs
  no consecutive run as `OBSTACLE_INTEGRATION.md:158` and
  `model_config.yaml:22` say; `AlarmNeedsStreak` states what is true instead.
* A frame without boxes returns level 0 before the hysteresis is asked
  (`obstacle_dl.py:85-90`), and so does one without the object that held the
  level, where `OBSTACLE_INTEGRATION.md:81` promises N frames;
  `LevelHeldInView` states what is true instead.
* Frames without boxes do not advance `frame_index` (`obstacle_dl.py:85-90`,
  141), so states outlive `stale_frames` (`model_config.yaml:35`).
* Boxes without a track id share one state per class: a frame moves its streak
  and its hysteresis once for each box.
* After the sender's restart, or when the 16-bit id comes round, chunks of two
  frames are joined, and if their numbers of chunks differ a KeyError ends the
  receiving thread (`udp_handler.py:117-127`; `TEST_REPORT:544`). An older
  frame completed late becomes the latest (`ai_server.py:75-77`).

## 7. Not modelled, and the plan

Not modelled: pictures, models and geometry (free inputs); prices, times and
wording; the length prefix of the TCP messages (the byte stream is TCP's); an
exception of `sendto`, which would end the hub's forwarding loop;
`previous_cart_items` and `_expect_initial_cart` of the UI, which only choose
what a toast that is switched off would say; the first UI, which speaks an
older format; the scripts run by hand. `PROJECT.json` gives the reason for each
component. Nothing that keeps state is missing from the hub, the engine, the
recogniser, the AI server's loops and the database connection.

What the plan has left: nothing of what is only model-checked is within the
prover's reach. The theorems with one handler could say more precisely what two
handlers keep of them, as `OrdersAttended` does for orders.
