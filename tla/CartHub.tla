------------------------------ MODULE CartHub ------------------------------
(***************************************************************************)
(* The main hub: MainPC2Hub (src/src/main_hub.py) with the engine it calls *)
(* (src/src/core/engine.py).  TCPServer runs every connection of the UI    *)
(* and of the AI server on a thread of its own; Threads are these handler  *)
(* threads, and nothing in the hub locks the attributes they share.        *)
(*                                                                         *)
(* pc[t] names the call a handler is about to make, job[t] holds its       *)
(* parameters and locals.  One action is one statement sent to the         *)
(* database, one message sent to the UI, or one stretch of code that uses  *)
(* shared attributes without a call in between.  A database call may       *)
(* raise, a message to the UI may be lost (TCPClient.send_request swallows *)
(* every error) and the hub may be restarted; MaxFaults bounds how often.  *)
(***************************************************************************)
EXTENDS SalesDb, FiniteSets

CONSTANTS
    Threads,         \* handler threads that can be at work at the same time
    MaxLevel,        \* DangerLevel is 0 .. 2: NORMAL, CAUTION, CRITICAL
    Commands,        \* the kinds of requests and events that arrive
    MaxSessions,     \* bound: rows of shopping_sessions
    MaxQuantity,     \* bound: quantity of a product in a cart
    MaxFaults        \* bound: exceptions, lost messages and restarts

AllCommands ==
    {"START_SESSION", "CHECKOUT", "UPDATE_QUANTITY", "REMOVE_ITEM",
     "PRODUCT_DETECTED", "OBSTACLE_DANGER"}

ASSUME MaxLevelAssumption == MaxLevel \in Nat
ASSUME CommandsAssumption == Commands \subseteq AllCommands
ASSUME BoundsAssumption ==
    /\ MaxSessions \in Nat
    /\ MaxQuantity \in Nat
    /\ MaxFaults \in Nat

VARIABLES
    session_id,            \* MainPC2Hub.session_id
    last_obstacle_level,   \* SmartCartEngine.last_obstacle_level
    last_product_id,       \* SmartCartEngine._last_product_id while its 2 s run
    pc,                    \* what each handler does next
    job,                   \* parameters and locals of each handler
    receipts,              \* the orders CHECKOUT_DONE was sent for
    faults                 \* faults so far

hubVars == <<session_id, last_obstacle_level, last_product_id>>
vars == <<dbVars, hubVars, pc, job, receipts, faults>>

Levels == 0 .. MaxLevel
NORMAL == 0

BeforeInsert == {"start", "start_end", "start_reset", "start_insert"}
StartLabels == BeforeInsert \cup {"start_assign", "start_reply"}
CheckoutLabels ==
    {"checkout", "list", "order", "detail", "notify", "clear",
     "checkout_reset"}
CartLabels ==
    {"update", "update_insert", "remove", "product", "take", "debounce", "add",
     "relist", "send_cart"}
ObstacleLabels == {"obstacle", "compare", "send_alarm"}
Labels ==
    {"idle"} \cup StartLabels \cup CheckoutLabels \cup CartLabels \cup ObstacleLabels

Job ==
    [session : Nat, product : Products \cup {NoProduct}, quantity : Nat,
     level : Levels, items : Listing, order : Nat, todo : SUBSET Products]

NoJob ==
    [session |-> NoSession, product |-> NoProduct, quantity |-> 0,
     level |-> NORMAL, items |-> EmptyCart, order |-> 0, todo |-> {}]

TypeOK ==
    /\ DbTypeOK
    /\ session_id \in 0 .. Len(shopping_sessions)
    /\ last_obstacle_level \in Levels
    /\ last_product_id \in Products \cup {NoProduct}
    /\ pc \in [Threads -> Labels]
    /\ job \in [Threads -> Job]
    /\ receipts \subseteq DOMAIN orders
    /\ faults \in 0 .. MaxFaults

Init ==
    /\ DbInit
    /\ session_id = NoSession
    /\ last_obstacle_level = NORMAL
    /\ last_product_id = NoProduct
    /\ pc = [t \in Threads |-> "idle"]
    /\ job = [t \in Threads |-> NoJob]
    /\ receipts = {}
    /\ faults = 0

-----------------------------------------------------------------------------
\* Steps of a handler

\* The handler goes on with label l and locals j.
Go(t, l, j) ==
    /\ pc' = [pc EXCEPT ![t] = l]
    /\ job' = [job EXCEPT ![t] = j]

\* The handler returns, or an exception leaves it: TCPServer answers or closes
\* the connection and the thread ends.
Done(t) == Go(t, "idle", NoJob)

reset ==
    /\ last_obstacle_level' = NORMAL
    /\ last_product_id' = NoProduct
    /\ UNCHANGED session_id

-----------------------------------------------------------------------------
\* Requests of the UI and events of the AI server

\* Bounds on the rows and the quantities the handlers at work can still add.
RoomForSession ==
    Len(shopping_sessions) + Cardinality({t \in Threads : pc[t] \in BeforeInsert})
        < MaxSessions
RoomFor(s, p) ==
    s \in SessionIds =>
        cart_items[s][p] + Cardinality({t \in Threads : job[t].product = p})
            < MaxQuantity
Lowers(s, p, q) == q < list_cart_items(s)[p]

Receive(t, l, j) ==
    /\ pc[t] = "idle"
    /\ Go(t, l, j)
    /\ UNCHANGED <<dbVars, hubVars, receipts, faults>>

ReceiveStart(t) ==
    /\ "START_SESSION" \in Commands
    /\ RoomForSession
    /\ Receive(t, "start", NoJob)

ReceiveCheckout(t) ==
    /\ "CHECKOUT" \in Commands
    /\ Receive(t, "checkout", NoJob)

\* The session id of these two is the one the UI has, not the hub's.
ReceiveUpdateQuantity(t, s, p, q) ==
    /\ "UPDATE_QUANTITY" \in Commands
    /\ RoomFor(s, p) \/ Lowers(s, p, q)
    /\ Receive(t, "update", [NoJob EXCEPT !.session = s, !.product = p, !.quantity = q])

ReceiveRemoveItem(t, s, p) ==
    /\ "REMOVE_ITEM" \in Commands
    /\ Receive(t, "remove", [NoJob EXCEPT !.session = s, !.product = p])

ReceiveProduct(t, p) ==
    /\ "PRODUCT_DETECTED" \in Commands
    /\ RoomFor(session_id, p)
    /\ Receive(t, "product", [NoJob EXCEPT !.product = p])

ReceiveObstacle(t, l) ==
    /\ "OBSTACLE_DANGER" \in Commands
    /\ Receive(t, "obstacle", [NoJob EXCEPT !.level = l])

Arrival(t) ==
    \/ ReceiveStart(t)
    \/ ReceiveCheckout(t)
    \/ \E s \in SessionIds, p \in Catalogue :
          \/ \E q \in 0 .. MaxQuantity - 1 : ReceiveUpdateQuantity(t, s, p, q)
          \/ ReceiveRemoveItem(t, s, p)
    \/ \E p \in Products : ReceiveProduct(t, p)
    \/ \E l \in Levels : ReceiveObstacle(t, l)

-----------------------------------------------------------------------------
\* _handle_ui_start

StartBegin(t) ==
    /\ pc[t] = "start"
    /\ Go(t, IF session_id = NoSession THEN "start_insert" ELSE "start_end", job[t])
    /\ UNCHANGED <<dbVars, hubVars, receipts, faults>>

\* A session the hub still has is ended first, outside the try.
StartEndPrevious(t) ==
    /\ pc[t] = "start_end"
    /\ end_session(session_id)
    /\ Go(t, "start_reset", job[t])
    /\ UNCHANGED <<hubVars, receipts, faults>>

StartReset(t) ==
    /\ pc[t] = "start_reset"
    /\ reset
    /\ Go(t, "start_insert", job[t])
    /\ UNCHANGED <<dbVars, receipts, faults>>

StartInsert(t) ==
    /\ pc[t] = "start_insert"
    /\ start_session
    /\ Go(t, "start_assign", [job[t] EXCEPT !.session = NextSessionId])
    /\ UNCHANGED <<hubVars, receipts, faults>>

StartAssign(t) ==
    /\ pc[t] = "start_assign"
    /\ session_id' = job[t].session
    /\ Go(t, "start_reply", job[t])
    /\ UNCHANGED <<dbVars, last_obstacle_level, last_product_id, receipts, faults>>

\* The reply OK carries the hub's session_id, read once more.
StartReply(t) ==
    /\ pc[t] = "start_reply"
    /\ Done(t)
    /\ UNCHANGED <<dbVars, hubVars, receipts, faults>>

-----------------------------------------------------------------------------
\* _handle_ui_checkout.  The hub reads its session_id again for the listing,
\* for the order and to end the session.

CheckoutBegin(t) ==
    /\ pc[t] = "checkout"
    /\ IF session_id = NoSession THEN Done(t) ELSE Go(t, "list", job[t])
    /\ UNCHANGED <<dbVars, hubVars, receipts, faults>>

\* The order of an empty listing is created all the same.
CheckoutList(t) ==
    /\ pc[t] = "list"
    /\ LET items == list_cart_items(session_id)
       IN  Go(t, "order", [job[t] EXCEPT !.items = items, !.todo = Lines(items)])
    /\ UNCHANGED <<dbVars, hubVars, receipts, faults>>

CheckoutCreateOrder(t) ==
    /\ pc[t] = "order"
    /\ ~ OrderRefused(session_id)
    /\ create_order(session_id, job[t].items)
    /\ Go(t, "detail", [job[t] EXCEPT !.order = NextOrderId])
    /\ UNCHANGED <<hubVars, receipts, faults>>

\* The exception of the refused INSERT leaves the handler.
CheckoutOrderRefused(t) ==
    /\ pc[t] = "order"
    /\ OrderRefused(session_id)
    /\ Done(t)
    /\ UNCHANGED <<dbVars, hubVars, receipts, faults>>

\* Mutant: a row is passed over.
CheckoutSkipDetail(t) ==
    /\ pc[t] = "detail"
    /\ \E p \in job[t].todo : Go(t, "detail", [job[t] EXCEPT !.todo = @ \ {p}])
    /\ UNCHANGED <<dbVars, hubVars, receipts, faults>>

CheckoutAddDetail(t) ==
    /\ pc[t] = "detail"
    /\ \E p \in job[t].todo :
          /\ add_order_detail(job[t].order, p)
          /\ Go(t, "detail", [job[t] EXCEPT !.todo = @ \ {p}])
    /\ UNCHANGED <<hubVars, receipts, faults>>

\* Mutant: the call of end_session is missing.
CheckoutLeaveSession(t) ==
    /\ pc[t] = "detail"
    /\ job[t].todo = {}
    /\ Go(t, "notify", job[t])
    /\ UNCHANGED <<dbVars, hubVars, receipts, faults>>

CheckoutEndSession(t) ==
    /\ pc[t] = "detail"
    /\ job[t].todo = {}
    /\ end_session(session_id)
    /\ Go(t, "notify", job[t])
    /\ UNCHANGED <<hubVars, receipts, faults>>

CheckoutNotify(t) ==
    /\ pc[t] = "notify"
    /\ receipts' = receipts \cup {job[t].order}
    /\ Go(t, "clear", job[t])
    /\ UNCHANGED <<dbVars, hubVars, faults>>

\* Mutant: session_id keeps its value.
CheckoutKeepId(t) ==
    /\ pc[t] = "clear"
    /\ Go(t, "checkout_reset", job[t])
    /\ UNCHANGED <<dbVars, hubVars, receipts, faults>>

CheckoutClear(t) ==
    /\ pc[t] = "clear"
    /\ session_id' = NoSession
    /\ Go(t, "checkout_reset", job[t])
    /\ UNCHANGED <<dbVars, last_obstacle_level, last_product_id, receipts, faults>>

CheckoutReset(t) ==
    /\ pc[t] = "checkout_reset"
    /\ reset
    /\ Done(t)
    /\ UNCHANGED <<dbVars, receipts, faults>>

-----------------------------------------------------------------------------
\* Cart changes: _handle_ui_update_quantity, _handle_ui_remove_item and
\* _handle_product.  Each ends with a listing that is sent as UPDATE_CART.

\* Mutant: without the DELETE of a positive quantity.
UpdateNoDelete(t) ==
    /\ pc[t] = "update"
    /\ IF job[t].quantity = 0
       THEN /\ remove_cart_item(job[t].session, job[t].product)
            /\ Go(t, "relist", job[t])
       ELSE /\ Go(t, "update_insert", job[t])
            /\ UNCHANGED dbVars
    /\ UNCHANGED <<hubVars, receipts, faults>>

\* quantity <= 0 removes the product; otherwise the DELETE of
\* update_item_quantity is committed on its own.
UpdateDelete(t) ==
    /\ pc[t] = "update"
    /\ remove_cart_item(job[t].session, job[t].product)
    /\ Go(t, IF job[t].quantity = 0 THEN "relist" ELSE "update_insert", job[t])
    /\ UNCHANGED <<hubVars, receipts, faults>>

UpdateInsert(t) ==
    /\ pc[t] = "update_insert"
    /\ ~ InsertRefused(job[t].session, job[t].product)
    /\ InsertItem(job[t].session, job[t].product, job[t].quantity)
    /\ Go(t, "relist", job[t])
    /\ UNCHANGED <<hubVars, receipts, faults>>

\* Mutant: the INSERT is tried again until it succeeds.
UpdateInsertRetried(t) ==
    /\ pc[t] = "update_insert"
    /\ InsertRefused(job[t].session, job[t].product)
    /\ UNCHANGED vars

\* update_item_quantity swallows the exception and the engine ignores the
\* False it returns.
UpdateInsertRefused(t) ==
    /\ pc[t] = "update_insert"
    /\ InsertRefused(job[t].session, job[t].product)
    /\ Go(t, "relist", job[t])
    /\ UNCHANGED <<dbVars, hubVars, receipts, faults>>

RemoveItem(t) ==
    /\ pc[t] = "remove"
    /\ remove_cart_item(job[t].session, job[t].product)
    /\ Go(t, "relist", job[t])
    /\ UNCHANGED <<hubVars, receipts, faults>>

ProductBegin(t) ==
    /\ pc[t] = "product"
    /\ IF session_id = NoSession THEN Done(t) ELSE Go(t, "take", job[t])
    /\ UNCHANGED <<dbVars, hubVars, receipts, faults>>

\* The session the product goes to is the hub's at this moment.
ProductTake(t) ==
    /\ pc[t] = "take"
    /\ Go(t, "debounce", [job[t] EXCEPT !.session = session_id])
    /\ UNCHANGED <<dbVars, hubVars, receipts, faults>>

\* The product counted last, seen again within 2 s.
ProductDuplicate(t) ==
    /\ pc[t] = "debounce"
    /\ last_product_id = job[t].product
    /\ Done(t)
    /\ UNCHANGED <<dbVars, hubVars, receipts, faults>>

ProductNew(t) ==
    /\ pc[t] = "debounce"
    /\ last_product_id # job[t].product
    /\ last_product_id' = job[t].product
    /\ Go(t, "add", job[t])
    /\ UNCHANGED <<dbVars, session_id, last_obstacle_level, receipts, faults>>

\* The product has no row, or cart_items refuses a row without a session.
ProductNotAdded(t) ==
    /\ pc[t] = "add"
    /\ job[t].product \notin Catalogue \/ job[t].session = NoSession
    /\ Done(t)
    /\ UNCHANGED <<dbVars, hubVars, receipts, faults>>

ProductAdd(t) ==
    /\ pc[t] = "add"
    /\ job[t].product \in Catalogue
    /\ job[t].session # NoSession
    /\ add_cart_item(job[t].session, job[t].product)
    /\ Go(t, "relist", job[t])
    /\ UNCHANGED <<hubVars, receipts, faults>>

ListAgain(t) ==
    /\ pc[t] = "relist"
    /\ Go(t, "send_cart", [job[t] EXCEPT !.items = list_cart_items(job[t].session)])
    /\ UNCHANGED <<dbVars, hubVars, receipts, faults>>

\* UPDATE_CART with job[t].items goes to the UI; what becomes of it there is
\* SmartCart's.
SendCart(t) ==
    /\ pc[t] = "send_cart"
    /\ Done(t)
    /\ UNCHANGED <<dbVars, hubVars, receipts, faults>>

-----------------------------------------------------------------------------
\* _handle_obstacle.  The row of obstacle_logs has no reader in the hub: only
\* that the INSERT comes first and may raise is kept.

ObstacleDropped(t) ==
    /\ pc[t] = "obstacle"
    /\ session_id = NoSession
    /\ Done(t)
    /\ UNCHANGED <<dbVars, hubVars, receipts, faults>>

ObstacleLog(t) ==
    /\ pc[t] = "obstacle"
    /\ session_id # NoSession
    /\ Go(t, "compare", job[t])
    /\ UNCHANGED <<dbVars, hubVars, receipts, faults>>

ObstacleUnchanged(t) ==
    /\ pc[t] = "compare"
    /\ job[t].level = last_obstacle_level
    /\ Done(t)
    /\ UNCHANGED <<dbVars, hubVars, receipts, faults>>

\* Mutant: the new level is stored and not sent.
ObstacleUnsent(t) ==
    /\ pc[t] = "compare"
    /\ job[t].level # last_obstacle_level
    /\ last_obstacle_level' = job[t].level
    /\ Done(t)
    /\ UNCHANGED <<dbVars, session_id, last_product_id, receipts, faults>>

ObstacleChanged(t) ==
    /\ pc[t] = "compare"
    /\ job[t].level # last_obstacle_level
    /\ last_obstacle_level' = job[t].level
    /\ Go(t, "send_alarm", job[t])
    /\ UNCHANGED <<dbVars, session_id, last_product_id, receipts, faults>>

\* SHOW_ALARM with job[t].level goes to the UI: see AlarmChain.
SendAlarm(t) ==
    /\ pc[t] = "send_alarm"
    /\ Done(t)
    /\ UNCHANGED <<dbVars, hubVars, receipts, faults>>

-----------------------------------------------------------------------------
\* Faults and time

Fault ==
    /\ faults < MaxFaults
    /\ faults' = faults + 1

CallsDatabase(t) ==
    \/ pc[t] \in {"start_end", "start_insert", "list", "order", "detail", "update",
                  "update_insert", "remove", "add", "relist"}
    \/ pc[t] = "obstacle" /\ session_id # NoSession

\* Where update_item_quantity catches the exception itself.
Swallowed(t) ==
    \/ pc[t] = "update_insert"
    \/ pc[t] = "update" /\ job[t].quantity > 0

\* Mutant: the loop over the details passes over an exception.
DatabaseRaisesInLoop(t) ==
    /\ CallsDatabase(t)
    /\ Fault
    /\ CASE Swallowed(t) -> Go(t, "relist", job[t])
         [] pc[t] = "detail" -> Go(t, "notify", job[t])
         [] OTHER -> Done(t)
    /\ UNCHANGED <<dbVars, hubVars, receipts>>

\* A statement raises and is rolled back; the handler ends, with what it did
\* before left in place.
DatabaseRaises(t) ==
    /\ CallsDatabase(t)
    /\ Fault
    /\ IF Swallowed(t) THEN Go(t, "relist", job[t]) ELSE Done(t)
    /\ UNCHANGED <<dbVars, hubVars, receipts>>

\* send_request times out or cannot connect, and returns None.
SendLost(t) ==
    /\ pc[t] \in {"notify", "send_cart", "send_alarm"}
    /\ Fault
    /\ IF pc[t] = "notify" THEN Go(t, "clear", job[t]) ELSE Done(t)
    /\ UNCHANGED <<dbVars, hubVars, receipts>>

\* The process is started again: only the tables remain.
Restart ==
    /\ Fault
    /\ pc' = [t \in Threads |-> "idle"]
    /\ job' = [t \in Threads |-> NoJob]
    /\ session_id' = NoSession
    /\ last_obstacle_level' = NORMAL
    /\ last_product_id' = NoProduct
    /\ UNCHANGED <<dbVars, receipts>>

\* DUPLICATE_PRODUCT_INTERVAL_SEC passes.
IntervalElapses ==
    /\ last_product_id # NoProduct
    /\ last_product_id' = NoProduct
    /\ UNCHANGED <<dbVars, session_id, last_obstacle_level, pc, job, receipts, faults>>

-----------------------------------------------------------------------------
Start(t) ==
    \/ StartBegin(t) \/ StartEndPrevious(t) \/ StartReset(t)
    \/ StartInsert(t) \/ StartAssign(t) \/ StartReply(t)

Checkout(t) ==
    \/ CheckoutBegin(t) \/ CheckoutList(t) \/ CheckoutCreateOrder(t)
    \/ CheckoutOrderRefused(t) \/ CheckoutAddDetail(t) \/ CheckoutEndSession(t)
    \/ CheckoutNotify(t) \/ CheckoutClear(t) \/ CheckoutReset(t)

ChangeCart(t) ==
    \/ UpdateDelete(t) \/ UpdateInsert(t) \/ UpdateInsertRefused(t)
    \/ RemoveItem(t)
    \/ ProductBegin(t) \/ ProductTake(t) \/ ProductDuplicate(t) \/ ProductNew(t)
    \/ ProductNotAdded(t) \/ ProductAdd(t)
    \/ ListAgain(t) \/ SendCart(t)

Obstacle(t) ==
    \/ ObstacleDropped(t) \/ ObstacleLog(t) \/ ObstacleUnchanged(t)
    \/ ObstacleChanged(t) \/ SendAlarm(t)

\* The next step of a handler at work.
Work(t) == Start(t) \/ Checkout(t) \/ ChangeCart(t) \/ Obstacle(t)

Next ==
    \/ \E t \in Threads :
          Arrival(t) \/ Work(t) \/ DatabaseRaises(t) \/ SendLost(t)
    \/ Restart
    \/ IntervalElapses

Spec == Init /\ [][Next]_vars

\* A handler thread that is at work is scheduled in the end, and a call it
\* waits for ends (statements by an answer or an exception, messages at the
\* latest after the 5 s of TCPClient).  No request has to arrive.
Fairness == \A t \in Threads : WF_vars(Work(t))

FairSpec == Spec /\ Fairness

-----------------------------------------------------------------------------
(***************************************************************************)
(* Properties.                                                             *)
(***************************************************************************)

Idle == \A t \in Threads : pc[t] = "idle"
Active == {s \in SessionIds : shopping_sessions[s] = "ACTIVE"}

\* Every CHECKOUT_DONE the UI is sent is for an order whose rows of
\* order_details are all there, one for each product the total was computed
\* from, in whatever way other handlers, exceptions and restarts come between
\* (_handle_ui_checkout, steps 3 to 6).
ReceiptsRecorded ==
    \A o \in receipts : order_details[o] = Lines(orders[o].items)

\* Without faults no handler leaves an order behind that lacks detail rows:
\* once no checkout is at work, every order is complete.
OrdersItemised ==
    Idle => \A o \in DOMAIN orders : order_details[o] = Lines(orders[o].items)

\* Seen through one bill per session, the hub's tables and receipts follow
\* SalesLedger: this is what remains certain when handlers interleave, raise
\* and are restarted.
OrderOf(s) == CHOOSE o \in DOMAIN orders : orders[o].session_id = s
Billed == {orders[o].session_id : o \in DOMAIN orders}

Ledger == INSTANCE SalesLedger WITH
    sessions <- shopping_sessions,
    bills <- [s \in Billed |->
                 [items |-> orders[OrderOf(s)].items,
                  lines |-> order_details[OrderOf(s)]]],
    announced <- {orders[o].session_id : o \in receipts}

LedgerSpec == Ledger!Spec

\* Between requests, the hub's session_id is the one ACTIVE row of
\* shopping_sessions, or None when there is none (_handle_ui_start ends the
\* previous session, _handle_ui_checkout the current one).
SessionInSync == Idle => Active = {session_id} \ {NoSession}

\* With one handler at a time and no faults, products that the AI server
\* reports are added to an ACTIVE session: process_product_event does not look
\* at the session it is given.
EventsInOpenSession ==
    [][\A t \in Threads :
          ProductAdd(t) => shopping_sessions[job[t].session] = "ACTIVE"]_vars

\* An order is priced from the cart its session has when the order is
\* created: nothing was added, changed or removed since it was listed.
OrderBillsCart ==
    [][\A o \in DOMAIN orders' \ DOMAIN orders :
          orders'[o].items = cart_items[orders'[o].session_id]]_vars

\* The order a customer was told of has what is in the session's cart.
ReceiptCoversCart ==
    \A o \in receipts : orders[o].items = cart_items[orders[o].session_id]

\* When UPDATE_QUANTITY with a positive quantity has been processed, the
\* product is in the cart with that quantity (one handler at a time).
QuantityUpdated ==
    \A t \in Threads :
        pc[t] = "relist" /\ job[t].quantity > 0 =>
            cart_items[job[t].session][job[t].product] = job[t].quantity

\* Every request is answered: a handler at work ends.
HandlersFinish == \A t \in Threads : pc[t] # "idle" ~> pc[t] = "idle"

\* A checkout the hub begins for a session ends that session.
CheckoutEndsSession ==
    \A s \in 1 .. MaxSessions :
        (\E t \in Threads : pc[t] = "list" /\ session_id = s)
            ~> (s \in SessionIds /\ shopping_sessions[s] = "COMPLETED")
=============================================================================
