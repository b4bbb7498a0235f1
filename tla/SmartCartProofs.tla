--------------------------- MODULE SmartCartProofs ---------------------------
(***************************************************************************)
(* Proofs about the hub, and about the hub with the cart's UI, for any     *)
(* products, catalogue, key of cart_items and bounds.  The types are kept  *)
(* by any number of threads; all else is about requests that come one at a *)
(* time, to a single handler thread: with more the properties proved here  *)
(* do not hold (README, section 6).                                        *)
(***************************************************************************)
EXTENDS SmartCart, CartHubProofs

(***************************************************************************)
(* What the one handler has made of the session and of the cart when it is *)
(* about to make the call l with the locals j.                             *)
(***************************************************************************)
Synced == Active = {session_id} \ {NoSession}

NoneActive == {"start_reset", "start_insert", "notify", "clear"}
HasSession == {"start_end", "list", "order", "detail", "take", "debounce", "add"}

SessionKnown(l, j) ==
    /\ l \in NoneActive => Active = {}
    /\ l = "start_assign" => Active = {j.session}
    /\ l \notin NoneActive \cup {"start_assign"} => Synced
    /\ l \in HasSession => session_id # NoSession
    /\ l \in {"debounce", "add"} => j.session = session_id

CartKnown(l, j) ==
    /\ l = "order" => j.items = list_cart_items(session_id)
    /\ l \in {"remove", "product", "take", "debounce", "add"} => j.quantity = 0
    /\ l \in {"update", "update_insert", "relist"} /\ j.quantity > 0 =>
          j.session \in SessionIds /\ j.product \in Products
    /\ l = "update_insert" => j.quantity > 0 /\ cart_items[j.session][j.product] = 0
    /\ l = "relist" /\ j.quantity > 0 => cart_items[j.session][j.product] = j.quantity

Sequential == \A t \in Threads : SessionKnown(pc[t], job[t]) /\ CartKnown(pc[t], job[t])

-----------------------------------------------------------------------------
LEMMA ActiveFacts ==
  ASSUME DbTypeOK
  PROVE  /\ Active \subseteq SessionIds /\ SessionIds \subseteq Nat /\ NoSession \notin SessionIds
         /\ UNCHANGED shopping_sessions => Active' = Active
         /\ start_session => Active' = Active \cup {NextSessionId}
         /\ \A s : end_session(s) => Active' = Active \ {s}
<1>1. /\ Len(shopping_sessions) \in Nat
      /\ SessionIds = 1 .. Len(shopping_sessions)
      /\ shopping_sessions \in Seq({"ACTIVE", "COMPLETED"})
  BY DbDomains DEF DbTypeOK
<1>2. Active \subseteq SessionIds /\ SessionIds \subseteq Nat /\ NoSession \notin SessionIds
  BY <1>1 DEF Active, NoSession
<1>3. UNCHANGED shopping_sessions => Active' = Active
  BY DEF Active, SessionIds
<1>4. ASSUME start_session PROVE Active' = Active \cup {NextSessionId}
  <2>1. /\ Len(shopping_sessions') = Len(shopping_sessions) + 1
        /\ shopping_sessions' \in Seq({"ACTIVE", "COMPLETED"})
        /\ \A i \in 1 .. Len(shopping_sessions) : shopping_sessions'[i] = shopping_sessions[i]
        /\ shopping_sessions'[NextSessionId] = "ACTIVE"
    BY <1>1, <1>4, AppendProperties DEF start_session, NextSessionId
  <2>2. SessionIds' = SessionIds \cup {NextSessionId}
    <3>1. SessionIds' = 1 .. Len(shopping_sessions) + 1
      BY <2>1, LenProperties DEF SessionIds
    <3> QED
      BY <1>1, <3>1 DEF NextSessionId
  <2> QED
    BY <1>1, <2>1, <2>2 DEF Active
<1>5. ASSUME NEW s, end_session(s) PROVE Active' = Active \ {s}
  <2>1. shopping_sessions' =
            [i \in SessionIds |-> IF i = s THEN "COMPLETED" ELSE shopping_sessions[i]]
    BY <1>5 DEF end_session
  <2>2. SessionIds' = SessionIds
    BY <2>1 DEF SessionIds
  <2> QED
    BY <2>1, <2>2 DEF Active
<1> QED
  BY <1>2, <1>3, <1>4, <1>5

\* With one handler, what is known of that one is all there is to know.
LEMMA Sole ==
  ASSUME NEW h, Threads = {h}
  PROVE  /\ Sequential <=> SessionKnown(pc[h], job[h]) /\ CartKnown(pc[h], job[h])
         /\ Sequential' <=> SessionKnown(pc[h], job[h])' /\ CartKnown(pc[h], job[h])'
  BY DEF Sequential

\* Labels for which nothing is known but that hub and table agree.
Plain == {"idle", "start", "start_reply", "checkout", "checkout_reset", "send_cart", "obstacle", "compare", "send_alarm"}

LEMMA PlainStep ==
  ASSUME NEW h, Threads = {h}, Sequential, Synced', NEW l \in Plain, pc'[h] = l
  PROVE  Sequential'
  BY Sole DEF Plain, SessionKnown, CartKnown, NoneActive, HasSession

\* Sessions and attributes are left alone.
LEMMA SyncedKept ==
  ASSUME DbTypeOK, Synced, UNCHANGED <<shopping_sessions, session_id>>
  PROVE  Synced'
  BY ActiveFacts DEF Synced

LEMMA HandlerFacts ==
  ASSUME Inv, NEW h, Threads = {h}, Sequential
  PROVE  /\ h \in Threads /\ DbInv /\ DbTypeOK /\ HandlersTypeOK
         /\ SessionKnown(pc[h], job[h]) /\ CartKnown(pc[h], job[h])
         /\ session_id \in Nat /\ job[h] \in Job
         /\ job[h].session \in Nat /\ job[h].quantity \in Nat
  BY Sole, JobType, DbDomains DEF Inv, DbInv, HubTypeOK

-----------------------------------------------------------------------------
LEMMA StartSequential ==
  ASSUME Inv, NEW h, Threads = {h}, Sequential, Start(h)
  PROVE  Sequential'
<1> USE HandlerFacts, ActiveFacts
<1>1. CASE StartBegin(h)
  <2>1. PICK l \in {"start_insert", "start_end"} :
            /\ pc'[h] = l /\ job'[h] = job[h]
            /\ l = "start_end" <=> session_id # NoSession
    BY <1>1, GoFacts DEF StartBegin
  <2>2. Synced /\ UNCHANGED <<dbVars, session_id>>
    BY <1>1 DEF StartBegin, hubVars, SessionKnown, NoneActive
  <2>3. Active' = Active /\ Synced'
    BY <2>2, SyncedKept DEF dbVars
  <2> QED
    BY <2>1, <2>2, <2>3, Sole DEF Synced, SessionKnown, CartKnown, NoneActive, HasSession
<1>2. CASE StartEndPrevious(h)
  <2>1. pc'[h] = "start_reset" /\ end_session(session_id)
    BY <1>2, GoFacts DEF StartEndPrevious
  <2>2. Active = {session_id} \ {NoSession}
    BY <1>2 DEF StartEndPrevious, SessionKnown, NoneActive, Synced
  <2>3. Active' = {}
    BY <2>1, <2>2
  <2> QED
    BY <2>1, <2>3, Sole DEF SessionKnown, CartKnown, NoneActive, HasSession
<1>3. CASE StartReset(h)
  <2>1. pc'[h] = "start_insert" /\ Active' = Active /\ Active = {}
    BY <1>3, GoFacts DEF StartReset, dbVars, SessionKnown, NoneActive
  <2> QED
    BY <2>1, Sole DEF SessionKnown, CartKnown, NoneActive, HasSession
<1>4. CASE StartInsert(h)
  <2> DEFINE j == [job[h] EXCEPT !.session = NextSessionId]
  <2>1. pc'[h] = "start_assign" /\ job'[h] = j /\ start_session
    BY <1>4, GoFacts DEF StartInsert
  <2>2. Active' = {NextSessionId}
    BY <1>4, <2>1 DEF StartInsert, SessionKnown, NoneActive
  <2>3. j.session = NextSessionId
    BY DEF Job
  <2> QED
    BY <2>1, <2>2, <2>3, Sole DEF SessionKnown, CartKnown, NoneActive, HasSession
<1>5. CASE StartAssign(h)
  <2>1. /\ pc'[h] = "start_reply" /\ session_id' = job[h].session
        /\ Active = {job[h].session} /\ Active' = Active
    BY <1>5, GoFacts DEF StartAssign, dbVars, SessionKnown
  <2>2. Synced'
    BY <2>1 DEF Synced, NoSession
  <2> QED
    BY <2>1, <2>2, PlainStep DEF Plain
<1>6. CASE StartReply(h)
  <2>1. pc'[h] = "idle" /\ Synced /\ UNCHANGED <<shopping_sessions, session_id>>
    BY <1>6, DoneFacts DEF StartReply, dbVars, hubVars, SessionKnown, NoneActive
  <2> QED
    BY <2>1, SyncedKept, PlainStep DEF Plain
<1> QED
  BY <1>1, <1>2, <1>3, <1>4, <1>5, <1>6 DEF Start

LEMMA CheckoutSequential ==
  ASSUME Inv, NEW h, Threads = {h}, Sequential, Checkout(h)
  PROVE  Sequential'
<1> USE HandlerFacts, ActiveFacts
<1>1. CASE CheckoutBegin(h)
  <2>1. Synced /\ UNCHANGED <<shopping_sessions, session_id>>
    BY <1>1 DEF CheckoutBegin, dbVars, hubVars, SessionKnown, NoneActive
  <2>2. Synced'
    BY <2>1, SyncedKept
  <2>3. CASE session_id = NoSession
    <3>1. pc'[h] = "idle"
      BY <1>1, <2>3, DoneFacts DEF CheckoutBegin
    <3> QED
      BY <2>2, <3>1, PlainStep DEF Plain
  <2>4. CASE session_id # NoSession
    <3>1. pc'[h] = "list" /\ session_id' # NoSession
      BY <1>1, <2>1, <2>4, GoFacts DEF CheckoutBegin
    <3> QED
      BY <2>2, <3>1, Sole DEF SessionKnown, CartKnown, NoneActive, HasSession, NoSession
  <2> QED
    BY <2>3, <2>4
<1>2. CASE CheckoutList(h)
  <2> DEFINE items == list_cart_items(session_id)
             j == [job[h] EXCEPT !.items = items, !.todo = Lines(items)]
  <2>1. /\ pc'[h] = "order" /\ job'[h] = j
        /\ UNCHANGED <<shopping_sessions, cart_items, session_id>>
        /\ Synced /\ session_id # NoSession
    BY <1>2, GoFacts
    DEF CheckoutList, dbVars, hubVars, SessionKnown, NoneActive, HasSession
  <2>2. j.items = items
    BY DEF Job
  <2>3. list_cart_items(session_id)' = items
    BY <2>1 DEF list_cart_items, SessionIds, EmptyCart
  <2>4. Synced'
    BY <2>1, SyncedKept
  <2> HIDE DEF items, j
  <2>5. SessionKnown(pc[h], job[h])'
    BY <2>1, <2>4 DEF SessionKnown, NoneActive, HasSession, NoSession
  <2>6. CartKnown(pc[h], job[h])'
    BY <2>1, <2>2, <2>3 DEF CartKnown
  <2> QED
    BY <2>5, <2>6, Sole
<1>3. CASE CheckoutCreateOrder(h) \/ CheckoutAddDetail(h)
  <2>1. pc'[h] = "detail" /\ pc[h] \in {"order", "detail"}
    <3>1. CASE CheckoutCreateOrder(h)
      BY <3>1, GoFacts DEF CheckoutCreateOrder
    <3>2. CASE CheckoutAddDetail(h)
      BY <3>2, GoFacts DEF CheckoutAddDetail
    <3> QED
      BY <1>3, <3>1, <3>2
  <2>2. UNCHANGED <<shopping_sessions, session_id>>
    BY <1>3
    DEF CheckoutCreateOrder, CheckoutAddDetail, create_order, add_order_detail, hubVars
  <2>3. Synced /\ session_id # NoSession
    BY <2>1 DEF SessionKnown, NoneActive, HasSession
  <2>4. Synced'
    BY <2>2, <2>3, SyncedKept
  <2> QED
    BY <2>1, <2>2, <2>3, <2>4, Sole DEF SessionKnown, CartKnown, NoneActive, HasSession, NoSession
<1>4. CASE CheckoutOrderRefused(h)
  <2>1. pc'[h] = "idle" /\ Synced /\ UNCHANGED <<shopping_sessions, session_id>>
    BY <1>4, DoneFacts DEF CheckoutOrderRefused, dbVars, hubVars, SessionKnown, NoneActive
  <2> QED
    BY <2>1, SyncedKept, PlainStep DEF Plain
<1>5. CASE CheckoutEndSession(h)
  <2>1. pc'[h] = "notify" /\ end_session(session_id) /\ Synced
    BY <1>5, GoFacts DEF CheckoutEndSession, SessionKnown, NoneActive
  <2>2. Active' = {}
    BY <2>1 DEF Synced
  <2> QED
    BY <2>1, <2>2, Sole DEF SessionKnown, CartKnown, NoneActive, HasSession
<1>6. CASE CheckoutNotify(h)
  <2>1. pc'[h] = "clear" /\ Active' = Active /\ Active = {}
    BY <1>6, GoFacts DEF CheckoutNotify, dbVars, SessionKnown, NoneActive
  <2> QED
    BY <2>1, Sole DEF SessionKnown, CartKnown, NoneActive, HasSession
<1>7. CASE CheckoutClear(h)
  <2>1. pc'[h] = "checkout_reset" /\ Active' = Active /\ Active = {} /\ session_id' = NoSession
    BY <1>7, GoFacts DEF CheckoutClear, dbVars, SessionKnown, NoneActive
  <2>2. Synced'
    BY <2>1 DEF Synced, NoSession
  <2> QED
    BY <2>1, <2>2, PlainStep DEF Plain
<1>8. CASE CheckoutReset(h)
  <2>1. pc'[h] = "idle" /\ Synced /\ UNCHANGED <<shopping_sessions, session_id>>
    BY <1>8, DoneFacts DEF CheckoutReset, reset, dbVars, SessionKnown, NoneActive
  <2> QED
    BY <2>1, SyncedKept, PlainStep DEF Plain
<1> QED
  BY <1>1, <1>2, <1>3, <1>4, <1>5, <1>6, <1>7, <1>8 DEF Checkout

-----------------------------------------------------------------------------
\* The quantities a statement on cart_items leaves.
LEMMA QuantitySet ==
  ASSUME DbTypeOK, NEW s \in SessionIds, NEW p \in Products, NEW q, SetQuantity(s, p, q)
  PROVE  /\ cart_items'[s][p] = q
         /\ SessionIds' = SessionIds
         /\ UNCHANGED <<shopping_sessions, orders, order_details>>
<1>1. s \in DOMAIN cart_items /\ cart_items[s] \in Listing
  BY DbDomains
<1> QED
  BY <1>1 DEF SetQuantity, Listing, SessionIds

LEMMA UpdateSequential ==
  ASSUME Inv, NEW h, Threads = {h}, Sequential,
         \/ UpdateDelete(h) \/ UpdateInsert(h) \/ UpdateInsertRefused(h)
         \/ RemoveItem(h) \/ ListAgain(h)
  PROVE  Sequential'
<1> USE HandlerFacts
<1> DEFINE s == job[h].session
           p == job[h].product
<1>1. Synced
  BY DEF UpdateDelete, UpdateInsert, UpdateInsertRefused, RemoveItem, ListAgain,
         SessionKnown, NoneActive
<1>2. /\ UNCHANGED <<shopping_sessions, session_id>>
      /\ Synced' /\ SessionIds' = SessionIds
  <2>1. UNCHANGED <<shopping_sessions, session_id>>
    BY CartStatements
    DEF UpdateDelete, UpdateInsert, UpdateInsertRefused, RemoveItem, ListAgain, dbVars, hubVars
  <2> QED
    BY <1>1, <2>1, SyncedKept DEF SessionIds
<1>3. CASE UpdateDelete(h)
  <2>1. /\ pc'[h] = IF job[h].quantity = 0 THEN "relist" ELSE "update_insert"
        /\ job'[h] = job[h] /\ SetQuantity(s, p, 0)
        /\ job[h].quantity > 0 => s \in SessionIds /\ p \in Products
    BY <1>3, GoFacts DEF UpdateDelete, remove_cart_item, CartKnown
  <2>2. job[h].quantity > 0 => cart_items'[s][p] = 0
    BY <2>1, QuantitySet
  <2> QED
    BY <1>2, <2>1, <2>2, Sole DEF SessionKnown, CartKnown, NoneActive, HasSession
<1>4. CASE UpdateInsert(h)
  <2>1. /\ pc'[h] = "relist" /\ job'[h] = job[h]
        /\ SetQuantity(s, p, cart_items[s][p] + job[h].quantity)
        /\ s \in SessionIds /\ p \in Products /\ cart_items[s][p] = 0
    BY <1>4, GoFacts DEF UpdateInsert, InsertItem, CartKnown
  <2>2. cart_items'[s][p] = job[h].quantity
    BY <2>1, QuantitySet
  <2> QED
    BY <1>2, <2>1, <2>2, Sole DEF SessionKnown, CartKnown, NoneActive, HasSession
<1>5. CASE UpdateInsertRefused(h)
  BY <1>5 DEF UpdateInsertRefused, InsertRefused, CartKnown
<1>6. CASE RemoveItem(h)
  <2>1. pc'[h] = "relist" /\ job'[h] = job[h] /\ job[h].quantity = 0
    BY <1>6, GoFacts DEF RemoveItem, CartKnown
  <2> QED
    BY <1>2, <2>1, Sole DEF SessionKnown, CartKnown, NoneActive, HasSession
<1>7. CASE ListAgain(h)
  <2>1. pc'[h] = "send_cart"
    BY <1>7, GoFacts DEF ListAgain
  <2> QED
    BY <1>2, <2>1, PlainStep DEF Plain
<1> QED
  BY <1>3, <1>4, <1>5, <1>6, <1>7

LEMMA ProductSequential ==
  ASSUME Inv, NEW h, Threads = {h}, Sequential,
         \/ ProductBegin(h) \/ ProductTake(h) \/ ProductDuplicate(h) \/ ProductNew(h)
         \/ ProductNotAdded(h) \/ ProductAdd(h) \/ SendCart(h)
  PROVE  Sequential'
<1> USE HandlerFacts
<1>1. /\ Synced /\ UNCHANGED <<shopping_sessions, session_id>>
      /\ pc[h] # "send_cart" => job[h].quantity = 0
  BY CartStatements
  DEF ProductBegin, ProductTake, ProductDuplicate, ProductNew, ProductNotAdded, ProductAdd,
      SendCart, SessionKnown, CartKnown, NoneActive, dbVars, hubVars
<1>2. Synced'
  BY <1>1, SyncedKept
<1>3. CASE pc'[h] = "idle"
  BY <1>2, <1>3, PlainStep DEF Plain
<1>4. CASE ProductBegin(h) /\ session_id # NoSession
  <2>1. pc'[h] = "take" /\ job'[h] = job[h]
    BY <1>4, GoFacts DEF ProductBegin
  <2> QED
    BY <1>1, <1>2, <1>4, <2>1, Sole DEF ProductBegin, SessionKnown, CartKnown, NoneActive, HasSession, NoSession
<1>5. CASE ProductTake(h)
  <2> DEFINE j == [job[h] EXCEPT !.session = session_id]
  <2>1. pc'[h] = "debounce" /\ job'[h] = j
    BY <1>5, GoFacts DEF ProductTake
  <2>2. j.session = session_id /\ j.quantity = 0
    BY <1>1, <1>5 DEF Job, ProductTake
  <2>3. session_id # NoSession
    BY <1>5 DEF ProductTake, SessionKnown, HasSession
  <2> HIDE DEF j
  <2> QED
    BY <1>1, <1>2, <2>1, <2>2, <2>3, Sole DEF SessionKnown, CartKnown, NoneActive, HasSession, NoSession
<1>6. CASE ProductNew(h)
  <2>1. pc'[h] = "add" /\ job'[h] = job[h]
    BY <1>6, GoFacts DEF ProductNew
  <2>2. session_id # NoSession /\ job[h].session = session_id /\ job[h].quantity = 0
    BY <1>1, <1>6 DEF ProductNew, SessionKnown, HasSession
  <2> QED
    BY <1>1, <1>2, <2>1, <2>2, Sole DEF SessionKnown, CartKnown, NoneActive, HasSession, NoSession
<1>7. CASE ProductAdd(h)
  <2>1. pc'[h] = "relist" /\ job'[h] = job[h] /\ job[h].quantity = 0
    BY <1>1, <1>7, GoFacts DEF ProductAdd
  <2> QED
    BY <1>2, <2>1, Sole DEF SessionKnown, CartKnown, NoneActive, HasSession
<1> QED
  BY <1>3, <1>4, <1>5, <1>6, <1>7, DoneFacts
  DEF ProductBegin, ProductDuplicate, ProductNotAdded, SendCart

LEMMA ObstacleSequential ==
  ASSUME Inv, NEW h, Threads = {h}, Sequential, Obstacle(h)
  PROVE  Sequential'
<1> USE HandlerFacts
<1>1. PICK l \in {"idle", "compare", "send_alarm"} : pc'[h] = l
  BY GoFacts, DoneFacts
  DEF Obstacle, ObstacleDropped, ObstacleLog, ObstacleUnchanged, ObstacleChanged, SendAlarm
<1>2. Synced /\ UNCHANGED <<shopping_sessions, session_id>>
  BY DEF Obstacle, ObstacleDropped, ObstacleLog, ObstacleUnchanged, ObstacleChanged, SendAlarm,
         SessionKnown, NoneActive, dbVars, hubVars
<1> QED
  BY <1>1, <1>2, SyncedKept, PlainStep DEF Plain

\* UPDATE_QUANTITY and REMOVE_ITEM for a session the tables have.
LEMMA QuantitySequential ==
  ASSUME Inv, NEW h, Threads = {h}, Sequential, NEW s \in SessionIds, NEW p \in Products,
         \/ \E q \in Nat : ReceiveUpdateQuantity(h, s, p, q)
         \/ ReceiveRemoveItem(h, s, p)
  PROVE  Sequential'
<1> USE HandlerFacts
<1>1. pc[h] = "idle" /\ UNCHANGED <<dbVars, session_id>>
  BY DEF hubVars, Receive, ReceiveUpdateQuantity, ReceiveRemoveItem
<1>2. Synced /\ Synced' /\ SessionIds' = SessionIds
  BY <1>1, SyncedKept DEF SessionKnown, NoneActive, dbVars, SessionIds
<1>3. NoJob \in Job /\ NoJob.quantity = 0
  BY NoJobType DEF NoJob
<1>4. ASSUME NEW q \in Nat, ReceiveUpdateQuantity(h, s, p, q)
      PROVE  Sequential'
  <2> DEFINE j == [NoJob EXCEPT !.session = s, !.product = p, !.quantity = q]
  <2>1. pc'[h] = "update" /\ job'[h] = j
    BY <1>4, GoFacts DEF ReceiveUpdateQuantity, Receive
  <2>2. j.session \in SessionIds' /\ j.product \in Products
    BY <1>2, <1>3 DEF NoJob
  <2> HIDE DEF j
  <2> QED
    BY <1>2, <2>1, <2>2, Sole DEF SessionKnown, CartKnown, NoneActive, HasSession
<1>5. CASE ReceiveRemoveItem(h, s, p)
  <2> DEFINE j == [NoJob EXCEPT !.session = s, !.product = p]
  <2>1. pc'[h] = "remove" /\ job'[h] = j
    BY <1>5, GoFacts DEF ReceiveRemoveItem, Receive
  <2>2. j.quantity = 0
    BY <1>3 DEF NoJob
  <2> HIDE DEF j
  <2> QED
    BY <1>2, <2>1, <2>2, Sole DEF SessionKnown, CartKnown, NoneActive, HasSession
<1> QED
  BY <1>4, <1>5

LEMMA ArrivalSequential ==
  ASSUME Inv, NEW h, Threads = {h}, Sequential, Arrival(h)
  PROVE  Sequential'
<1> USE HandlerFacts
<1>1. pc[h] = "idle" /\ UNCHANGED <<dbVars, session_id>>
  BY ArrivalOthersStay
  DEF hubVars, Arrival, Receive, ReceiveStart, ReceiveCheckout, ReceiveUpdateQuantity,
      ReceiveRemoveItem, ReceiveProduct, ReceiveObstacle
<1>2. Synced /\ Synced' /\ SessionIds' = SessionIds
  BY <1>1, SyncedKept DEF SessionKnown, NoneActive, dbVars, SessionIds
<1>3. NoJob \in Job /\ NoJob.quantity = 0
  BY NoJobType DEF NoJob
<1>4. ASSUME NEW l \in {"start", "checkout", "obstacle"}, pc'[h] = l
      PROVE  Sequential'
  BY <1>2, <1>4, PlainStep DEF Plain
<1>5. CASE ReceiveStart(h)
  BY <1>4, <1>5, GoFacts DEF ReceiveStart, Receive
<1>6. CASE ReceiveCheckout(h)
  BY <1>4, <1>6, GoFacts DEF ReceiveCheckout, Receive
<1>7. ASSUME NEW l \in Levels, ReceiveObstacle(h, l) PROVE Sequential'
  BY <1>4, <1>7, GoFacts DEF ReceiveObstacle, Receive
<1>8. ASSUME NEW s \in SessionIds, NEW p \in Catalogue,
             \/ \E q \in 0 .. MaxQuantity - 1 : ReceiveUpdateQuantity(h, s, p, q)
             \/ ReceiveRemoveItem(h, s, p)
      PROVE  Sequential'
  <2>1. p \in Products /\ 0 .. MaxQuantity - 1 \subseteq Nat
    BY CatalogueAssumption, BoundsAssumption
  <2> QED
    BY <1>8, <2>1, QuantitySequential
<1>9. ASSUME NEW p \in Products, ReceiveProduct(h, p) PROVE Sequential'
  <2> DEFINE j == [NoJob EXCEPT !.product = p]
  <2>1. pc'[h] = "product" /\ job'[h] = j
    BY <1>9, GoFacts DEF ReceiveProduct, Receive
  <2>2. j.quantity = 0
    BY <1>3 DEF NoJob
  <2> HIDE DEF j
  <2> QED
    BY <1>2, <2>1, <2>2, Sole DEF SessionKnown, CartKnown, NoneActive, HasSession
<1> QED
  BY <1>5, <1>6, <1>7, <1>8, <1>9 DEF Arrival

\* The debounce's memory, and nothing else, may change.
LEMMA SequentialKept ==
  ASSUME Inv, NEW h, Threads = {h}, Sequential, UNCHANGED <<dbVars, session_id, pc, job>>
  PROVE  Sequential'
<1> USE HandlerFacts
<1>1. Active' = Active /\ SessionIds' = SessionIds
  BY ActiveFacts DEF dbVars, SessionIds
<1>2. \A s : list_cart_items(s)' = list_cart_items(s)
  BY DEF list_cart_items, SessionIds, dbVars, EmptyCart
<1>3. SessionKnown(pc[h], job[h])'
  BY <1>1 DEF SessionKnown, Synced, NoneActive, HasSession, NoSession
<1>4. CartKnown(pc[h], job[h])'
  BY <1>1, <1>2 DEF CartKnown, dbVars
<1> QED
  BY <1>3, <1>4, Sole

\* A single handler, and no fault so far.
LEMMA SequentialWork ==
  ASSUME Inv, NEW h, Threads = {h}, Sequential, Work(h)
  PROVE  Sequential'
  BY StartSequential, CheckoutSequential, UpdateSequential, ProductSequential, ObstacleSequential
  DEF Work, ChangeCart

LEMMA SequentialNext ==
  ASSUME Inv, NEW h, Threads = {h}, Sequential, [Next]_vars, faults' = 0
  PROVE  Sequential'
<1>1. ~ Fault
  BY BoundsAssumption DEF Fault, Inv, FaultsTypeOK
<1>2. CASE Arrival(h)
  BY <1>2, ArrivalSequential
<1>3. CASE Work(h)
  BY <1>3, SequentialWork
<1>4. CASE IntervalElapses \/ UNCHANGED vars
  <2>1. UNCHANGED <<dbVars, session_id, pc, job>>
    BY <1>4 DEF IntervalElapses, vars, hubVars
  <2> QED
    BY <2>1, SequentialKept
<1> QED
  BY <1>1, <1>2, <1>3, <1>4 DEF Next, DatabaseRaises, SendLost, Restart

LEMMA SequentialInit ==
  ASSUME NEW h, Threads = {h}, Init
  PROVE  Sequential
<1>1. Active = {} /\ session_id = NoSession
  BY DEF Init, DbInit, Active, SessionIds
<1>2. pc[h] = "idle"
  BY DEF Init
<1> QED
  BY <1>1, <1>2, Sole DEF SessionKnown, CartKnown, Synced, NoneActive, HasSession, NoSession

OneHandler == \E h : Threads = {h}

LEMMA HubFaultless ==
  ASSUME OneHandler
  PROVE  /\ Init => Inv /\ (faults = 0 => Sequential)
         /\ Inv /\ (faults = 0 => Sequential) /\ [Next]_vars
                => Inv' /\ (faults = 0 => Sequential)'
<1>1. PICK h : Threads = {h}
  BY DEF OneHandler
<1>2. Init => Inv /\ (faults = 0 => Sequential)
  BY <1>1, InitInv, SequentialInit
<1>3. ASSUME Inv, faults = 0 => Sequential, [Next]_vars
      PROVE  Inv' /\ (faults' = 0 => Sequential')
  <2>1. faults' = 0 => faults = 0
    <3>1. faults \in Nat /\ (faults' = faults \/ faults' = faults + 1)
      BY <1>3, FaultsCounted, BoundsAssumption DEF Inv, FaultsTypeOK, Fault
    <3> QED
      BY <3>1
  <2> QED
    BY <1>1, <1>3, <2>1, NextInv, SequentialNext
<1> QED
  BY <1>2, <1>3

(***************************************************************************)
(* With one handler at a time and no fault so far, the hub's session_id is *)
(* the one ACTIVE row whenever no request is at work (_handle_ui_start,    *)
(* _handle_ui_checkout).                                                   *)
(***************************************************************************)
THEOREM HubSessionInSync ==
  ASSUME OneHandler
  PROVE  Spec => [](faults = 0 => SessionInSync)
<1>1. Sequential => SessionInSync
  BY DEF OneHandler, Sequential, SessionKnown, NoneActive, Synced, SessionInSync, Idle
<1> QED
  BY <1>1, HubFaultless, PTL DEF Spec

(***************************************************************************)
(* With one handler at a time and no fault so far, an UPDATE_QUANTITY      *)
(* leaves the quantity it asks for, with the unique key of cart_items and  *)
(* without: the INSERT that follows the DELETE is never refused            *)
(* (update_item_quantity).                                                 *)
(***************************************************************************)
THEOREM HubQuantityUpdated ==
  ASSUME OneHandler
  PROVE  Spec => [](faults = 0 => QuantityUpdated)
<1>1. Sequential => QuantityUpdated
  BY DEF Sequential, CartKnown, QuantityUpdated
<1> QED
  BY <1>1, HubFaultless, PTL DEF Spec

-----------------------------------------------------------------------------
\* Where no fault can happen, the handler's knowledge holds all the time.
LEMMA AlwaysSequential ==
  ASSUME OneHandler, MaxFaults = 0
  PROVE  Spec => [](Inv /\ Sequential)
<1>1. Inv => faults = 0
  BY DEF Inv, FaultsTypeOK
<1> QED
  BY <1>1, HubFaultless, PTL DEF Spec

(***************************************************************************)
(* With one handler at a time and no faults, what the AI server reports is *)
(* added to an ACTIVE session, although process_product_event does not     *)
(* look at the session: no request ends it between the moment the session  *)
(* is taken from the attribute and the INSERT.                             *)
(***************************************************************************)
THEOREM HubEventsInOpenSession ==
  ASSUME OneHandler, MaxFaults = 0
  PROVE  Spec => EventsInOpenSession
<1> DEFINE IntoOpen ==
               \A t \in Threads :
                   ProductAdd(t) => shopping_sessions[job[t].session] = "ACTIVE"
<1>1. ASSUME Inv, Sequential, NEW t \in Threads, ProductAdd(t)
      PROVE  shopping_sessions[job[t].session] = "ACTIVE"
  <2>1. pc[t] = "add" /\ SessionKnown("add", job[t])
    BY <1>1 DEF ProductAdd, Sequential
  <2>2. Synced /\ session_id # NoSession /\ job[t].session = session_id
    BY <2>1 DEF SessionKnown, NoneActive, HasSession
  <2> QED
    BY <2>2 DEF Synced, Active
<1>2. Inv /\ Sequential => [IntoOpen]_vars
  BY <1>1
<1> HIDE DEF IntoOpen
<1>3. Spec => [][IntoOpen]_vars
  BY <1>2, AlwaysSequential, PTL DEF Spec
<1> QED
  BY <1>3 DEF EventsInOpenSession, IntoOpen

\* Orders come from a checkout, one at a time.
LEMMA CreatedOrder ==
  ASSUME Inv, NEW t \in Threads, CheckoutCreateOrder(t)
  PROVE  /\ DOMAIN orders' = DOMAIN orders \cup {NextOrderId}
         /\ orders'[NextOrderId] = [session_id |-> session_id, items |-> job[t].items]
<1>1. session_id \in Nat
  BY DbDomains DEF Inv, DbInv, HubTypeOK
<1>2. job[t].items \in Listing /\ DbInv /\ create_order(session_id, job[t].items)
  BY JobType DEF Inv, CheckoutCreateOrder
<1> QED
  BY <1>1, <1>2, CreateOrderStep

LEMMA OrdersFromCheckout ==
  ASSUME Inv, [Next]_vars
  PROVE  DOMAIN orders' = DOMAIN orders \/ \E t \in Threads : CheckoutCreateOrder(t)
<1>1. ASSUME NEW t \in Threads, Work(t)
      PROVE  DOMAIN orders' = DOMAIN orders \/ CheckoutCreateOrder(t)
  BY <1>1, OrdersWritten DEF CheckoutAddDetail, add_order_detail
<1>2. ASSUME NEW t \in Threads, Arrival(t) PROVE UNCHANGED orders
  BY <1>2, ArrivalOthersStay DEF Inv, dbVars
<1>3. ASSUME NEW t \in Threads, DatabaseRaises(t) \/ SendLost(t) PROVE UNCHANGED orders
  BY <1>3 DEF DatabaseRaises, SendLost, dbVars
<1>4. CASE Restart \/ IntervalElapses \/ UNCHANGED vars
  BY <1>4 DEF Restart, IntervalElapses, vars, dbVars
<1> QED
  BY <1>1, <1>2, <1>3, <1>4 DEF Next

(***************************************************************************)
(* With one handler at a time and no faults, an order has what is in its   *)
(* session's cart when it is created: the cart that list_cart_items read   *)
(* for the total is still the one when create_order writes the row         *)
(* (_handle_ui_checkout).                                                  *)
(***************************************************************************)
THEOREM HubOrderBillsCart ==
  ASSUME OneHandler, MaxFaults = 0
  PROVE  Spec => OrderBillsCart
<1> DEFINE FromCart ==
               \A o \in DOMAIN orders' \ DOMAIN orders :
                   orders'[o].items = cart_items[orders'[o].session_id]
<1>1. ASSUME Inv, Sequential, NEW t \in Threads, CheckoutCreateOrder(t)
      PROVE  FromCart
  <2>1. /\ session_id # NoSession
        /\ job[t].items = list_cart_items(session_id)
    BY <1>1 DEF CheckoutCreateOrder, Sequential, SessionKnown, CartKnown, NoneActive, HasSession
  <2>2. session_id \in SessionIds /\ session_id \in Nat
    BY <1>1, <2>1, DbDomains DEF Inv, DbInv, HubTypeOK, NoSession
  <2>3. /\ DOMAIN orders' = DOMAIN orders \cup {NextOrderId}
        /\ orders'[NextOrderId] = [session_id |-> session_id, items |-> job[t].items]
    BY <1>1, CreatedOrder
  <2> QED
    BY <2>1, <2>2, <2>3 DEF list_cart_items
<1>2. Inv /\ Sequential /\ [Next]_vars => [FromCart]_vars
  BY <1>1, OrdersFromCheckout
<1> HIDE DEF FromCart
<1>3. Spec => [][FromCart]_vars
  BY <1>2, AlwaysSequential, PTL DEF Spec
<1> QED
  BY <1>3 DEF OrderBillsCart, FromCart

-----------------------------------------------------------------------------
(***************************************************************************)
(* The hub and the UI: types, for any number of threads.                   *)
(***************************************************************************)
Update == [by : Threads \cup {NoThread}, items : Listing]

\* The parts of CartTypeOK that are not the hub's.
ScreenTypeOK ==
    /\ view \in {"standby", "shopping", "dialog"}
    /\ current_session_id \in Nat
    /\ table \in Listing
    /\ updates \in Seq(Update)
    /\ notices \subseteq Threads
    /\ quoted \in Listing
    /\ overtaken \in BOOLEAN
AskTypeOK ==
    /\ asking \in Threads \cup {NoThread}
    /\ reply \in {"none", "refused", "ok"}
    /\ reply_id \in Nat

CartInv == Inv /\ ScreenTypeOK /\ AskTypeOK

LEMMA CartInvTypeOK == CartInv => CartTypeOK
  BY InvTypeOK DEF CartInv, ScreenTypeOK, AskTypeOK, CartTypeOK, Update

LEMMA ArrivalOfUi ==
  ASSUME NEW t \in Threads,
         ReceiveStart(t) \/ ReceiveCheckout(t) \/ \E p \in Products : ReceiveProduct(t, p)
  PROVE  Arrival(t)
  BY DEF Arrival

LEMMA HubWorksWork ==
  ASSUME NEW t \in Threads, HubWorks(t)
  PROVE  Work(t)
  BY DEF HubWorks, HubAnswersStart, HubSendsCart, HubSendsCheckoutDone, HubClearsSession,
         Work, Start, Checkout, ChangeCart

\* What PressQuantity sends.
LEMMA PressedQuantity ==
  ASSUME ScreenTypeOK, NEW t \in Threads, NEW p, PressQuantity(t, p)
  PROVE  /\ p \in Products /\ view = "shopping" /\ Served /\ Free(t)
         /\ current_session_id # NoSession
         /\ \/ \E q \in Nat : ReceiveUpdateQuantity(t, current_session_id, p, q)
            \/ ReceiveRemoveItem(t, current_session_id, p)
         /\ UNCHANGED cartVars
<1>1. p \in Products /\ table[p] \in Nat /\ table[p] > 0
  BY DEF PressQuantity, Lines, ScreenTypeOK, Listing
<1>2. table[p] - 1 \in Nat /\ table[p] + 1 \in Nat
  BY <1>1
<1> QED
  BY <1>1, <1>2 DEF PressQuantity

\* What a handler knows that takes UPDATE_QUANTITY or REMOVE_ITEM.
LEMMA QuantityRequest ==
  ASSUME HandlersTypeOK, NEW t \in Threads, NEW s, NEW p,
         \/ \E q \in Nat : ReceiveUpdateQuantity(t, s, p, q)
         \/ ReceiveRemoveItem(t, s, p)
  PROVE  /\ pc[t] = "idle" /\ pc'[t] \in {"update", "remove"} /\ job'[t].session = s
         /\ UNCHANGED <<dbVars, hubVars, receipts, faults>>
<1>1. ASSUME NEW q, ReceiveUpdateQuantity(t, s, p, q)
      PROVE  pc[t] = "idle" /\ pc'[t] = "update" /\ job'[t].session = s
  <2>1. /\ pc[t] = "idle" /\ pc'[t] = "update"
        /\ job'[t] = [NoJob EXCEPT !.session = s, !.product = p, !.quantity = q]
    BY <1>1, GoFacts DEF ReceiveUpdateQuantity, Receive
  <2> QED
    BY <2>1 DEF NoJob
<1>2. ASSUME ReceiveRemoveItem(t, s, p)
      PROVE  pc[t] = "idle" /\ pc'[t] = "remove" /\ job'[t].session = s
  <2>1. /\ pc[t] = "idle" /\ pc'[t] = "remove"
        /\ job'[t] = [NoJob EXCEPT !.session = s, !.product = p]
    BY <1>2, GoFacts DEF ReceiveRemoveItem, Receive
  <2> QED
    BY <2>1 DEF NoJob
<1>3. UNCHANGED <<dbVars, hubVars, receipts, faults>>
  BY DEF ReceiveUpdateQuantity, ReceiveRemoveItem, Receive
<1> QED
  BY <1>1, <1>2, <1>3

LEMMA QuantityArrives ==
  ASSUME Inv, NEW t \in Threads, NEW s \in Nat, NEW p \in Products,
         \/ \E q \in Nat : ReceiveUpdateQuantity(t, s, p, q)
         \/ ReceiveRemoveItem(t, s, p)
  PROVE  Inv'
<1> USE NoJobType, LabelsType
<1>1. ASSUME NEW q \in Nat, ReceiveUpdateQuantity(t, s, p, q)
      PROVE  Inv'
  <2>1. [NoJob EXCEPT !.session = s, !.product = p, !.quantity = q] \in Job
    BY DEF Job
  <2> QED
    BY <1>1, <2>1, CarefreeLocalStep DEF ReceiveUpdateQuantity, Receive, CartLabels
<1>2. CASE ReceiveRemoveItem(t, s, p)
  <2>1. [NoJob EXCEPT !.session = s, !.product = p] \in Job
    BY DEF Job
  <2> QED
    BY <1>2, <2>1, CarefreeLocalStep DEF ReceiveRemoveItem, Receive, CartLabels
<1> QED
  BY <1>1, <1>2

LEMMA StopsWaitingInv ==
  ASSUME Inv, NEW t \in Threads, HubStopsWaiting(t)
  PROVE  Inv'
<1>1. /\ UNCHANGED <<dbVars, receipts, last_obstacle_level, last_product_id>>
      /\ session_id' = NoSession /\ Fault /\ Go(t, "checkout_reset", job[t])
  BY DEF HubStopsWaiting
<1>2. FaultsTypeOK'
  BY <1>1, BoundsAssumption DEF Fault, Inv, FaultsTypeOK
<1>3. HubTypeOK'
  BY <1>1, DbDomains DEF Inv, DbInv, HubTypeOK, dbVars, Levels, NoSession
<1> QED
  BY <1>1, <1>2, <1>3, CarefreeHubStep, JobType, LabelsType

\* Every step but these two is one of the hub's own, a fault elsewhere, or none.
LEMMA CartHubStep ==
  ASSUME [CartNext]_allVars
  PROVE  \/ \E t \in Threads : HubStopsWaiting(t)
         \/ \E t \in Threads, p \in Products : PressQuantity(t, p)
         \/ [Next]_vars
         \/ Fault /\ UNCHANGED <<dbVars, hubVars, pc, job, receipts>>
<1>1. ASSUME NEW t \in Threads,
             PressStart(t) \/ AiReports(t) \/ HandleCheckoutDone(t) \/ HubWorks(t)
      PROVE  [Next]_vars
  BY <1>1, ArrivalOfUi, HubWorksWork DEF PressStart, AiReports, HandleCheckoutDone, Next
<1>2. ASSUME NEW t \in Threads, HubFails(t)
      PROVE  HubStopsWaiting(t) \/ Next
  BY <1>2 DEF HubFails, HubStartFails, Next
<1>3. CASE HubRestarts \/ (IntervalElapses /\ UNCHANGED cartVars)
  BY <1>3 DEF HubRestarts, Next
<1>4. CASE \/ TakeReply \/ PressEndShopping \/ CancelCheckout \/ EmitCart \/ ShowCart
           \/ UNCHANGED allVars
  BY <1>4 DEF TakeReply, PressEndShopping, CancelCheckout, EmitCart, ShowCart, allVars
<1>5. CASE StartTimesOut \/ PressStartInVain
  BY <1>5 DEF StartTimesOut, PressStartInVain
<1>6. CASE ConfirmCheckout
  BY <1>6, ArrivalOfUi DEF ConfirmCheckout, Next
<1> QED
  BY <1>1, <1>2, <1>3, <1>4, <1>5, <1>6 DEF CartNext

LEMMA CartKeepsHub ==
  ASSUME CartInv, [CartNext]_allVars
  PROVE  Inv'
<1>1. ASSUME NEW t \in Threads, NEW p \in Products, PressQuantity(t, p)
      PROVE  Inv'
  BY <1>1, PressedQuantity, QuantityArrives DEF CartInv, ScreenTypeOK
<1> QED
  BY <1>1, CartHubStep, StopsWaitingInv, NextInv, AsideInv DEF CartInv

LEMMA AskTyped ==
  ASSUME CartInv, [CartNext]_allVars
  PROVE  AskTypeOK'
<1> USE DEF CartInv, AskTypeOK
<1>0. session_id \in Nat /\ NoSession \in Nat
  BY DbDomains DEF Inv, DbInv, HubTypeOK, NoSession
<1>1. ASSUME NEW t \in Threads, PressStart(t) \/ AiReports(t) \/ HandleCheckoutDone(t)
      PROVE  AskTypeOK'
  BY <1>1 DEF PressStart, AiReports, HandleCheckoutDone, cartVars, askVars
<1>2. ASSUME NEW t \in Threads, HubWorks(t) \/ HubFails(t)
      PROVE  AskTypeOK'
  BY <1>0, <1>2
  DEF HubWorks, HubAnswersStart, HubSendsCart, HubSendsCheckoutDone, HubClearsSession,
      HubFails, HubStartFails, HubStopsWaiting, Answer, cartVars, askVars
<1>3. CASE \/ TakeReply \/ StartTimesOut \/ PressStartInVain
  BY <1>0, <1>3 DEF TakeReply, StartTimesOut, PressStartInVain, StartReturns
<1>4. CASE \/ PressEndShopping \/ CancelCheckout \/ ConfirmCheckout \/ EmitCart \/ ShowCart
           \/ \E t \in Threads, p \in Products : PressQuantity(t, p)
  BY <1>4
  DEF PressEndShopping, CancelCheckout, ConfirmCheckout, EmitCart, ShowCart, PressQuantity,
      cartVars, askVars
<1>5. CASE HubRestarts \/ (IntervalElapses /\ UNCHANGED cartVars) \/ UNCHANGED allVars
  BY <1>5 DEF HubRestarts, allVars, cartVars, askVars
<1> QED
  BY <1>1, <1>2, <1>3, <1>4, <1>5 DEF CartNext

LEMMA ScreenTyped ==
  ASSUME CartInv, [CartNext]_allVars
  PROVE  ScreenTypeOK'
<1> USE DEF CartInv, ScreenTypeOK
<1>0. NoSession \in Nat /\ EmptyCart \in Listing /\ Listing' = Listing /\ Update' = Update
  BY NoJobType DEF NoSession, Listing, Update
<1>1. ASSUME NEW t \in Threads, PressStart(t) \/ AiReports(t) \/ HandleCheckoutDone(t)
      PROVE  ScreenTypeOK'
  BY <1>0, <1>1
  DEF PressStart, AiReports, HandleCheckoutDone, cartVars, screenVars, quoteVars
<1>2. ASSUME NEW t \in Threads, HubSendsCart(t)
      PROVE  ScreenTypeOK'
  <2>1. [by |-> t, items |-> job[t].items] \in Update
    BY JobType DEF Update
  <2> QED
    BY <1>0, <1>2, <2>1, AppendProperties DEF HubSendsCart, quoteVars
<1>3. ASSUME NEW t \in Threads, HubWorks(t) \/ HubFails(t), ~ HubSendsCart(t)
      PROVE  ScreenTypeOK'
  BY <1>0, <1>3
  DEF HubWorks, HubAnswersStart, HubSendsCheckoutDone, HubClearsSession,
      HubFails, HubStartFails, HubStopsWaiting, Answer, cartVars, screenVars, quoteVars
<1>4. CASE \/ TakeReply \/ StartTimesOut \/ PressStartInVain
  BY <1>0, <1>4 DEF TakeReply, StartTimesOut, PressStartInVain, StartReturns, AskTypeOK, quoteVars
<1>5. CASE \/ PressEndShopping \/ CancelCheckout \/ ConfirmCheckout
           \/ \E t \in Threads, p \in Products : PressQuantity(t, p)
  BY <1>0, <1>5
  DEF PressEndShopping, CancelCheckout, ConfirmCheckout, PressQuantity,
      cartVars, screenVars, quoteVars
<1>6. CASE EmitCart
  <2>1. PICK i \in DOMAIN updates : updates' = [updates EXCEPT ![i].by = NoThread]
    BY <1>6 DEF EmitCart
  <2> DEFINE u == [updates[i] EXCEPT !.by = NoThread]
  <2>2. i \in 1 .. Len(updates) /\ updates[i] \in Update
    BY LenProperties, ElementOfSeq
  <2>3. u \in Update
    BY <2>2 DEF Update
  <2>4. [updates EXCEPT ![i] = u] \in Seq(Update)
    BY <2>2, <2>3, ExceptSeq
  <2> QED
    BY <1>0, <1>6, <2>1, <2>4 DEF EmitCart, quoteVars
<1>7. CASE ShowCart
  <2>1. Head(updates) \in Update /\ Tail(updates) \in Seq(Update)
    BY <1>7, HeadTailProperties DEF ShowCart
  <2>2. Head(updates).items \in Listing
    BY <2>1 DEF Update
  <2> QED
    BY <1>0, <1>7, <2>1, <2>2 DEF ShowCart, quoteVars
<1>8. CASE HubRestarts \/ (IntervalElapses /\ UNCHANGED cartVars) \/ UNCHANGED allVars
  BY <1>0, <1>8 DEF HubRestarts, allVars, cartVars, screenVars, quoteVars
<1> QED
  BY <1>1, <1>2, <1>3, <1>4, <1>5, <1>6, <1>7, <1>8 DEF CartNext, HubWorks

LEMMA CartInvInit == CartInit => CartInv
<1> SUFFICES ASSUME CartInit PROVE CartInv
  OBVIOUS
<1>1. <<>> \in Seq(Update) /\ EmptyCart \in Listing /\ NoSession \in Nat
  BY NoJobType, EmptySeq DEF NoSession
<1>2. ScreenTypeOK
  BY <1>1 DEF CartInit, ScreenTypeOK
<1>3. AskTypeOK
  BY <1>1 DEF CartInit, AskTypeOK
<1> QED
  BY <1>2, <1>3, InitInv DEF CartInit, CartInv

LEMMA CartInvNext == CartInv /\ [CartNext]_allVars => CartInv'
  BY CartKeepsHub, ScreenTyped, AskTyped DEF CartInv

(***************************************************************************)
(* The hub and the UI hold values of their types for any number of hub     *)
(* threads, with answers that come late or never and with restarts of the  *)
(* hub: in particular the hub answers START_SESSION with a session id, and *)
(* the quantities the buttons send are no less than 0.                     *)
(***************************************************************************)
THEOREM CartTypeCorrect == CartSpec => []CartTypeOK
  BY CartInvInit, CartInvNext, CartInvTypeOK, PTL DEF CartSpec

-----------------------------------------------------------------------------
(***************************************************************************)
(* Bills, with one handler and any faults.  A session that is billed is    *)
(* never one the UI works with: its id is dropped before CHECKOUT is sent  *)
(* and comes back only with an answer to START_SESSION, which carries a    *)
(* new one.  So nothing is changed in a cart a customer has a receipt for. *)
(***************************************************************************)
ReceiptSessions == {orders[o].session_id : o \in receipts}

\* What is known of a handler about to make the call l with the locals j.
BillKnown(l, j) ==
    /\ l \in CheckoutLabels => current_session_id = NoSession /\ asking = NoThread
    /\ l = "start_assign" => j.session \notin Billed
    /\ l = "start_reply" => session_id \notin Billed
    /\ l \in {"update", "update_insert", "remove"} => j.session \notin Billed
    /\ l \in {"debounce", "add"} => j.session = session_id
    /\ l = "order" => j.items = list_cart_items(session_id)
    /\ l \in {"detail", "notify"} =>
          orders[j.order].items = cart_items[orders[j.order].session_id]
    /\ session_id \in ReceiptSessions => l = "clear"

UiUnbilled ==
    /\ current_session_id \notin Billed
    /\ reply = "ok" => reply_id \notin Billed
    /\ asking = NoThread => reply = "none"

BillInv ==
    /\ Billed \subseteq SessionIds
    /\ UiUnbilled
    /\ ReceiptCoversCart
    /\ \A t \in Threads : BillKnown(pc[t], job[t])

LEMMA BillFacts ==
  ASSUME CartInv, BillInv, NEW h, Threads = {h}
  PROVE  /\ h \in Threads /\ Inv /\ HandlersTypeOK /\ DbTypeOK /\ DbInv
         /\ BillKnown(pc[h], job[h]) /\ UiUnbilled
         /\ ReceiptSessions \subseteq Billed /\ Billed \subseteq SessionIds
         /\ NoSession \notin Billed /\ receipts \subseteq DOMAIN orders
         /\ session_id \in Nat /\ job[h] \in Job
<1>1. NoSession \notin SessionIds /\ session_id \in Nat
  BY ActiveFacts, DbDomains DEF CartInv, Inv, DbInv, HubTypeOK
<1>2. receipts \subseteq DOMAIN orders
  BY DEF CartInv, Inv, ReceiptsOK
<1>3. ReceiptSessions \subseteq Billed
  BY <1>2 DEF ReceiptSessions, Billed
<1> QED
  BY <1>1, <1>2, <1>3, JobType DEF CartInv, Inv, DbInv, BillInv

(***************************************************************************)
(* A step without a new order and without a new receipt, that leaves the   *)
(* carts of receipts alone: what remains is what the UI and the handler    *)
(* know afterwards.                                                        *)
(***************************************************************************)
NoNewBill ==
    /\ UNCHANGED <<orders, receipts>>
    /\ SessionIds \subseteq SessionIds'
    /\ \A s \in ReceiptSessions : cart_items'[s] = cart_items[s]

LEMMA BillStep ==
  ASSUME BillInv, NoNewBill, UiUnbilled', NEW h, Threads = {h}, BillKnown(pc[h], job[h])'
  PROVE  BillInv'
<1>1. ReceiptCoversCart'
  BY DEF NoNewBill, BillInv, ReceiptCoversCart, ReceiptSessions
<1>2. (Billed \subseteq SessionIds)'
  BY DEF NoNewBill, BillInv, Billed
<1> QED
  BY <1>1, <1>2 DEF BillInv

LEMMA SameBills ==
  ASSUME NoNewBill
  PROVE  Billed' = Billed /\ ReceiptSessions' = ReceiptSessions
  BY DEF NoNewBill, Billed, ReceiptSessions

LEMMA SameTables ==
  ASSUME UNCHANGED <<shopping_sessions, cart_items, orders, receipts>>
  PROVE  NoNewBill /\ \A s : list_cart_items(s)' = list_cart_items(s)
  BY DEF NoNewBill, SessionIds, list_cart_items, EmptyCart

\* Labels at which nothing is known but that the session has no receipt.
Unbound ==
    {"idle", "start", "start_end", "start_reset", "start_insert",
     "product", "take", "relist", "send_cart"} \cup ObstacleLabels

LEMMA UnboundKnown ==
  ASSUME NEW h, pc'[h] \in Unbound, session_id' \notin ReceiptSessions'
  PROVE  BillKnown(pc[h], job[h])'
  BY DEF Unbound, BillKnown, CheckoutLabels, ObstacleLabels

-----------------------------------------------------------------------------
\* The hub's own steps.
LEMMA StartBills ==
  ASSUME CartInv, BillInv, NEW h, Threads = {h}, Start(h)
  PROVE  NoNewBill /\ BillKnown(pc[h], job[h])'
<1> USE BillFacts
<1>1. session_id \notin ReceiptSessions
  BY DEF BillKnown, Start, StartBegin, StartEndPrevious, StartReset, StartInsert, StartAssign,
         StartReply
<1>2. ASSUME UNCHANGED <<shopping_sessions, cart_items, orders, receipts, session_id>>, pc'[h] \in Unbound
      PROVE  NoNewBill /\ BillKnown(pc[h], job[h])'
  BY <1>1, <1>2, SameTables, SameBills, UnboundKnown
<1>3. CASE StartBegin(h)
  <2>1. pc'[h] \in {"start_insert", "start_end"}
    BY <1>3, GoFacts DEF StartBegin
  <2> QED
    BY <1>2, <1>3, <2>1 DEF StartBegin, dbVars, hubVars, Unbound
<1>4. CASE StartEndPrevious(h)
  <2>1. pc'[h] = "start_reset"
    BY <1>4, GoFacts DEF StartEndPrevious
  <2>2. UNCHANGED <<cart_items, orders, receipts, session_id>> /\ SessionIds' = SessionIds
    BY <1>4 DEF StartEndPrevious, end_session, hubVars, SessionIds
  <2>3. NoNewBill
    BY <2>2 DEF NoNewBill
  <2> QED
    BY <1>1, <2>1, <2>2, <2>3, SameBills, UnboundKnown DEF Unbound
<1>5. CASE StartReset(h)
  <2>1. pc'[h] = "start_insert"
    BY <1>5, GoFacts DEF StartReset
  <2> QED
    BY <1>2, <1>5, <2>1 DEF StartReset, reset, dbVars, Unbound
<1>6. CASE StartInsert(h)
  <2>1. /\ pc'[h] = "start_assign" /\ start_session
        /\ job'[h] = [job[h] EXCEPT !.session = NextSessionId]
        /\ UNCHANGED <<orders, receipts, session_id>>
    BY <1>6, GoFacts DEF StartInsert, start_session, hubVars
  <2>2. job'[h].session = NextSessionId
    BY <2>1 DEF Job
  <2>3. /\ SessionIds = 1 .. Len(shopping_sessions) /\ Len(shopping_sessions) \in Nat
        /\ Len(cart_items) = Len(shopping_sessions) /\ cart_items \in Seq(Listing)
    BY DbDomains DEF DbTypeOK
  <2>4. NextSessionId \notin Billed
    <3>1. NextSessionId \notin SessionIds
      BY <2>3 DEF NextSessionId
    <3> QED
      BY <3>1
  <2>5. /\ SessionIds' = 1 .. Len(shopping_sessions')
        /\ Len(shopping_sessions') = Len(shopping_sessions) + 1
    <3>1. DbTypeOK'
      BY <2>1, StartSessionStep DEF DbInv
    <3> QED
      BY <2>1, <2>3, <3>1, StartSessionStep, DbDomains DEF DbTypeOK, NextSessionId, SessionIds
  <2>6. \A s \in SessionIds : cart_items'[s] = cart_items[s]
    BY <2>1, <2>3, NoJobType, AppendProperties DEF start_session
  <2>7. NoNewBill
    BY <2>1, <2>3, <2>5, <2>6 DEF NoNewBill
  <2> QED
    BY <1>1, <2>1, <2>2, <2>4, <2>7, SameBills DEF BillKnown, CheckoutLabels
<1>7. CASE StartAssign(h)
  <2>1. /\ pc'[h] = "start_reply" /\ session_id' = job[h].session
        /\ UNCHANGED <<shopping_sessions, cart_items, orders, receipts>>
        /\ job[h].session \notin Billed
    BY <1>7, GoFacts DEF StartAssign, dbVars, BillKnown
  <2> QED
    BY <2>1, SameTables, SameBills DEF BillKnown, CheckoutLabels
<1>8. CASE StartReply(h)
  <2>1. pc'[h] = "idle"
    BY <1>8, DoneFacts DEF StartReply
  <2> QED
    BY <1>2, <1>8, <2>1 DEF StartReply, dbVars, hubVars, Unbound
<1> QED
  BY <1>3, <1>4, <1>5, <1>6, <1>7, <1>8 DEF Start

LEMMA CartBills ==
  ASSUME CartInv, BillInv, NEW h, Threads = {h}, ChangeCart(h)
  PROVE  NoNewBill /\ BillKnown(pc[h], job[h])'
<1> USE BillFacts
<1> DEFINE s == job[h].session
           p == job[h].product
<1>1. session_id \notin ReceiptSessions /\ session_id' = session_id
  BY DEF BillKnown, ChangeCart, UpdateDelete, UpdateInsert, UpdateInsertRefused, RemoveItem,
         ProductBegin, ProductTake, ProductDuplicate, ProductNew, ProductNotAdded, ProductAdd,
         ListAgain, SendCart, hubVars
<1>2. CASE UpdateDelete(h) \/ UpdateInsert(h) \/ RemoveItem(h) \/ ProductAdd(h)
  <2>1. /\ s \notin ReceiptSessions
        /\ pc'[h] \in {"relist", "update_insert"}
        /\ pc'[h] = "update_insert" => job'[h] = job[h] /\ s \notin Billed
    BY <1>1, <1>2, GoFacts DEF UpdateDelete, UpdateInsert, RemoveItem, ProductAdd, BillKnown
  <2>2. \E q : SetQuantity(s, p, q)
    BY <1>2
    DEF UpdateDelete, UpdateInsert, RemoveItem, ProductAdd, add_cart_item, remove_cart_item, InsertItem
  <2>3. UNCHANGED <<orders, receipts, shopping_sessions>>
    BY <1>2, <2>2 DEF SetQuantity, UpdateDelete, UpdateInsert, RemoveItem, ProductAdd
  <2>4. \A r \in ReceiptSessions : cart_items'[r] = cart_items[r]
    <3>1. ReceiptSessions \subseteq DOMAIN cart_items
      BY DbDomains
    <3> QED
      BY <2>1, <2>2, <3>1 DEF SetQuantity
  <2>5. NoNewBill
    BY <2>3, <2>4 DEF NoNewBill, SessionIds
  <2> QED
    BY <1>1, <2>1, <2>5, SameBills DEF BillKnown, CheckoutLabels
<1>3. CASE \/ UpdateInsertRefused(h) \/ ListAgain(h) \/ SendCart(h) \/ ProductBegin(h) \/ ProductTake(h)
           \/ ProductDuplicate(h) \/ ProductNew(h) \/ ProductNotAdded(h)
  <2>1. UNCHANGED <<shopping_sessions, cart_items, orders, receipts>>
    BY <1>3
    DEF UpdateInsertRefused, ListAgain, SendCart, ProductBegin, ProductTake, ProductDuplicate,
        ProductNew, ProductNotAdded, dbVars
  <2>2. pc'[h] \in Unbound \/ (pc'[h] \in {"debounce", "add"} /\ job'[h].session = session_id)
    <3>1. CASE \/ UpdateInsertRefused(h) \/ ListAgain(h) \/ SendCart(h) \/ ProductBegin(h)
               \/ ProductDuplicate(h) \/ ProductNotAdded(h)
      BY <3>1, GoFacts, DoneFacts
      DEF UpdateInsertRefused, ListAgain, SendCart, ProductBegin, ProductDuplicate,
          ProductNotAdded, Unbound
    <3>2. CASE ProductTake(h)
      <4>1. pc'[h] = "debounce" /\ job'[h] = [job[h] EXCEPT !.session = session_id]
        BY <3>2, GoFacts DEF ProductTake
      <4> QED
        BY <4>1 DEF Job
    <3>3. CASE ProductNew(h)
      BY <3>3, GoFacts DEF ProductNew, BillKnown
    <3> QED
      BY <1>3, <3>1, <3>2, <3>3
  <2> QED
    BY <1>1, <2>1, <2>2, SameTables, SameBills, UnboundKnown DEF BillKnown, CheckoutLabels
<1> QED
  BY <1>2, <1>3 DEF ChangeCart

LEMMA ObstacleBills ==
  ASSUME CartInv, BillInv, NEW h, Threads = {h}, Obstacle(h)
  PROVE  NoNewBill /\ BillKnown(pc[h], job[h])'
<1> USE BillFacts
<1>1. session_id \notin ReceiptSessions
  BY DEF BillKnown, Obstacle, ObstacleDropped, ObstacleLog, ObstacleUnchanged, ObstacleChanged,
         SendAlarm
<1>2. pc'[h] \in Unbound
  BY GoFacts, DoneFacts
  DEF Obstacle, ObstacleDropped, ObstacleLog, ObstacleUnchanged, ObstacleChanged, SendAlarm,
      Unbound, ObstacleLabels
<1>3. UNCHANGED <<shopping_sessions, cart_items, orders, receipts, session_id>>
  BY DEF Obstacle, ObstacleDropped, ObstacleLog, ObstacleUnchanged, ObstacleChanged, SendAlarm,
         dbVars, hubVars
<1> QED
  BY <1>1, <1>2, <1>3, SameTables, SameBills, UnboundKnown

\* A checkout is at work: the UI has no session and waits for no answer.
LEMMA CheckoutUi ==
  ASSUME CartInv, BillInv, NEW h, Threads = {h}, pc[h] \in CheckoutLabels
  PROVE  current_session_id = NoSession /\ asking = NoThread /\ reply = "none"
  BY BillFacts DEF BillKnown, UiUnbilled

LEMMA OrderBills ==
  ASSUME CartInv, BillInv, NEW h, Threads = {h}, CheckoutCreateOrder(h),
         UNCHANGED <<current_session_id, asking, reply, reply_id>>
  PROVE  BillInv'
<1> USE BillFacts
<1> DEFINE s == session_id
           items == job[h].items
           n == NextOrderId
<1>1. /\ pc[h] = "order" /\ ~ OrderRefused(s) /\ create_order(s, items)
      /\ pc'[h] = "detail" /\ job'[h] = [job[h] EXCEPT !.order = n]
      /\ items = list_cart_items(s)
      /\ UNCHANGED <<receipts, session_id, shopping_sessions, cart_items>>
  BY GoFacts DEF CheckoutCreateOrder, create_order, hubVars, BillKnown
<1>2. /\ s \in SessionIds /\ s # NoSession /\ s \notin Billed
      /\ items = cart_items[s] /\ items \in Listing
  <2>1. s # NoSession /\ s \notin Billed
    BY <1>1 DEF OrderRefused, Billed
  <2>2. s \in SessionIds
    <3>1. s \in 0 .. Len(shopping_sessions)
      BY DEF CartInv, Inv, HubTypeOK
    <3>2. SessionIds = 1 .. Len(shopping_sessions) /\ Len(shopping_sessions) \in Nat
      BY DbDomains
    <3> QED
      BY <2>1, <3>1, <3>2 DEF NoSession
  <2> QED
    BY <1>1, <2>1, <2>2, JobType DEF list_cart_items
<1>3. /\ DOMAIN orders' = DOMAIN orders \cup {n} /\ n \in Nat
      /\ orders'[n] = [session_id |-> s, items |-> items]
      /\ \A o \in DOMAIN orders : orders'[o] = orders[o]
  BY <1>1, <1>2, CreateOrderStep DEF DbGrows
<1>4. Billed' = Billed \cup {s}
  BY <1>3 DEF Billed
<1>5. ReceiptSessions' = ReceiptSessions
  BY <1>1, <1>3 DEF ReceiptSessions
<1>6. UiUnbilled'
  BY <1>1, <1>2, <1>4, CheckoutUi DEF UiUnbilled, CheckoutLabels, NoSession
<1>7. ReceiptCoversCart'
  BY <1>1, <1>3 DEF BillInv, ReceiptCoversCart
<1>8. BillKnown(pc[h], job[h])'
  <2>1. job'[h].order = n
    BY <1>1 DEF Job
  <2>2. s \notin ReceiptSessions
    BY <1>1 DEF BillKnown
  <2>3. orders'[n].items = items /\ orders'[n].session_id = s
    BY <1>3
  <2> QED
    BY <1>1, <1>2, <1>5, <2>1, <2>2, <2>3, CheckoutUi DEF BillKnown, CheckoutLabels, NoSession
<1>9. (Billed \subseteq SessionIds)'
  BY <1>1, <1>2, <1>4 DEF SessionIds
<1> QED
  BY <1>6, <1>7, <1>8, <1>9 DEF BillInv

LEMMA NotifyBills ==
  ASSUME CartInv, BillInv, NEW h, Threads = {h}, CheckoutNotify(h),
         UNCHANGED <<current_session_id, asking, reply, reply_id>>
  PROVE  BillInv'
<1> USE BillFacts
<1> DEFINE o == job[h].order
<1>1. /\ pc[h] = "notify" /\ pc'[h] = "clear" /\ receipts' = receipts \cup {o}
      /\ orders[o].items = cart_items[orders[o].session_id]
      /\ UNCHANGED <<dbVars, session_id>>
  BY GoFacts DEF CheckoutNotify, hubVars, BillKnown
<1>2. UNCHANGED <<shopping_sessions, cart_items, orders>> /\ Billed' = Billed
  BY <1>1 DEF dbVars, Billed
<1>3. UiUnbilled'
  BY <1>2 DEF UiUnbilled
<1>4. ReceiptCoversCart'
  BY <1>1, <1>2 DEF BillInv, ReceiptCoversCart
<1>5. BillKnown(pc[h], job[h])'
  BY <1>1, CheckoutUi DEF BillKnown, CheckoutLabels, NoSession
<1>6. (Billed \subseteq SessionIds)'
  BY <1>2 DEF SessionIds
<1> QED
  BY <1>3, <1>4, <1>5, <1>6 DEF BillInv

LEMMA CheckoutBills ==
  ASSUME CartInv, BillInv, NEW h, Threads = {h}, Checkout(h),
         UNCHANGED <<current_session_id, asking, reply, reply_id>>
  PROVE  BillInv'
<1> USE BillFacts
<1>1. current_session_id = NoSession /\ asking = NoThread /\ reply = "none"
  BY CheckoutUi
  DEF Checkout, CheckoutBegin, CheckoutList, CheckoutCreateOrder, CheckoutOrderRefused,
      CheckoutAddDetail, CheckoutEndSession, CheckoutNotify, CheckoutClear, CheckoutReset,
      CheckoutLabels
<1>2. ASSUME NoNewBill, BillKnown(pc[h], job[h])'
      PROVE  BillInv'
  <2>1. UiUnbilled'
    BY <1>1, <1>2, SameBills DEF UiUnbilled
  <2> QED
    BY <1>2, <2>1, BillStep
<1>3. pc[h] # "clear" => session_id \notin ReceiptSessions
  BY DEF BillKnown
<1>4. CASE CheckoutBegin(h) \/ CheckoutOrderRefused(h) \/ CheckoutReset(h)
  <2>1. /\ pc'[h] \in {"idle", "list"} /\ pc[h] # "clear"
        /\ UNCHANGED <<shopping_sessions, cart_items, orders, receipts, session_id>>
    BY <1>4, GoFacts, DoneFacts
    DEF CheckoutBegin, CheckoutOrderRefused, CheckoutReset, reset, dbVars, hubVars
  <2> QED
    BY <1>1, <1>2, <1>3, <2>1, SameTables, SameBills DEF BillKnown, CheckoutLabels, NoSession
<1>5. CASE CheckoutList(h)
  <2> DEFINE items == list_cart_items(session_id)
             j == [job[h] EXCEPT !.items = items, !.todo = Lines(items)]
  <2>1. /\ pc'[h] = "order" /\ job'[h] = j /\ pc[h] # "clear"
        /\ UNCHANGED <<shopping_sessions, cart_items, orders, receipts, session_id>>
    BY <1>5, GoFacts DEF CheckoutList, dbVars, hubVars
  <2>2. j.items = items
    BY DEF Job
  <2>3. list_cart_items(session_id)' = items
    BY <2>1, SameTables
  <2> HIDE DEF items, j
  <2> QED
    BY <1>1, <1>2, <1>3, <2>1, <2>2, <2>3, SameTables, SameBills
    DEF BillKnown, CheckoutLabels, NoSession
<1>6. CASE CheckoutAddDetail(h) \/ CheckoutEndSession(h)
  <2>1. /\ pc[h] = "detail" /\ pc'[h] \in {"detail", "notify"}
        /\ job'[h].order = job[h].order
    <3>1. CASE CheckoutEndSession(h)
      BY <3>1, GoFacts DEF CheckoutEndSession
    <3>2. CASE CheckoutAddDetail(h)
      <4>1. PICK p : pc[h] = "detail" /\ Go(h, "detail", [job[h] EXCEPT !.todo = @ \ {p}])
        BY <3>2 DEF CheckoutAddDetail
      <4>2. pc'[h] = "detail" /\ job'[h] = [job[h] EXCEPT !.todo = @ \ {p}]
        BY <4>1, GoFacts
      <4> QED
        BY <4>1, <4>2 DEF Job
    <3> QED
      BY <1>6, <3>1, <3>2
  <2>2. /\ UNCHANGED <<cart_items, orders, receipts, session_id>>
        /\ SessionIds' = SessionIds
    BY <1>6
    DEF CheckoutAddDetail, CheckoutEndSession, add_order_detail, end_session, hubVars, SessionIds
  <2>3. NoNewBill
    BY <2>2 DEF NoNewBill
  <2>4. orders[job[h].order].items = cart_items[orders[job[h].order].session_id]
    BY <2>1 DEF BillKnown
  <2>5. BillKnown(pc[h], job[h])'
    BY <1>1, <1>3, <2>1, <2>2, <2>3, <2>4, SameBills DEF BillKnown, CheckoutLabels, NoSession
  <2> QED
    BY <1>2, <2>3, <2>5
<1>7. CASE CheckoutClear(h)
  <2>1. /\ pc'[h] = "checkout_reset" /\ session_id' = NoSession
        /\ UNCHANGED <<shopping_sessions, cart_items, orders, receipts>>
    BY <1>7, GoFacts DEF CheckoutClear, dbVars
  <2> QED
    BY <1>1, <1>2, <2>1, SameTables, SameBills DEF BillKnown, CheckoutLabels, NoSession
<1> QED
  BY <1>4, <1>5, <1>6, <1>7, OrderBills, NotifyBills DEF Checkout

LEMMA HubBills ==
  ASSUME CartInv, BillInv, NEW h, Threads = {h}, HubWorks(h)
  PROVE  BillInv'
<1> USE BillFacts
<1>1. CASE HubAnswersStart(h)
  <2>1. NoNewBill /\ BillKnown(pc[h], job[h])'
    BY <1>1, StartBills DEF HubAnswersStart, Start
  <2>2. pc[h] = "start_reply" /\ session_id \notin Billed
    BY <1>1 DEF HubAnswersStart, StartReply, BillKnown
  <2>3. UiUnbilled'
    BY <1>1, <2>1, <2>2, SameBills, NoThreadAssumption DEF HubAnswersStart, Answer, UiUnbilled
  <2> QED
    BY <2>1, <2>3, BillStep
<1>2. ASSUME Work(h), UNCHANGED <<current_session_id, asking, reply, reply_id>>
      PROVE  BillInv'
  <2>1. CASE Checkout(h)
    BY <1>2, <2>1, CheckoutBills
  <2>2. CASE Start(h) \/ ChangeCart(h) \/ Obstacle(h)
    <3>1. NoNewBill /\ BillKnown(pc[h], job[h])'
      BY <2>2, StartBills, CartBills, ObstacleBills
    <3>2. UiUnbilled'
      BY <1>2, <3>1, SameBills DEF UiUnbilled
    <3> QED
      BY <3>1, <3>2, BillStep
  <2> QED
    BY <1>2, <2>1, <2>2 DEF Work
<1>3. CASE ~ HubAnswersStart(h)
  BY <1>2, <1>3, HubWorksWork
  DEF HubWorks, HubSendsCart, HubSendsCheckoutDone, HubClearsSession, cartVars, askVars
<1> QED
  BY <1>1, <1>3

LEMMA FaultBills ==
  ASSUME CartInv, BillInv, NEW h, Threads = {h}, HubFails(h)
  PROVE  BillInv'
<1> USE BillFacts
<1>1. CASE HubStopsWaiting(h)
  <2>1. /\ pc[h] = "clear" /\ pc'[h] = "checkout_reset" /\ session_id' = NoSession
        /\ UNCHANGED <<shopping_sessions, cart_items, orders, receipts, cartVars>>
    BY <1>1, GoFacts DEF HubStopsWaiting, dbVars
  <2>2. NoNewBill /\ UiUnbilled'
    BY <2>1, SameTables, SameBills DEF UiUnbilled, cartVars, askVars
  <2>3. BillKnown(pc[h], job[h])'
    BY <2>1, <2>2, SameBills, CheckoutUi DEF BillKnown, CheckoutLabels, NoSession, cartVars, askVars
  <2> QED
    BY <2>2, <2>3, BillStep
<1>2. CASE DatabaseRaises(h) \/ SendLost(h)
  <2>1. /\ pc[h] # "clear"
        /\ pc'[h] \in {"relist", "idle"} \/ (pc[h] = "notify" /\ pc'[h] = "clear")
        /\ UNCHANGED <<shopping_sessions, cart_items, orders, receipts, session_id>>
    <3>1. UNCHANGED <<shopping_sessions, cart_items, orders, receipts, session_id>>
      BY <1>2 DEF DatabaseRaises, SendLost, dbVars, hubVars
    <3>2. CASE DatabaseRaises(h)
      <4>1. pc[h] # "clear"
        BY <3>2 DEF DatabaseRaises, CallsDatabase
      <4>2. Go(h, "relist", job[h]) \/ Done(h)
        BY <3>2 DEF DatabaseRaises
      <4>3. pc'[h] \in {"relist", "idle"}
        BY <4>2, GoFacts, DoneFacts
      <4> QED
        BY <3>1, <4>1, <4>3
    <3>3. CASE SendLost(h)
      <4>1. pc[h] # "clear" /\ ((pc[h] = "notify" /\ Go(h, "clear", job[h])) \/ Done(h))
        BY <3>3 DEF SendLost
      <4>2. (pc[h] = "notify" /\ pc'[h] = "clear") \/ pc'[h] = "idle"
        BY <4>1, GoFacts, DoneFacts
      <4> QED
        BY <3>1, <4>1, <4>2
    <3> QED
      BY <1>2, <3>2, <3>3
  <2>2. NoNewBill /\ session_id \notin ReceiptSessions
    BY <2>1, SameTables DEF BillKnown
  <2>3. UNCHANGED <<current_session_id, asking>> /\ UiUnbilled'
    BY <1>2, <2>2, SameBills, NoThreadAssumption
    DEF HubFails, HubStartFails, HubStopsWaiting, Answer, UiUnbilled, cartVars, askVars
  <2>4. BillKnown(pc[h], job[h])'
    BY <2>1, <2>2, <2>3, SameBills, CheckoutUi DEF BillKnown, CheckoutLabels, NoSession
  <2> QED
    BY <2>2, <2>3, <2>4, BillStep
<1> QED
  BY <1>1, <1>2 DEF HubFails, HubStartFails

\* A request arrives, of which the UI knows nothing that a bill knows.
LEMMA ArrivalBills ==
  ASSUME CartInv, BillInv, NEW h, Threads = {h},
         PressStart(h) \/ AiReports(h) \/ \E p \in Products : PressQuantity(h, p)
  PROVE  BillInv'
<1> USE BillFacts
<1>1. UNCHANGED <<dbVars, session_id, receipts, current_session_id, reply, reply_id>>
  BY PressedQuantity
  DEF CartInv, PressStart, AiReports, ReceiveStart, ReceiveProduct, ReceiveUpdateQuantity,
      ReceiveRemoveItem, Receive, hubVars, cartVars, askVars
<1>2. /\ pc[h] = "idle"
      /\ \/ pc'[h] \in {"start", "product"}
         \/ pc'[h] \in {"update", "remove"} /\ job'[h].session = current_session_id
  <2>1. CASE PressStart(h)
    BY <2>1, GoFacts DEF PressStart, ReceiveStart, Receive
  <2>2. CASE AiReports(h)
    BY <2>2, GoFacts DEF AiReports, ReceiveProduct, Receive
  <2>3. ASSUME NEW p \in Products, PressQuantity(h, p)
        PROVE  pc[h] = "idle" /\ pc'[h] \in {"update", "remove"} /\ job'[h].session = current_session_id
    BY <2>3, PressedQuantity, QuantityRequest DEF CartInv
  <2> QED
    BY <2>1, <2>2, <2>3
<1>3. session_id \notin ReceiptSessions
  BY <1>2 DEF BillKnown
<1>4. NoNewBill
  BY <1>1, SameTables DEF dbVars
<1>5. asking' = NoThread => asking = NoThread
  <2>1. CASE PressStart(h)
    BY <2>1, NoThreadAssumption DEF PressStart
  <2>2. CASE AiReports(h) \/ \E p \in Products : PressQuantity(h, p)
    BY <2>2 DEF AiReports, PressQuantity, cartVars, askVars
  <2> QED
    BY <2>1, <2>2
<1>6. UiUnbilled'
  BY <1>1, <1>4, <1>5, SameBills DEF UiUnbilled
<1>7. BillKnown(pc[h], job[h])'
  BY <1>1, <1>2, <1>3, <1>4, SameBills DEF BillKnown, CheckoutLabels, UiUnbilled
<1> QED
  BY <1>4, <1>6, <1>7, BillStep

\* The UI's own steps leave the hub alone.
LEMMA HubRestsBills ==
  ASSUME CartInv, BillInv, NEW h, Threads = {h},
         UNCHANGED <<dbVars, session_id, receipts, pc, job>>, UiUnbilled',
         pc[h] \in CheckoutLabels => current_session_id' = NoSession /\ asking' = NoThread
  PROVE  BillInv'
<1>1. NoNewBill /\ list_cart_items(session_id)' = list_cart_items(session_id)
  BY SameTables DEF dbVars
<1>2. UNCHANGED orders /\ UNCHANGED cart_items
  BY DEF dbVars
<1>3. BillKnown(pc[h], job[h])'
  BY <1>1, <1>2, BillFacts, SameBills DEF BillKnown
<1> QED
  BY <1>1, <1>3, BillStep

LEMMA UiBills ==
  ASSUME CartInv, BillInv, NEW h, Threads = {h},
         \/ TakeReply \/ StartTimesOut \/ PressStartInVain
         \/ PressEndShopping \/ CancelCheckout \/ EmitCart \/ ShowCart
         \/ HandleCheckoutDone(h)
         \/ IntervalElapses /\ UNCHANGED cartVars
         \/ UNCHANGED allVars
  PROVE  BillInv'
<1> USE BillFacts
<1>1. UNCHANGED <<dbVars, session_id, receipts, pc, job>>
  BY DEF TakeReply, StartTimesOut, PressStartInVain, StartReturns, PressEndShopping, CancelCheckout,
         EmitCart, ShowCart, HandleCheckoutDone, IntervalElapses, vars, hubVars, allVars
<1>2. Billed' = Billed
  BY <1>1 DEF dbVars, Billed
<1>3. pc[h] \in CheckoutLabels => current_session_id = NoSession /\ asking = NoThread
  BY DEF BillKnown
<1>4. CASE TakeReply \/ StartTimesOut \/ PressStartInVain
  <2>1. /\ asking' = NoThread /\ reply' = "none"
        /\ \/ current_session_id' = current_session_id
           \/ current_session_id' = reply_id /\ reply = "ok"
    BY <1>4 DEF TakeReply, StartTimesOut, PressStartInVain, StartReturns
  <2> QED
    BY <1>1, <1>2, <1>3, <2>1, HubRestsBills DEF UiUnbilled
<1>5. CASE HandleCheckoutDone(h)
  <2>1. current_session_id' = NoSession /\ UNCHANGED <<asking, reply, reply_id>>
    BY <1>5 DEF HandleCheckoutDone, askVars
  <2> QED
    BY <1>1, <1>2, <1>3, <2>1, HubRestsBills DEF UiUnbilled
<1>6. CASE \/ PressEndShopping \/ CancelCheckout \/ EmitCart \/ ShowCart
           \/ IntervalElapses /\ UNCHANGED cartVars
           \/ UNCHANGED allVars
  <2>1. UNCHANGED <<current_session_id, asking, reply, reply_id>>
    BY <1>6
    DEF PressEndShopping, CancelCheckout, EmitCart, ShowCart, allVars, cartVars, askVars
  <2> QED
    BY <1>1, <1>2, <1>3, <2>1, HubRestsBills DEF UiUnbilled
<1> QED
  BY <1>4, <1>5, <1>6

LEMMA ConfirmBills ==
  ASSUME CartInv, BillInv, NEW h, Threads = {h}, ConfirmCheckout
  PROVE  BillInv'
<1> USE BillFacts
<1>1. /\ asking = NoThread /\ current_session_id' = NoSession
      /\ UNCHANGED <<asking, reply, reply_id>>
  BY DEF ConfirmCheckout, Served, askVars
<1>2. UNCHANGED <<dbVars, session_id, receipts>>
  BY DEF ConfirmCheckout, ReceiveCheckout, Receive, vars, hubVars
<1>3. NoNewBill /\ UiUnbilled'
  BY <1>1, <1>2, SameTables, SameBills DEF UiUnbilled, dbVars
<1>4. CASE UNCHANGED <<pc, job>>
  BY <1>1, <1>2, <1>3, <1>4, HubRestsBills
<1>5. CASE ReceiveCheckout(h)
  <2>1. pc[h] = "idle" /\ pc'[h] = "checkout"
    BY <1>5, GoFacts DEF ReceiveCheckout, Receive
  <2>2. session_id \notin ReceiptSessions
    BY <2>1 DEF BillKnown
  <2>3. BillKnown(pc[h], job[h])'
    BY <1>1, <1>2, <1>3, <2>1, <2>2, SameBills DEF BillKnown
  <2> QED
    BY <1>3, <2>3, BillStep
<1> QED
  BY <1>4, <1>5 DEF ConfirmCheckout, vars

LEMMA RestartBills ==
  ASSUME CartInv, BillInv, NEW h, Threads = {h}, HubRestarts
  PROVE  BillInv'
<1> USE BillFacts
<1>1. /\ pc'[h] = "idle" /\ session_id' = NoSession
      /\ UNCHANGED <<dbVars, receipts, current_session_id, asking, reply_id>>
      /\ reply' = (IF asking = NoThread THEN reply ELSE "refused")
  BY DEF HubRestarts, Restart
<1>2. NoNewBill
  BY <1>1, SameTables DEF dbVars
<1>3. UiUnbilled'
  BY <1>1, <1>2, SameBills DEF UiUnbilled
<1>4. BillKnown(pc[h], job[h])'
  BY <1>1, <1>2, SameBills, UnboundKnown DEF Unbound
<1> QED
  BY <1>2, <1>3, <1>4, BillStep

LEMMA BillInvNext ==
  ASSUME OneHandler
  PROVE  CartInv /\ BillInv /\ [CartNext]_allVars => BillInv'
<1> SUFFICES ASSUME CartInv, BillInv, [CartNext]_allVars PROVE BillInv'
  OBVIOUS
<1>1. PICK h : Threads = {h}
  BY DEF OneHandler
<1>2. CASE \/ PressStart(h) \/ AiReports(h) \/ \E p \in Products : PressQuantity(h, p)
  BY <1>1, <1>2, ArrivalBills
<1>3. CASE HubWorks(h)
  BY <1>1, <1>3, HubBills
<1>4. CASE HubFails(h)
  BY <1>1, <1>4, FaultBills
<1>5. CASE ConfirmCheckout
  BY <1>1, <1>5, ConfirmBills
<1>6. CASE HubRestarts
  BY <1>1, <1>6, RestartBills
<1> QED
  BY <1>1, <1>2, <1>3, <1>4, <1>5, <1>6, UiBills DEF CartNext

LEMMA BillInvInit ==
  ASSUME OneHandler
  PROVE  CartInit => BillInv
<1> SUFFICES ASSUME CartInit PROVE BillInv
  OBVIOUS
<1>1. PICK h : Threads = {h}
  BY DEF OneHandler
<1>2. orders = <<>> /\ receipts = {} /\ pc[h] = "idle"
  BY <1>1 DEF CartInit, Init, DbInit
<1>3. Billed = {} /\ ReceiptSessions = {}
  BY <1>2 DEF Billed, ReceiptSessions
<1>4. UiUnbilled
  BY <1>3 DEF CartInit, UiUnbilled
<1>5. BillKnown(pc[h], job[h])
  BY <1>2, <1>3 DEF BillKnown, CheckoutLabels
<1> QED
  BY <1>1, <1>2, <1>3, <1>4, <1>5 DEF BillInv, ReceiptCoversCart

LEMMA AlwaysBills ==
  ASSUME OneHandler
  PROVE  CartSpec => [](CartInv /\ BillInv)
<1>1. CartInit => CartInv /\ BillInv
  BY CartInvInit, BillInvInit
<1>2. CartInv /\ BillInv /\ [CartNext]_allVars => (CartInv /\ BillInv)'
  BY CartInvNext, BillInvNext
<1> QED
  BY <1>1, <1>2, PTL DEF CartSpec

(***************************************************************************)
(* With one handler at a time, nobody goes on shopping with a session that *)
(* has been billed, whatever calls fail, time out or are lost and whenever *)
(* the hub is restarted (_on_checkout of UIController drops its id          *)
(* before _handle_ui_checkout can create an order).                        *)
(***************************************************************************)
THEOREM CartNoBillWhileShopping ==
  ASSUME OneHandler
  PROVE  CartSpec => []NoBillWhileShopping
<1>1. CartInv /\ BillInv => NoBillWhileShopping
  BY DEF BillInv, UiUnbilled, NoBillWhileShopping
<1> QED
  BY <1>1, AlwaysBills, PTL

(***************************************************************************)
(* With one handler at a time, and whatever fails, the order a customer    *)
(* was told of goes on having what is in the session's cart: no            *)
(* UPDATE_QUANTITY, REMOVE_ITEM or PRODUCT_DETECTED reaches a cart after   *)
(* its CHECKOUT_DONE.                                                      *)
(***************************************************************************)
THEOREM CartReceiptCoversCart ==
  ASSUME OneHandler
  PROVE  CartSpec => []ReceiptCoversCart
<1>1. CartInv /\ BillInv => ReceiptCoversCart
  BY DEF BillInv
<1> QED
  BY <1>1, AlwaysBills, PTL

-----------------------------------------------------------------------------
(***************************************************************************)
(* The UI and the hub agree, with one handler and no fault so far.  The UI *)
(* has a session exactly while it is not on standby, and it is the hub's;  *)
(* what the table comes to show is the session's cart, but for the steps   *)
(* of the handler between a change and the UPDATE_CART it ends with.       *)
(***************************************************************************)
\* What the table shows when all that is on its way has arrived.
LastItems ==
    IF updates # <<>> THEN updates[Len(updates)].items
    ELSE IF reply = "ok" THEN EmptyCart
    ELSE table

\* A handler about to make the call l: which messages are on the way.
MessagesAgree(l) ==
    /\ l \in StartLabels <=> asking # NoThread /\ reply = "none"
    /\ reply # "refused"
    /\ l \notin {"start_end", "start_reset"}
    /\ notices # {} => l = "clear"
    /\ updates # <<>> => session_id # NoSession /\ l \notin StartLabels \cup CheckoutLabels

\* What the UI shows, and the session it has.
UiAgrees(l) ==
    /\ view = "standby" =>
          /\ current_session_id = NoSession
          /\ asking = NoThread /\ l \notin CheckoutLabels => session_id = NoSession
    /\ view # "standby" =>
          /\ asking = NoThread /\ l \notin CheckoutLabels
          /\ current_session_id = session_id /\ session_id # NoSession
    /\ reply = "ok" => reply_id = session_id /\ session_id # NoSession

\* Which session the handler is at work for, with the locals j.
HandlerAgrees(l, j) ==
    /\ l \in {"start", "start_insert", "start_assign", "checkout_reset"} => session_id = NoSession
    /\ l \in {"start_reply", "checkout", "list", "order"} \cup (CartLabels \ {"product"}) =>
          session_id # NoSession
    /\ l \in {"checkout", "list", "order"} => session_id \notin Billed
    /\ l \in {"update", "update_insert", "remove", "relist"} => j.session = session_id

Changing == {"update_insert", "relist", "send_cart"}

\* The carts that the table, the handler and the dialog know of.
TableAgrees(l, j) ==
    /\ l \notin Changing \cup StartLabels \cup CheckoutLabels /\ session_id # NoSession =>
          LastItems = cart_items[session_id]
    /\ l = "start_assign" => cart_items[j.session] = EmptyCart
    /\ l = "start_reply" => cart_items[session_id] = EmptyCart
    /\ l = "send_cart" => j.items = cart_items[session_id]

DialogAgrees(l) ==
    (view = "dialog" \/ l \in {"checkout", "list", "order"}) /\ ~ overtaken =>
        quoted = cart_items[session_id]

Agrees(l, j) ==
    /\ MessagesAgree(l) /\ UiAgrees(l) /\ HandlerAgrees(l, j)
    /\ TableAgrees(l, j) /\ DialogAgrees(l)

Agreement == Sequential /\ \A t \in Threads : Agrees(pc[t], job[t])

AgreementInv == CartInv /\ BillInv /\ (faults = 0 => Agreement)

LEMMA AgreeFacts ==
  ASSUME CartInv, BillInv, Agreement, NEW h, Threads = {h}
  PROVE  /\ h \in Threads /\ Inv /\ DbInv /\ DbTypeOK /\ HandlersTypeOK /\ Sequential
         /\ SessionKnown(pc[h], job[h]) /\ CartKnown(pc[h], job[h])
         /\ BillKnown(pc[h], job[h]) /\ UiUnbilled
         /\ MessagesAgree(pc[h]) /\ UiAgrees(pc[h]) /\ HandlerAgrees(pc[h], job[h])
         /\ TableAgrees(pc[h], job[h]) /\ DialogAgrees(pc[h])
         /\ asking \in {h, NoThread} /\ h # NoThread /\ notices \subseteq {h}
         /\ session_id \in Nat /\ job[h] \in Job
         /\ session_id # NoSession => session_id \in SessionIds
         /\ updates \in Seq(Update) /\ \A i \in DOMAIN updates : updates[i].by \in {h, NoThread}
<1>1. session_id # NoSession => session_id \in SessionIds
  <2>1. session_id \in 0 .. Len(shopping_sessions)
    BY DEF CartInv, Inv, HubTypeOK
  <2>2. SessionIds = 1 .. Len(shopping_sessions) /\ Len(shopping_sessions) \in Nat
    BY BillFacts, DbDomains
  <2> QED
    BY <2>1, <2>2 DEF NoSession
<1>2. Agrees(pc[h], job[h]) /\ Sequential
  BY DEF Agreement
<1>3. h \in Threads /\ h # NoThread /\ asking \in {h, NoThread} /\ notices \subseteq {h}
  BY NoThreadAssumption DEF CartInv, AskTypeOK, ScreenTypeOK
<1>4. updates \in Seq(Update) /\ \A i \in DOMAIN updates : updates[i].by \in {h, NoThread}
  <2>1. updates \in Seq(Update)
    BY DEF CartInv, ScreenTypeOK
  <2>2. \A i \in DOMAIN updates : updates[i] \in Update
    BY <2>1, LenProperties, ElementOfSeq
  <2>3. \A u \in Update : u.by \in {h, NoThread}
    BY DEF Update
  <2> QED
    BY <2>1, <2>2, <2>3
<1>5. /\ Inv /\ DbInv /\ DbTypeOK /\ HandlersTypeOK
      /\ BillKnown(pc[h], job[h]) /\ UiUnbilled /\ session_id \in Nat /\ job[h] \in Job
  BY BillFacts
<1>6. SessionKnown(pc[h], job[h]) /\ CartKnown(pc[h], job[h])
  BY <1>2, Sole
<1>7. /\ MessagesAgree(pc[h]) /\ UiAgrees(pc[h]) /\ HandlerAgrees(pc[h], job[h])
      /\ TableAgrees(pc[h], job[h]) /\ DialogAgrees(pc[h])
  BY <1>2 DEF Agrees
<1> QED
  BY <1>1, <1>2, <1>3, <1>4, <1>5, <1>6, <1>7

\* Nothing is on its way to a table that has been served, or to a handler that
\* the UI has just reached.
LEMMA NothingOnItsWay ==
  ASSUME CartInv, BillInv, Agreement, NEW h, Threads = {h}, Served, Free(h)
  PROVE  updates = <<>> /\ asking = NoThread /\ reply = "none"
<1> USE AgreeFacts
<1>1. DOMAIN updates = {}
  BY DEF Served, Free
<1>2. updates = <<>>
  BY <1>1, EmptySeq, LenProperties
<1> QED
  BY <1>2 DEF Served, UiUnbilled

LEMMA CartSequential ==
  ASSUME CartInv, BillInv, Agreement, NEW h, Threads = {h}, [CartNext]_allVars, ~ Fault
  PROVE  Sequential'
<1> USE AgreeFacts
<1>1. ASSUME NEW p \in Products, PressQuantity(h, p)
      PROVE  Sequential'
  <2>1. current_session_id \in SessionIds
    BY <1>1, PressedQuantity DEF CartInv, UiAgrees
  <2> QED
    BY <1>1, <2>1, PressedQuantity, QuantitySequential DEF CartInv
<1>2. ASSUME [Next]_vars PROVE Sequential'
  <2>1. CASE Arrival(h)
    BY <2>1, ArrivalSequential
  <2>2. CASE Work(h)
    BY <2>2, SequentialWork
  <2>3. CASE IntervalElapses \/ UNCHANGED vars
    <3>1. UNCHANGED <<dbVars, session_id, pc, job>>
      BY <2>3 DEF IntervalElapses, vars, hubVars
    <3> QED
      BY <3>1, SequentialKept
  <2> QED
    BY <1>2, <2>1, <2>2, <2>3 DEF Next, DatabaseRaises, SendLost, Restart
<1> QED
  BY <1>1, <1>2, CartHubStep DEF HubStopsWaiting

\* Requests and events arrive.
LEMMA ArrivalAgrees ==
  ASSUME CartInv, BillInv, Agreement, NEW h, Threads = {h},
         PressStart(h) \/ AiReports(h) \/ \E p \in Products : PressQuantity(h, p)
  PROVE  Agrees(pc[h], job[h])'
<1> USE AgreeFacts
<1>1. CASE PressStart(h)
  <2>1. /\ pc[h] = "idle" /\ pc'[h] = "start" /\ view = "standby" /\ asking' = h
        /\ updates = <<>> /\ asking = NoThread /\ reply = "none"
    BY <1>1, GoFacts, NothingOnItsWay DEF PressStart, ReceiveStart, Receive
  <2>2. UNCHANGED <<session_id, view, current_session_id, updates, reply, notices>>
    BY <1>1 DEF PressStart, ReceiveStart, Receive, screenVars, hubVars
  <2>3. session_id = NoSession /\ notices = {}
    BY <2>1 DEF UiAgrees, MessagesAgree, CheckoutLabels
  <2>4. (MessagesAgree(pc[h]) /\ UiAgrees(pc[h]))'
    BY <2>1, <2>2, <2>3 DEF MessagesAgree, UiAgrees, StartLabels, BeforeInsert, CheckoutLabels
  <2>5. (HandlerAgrees(pc[h], job[h]) /\ TableAgrees(pc[h], job[h]) /\ DialogAgrees(pc[h]))'
    BY <2>1, <2>2, <2>3 DEF HandlerAgrees, TableAgrees, DialogAgrees, CartLabels
  <2> QED
    BY <2>4, <2>5 DEF Agrees
<1>2. CASE AiReports(h) \/ \E p \in Products : PressQuantity(h, p)
  <2>1. /\ pc[h] = "idle"
        /\ \/ pc'[h] = "product"
           \/ pc'[h] \in {"update", "remove"} /\ job'[h].session = session_id /\ session_id # NoSession
    <3>1. CASE AiReports(h)
      BY <3>1, GoFacts DEF AiReports, ReceiveProduct, Receive
    <3>2. ASSUME NEW p \in Products, PressQuantity(h, p)
          PROVE  /\ pc[h] = "idle" /\ pc'[h] \in {"update", "remove"}
                 /\ job'[h].session = session_id /\ session_id # NoSession
      BY <3>2, PressedQuantity, QuantityRequest DEF CartInv, UiAgrees
    <3> QED
      BY <1>2, <3>1, <3>2
  <2>2. UNCHANGED <<dbVars, session_id, cartVars>>
    BY <1>2, PressedQuantity, QuantityRequest DEF CartInv, AiReports, ReceiveProduct, Receive, hubVars
  <2>3. /\ UNCHANGED <<session_id, cart_items, view, current_session_id, table, asking, reply, reply_id>>
        /\ UNCHANGED <<updates, notices, quoted, overtaken>> /\ LastItems' = LastItems
    BY <2>2 DEF dbVars, cartVars, screenVars, askVars, quoteVars, LastItems
  <2>4. (MessagesAgree(pc[h]) /\ UiAgrees(pc[h]))'
    BY <2>1, <2>3 DEF MessagesAgree, UiAgrees, StartLabels, BeforeInsert, CheckoutLabels
  <2>5. HandlerAgrees(pc[h], job[h])'
    BY <2>1, <2>3 DEF HandlerAgrees, CartLabels
  <2>6. (TableAgrees(pc[h], job[h]) /\ DialogAgrees(pc[h]))'
    BY <2>1, <2>3
    DEF TableAgrees, DialogAgrees, Changing, StartLabels, BeforeInsert, CheckoutLabels
  <2> QED
    BY <2>4, <2>5, <2>6 DEF Agrees
<1> QED
  BY <1>1, <1>2

\* A step of the handler of which the UI notices nothing.
Unnoticed ==
    /\ overtaken' = (overtaken \/ cart_items' # cart_items)
    /\ UNCHANGED <<view, table, updates, asking, reply, reply_id, current_session_id, notices, quoted>>

\* The UI while START_SESSION is at work.
LEMMA WhileStarting ==
  ASSUME CartInv, BillInv, Agreement, NEW h, Threads = {h}, pc[h] \in StartLabels
  PROVE  /\ asking = h /\ reply = "none" /\ view = "standby" /\ current_session_id = NoSession
         /\ updates = <<>> /\ notices = {}
  BY AgreeFacts DEF MessagesAgree, UiAgrees, StartLabels, BeforeInsert

LEMMA StartAgrees ==
  ASSUME CartInv, BillInv, Agreement, NEW h, Threads = {h},
         Start(h), pc[h] # "start_reply", Unnoticed
  PROVE  Agrees(pc[h], job[h])'
<1> USE AgreeFacts
<1>1. pc[h] \in {"start", "start_insert", "start_assign"} /\ session_id = NoSession
  BY DEF Start, StartBegin, StartEndPrevious, StartReset, StartInsert, StartAssign, StartReply,
         MessagesAgree, HandlerAgrees
<1>2. /\ asking = h /\ reply = "none" /\ view = "standby" /\ current_session_id = NoSession
      /\ updates = <<>> /\ notices = {}
  BY <1>1, WhileStarting DEF StartLabels, BeforeInsert
<1>3. /\ (MessagesAgree(pc[h]) /\ UiAgrees(pc[h]))'
      /\ DialogAgrees(pc[h])'
  <2>1. pc'[h] \in {"start_insert", "start_assign", "start_reply"}
    BY <1>1, GoFacts
    DEF Start, StartBegin, StartEndPrevious, StartReset, StartInsert, StartAssign, StartReply
  <2> QED
    BY <1>2, <2>1
    DEF Unnoticed, MessagesAgree, UiAgrees, DialogAgrees, StartLabels, BeforeInsert, CheckoutLabels
<1>4. CASE StartBegin(h)
  <2>1. pc'[h] = "start_insert" /\ session_id' = NoSession
    BY <1>1, <1>4, GoFacts DEF StartBegin, hubVars
  <2>2. (HandlerAgrees(pc[h], job[h]) /\ TableAgrees(pc[h], job[h]))'
    BY <2>1 DEF HandlerAgrees, TableAgrees, CartLabels
  <2> QED
    BY <1>3, <2>2 DEF Agrees
<1>5. CASE StartInsert(h)
  <2>1. /\ pc'[h] = "start_assign" /\ session_id' = NoSession
        /\ job'[h] = [job[h] EXCEPT !.session = NextSessionId] /\ start_session
    BY <1>1, <1>5, GoFacts DEF StartInsert, hubVars
  <2>2. job'[h].session = NextSessionId
    BY <2>1 DEF Job
  <2>3. cart_items'[NextSessionId] = EmptyCart
    <3>1. cart_items \in Seq(Listing) /\ Len(cart_items) = Len(shopping_sessions)
      BY DEF DbTypeOK
    <3> QED
      BY <2>1, <3>1, NoJobType, AppendProperties DEF start_session, NextSessionId
  <2>4. EmptyCart' = EmptyCart
    BY DEF EmptyCart
  <2>5. (HandlerAgrees(pc[h], job[h]) /\ TableAgrees(pc[h], job[h]))'
    BY <2>1, <2>2, <2>3, <2>4 DEF HandlerAgrees, TableAgrees, CartLabels
  <2> QED
    BY <1>3, <2>5 DEF Agrees
<1>6. CASE StartAssign(h)
  <2>1. /\ pc'[h] = "start_reply" /\ session_id' = job[h].session /\ UNCHANGED cart_items
        /\ cart_items[job[h].session] = EmptyCart
    BY <1>6, GoFacts DEF StartAssign, dbVars, TableAgrees
  <2>2. job[h].session # NoSession
    BY <1>6, ActiveFacts DEF StartAssign, SessionKnown
  <2>3. EmptyCart' = EmptyCart
    BY DEF EmptyCart
  <2>4. (HandlerAgrees(pc[h], job[h]) /\ TableAgrees(pc[h], job[h]))'
    BY <2>1, <2>2, <2>3 DEF HandlerAgrees, TableAgrees, CartLabels, StartLabels
  <2> QED
    BY <1>3, <2>4 DEF Agrees
<1> QED
  BY <1>1, <1>4, <1>5, <1>6 DEF Start, StartEndPrevious, StartReset, StartReply

LEMMA AnswerAgrees ==
  ASSUME CartInv, BillInv, Agreement, NEW h, Threads = {h}, HubAnswersStart(h)
  PROVE  Agrees(pc[h], job[h])'
<1> USE AgreeFacts
<1>1. pc[h] = "start_reply" /\ pc'[h] = "idle"
  BY DoneFacts DEF HubAnswersStart, StartReply
<1>2. /\ asking = h /\ reply = "none" /\ view = "standby" /\ current_session_id = NoSession
      /\ updates = <<>> /\ notices = {}
  BY <1>1, WhileStarting DEF StartLabels
<1>3. /\ reply' = "ok" /\ reply_id' = session_id
      /\ UNCHANGED <<view, table, updates, asking, current_session_id, notices, session_id, cart_items>>
  BY <1>2 DEF HubAnswersStart, Answer, StartReply, dbVars, hubVars, screenVars
<1>4. session_id # NoSession /\ cart_items[session_id] = EmptyCart
  BY <1>1 DEF HandlerAgrees, TableAgrees
<1>5. LastItems' = EmptyCart
  BY <1>2, <1>3 DEF LastItems, EmptyCart
<1>6. (MessagesAgree(pc[h]) /\ UiAgrees(pc[h]))'
  BY <1>1, <1>2, <1>3, <1>4 DEF MessagesAgree, UiAgrees, StartLabels, BeforeInsert, CheckoutLabels
<1>7. (HandlerAgrees(pc[h], job[h]) /\ TableAgrees(pc[h], job[h]) /\ DialogAgrees(pc[h]))'
  BY <1>1, <1>2, <1>3, <1>4, <1>5 DEF HandlerAgrees, TableAgrees, DialogAgrees, CartLabels
<1> QED
  BY <1>6, <1>7 DEF Agrees

\* The UI while CHECKOUT is at work.
LEMMA WhileCheckingOut ==
  ASSUME CartInv, BillInv, Agreement, NEW h, Threads = {h}, pc[h] \in CheckoutLabels
  PROVE  /\ view = "standby" /\ current_session_id = NoSession
         /\ asking = NoThread /\ reply = "none" /\ updates = <<>>
         /\ notices # {} => pc[h] = "clear"
  BY AgreeFacts, CheckoutUi DEF MessagesAgree, UiAgrees

\* The handler goes on with l, the UI knowing of nothing but CHECKOUT_DONE.
LEMMA CheckoutGoesOn ==
  ASSUME CartInv, BillInv, Agreement, NEW h, Threads = {h}, pc[h] \in CheckoutLabels,
         UNCHANGED <<view, updates, asking, reply, current_session_id>>,
         pc'[h] \in CheckoutLabels \cup {"idle"},
         pc'[h] \in {"idle", "checkout_reset"} => session_id' = NoSession,
         notices' # {} => pc'[h] = "clear"
  PROVE  (MessagesAgree(pc[h]) /\ UiAgrees(pc[h]))'
  BY AgreeFacts, WhileCheckingOut
  DEF MessagesAgree, UiAgrees, StartLabels, BeforeInsert, CheckoutLabels

\* The steps after those that read the cart: nothing more is agreed upon.
LEMMA PastTheCart ==
  ASSUME CartInv, BillInv, Agreement, NEW h, Threads = {h}, pc[h] \in CheckoutLabels,
         UNCHANGED <<view, updates, asking, reply, current_session_id>>,
         \/ pc'[h] \in {"detail", "notify", "clear"}
         \/ pc'[h] \in {"idle", "checkout_reset"} /\ session_id' = NoSession,
         notices' # {} => pc'[h] = "clear"
  PROVE  Agrees(pc[h], job[h])'
<1>1. pc'[h] \in {"idle", "detail", "notify", "clear", "checkout_reset"}
  OBVIOUS
<1>2. (MessagesAgree(pc[h]) /\ UiAgrees(pc[h]))'
  BY <1>1, CheckoutGoesOn DEF CheckoutLabels
<1>3. view' = "standby"
  BY WhileCheckingOut
<1>4. HandlerAgrees(pc[h], job[h])'
  BY <1>1 DEF HandlerAgrees, CartLabels
<1>5. (TableAgrees(pc[h], job[h]) /\ DialogAgrees(pc[h]))'
  BY <1>1, <1>3 DEF TableAgrees, DialogAgrees, CheckoutLabels
<1> QED
  BY <1>2, <1>4, <1>5 DEF Agrees

LEMMA CheckoutAgrees ==
  ASSUME CartInv, BillInv, Agreement, NEW h, Threads = {h},
         \/ Checkout(h) /\ pc[h] \notin {"notify", "clear"} /\ Unnoticed
         \/ HubSendsCheckoutDone(h)
         \/ HubClearsSession(h)
  PROVE  Agrees(pc[h], job[h])'
<1> USE AgreeFacts
<1>1. pc[h] \in CheckoutLabels
  BY DEF Checkout, CheckoutBegin, CheckoutList, CheckoutCreateOrder, CheckoutOrderRefused,
         CheckoutAddDetail, CheckoutEndSession, CheckoutNotify, CheckoutClear, CheckoutReset,
         HubSendsCheckoutDone, HubClearsSession, CheckoutLabels
<1>2. CASE Checkout(h) /\ pc[h] \notin {"notify", "clear"} /\ Unnoticed
  <2>1. notices' = {} /\ UNCHANGED <<view, updates, asking, reply, current_session_id, quoted>>
    BY <1>1, <1>2, WhileCheckingOut DEF Unnoticed
  <2>2. CASE CheckoutBegin(h) \/ CheckoutList(h)
    <3>1. pc[h] \in {"checkout", "list"} /\ pc'[h] \in {"list", "order"}
      BY <2>2, GoFacts DEF CheckoutBegin, CheckoutList, HandlerAgrees
    <3>2. UNCHANGED <<session_id, orders, cart_items>>
      BY <2>2 DEF CheckoutBegin, CheckoutList, dbVars, hubVars
    <3>3. (MessagesAgree(pc[h]) /\ UiAgrees(pc[h]))'
      BY <1>1, <2>1, <3>1, CheckoutGoesOn DEF CheckoutLabels
    <3>4. session_id # NoSession /\ session_id \notin Billed /\ Billed' = Billed
      BY <3>1, <3>2 DEF HandlerAgrees, Billed
    <3>5. HandlerAgrees(pc[h], job[h])'
      BY <3>1, <3>2, <3>4 DEF HandlerAgrees, CartLabels
    <3>6. (TableAgrees(pc[h], job[h]) /\ DialogAgrees(pc[h]))'
      BY <1>2, <2>1, <3>1, <3>2 DEF TableAgrees, DialogAgrees, Unnoticed, CheckoutLabels
    <3> QED
      BY <3>3, <3>5, <3>6 DEF Agrees
  <2>3. CASE CheckoutCreateOrder(h) \/ CheckoutAddDetail(h) \/ CheckoutEndSession(h)
    <3>1. \E l \in {"detail", "notify"} : \E j : Go(h, l, j)
      BY <2>3 DEF CheckoutCreateOrder, CheckoutAddDetail, CheckoutEndSession
    <3>2. pc'[h] \in {"detail", "notify"}
      BY <3>1, GoFacts
    <3> QED
      BY <1>1, <2>1, <3>2, PastTheCart
  <2>4. CASE CheckoutOrderRefused(h)
    BY <2>4 DEF CheckoutOrderRefused, OrderRefused, HandlerAgrees, Billed
  <2>5. CASE CheckoutReset(h)
    <3>1. pc'[h] = "idle" /\ session_id' = NoSession
      BY <2>5, DoneFacts DEF CheckoutReset, reset, HandlerAgrees
    <3> QED
      BY <1>1, <2>1, <3>1, PastTheCart
  <2> QED
    BY <1>2, <2>2, <2>3, <2>4, <2>5 DEF Checkout, CheckoutNotify, CheckoutClear
<1>3. CASE HubSendsCheckoutDone(h)
  <2>1. pc'[h] = "clear" /\ UNCHANGED <<view, updates, asking, reply, current_session_id>>
    BY <1>3, GoFacts DEF HubSendsCheckoutDone, CheckoutNotify, screenVars, askVars
  <2> QED
    BY <1>1, <2>1, PastTheCart
<1>4. CASE HubClearsSession(h)
  <2>1. /\ pc'[h] = "checkout_reset" /\ session_id' = NoSession /\ notices' = {}
        /\ UNCHANGED <<view, updates, asking, reply, current_session_id>>
    BY <1>4, GoFacts DEF HubClearsSession, CheckoutClear, cartVars, screenVars, askVars
  <2> QED
    BY <1>1, <2>1, PastTheCart
<1> QED
  BY <1>2, <1>3, <1>4

\* A handler at work for a cart or an obstacle goes on.
LEMMA HandlerGoesOn ==
  ASSUME CartInv, BillInv, Agreement, NEW h, Threads = {h},
         pc[h] \notin StartLabels \cup CheckoutLabels,
         pc'[h] \notin StartLabels \cup CheckoutLabels,
         UNCHANGED <<session_id, view, asking, reply, reply_id, current_session_id, notices, quoted>>,
         updates' # <<>> => updates # <<>> \/ session_id # NoSession,
         ~ overtaken' => ~ overtaken /\ cart_items' = cart_items
  PROVE  (MessagesAgree(pc[h]) /\ UiAgrees(pc[h]) /\ DialogAgrees(pc[h]))'
<1>1. notices = {}
  BY AgreeFacts DEF MessagesAgree, CheckoutLabels
<1>2. MessagesAgree(pc[h])'
  BY <1>1, AgreeFacts DEF MessagesAgree, StartLabels, BeforeInsert
<1>3. UiAgrees(pc[h])'
  BY AgreeFacts DEF UiAgrees
<1>4. DialogAgrees(pc[h])'
  BY AgreeFacts DEF DialogAgrees, CheckoutLabels
<1> QED
  BY <1>2, <1>3, <1>4

LEMMA ChangeAgrees ==
  ASSUME CartInv, BillInv, Agreement, NEW h, Threads = {h}, Unnoticed,
         \/ UpdateDelete(h) \/ UpdateInsert(h) \/ UpdateInsertRefused(h) \/ RemoveItem(h)
         \/ ProductAdd(h) \/ ListAgain(h)
  PROVE  Agrees(pc[h], job[h])'
<1> USE AgreeFacts
<1>1. /\ pc[h] \in {"update", "update_insert", "remove", "add", "relist"}
      /\ \/ pc'[h] \in {"update_insert", "relist"} /\ job'[h] = job[h]
         \/ ListAgain(h)
  BY GoFacts
  DEF UpdateDelete, UpdateInsert, UpdateInsertRefused, RemoveItem, ProductAdd, ListAgain
<1>2. session_id # NoSession /\ job[h].session = session_id
  BY <1>1 DEF HandlerAgrees, SessionKnown, CartLabels
<1>3. UNCHANGED session_id
  BY DEF UpdateDelete, UpdateInsert, UpdateInsertRefused, RemoveItem, ProductAdd, ListAgain, hubVars
<1>4. ListAgain(h) =>
          /\ pc'[h] = "send_cart" /\ cart_items' = cart_items
          /\ job'[h] = [job[h] EXCEPT !.items = list_cart_items(job[h].session)]
  BY GoFacts DEF ListAgain, dbVars
<1>5. pc'[h] \in Changing
  BY <1>1, <1>4 DEF Changing
<1>6. (MessagesAgree(pc[h]) /\ UiAgrees(pc[h]) /\ DialogAgrees(pc[h]))'
  <2>1. /\ pc[h] \notin StartLabels \cup CheckoutLabels
        /\ pc'[h] \notin StartLabels \cup CheckoutLabels
    BY <1>1, <1>5 DEF Changing, StartLabels, BeforeInsert, CheckoutLabels
  <2> QED
    BY <1>3, <2>1, HandlerGoesOn DEF Unnoticed
<1>7. CASE ListAgain(h)
  <2>1. job'[h].items = cart_items[session_id]
    BY <1>2, <1>4, <1>7 DEF Job, list_cart_items
  <2>2. (HandlerAgrees(pc[h], job[h]) /\ TableAgrees(pc[h], job[h]))'
    BY <1>2, <1>3, <1>4, <1>7, <2>1 DEF HandlerAgrees, TableAgrees, Changing
  <2> QED
    BY <1>6, <2>2 DEF Agrees
<1>8. CASE ~ ListAgain(h)
  <2>1. pc'[h] \in {"update_insert", "relist"} /\ job'[h] = job[h]
    BY <1>1, <1>8
  <2>2. (HandlerAgrees(pc[h], job[h]) /\ TableAgrees(pc[h], job[h]))'
    BY <1>2, <1>3, <2>1 DEF HandlerAgrees, TableAgrees, Changing
  <2> QED
    BY <1>6, <2>2 DEF Agrees
<1> QED
  BY <1>7, <1>8

LEMMA SendCartAgrees ==
  ASSUME CartInv, BillInv, Agreement, NEW h, Threads = {h}, HubSendsCart(h)
  PROVE  Agrees(pc[h], job[h])'
<1> USE AgreeFacts
<1> DEFINE u == [by |-> h, items |-> job[h].items]
<1>1. /\ pc[h] = "send_cart" /\ pc'[h] = "idle" /\ updates' = Append(updates, u)
      /\ UNCHANGED <<session_id, cart_items, view, asking, reply, reply_id, current_session_id>>
      /\ UNCHANGED <<notices, quoted, overtaken>>
  BY DoneFacts DEF HubSendsCart, SendCart, dbVars, hubVars, askVars, quoteVars
<1>2. session_id # NoSession /\ job[h].items = cart_items[session_id]
  BY <1>1 DEF HandlerAgrees, TableAgrees, CartLabels
<1>3. updates' # <<>> /\ updates'[Len(updates')].items = job[h].items
  <2>1. u \in Update
    BY JobType DEF Update
  <2>2. updates'[Len(updates')] = u /\ updates' # <<>>
    BY <1>1, <2>1, AppendProperties
  <2> QED
    BY <2>2
<1>4. LastItems' = cart_items[session_id]
  BY <1>2, <1>3 DEF LastItems
<1>5. (MessagesAgree(pc[h]) /\ UiAgrees(pc[h]) /\ DialogAgrees(pc[h]))'
  BY <1>1, <1>2, HandlerGoesOn DEF StartLabels, BeforeInsert, CheckoutLabels
<1>6. (HandlerAgrees(pc[h], job[h]) /\ TableAgrees(pc[h], job[h]))'
  BY <1>1, <1>4 DEF HandlerAgrees, TableAgrees, CartLabels
<1> QED
  BY <1>5, <1>6 DEF Agrees

\* Steps that leave the carts alone, and the messages.
LEMMA StaysAgreed ==
  ASSUME CartInv, BillInv, Agreement, NEW h, Threads = {h}, Unnoticed,
         UNCHANGED <<session_id, cart_items>>,
         pc[h] \in ObstacleLabels \cup {"product", "take", "debounce", "add"},
         pc'[h] \in ObstacleLabels \cup {"idle", "take", "debounce", "add"},
         pc'[h] \in {"take", "debounce", "add"} => session_id # NoSession
  PROVE  Agrees(pc[h], job[h])'
<1>1. /\ pc[h] \notin Changing \cup StartLabels \cup CheckoutLabels
      /\ pc'[h] \notin StartLabels \cup CheckoutLabels
  BY DEF ObstacleLabels, Changing, StartLabels, BeforeInsert, CheckoutLabels
<1>2. (MessagesAgree(pc[h]) /\ UiAgrees(pc[h]) /\ DialogAgrees(pc[h]))'
  BY <1>1, HandlerGoesOn DEF Unnoticed
<1>3. HandlerAgrees(pc[h], job[h])'
  BY DEF HandlerAgrees, ObstacleLabels, CartLabels
<1>4. TableAgrees(pc[h], job[h])'
  <2>1. LastItems' = LastItems
    BY DEF Unnoticed, LastItems, EmptyCart
  <2>2. session_id # NoSession => LastItems = cart_items[session_id]
    BY <1>1, AgreeFacts DEF TableAgrees
  <2> QED
    BY <2>1, <2>2 DEF TableAgrees, ObstacleLabels
<1> QED
  BY <1>2, <1>3, <1>4 DEF Agrees

LEMMA LookAgrees ==
  ASSUME CartInv, BillInv, Agreement, NEW h, Threads = {h}, Unnoticed,
         \/ Obstacle(h)
         \/ ProductBegin(h) \/ ProductTake(h) \/ ProductDuplicate(h) \/ ProductNew(h)
         \/ ProductNotAdded(h)
  PROVE  Agrees(pc[h], job[h])'
<1> USE AgreeFacts
<1>1. CASE Obstacle(h)
  <2>1. pc[h] \in ObstacleLabels /\ pc'[h] \in ObstacleLabels \cup {"idle"}
    BY <1>1, GoFacts, DoneFacts
    DEF Obstacle, ObstacleDropped, ObstacleLog, ObstacleUnchanged, ObstacleChanged, SendAlarm,
        ObstacleLabels
  <2>2. UNCHANGED <<session_id, cart_items>>
    BY <1>1
    DEF Obstacle, ObstacleDropped, ObstacleLog, ObstacleUnchanged, ObstacleChanged, SendAlarm,
        dbVars, hubVars
  <2> QED
    BY <2>1, <2>2, StaysAgreed DEF ObstacleLabels
<1>2. CASE ProductBegin(h) \/ ProductTake(h) \/ ProductDuplicate(h) \/ ProductNew(h) \/ ProductNotAdded(h)
  <2>1. /\ pc[h] \in {"product", "take", "debounce", "add"}
        /\ pc'[h] \in {"take", "debounce", "add", "idle"}
    BY <1>2, GoFacts, DoneFacts
    DEF ProductBegin, ProductTake, ProductDuplicate, ProductNew, ProductNotAdded
  <2>2. UNCHANGED <<session_id, cart_items>>
    BY <1>2
    DEF ProductBegin, ProductTake, ProductDuplicate, ProductNew, ProductNotAdded, dbVars, hubVars
  <2>3. pc'[h] # "idle" => session_id # NoSession
    <3>1. CASE ProductBegin(h)
      BY <3>1, DoneFacts DEF ProductBegin
    <3>2. CASE ~ ProductBegin(h)
      BY <1>2, <3>2
      DEF ProductTake, ProductDuplicate, ProductNew, ProductNotAdded, HandlerAgrees, CartLabels
    <3> QED
      BY <3>1, <3>2
  <2> QED
    BY <2>1, <2>2, <2>3, StaysAgreed
<1> QED
  BY <1>1, <1>2

\* TakeReply: reply is "ok", for the other answers need a fault.
LEMMA ReplyAgrees ==
  ASSUME CartInv, BillInv, Agreement, NEW h, Threads = {h}, TakeReply
  PROVE  Agrees(pc[h], job[h])'
<1> USE AgreeFacts
<1>1. reply = "ok" /\ asking # NoThread
  BY DEF TakeReply, UiUnbilled, MessagesAgree, CartInv, AskTypeOK
<1>2. /\ view' = "shopping" /\ table' = EmptyCart /\ asking' = NoThread /\ reply' = "none"
      /\ current_session_id' = session_id /\ session_id # NoSession
      /\ UNCHANGED <<session_id, cart_items, pc, job, orders, updates, notices>>
  BY <1>1 DEF TakeReply, StartReturns, UiAgrees, vars, dbVars, hubVars
<1>3. pc[h] \notin StartLabels \cup CheckoutLabels
  BY <1>1 DEF MessagesAgree, BillKnown
<1>4. LastItems' = LastItems
  BY <1>1, <1>2 DEF LastItems
<1>5. (MessagesAgree(pc[h]) /\ UiAgrees(pc[h]))'
  BY <1>2, <1>3 DEF MessagesAgree, UiAgrees
<1>6. (HandlerAgrees(pc[h], job[h]) /\ TableAgrees(pc[h], job[h]) /\ DialogAgrees(pc[h]))'
  <2>1. HandlerAgrees(pc[h], job[h])'
    BY <1>2, <1>3 DEF HandlerAgrees, Billed
  <2>2. TableAgrees(pc[h], job[h])'
    BY <1>2, <1>3, <1>4 DEF TableAgrees, StartLabels, BeforeInsert
  <2>3. DialogAgrees(pc[h])'
    BY <1>2, <1>3 DEF DialogAgrees, CheckoutLabels
  <2> QED
    BY <2>1, <2>2, <2>3
<1> QED
  BY <1>5, <1>6 DEF Agrees

\* EmitCart and ShowCart do not change what the table comes to show.
LEMMA EmitItems ==
  ASSUME CartInv, EmitCart
  PROVE  LastItems' = LastItems /\ (updates' # <<>> => updates # <<>>)
<1>1. PICK i \in DOMAIN updates : updates' = [updates EXCEPT ![i].by = NoThread]
  BY DEF EmitCart
<1> DEFINE n == Len(updates)
<1>2. /\ updates \in Seq(Update) /\ n \in Nat /\ DOMAIN updates = 1 .. n
      /\ i \in 1 .. n
  BY <1>1, LenProperties DEF CartInv, ScreenTypeOK
<1>3. updates # <<>> /\ n > 0
  BY <1>2
<1>4. /\ updates' \in Seq(Update) /\ Len(updates') = n
      /\ \A k \in 1 .. n : updates'[k].items = updates[k].items
  <2> DEFINE u == [updates[i] EXCEPT !.by = NoThread]
  <2>1. updates[i] \in Update
    BY <1>2, ElementOfSeq
  <2>2. u \in Update /\ u.items = updates[i].items
    BY <2>1 DEF Update
  <2>3. updates' = [updates EXCEPT ![i] = u]
    BY <1>1
  <2> HIDE DEF u
  <2>4. updates' \in Seq(Update) /\ Len(updates') = n
    BY <1>2, <2>2, <2>3, ExceptSeq
  <2>5. \A k \in 1 .. n : updates'[k].items = updates[k].items
    BY <1>2, <2>2, <2>3
  <2> QED
    BY <2>4, <2>5
<1>5. updates' # <<>>
  BY <1>3, <1>4, LenProperties
<1>6. updates'[Len(updates')].items = updates[Len(updates)].items
  BY <1>2, <1>3, <1>4
<1> QED
  BY <1>3, <1>5, <1>6 DEF LastItems

LEMMA ShowItems ==
  ASSUME CartInv, UiUnbilled, ShowCart
  PROVE  LastItems' = LastItems /\ (updates' # <<>> => updates # <<>>)
<1> DEFINE n == Len(updates)
<1>1. /\ updates # <<>> /\ updates \in Seq(Update) /\ n \in Nat
      /\ table' = Head(updates).items /\ updates' = Tail(updates)
      /\ reply = "none" /\ reply' = reply
  BY LenProperties DEF ShowCart, askVars, CartInv, ScreenTypeOK, UiUnbilled
<1>2. /\ n > 0 /\ Head(updates) = updates[1]
      /\ updates' \in Seq(Update) /\ Len(updates') = n - 1
      /\ \A k \in 1 .. n - 1 : updates'[k] = updates[k + 1]
  BY <1>1, EmptySeq, HeadTailProperties
<1>3. CASE n = 1
  <2>1. updates' = <<>>
    BY <1>2, <1>3, EmptySeq
  <2> QED
    BY <1>1, <1>2, <1>3, <2>1 DEF LastItems
<1>4. CASE n > 1
  <2>1. updates' # <<>>
    BY <1>2, <1>4, EmptySeq
  <2>2. updates'[Len(updates')] = updates[n]
    BY <1>1, <1>2, <1>4
  <2> QED
    BY <1>1, <2>1, <2>2 DEF LastItems
<1> QED
  BY <1>1, <1>2, <1>3, <1>4

\* The handler rests, and nothing is sent.
LEMMA UiGoesOn ==
  ASSUME CartInv, BillInv, Agreement, NEW h, Threads = {h},
         UNCHANGED <<session_id, cart_items, orders, pc, job, asking, reply, reply_id>>,
         LastItems' = LastItems, updates' # <<>> => updates # <<>>, notices' \subseteq notices,
         UiAgrees(pc[h])', DialogAgrees(pc[h])'
  PROVE  Agrees(pc[h], job[h])'
<1> USE AgreeFacts
<1>1. MessagesAgree(pc[h])'
  BY DEF MessagesAgree
<1>2. HandlerAgrees(pc[h], job[h])'
  BY DEF HandlerAgrees, Billed
<1>3. TableAgrees(pc[h], job[h])'
  BY DEF TableAgrees, EmptyCart
<1> QED
  BY <1>1, <1>2, <1>3 DEF Agrees

LEMMA ButtonAgrees ==
  ASSUME CartInv, BillInv, Agreement, NEW h, Threads = {h}, PressEndShopping \/ CancelCheckout
  PROVE  Agrees(pc[h], job[h])'
<1> USE AgreeFacts
<1>1. /\ UNCHANGED <<session_id, cart_items, orders, pc, job, asking, reply, reply_id>>
      /\ UNCHANGED <<updates, notices, table, current_session_id>> /\ LastItems' = LastItems
  BY DEF PressEndShopping, CancelCheckout, vars, dbVars, hubVars, askVars, LastItems, EmptyCart
<1>2. view # "standby" /\ view' # "standby" /\ pc[h] \notin CheckoutLabels
  BY DEF PressEndShopping, CancelCheckout, UiAgrees
<1>3. UiAgrees(pc[h])'
  BY <1>1, <1>2 DEF UiAgrees
<1>4. DialogAgrees(pc[h])'
  <2>1. CASE PressEndShopping
    <3>1. quoted' = table /\ overtaken' = ~ Quiet
      BY <2>1 DEF PressEndShopping
    <3>2. Quiet => pc[h] = "idle" /\ updates = <<>> /\ reply = "none"
      BY DEF Quiet, Idle, UiUnbilled
    <3>3. Quiet => table = cart_items[session_id]
      BY <1>2, <3>2
      DEF TableAgrees, LastItems, UiAgrees, Changing, StartLabels, BeforeInsert, CheckoutLabels
    <3> QED
      BY <1>1, <3>1, <3>3 DEF DialogAgrees
  <2>2. CASE CancelCheckout
    <3>1. view' = "shopping"
      BY <2>2 DEF CancelCheckout
    <3> QED
      BY <1>1, <1>2, <3>1 DEF DialogAgrees, CheckoutLabels
  <2> QED
    BY <2>1, <2>2
<1> QED
  BY <1>1, <1>3, <1>4, UiGoesOn

LEMMA ThreadAgrees ==
  ASSUME CartInv, BillInv, Agreement, NEW h, Threads = {h},
         \/ EmitCart \/ ShowCart \/ HandleCheckoutDone(h)
         \/ IntervalElapses /\ UNCHANGED cartVars
         \/ UNCHANGED allVars
  PROVE  Agrees(pc[h], job[h])'
<1> USE AgreeFacts
<1>1. /\ UNCHANGED <<session_id, cart_items, orders, pc, job, asking, reply, reply_id>>
      /\ UNCHANGED <<view, quoted, overtaken>> /\ notices' \subseteq notices
      /\ current_session_id' = current_session_id \/ HandleCheckoutDone(h)
  BY DEF EmitCart, ShowCart, HandleCheckoutDone, IntervalElapses, vars, dbVars, hubVars, allVars,
         cartVars, screenVars, askVars, quoteVars
<1>2. LastItems' = LastItems /\ (updates' # <<>> => updates # <<>>)
  <2>1. CASE EmitCart \/ ShowCart
    BY <2>1, EmitItems, ShowItems
  <2>2. CASE ~ (EmitCart \/ ShowCart)
    BY <2>2
    DEF HandleCheckoutDone, allVars, cartVars, screenVars, askVars, LastItems, EmptyCart
  <2> QED
    BY <2>1, <2>2
<1>3. HandleCheckoutDone(h) => view = "standby" /\ current_session_id' = NoSession
  BY DEF HandleCheckoutDone, MessagesAgree, UiAgrees, CheckoutLabels
<1>4. UiAgrees(pc[h])'
  BY <1>1, <1>3 DEF UiAgrees
<1>5. DialogAgrees(pc[h])'
  BY <1>1 DEF DialogAgrees
<1> QED
  BY <1>1, <1>2, <1>4, <1>5, UiGoesOn

LEMMA ConfirmAgrees ==
  ASSUME CartInv, BillInv, Agreement, NEW h, Threads = {h}, ConfirmCheckout, ~ Fault
  PROVE  Agrees(pc[h], job[h])'
<1> USE AgreeFacts
<1>1. /\ view = "dialog" /\ Served /\ Free(h) /\ ReceiveCheckout(h)
  BY DEF ConfirmCheckout, UiAgrees
<1>2. /\ pc[h] = "idle" /\ pc'[h] = "checkout"
      /\ UNCHANGED <<session_id, cart_items, orders>>
      /\ UNCHANGED <<asking, reply, updates, notices, quoted, overtaken>>
      /\ view' = "standby" /\ current_session_id' = NoSession
  BY <1>1, GoFacts
  DEF ReceiveCheckout, Receive, ConfirmCheckout, dbVars, hubVars, askVars, quoteVars
<1>3. updates = <<>> /\ asking = NoThread /\ reply = "none" /\ notices = {}
  BY <1>1, <1>2, NothingOnItsWay DEF MessagesAgree
<1>4. session_id # NoSession /\ session_id \notin Billed' /\ Billed' = Billed
  BY <1>1, <1>2 DEF UiAgrees, UiUnbilled, Billed
<1>5. (MessagesAgree(pc[h]) /\ UiAgrees(pc[h]))'
  BY <1>2, <1>3 DEF MessagesAgree, UiAgrees, StartLabels, BeforeInsert, CheckoutLabels
<1>6. HandlerAgrees(pc[h], job[h])'
  BY <1>2, <1>4 DEF HandlerAgrees, CartLabels
<1>7. (TableAgrees(pc[h], job[h]) /\ DialogAgrees(pc[h]))'
  BY <1>1, <1>2 DEF TableAgrees, DialogAgrees, CheckoutLabels
<1> QED
  BY <1>5, <1>6, <1>7 DEF Agrees

LEMMA HubAgrees ==
  ASSUME CartInv, BillInv, Agreement, NEW h, Threads = {h}, HubWorks(h)
  PROVE  Agrees(pc[h], job[h])'
<1>1. CASE HubAnswersStart(h)
  BY <1>1, AnswerAgrees
<1>2. CASE HubSendsCart(h)
  BY <1>2, SendCartAgrees
<1>3. CASE HubSendsCheckoutDone(h) \/ HubClearsSession(h)
  BY <1>3, CheckoutAgrees
<1>4. CASE Work(h) /\ pc[h] \notin {"start_reply", "send_cart", "notify", "clear"} /\ Unnoticed
  BY <1>4, StartAgrees, CheckoutAgrees, ChangeAgrees, LookAgrees DEF Work, ChangeCart, SendCart
<1> QED
  BY <1>1, <1>2, <1>3, <1>4 DEF HubWorks, Unnoticed, screenVars, askVars

LEMMA AgreementStep ==
  ASSUME CartInv, BillInv, Agreement, NEW h, Threads = {h}, [CartNext]_allVars, ~ Fault
  PROVE  Agreement'
<1>1. Sequential'
  BY CartSequential
<1>2. Agrees(pc[h], job[h])'
  <2>1. CASE PressStart(h) \/ AiReports(h) \/ \E p \in Products : PressQuantity(h, p)
    BY <2>1, ArrivalAgrees
  <2>2. CASE HubWorks(h)
    BY <2>2, HubAgrees
  <2>3. CASE TakeReply \/ PressEndShopping \/ CancelCheckout \/ ConfirmCheckout
    BY <2>3, ReplyAgrees, ButtonAgrees, ConfirmAgrees
  <2>4. CASE \/ EmitCart \/ ShowCart \/ HandleCheckoutDone(h)
             \/ IntervalElapses /\ UNCHANGED cartVars
             \/ UNCHANGED allVars
    BY <2>4, ThreadAgrees
  <2>5. ~ (HubFails(h) \/ HubRestarts \/ StartTimesOut \/ PressStartInVain)
    BY DEF HubFails, HubStartFails, HubStopsWaiting, DatabaseRaises, SendLost, HubRestarts, Restart,
           StartTimesOut, PressStartInVain
  <2> QED
    BY <2>1, <2>2, <2>3, <2>4, <2>5 DEF CartNext
<1> QED
  BY <1>1, <1>2 DEF Agreement

LEMMA CartFaultsCounted ==
  ASSUME CartInv, [CartNext]_allVars, faults' = 0
  PROVE  faults = 0 /\ ~ Fault
<1>1. faults \in Nat
  BY BoundsAssumption DEF CartInv, Inv, FaultsTypeOK
<1>2. faults' = faults \/ Fault
  BY CartHubStep, FaultsCounted, PressedQuantity, QuantityRequest
  DEF CartInv, Inv, HubStopsWaiting
<1> QED
  BY <1>1, <1>2 DEF Fault

LEMMA AlwaysAgreement ==
  ASSUME OneHandler
  PROVE  CartSpec => []AgreementInv
<1>1. PICK h : Threads = {h}
  BY DEF OneHandler
<1>2. ASSUME CartInit PROVE Agreement
  <2>1. /\ pc[h] = "idle" /\ session_id = NoSession /\ view = "standby" /\ asking = NoThread
        /\ current_session_id = NoSession /\ reply = "none" /\ notices = {} /\ updates = <<>>
    BY <1>1, <1>2 DEF CartInit, Init
  <2>2. Agrees(pc[h], job[h])
    BY <2>1
    DEF Agrees, MessagesAgree, UiAgrees, HandlerAgrees, TableAgrees, DialogAgrees,
        StartLabels, BeforeInsert, CheckoutLabels, CartLabels
  <2>3. Sequential
    BY <1>1, <1>2, SequentialInit DEF CartInit
  <2> QED
    BY <1>1, <2>2, <2>3 DEF Agreement
<1>3. CartInit => AgreementInv
  BY <1>2, CartInvInit, BillInvInit DEF AgreementInv
<1>4. ASSUME AgreementInv, [CartNext]_allVars PROVE AgreementInv'
  <2>1. CartInv' /\ BillInv'
    BY <1>4, CartInvNext, BillInvNext DEF AgreementInv
  <2>2. ASSUME faults' = 0 PROVE Agreement'
    BY <1>1, <1>4, <2>2, CartFaultsCounted, AgreementStep DEF AgreementInv
  <2> QED
    BY <2>1, <2>2 DEF AgreementInv
<1> QED
  BY <1>3, <1>4, PTL DEF CartSpec

\* Where no request is at work and nothing is on its way.
LEMMA QuietFacts ==
  ASSUME OneHandler, AgreementInv, faults = 0, Quiet
  PROVE  /\ Synced /\ UiAgrees("idle") /\ asking = NoThread
         /\ view # "standby" => table = cart_items[session_id]
<1>1. PICK h : Threads = {h}
  BY DEF OneHandler
<1>2. pc[h] = "idle" /\ updates = <<>> /\ asking = NoThread /\ reply = "none"
  BY <1>1, AgreeFacts DEF AgreementInv, Quiet, Idle, UiUnbilled
<1>3. UiAgrees("idle") /\ TableAgrees("idle", job[h]) /\ Synced
  BY <1>1, <1>2, AgreeFacts DEF AgreementInv, SessionKnown, NoneActive
<1>4. view # "standby" => table = cart_items[session_id]
  BY <1>2, <1>3
  DEF UiAgrees, TableAgrees, LastItems, Changing, StartLabels, BeforeInsert, CheckoutLabels
<1> QED
  BY <1>2, <1>3, <1>4

(***************************************************************************)
(* With one handler at a time and no fault so far, the UI and the hub have *)
(* the same session id, or both none, whenever nothing is on its way       *)
(* between them.                                                           *)
(***************************************************************************)
THEOREM CartSessionIdsAgree ==
  ASSUME OneHandler
  PROVE  CartSpec => []SessionIdsAgree
<1>1. AgreementInv => SessionIdsAgree
  BY QuietFacts DEF SessionIdsAgree, UiAgrees, CheckoutLabels
<1> QED
  BY <1>1, AlwaysAgreement, PTL

(***************************************************************************)
(* With one handler at a time and no fault so far, the table shows the     *)
(* cart of the customer's session whenever nothing is on its way.          *)
(***************************************************************************)
THEOREM CartTableShowsCart ==
  ASSUME OneHandler
  PROVE  CartSpec => []TableShowsCart
<1>1. AgreementInv => TableShowsCart
  BY QuietFacts DEF TableShowsCart, UiAgrees
<1> QED
  BY <1>1, AlwaysAgreement, PTL

(***************************************************************************)
(* With one handler at a time and no fault so far, the shopping page and   *)
(* the checkout dialog have an ACTIVE session behind them whenever nothing *)
(* is on its way.                                                          *)
(***************************************************************************)
THEOREM CartShopperHasSession ==
  ASSUME OneHandler
  PROVE  CartSpec => []ShopperHasSession
<1>1. AgreementInv => ShopperHasSession
  BY QuietFacts DEF ShopperHasSession, UiAgrees, Synced, Active
<1> QED
  BY <1>1, AlwaysAgreement, PTL

(***************************************************************************)
(* With one handler at a time and no fault so far, the customer is billed  *)
(* what the confirmed dialog showed, unless a change was on its way when   *)
(* the dialog was opened or came while it was open.                        *)
(***************************************************************************)
THEOREM CartBilledAsQuoted ==
  ASSUME OneHandler
  PROVE  CartSpec => BilledAsQuoted
<1> DEFINE AsQuoted ==
               \A o \in DOMAIN orders' \ DOMAIN orders :
                   faults = 0 /\ ~ overtaken => orders'[o].items = quoted
<1>1. PICK h : Threads = {h}
  BY DEF OneHandler
<1>2. ASSUME AgreementInv, CheckoutCreateOrder(h)
      PROVE  AsQuoted
  <2> SUFFICES ASSUME faults = 0, ~ overtaken,
                      NEW o \in DOMAIN orders' \ DOMAIN orders
               PROVE  orders'[o].items = quoted
    OBVIOUS
  <2>1. CartInv /\ BillInv /\ Agreement
    BY <1>2 DEF AgreementInv
  <2>2. /\ pc[h] = "order" /\ session_id # NoSession /\ session_id \in SessionIds
        /\ job[h].items = list_cart_items(session_id) /\ quoted = cart_items[session_id]
    BY <1>1, <1>2, <2>1, AgreeFacts
    DEF CheckoutCreateOrder, HandlerAgrees, DialogAgrees, BillKnown
  <2>3. /\ DOMAIN orders' = DOMAIN orders \cup {NextOrderId}
        /\ orders'[NextOrderId] = [session_id |-> session_id, items |-> job[h].items]
    BY <1>1, <1>2, <2>1, CreatedOrder DEF CartInv
  <2> QED
    BY <2>2, <2>3 DEF list_cart_items
<1>3. ASSUME AgreementInv, [CartNext]_allVars
      PROVE  DOMAIN orders' = DOMAIN orders \/ CheckoutCreateOrder(h)
  <2>1. Inv /\ ScreenTypeOK /\ HandlersTypeOK
    BY <1>3 DEF AgreementInv, CartInv, Inv
  <2>2. CASE [Next]_vars
    BY <1>1, <2>1, <2>2, OrdersFromCheckout
  <2>3. ASSUME NEW t \in Threads, NEW p \in Products, PressQuantity(t, p)
        PROVE  UNCHANGED orders
    BY <2>1, <2>3, PressedQuantity, QuantityRequest DEF dbVars
  <2>4. CASE \/ \E t \in Threads : HubStopsWaiting(t)
             \/ Fault /\ UNCHANGED <<dbVars, hubVars, pc, job, receipts>>
    BY <2>4 DEF HubStopsWaiting, dbVars
  <2> QED
    BY <1>3, <2>2, <2>3, <2>4, CartHubStep
<1>4. AgreementInv /\ [CartNext]_allVars => [AsQuoted]_allVars
  BY <1>2, <1>3
<1> HIDE DEF AsQuoted
<1>5. CartSpec => [][AsQuoted]_allVars
  BY <1>4, AlwaysAgreement, PTL DEF CartSpec
<1> QED
  BY <1>5 DEF BilledAsQuoted, AsQuoted
=============================================================================
