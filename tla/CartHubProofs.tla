---------------------------- MODULE CartHubProofs ----------------------------
(***************************************************************************)
(* Proofs about CartHub for any number of handler threads, any products    *)
(* and catalogue, and any bounds, with exceptions, lost messages and       *)
(* restarts at every point.                                                *)
(***************************************************************************)
EXTENDS CartHub, SequenceTheorems, TLAPS

(***************************************************************************)
(* The tables: what each statement of TransactionDAO preserves and         *)
(* changes.  The proofs about the hub cite these lemmas and never look at  *)
(* a statement again.                                                      *)
(***************************************************************************)
\* Detail rows are for products the order was priced from.
DetailsFit == \A o \in DOMAIN orders : order_details[o] \subseteq Lines(orders[o].items)

DbInv == DbTypeOK /\ DetailsFit

\* Rows are added and filled in, and never taken away.
DbGrows ==
    /\ Len(shopping_sessions) <= Len(shopping_sessions')
    /\ DOMAIN orders \subseteq DOMAIN orders'
    /\ \A o \in DOMAIN orders :
          orders'[o] = orders[o] /\ order_details[o] \subseteq order_details'[o]

-----------------------------------------------------------------------------
\* Functions on 1 .. n are the sequences of length n.
LEMMA SeqOfFunction ==
  ASSUME NEW S, NEW n \in Nat, NEW f \in [1 .. n -> S]
  PROVE  f \in Seq(S) /\ Len(f) = n
<1>1. f \in Seq(S)
  BY SeqDef
<1>2. Len(f) \in Nat /\ DOMAIN f = 1 .. Len(f) /\ DOMAIN f = 1 .. n
  BY <1>1, LenProperties
<1> QED
  BY <1>1, <1>2

\* The tables as functions.
LEMMA DbDomains ==
  ASSUME DbTypeOK
  PROVE  /\ Len(shopping_sessions) \in Nat
         /\ SessionIds = 1 .. Len(shopping_sessions)
         /\ DOMAIN cart_items = SessionIds
         /\ \A s \in SessionIds : cart_items[s] \in Listing
         /\ Len(orders) \in Nat
         /\ DOMAIN orders = 1 .. Len(orders)
         /\ DOMAIN order_details = DOMAIN orders
         /\ \A o \in DOMAIN orders :
               /\ orders[o] \in [session_id : Nat, items : Listing]
               /\ order_details[o] \in SUBSET Products
<1>1. /\ shopping_sessions \in Seq({"ACTIVE", "COMPLETED"})
      /\ cart_items \in Seq(Listing)
      /\ Len(cart_items) = Len(shopping_sessions)
      /\ orders \in Seq([session_id : Nat, items : Listing])
      /\ order_details \in Seq(SUBSET Products)
      /\ Len(order_details) = Len(orders)
  BY DEF DbTypeOK
<1>2. Len(shopping_sessions) \in Nat /\ SessionIds = 1 .. Len(shopping_sessions)
  BY <1>1, LenProperties DEF SessionIds
<1>3. DOMAIN cart_items = SessionIds /\ \A s \in SessionIds : cart_items[s] \in Listing
  BY <1>1, <1>2, LenProperties, ElementOfSeq
<1>4. Len(orders) \in Nat /\ DOMAIN orders = 1 .. Len(orders)
  BY <1>1, LenProperties
<1>5. \A o \in DOMAIN orders : orders[o] \in [session_id : Nat, items : Listing]
  BY <1>1, <1>4, ElementOfSeq
<1>6. DOMAIN order_details = DOMAIN orders
  BY <1>1, <1>4, LenProperties
<1>7. \A o \in DOMAIN orders : order_details[o] \in SUBSET Products
  BY <1>1, <1>4, ElementOfSeq
<1> QED
  BY <1>2, <1>3, <1>4, <1>5, <1>6, <1>7

LEMMA LinesType ==
  ASSUME NEW items PROVE Lines(items) \subseteq Products
  BY DEF Lines

-----------------------------------------------------------------------------
LEMMA StartSessionStep ==
  ASSUME DbInv, start_session
  PROVE  DbInv' /\ DbGrows /\ Len(shopping_sessions') = NextSessionId
<1>1. /\ shopping_sessions' \in Seq({"ACTIVE", "COMPLETED"})
      /\ Len(shopping_sessions') = Len(shopping_sessions) + 1
  BY AppendProperties DEF DbInv, DbTypeOK, start_session
<1>2. /\ cart_items' \in Seq(Listing)
      /\ Len(cart_items') = Len(cart_items) + 1
  <2>1. EmptyCart \in Listing
    BY DEF EmptyCart, Listing
  <2> QED
    BY <2>1, AppendProperties DEF DbInv, DbTypeOK, start_session
<1>3. DbTypeOK'
  BY <1>1, <1>2 DEF DbInv, DbTypeOK, start_session, Listing
<1>4. orders' = orders /\ order_details' = order_details
  BY DEF start_session
<1>5. DetailsFit'
  BY <1>4 DEF DbInv, DetailsFit, Lines
<1>6. DbGrows
  BY <1>1, <1>4, DbDomains DEF DbInv, DbGrows
<1> QED
  BY <1>1, <1>3, <1>5, <1>6 DEF DbInv, NextSessionId

LEMMA EndSessionStep ==
  ASSUME DbInv, NEW s, end_session(s)
  PROVE  DbInv' /\ DbGrows /\ Len(shopping_sessions') = Len(shopping_sessions)
<1>1. /\ Len(shopping_sessions) \in Nat
      /\ SessionIds = 1 .. Len(shopping_sessions)
      /\ \A i \in SessionIds : shopping_sessions[i] \in {"ACTIVE", "COMPLETED"}
  BY DbDomains, ElementOfSeq DEF DbInv, DbTypeOK
<1>2. shopping_sessions' \in [1 .. Len(shopping_sessions) -> {"ACTIVE", "COMPLETED"}]
  BY <1>1 DEF end_session
<1>3. /\ shopping_sessions' \in Seq({"ACTIVE", "COMPLETED"})
      /\ Len(shopping_sessions') = Len(shopping_sessions)
  BY <1>1, <1>2, SeqOfFunction
<1>4. cart_items' = cart_items /\ orders' = orders /\ order_details' = order_details
  BY DEF end_session
<1>5. DbTypeOK'
  BY <1>3, <1>4 DEF DbInv, DbTypeOK, Listing
<1>6. DetailsFit'
  BY <1>4 DEF DbInv, DetailsFit, Lines
<1>7. DbGrows
  BY <1>1, <1>3, <1>4 DEF DbGrows
<1> QED
  BY <1>3, <1>5, <1>6, <1>7 DEF DbInv

LEMMA SetQuantityStep ==
  ASSUME DbInv, NEW s, NEW p, NEW q,
         s \in SessionIds /\ p \in Products => q \in Nat,
         SetQuantity(s, p, q)
  PROVE  DbInv' /\ DbGrows
<1>1. /\ shopping_sessions' = shopping_sessions
      /\ orders' = orders
      /\ order_details' = order_details
  BY DEF SetQuantity
<1>2. /\ cart_items' \in Seq(Listing)
      /\ Len(cart_items') = Len(cart_items)
  <2>1. /\ Len(cart_items) \in Nat
        /\ cart_items \in [1 .. Len(cart_items) -> Listing]
        /\ SessionIds = 1 .. Len(cart_items)
    BY DbDomains, LenProperties DEF DbInv, DbTypeOK
  <2>2. s \in SessionIds => [cart_items[s] EXCEPT ![p] = q] \in Listing
    BY <2>1 DEF Listing
  <2>3. cart_items' \in [1 .. Len(cart_items) -> Listing]
    BY <2>1, <2>2 DEF SetQuantity
  <2> QED
    BY <2>1, <2>3, SeqOfFunction
<1>3. DbTypeOK'
  BY <1>1, <1>2 DEF DbInv, DbTypeOK, Listing
<1>4. DetailsFit'
  BY <1>1 DEF DbInv, DetailsFit, Lines
<1>5. DbGrows
  BY <1>1, DbDomains DEF DbInv, DbGrows
<1> QED
  BY <1>3, <1>4, <1>5 DEF DbInv

LEMMA AddCartItemStep ==
  ASSUME DbInv, NEW s, NEW p, add_cart_item(s, p)
  PROVE  DbInv' /\ DbGrows
<1>1. s \in SessionIds /\ p \in Products => cart_items[s][p] + 1 \in Nat
  BY DbDomains DEF DbInv, Listing
<1> QED
  BY <1>1, SetQuantityStep DEF add_cart_item

LEMMA RemoveCartItemStep ==
  ASSUME DbInv, NEW s, NEW p, remove_cart_item(s, p)
  PROVE  DbInv' /\ DbGrows
  BY SetQuantityStep DEF remove_cart_item

LEMMA InsertItemStep ==
  ASSUME DbInv, NEW s, NEW p, NEW q \in Nat, InsertItem(s, p, q)
  PROVE  DbInv' /\ DbGrows
<1>1. s \in SessionIds /\ p \in Products => cart_items[s][p] + q \in Nat
  BY DbDomains DEF DbInv, Listing
<1> QED
  BY <1>1, SetQuantityStep DEF InsertItem

\* The new order is the one with the id that was next; it has no detail yet.
LEMMA CreateOrderStep ==
  ASSUME DbInv, NEW s \in Nat, NEW items \in Listing, create_order(s, items)
  PROVE  /\ DbInv' /\ DbGrows
         /\ DOMAIN orders' = DOMAIN orders \cup {NextOrderId}
         /\ NextOrderId \in Nat
         /\ orders'[NextOrderId] = [session_id |-> s, items |-> items]
         /\ order_details'[NextOrderId] = {}
         /\ Len(shopping_sessions') = Len(shopping_sessions)
<1> DEFINE row == [session_id |-> s, items |-> items]
<1>1. row \in [session_id : Nat, items : Listing]
  OBVIOUS
<1>2. /\ orders' \in Seq([session_id : Nat, items : Listing])
      /\ Len(orders') = Len(orders) + 1
      /\ \A o \in 1 .. Len(orders) : orders'[o] = orders[o]
      /\ orders'[NextOrderId] = row
  BY <1>1, AppendProperties DEF DbInv, DbTypeOK, create_order, NextOrderId
<1>3. /\ order_details' \in Seq(SUBSET Products)
      /\ Len(order_details') = Len(order_details) + 1
      /\ \A o \in 1 .. Len(orders) : order_details'[o] = order_details[o]
      /\ order_details'[NextOrderId] = {}
  BY AppendProperties DEF DbInv, DbTypeOK, create_order, NextOrderId
<1>4. shopping_sessions' = shopping_sessions /\ cart_items' = cart_items
  BY DEF create_order
<1>5. DbTypeOK'
  BY <1>2, <1>3, <1>4 DEF DbInv, DbTypeOK, Listing
<1>6. /\ DOMAIN orders = 1 .. Len(orders)
      /\ Len(orders) \in Nat
      /\ DOMAIN orders' = 1 .. Len(orders) + 1
      /\ DOMAIN orders' = DOMAIN orders \cup {NextOrderId}
  <2>1. DOMAIN orders = 1 .. Len(orders) /\ Len(orders) \in Nat
    BY DbDomains DEF DbInv
  <2>2. DOMAIN orders' = 1 .. Len(orders) + 1
    BY <1>2, LenProperties
  <2> QED
    BY <2>1, <2>2 DEF NextOrderId
<1>7. DetailsFit'
  BY <1>2, <1>3, <1>6 DEF DbInv, DetailsFit, Lines
<1>8. DbGrows
  BY <1>2, <1>3, <1>4, <1>6, DbDomains DEF DbInv, DbGrows
<1> QED
  BY <1>2, <1>3, <1>4, <1>5, <1>6, <1>7, <1>8 DEF DbInv, NextOrderId

LEMMA AddOrderDetailStep ==
  ASSUME DbInv, NEW o \in DOMAIN orders, NEW p \in Lines(orders[o].items),
         add_order_detail(o, p)
  PROVE  /\ DbInv' /\ DbGrows
         /\ order_details'[o] = order_details[o] \cup {p}
<1>1. /\ shopping_sessions' = shopping_sessions
      /\ cart_items' = cart_items
      /\ orders' = orders
      /\ order_details' = [order_details EXCEPT ![o] = @ \cup {p}]
  BY DEF add_order_detail
<1>2. /\ Len(order_details) \in Nat
      /\ order_details \in [1 .. Len(order_details) -> SUBSET Products]
      /\ DOMAIN order_details = DOMAIN orders
  BY DbDomains, LenProperties DEF DbInv, DbTypeOK
<1>3. p \in Products
  BY DEF Lines
<1>4. order_details' \in [1 .. Len(order_details) -> SUBSET Products]
  BY <1>1, <1>2, <1>3
<1>5. /\ order_details' \in Seq(SUBSET Products)
      /\ Len(order_details') = Len(order_details)
  BY <1>2, <1>4, SeqOfFunction
<1>6. DbTypeOK'
  BY <1>1, <1>5 DEF DbInv, DbTypeOK, Listing
<1>7. \A i \in DOMAIN orders :
          order_details'[i] = IF i = o THEN order_details[i] \cup {p} ELSE order_details[i]
  BY <1>1, <1>2
<1>8. DetailsFit'
  BY <1>1, <1>7 DEF DbInv, DetailsFit, Lines
<1>9. DbGrows
  BY <1>1, <1>7, DbDomains DEF DbInv, DbGrows
<1> QED
  BY <1>6, <1>7, <1>8, <1>9 DEF DbInv

-----------------------------------------------------------------------------

(***************************************************************************)
(* What a handler that is about to make the call l with the locals j may   *)
(* rely on, whatever the other handlers do in the meantime.  No handler    *)
(* owns its order by a lock: it suffices that rows only ever grow, and     *)
(* that what is still to be written for an order together with what is     *)
(* there covers its lines.                                                 *)
(***************************************************************************)
Promise(l, j) ==
    /\ l = "start_assign" => j.session \in 1 .. Len(shopping_sessions)
    /\ l = "order" => j.todo = Lines(j.items)
    /\ l = "detail" =>
          /\ j.order \in DOMAIN orders
          /\ j.todo \subseteq Lines(orders[j.order].items)
          /\ Lines(orders[j.order].items) \ j.todo \subseteq order_details[j.order]
    /\ l = "notify" =>
          /\ j.order \in DOMAIN orders
          /\ order_details[j.order] = Lines(orders[j.order].items)

HandlersKeepPromise == \A t \in Threads : Promise(pc[t], job[t])

\* The parts of TypeOK that are not about the tables and the handlers.
HubTypeOK ==
    /\ session_id \in 0 .. Len(shopping_sessions)
    /\ last_obstacle_level \in Levels
    /\ last_product_id \in Products \cup {NoProduct}
FaultsTypeOK ==
    faults \in 0 .. MaxFaults
ReceiptsOK == receipts \subseteq DOMAIN orders /\ ReceiptsRecorded

HandlersTypeOK == pc \in [Threads -> Labels] /\ job \in [Threads -> Job]

Inv ==
    /\ DbInv
    /\ HubTypeOK
    /\ HandlersTypeOK
    /\ HandlersKeepPromise
    /\ FaultsTypeOK
    /\ ReceiptsOK

LEMMA InvTypeOK == Inv => TypeOK /\ ReceiptsRecorded
  BY DEF Inv, DbInv, HubTypeOK, HandlersTypeOK, FaultsTypeOK, ReceiptsOK, TypeOK

LEMMA NoJobType == NoJob \in Job /\ EmptyCart \in Listing /\ NORMAL \in Levels
<1>1. EmptyCart \in Listing
  BY DEF EmptyCart, Listing
<1>2. NORMAL \in Levels
  BY MaxLevelAssumption DEF NORMAL, Levels
<1> QED
  BY <1>1, <1>2 DEF NoJob, Job, NoSession

-----------------------------------------------------------------------------
LEMMA InitInv == Init => Inv
<1> SUFFICES ASSUME Init PROVE Inv
  OBVIOUS
<1>1. DbTypeOK
  BY EmptySeq DEF Init, DbInit, DbTypeOK
<1>2. DOMAIN orders = {} /\ Len(shopping_sessions) = 0
  BY EmptySeq DEF Init, DbInit
<1>3. DbInv
  BY <1>1, <1>2 DEF DbInv, DetailsFit
<1>4. HubTypeOK
  BY <1>2, NoJobType DEF Init, HubTypeOK, NoSession
<1>5. HandlersTypeOK
  BY NoJobType DEF Init, HandlersTypeOK, Labels
<1>6. HandlersKeepPromise
  BY DEF Init, HandlersKeepPromise, Promise
<1>7. FaultsTypeOK
  BY NoJobType, BoundsAssumption DEF Init, FaultsTypeOK, NoSession
<1>8. ReceiptsOK
  BY DEF Init, ReceiptsOK, ReceiptsRecorded
<1> QED
  BY <1>3, <1>4, <1>5, <1>6, <1>7, <1>8 DEF Inv

-----------------------------------------------------------------------------
\* A promise outlives every step of the tables.
LEMMA PromiseKept ==
  ASSUME DbInv, DbInv', DbGrows, NEW t \in Threads, Promise(pc[t], job[t]),
         pc'[t] = pc[t], job'[t] = job[t]
  PROVE  Promise(pc[t], job[t])'
<1>1. /\ Len(shopping_sessions) \in Nat
      /\ Len(shopping_sessions') \in Nat
      /\ Len(shopping_sessions) <= Len(shopping_sessions')
  BY DbDomains DEF DbInv, DbGrows, DbTypeOK
<1>2. \A o \in DOMAIN orders :
          /\ o \in DOMAIN orders'
          /\ orders'[o] = orders[o]
          /\ order_details[o] \subseteq order_details'[o]
          /\ order_details'[o] \subseteq Lines(orders[o].items)
  BY DEF DbInv, DbGrows, DetailsFit, Lines
<1> QED
  BY <1>1, <1>2 DEF Promise, Lines

LEMMA ReceiptsKept ==
  ASSUME DbInv, DbInv', DbGrows, ReceiptsOK, receipts' = receipts
  PROVE  ReceiptsOK'
  BY DEF DbInv, DbGrows, DetailsFit, Lines, ReceiptsOK, ReceiptsRecorded

(***************************************************************************)
(* One step of handler t, to label l with locals j: all that is left to    *)
(* show of it is what it does to the tables, to the attributes and to the  *)
(* UI, and that it keeps the promise of l.                                 *)
(***************************************************************************)
LEMMA HandlerStep ==
  ASSUME Inv, NEW t \in Threads, NEW l \in Labels, NEW j \in Job, Go(t, l, j),
         pc'[t] = l /\ job'[t] = j => Promise(pc[t], job[t])',
         DbInv', DbGrows, HubTypeOK', FaultsTypeOK', ReceiptsOK'
  PROVE  Inv'
<1>1. /\ pc' = [pc EXCEPT ![t] = l]
      /\ job' = [job EXCEPT ![t] = j]
  BY DEF Go
<1>2. HandlersTypeOK'
  BY <1>1 DEF Inv, HandlersTypeOK
<1>3. ASSUME NEW u \in Threads PROVE Promise(pc[u], job[u])'
  <2>1. CASE u = t
    BY <1>1, <2>1 DEF Inv, HandlersTypeOK
  <2>2. CASE u # t
    <3>1. pc'[u] = pc[u] /\ job'[u] = job[u]
      BY <1>1, <2>2 DEF Inv, HandlersTypeOK
    <3> QED
      BY <3>1, PromiseKept DEF Inv, HandlersKeepPromise
  <2> QED
    BY <2>1, <2>2
<1>4. HandlersKeepPromise'
  BY <1>3 DEF HandlersKeepPromise
<1> QED
  BY <1>2, <1>4 DEF Inv

LEMMA DbUnchanged ==
  ASSUME DbInv, UNCHANGED dbVars
  PROVE  DbInv' /\ DbGrows
<1>1. DbInv'
  BY DEF dbVars, DbInv, DbTypeOK, DetailsFit, Listing, Lines
<1>2. DbGrows
  BY DbDomains DEF dbVars, DbInv, DbGrows
<1> QED
  BY <1>1, <1>2

\* A step to label l that sends one statement to the database.
LEMMA DatabaseStep ==
  ASSUME Inv, NEW t \in Threads, NEW l \in Labels, NEW j \in Job, Go(t, l, j),
         pc'[t] = l /\ job'[t] = j => Promise(pc[t], job[t])',
         DbInv', DbGrows, UNCHANGED <<hubVars, receipts, faults>>
  PROVE  Inv'
<1>1. Len(shopping_sessions') \in Nat /\ Len(shopping_sessions) \in Nat
  BY DbDomains DEF DbInv, DbTypeOK, Inv
<1>2. HubTypeOK'
  BY <1>1 DEF Inv, HubTypeOK, hubVars, DbGrows, Levels
<1>3. FaultsTypeOK'
  BY DEF Inv, FaultsTypeOK
<1>4. ReceiptsOK'
  BY ReceiptsKept DEF Inv
<1> QED
  BY <1>2, <1>3, <1>4, HandlerStep

\* A step to label l that changes nothing but pc and job.
LEMMA LocalStep ==
  ASSUME Inv, NEW t \in Threads, NEW l \in Labels, NEW j \in Job, Go(t, l, j),
         pc'[t] = l /\ job'[t] = j => Promise(pc[t], job[t])',
         UNCHANGED <<dbVars, hubVars, receipts, faults>>
  PROVE  Inv'
  BY DbUnchanged, DatabaseStep DEF Inv

\* The labels no promise is made for.
Carefree == Labels \ {"start_assign", "order", "detail", "notify"}

LEMMA CarefreePromise ==
  ASSUME NEW t \in Threads, NEW l \in Carefree, pc'[t] = l
  PROVE  Promise(pc[t], job[t])'
  BY DEF Carefree, Promise

LEMMA JobType ==
  ASSUME Inv, NEW t \in Threads
  PROVE  /\ pc[t] \in Labels
         /\ job[t] \in Job
         /\ job[t].session \in Nat
         /\ job[t].product \in Products \cup {NoProduct}
         /\ job[t].quantity \in Nat
         /\ job[t].level \in Levels
         /\ job[t].items \in Listing
         /\ job[t].order \in Nat
         /\ job[t].todo \in SUBSET Products
<1>1. pc[t] \in Labels /\ job[t] \in Job
  BY DEF Inv, HandlersTypeOK
<1> QED
  BY <1>1 DEF Job

LEMMA LabelsType ==
  /\ "idle" \in Carefree
  /\ {"start_assign", "order", "detail", "notify"} \subseteq Labels
  /\ StartLabels \ {"start_assign"} \subseteq Carefree
  /\ {"checkout", "list", "clear", "checkout_reset"} \subseteq Carefree
  /\ CartLabels \subseteq Carefree
  /\ ObstacleLabels \subseteq Carefree
  BY DEF Carefree, Labels, StartLabels, BeforeInsert, CheckoutLabels, CartLabels, ObstacleLabels

\* A step to a carefree label, with the locals kept well typed.
LEMMA CarefreeDatabaseStep ==
  ASSUME Inv, NEW t \in Threads, NEW l \in Carefree, NEW j \in Job, Go(t, l, j),
         DbInv', DbGrows, UNCHANGED <<hubVars, receipts, faults>>
  PROVE  Inv'
  BY CarefreePromise, DatabaseStep DEF Carefree

LEMMA CarefreeLocalStep ==
  ASSUME Inv, NEW t \in Threads, NEW l \in Carefree, NEW j \in Job, Go(t, l, j),
         UNCHANGED <<dbVars, hubVars, receipts, faults>>
  PROVE  Inv'
  BY CarefreePromise, LocalStep DEF Carefree

\* A step to a carefree label that leaves the tables alone.
LEMMA CarefreeHubStep ==
  ASSUME Inv, NEW t \in Threads, NEW l \in Carefree, NEW j \in Job, Go(t, l, j),
         UNCHANGED <<dbVars, receipts>>, HubTypeOK', FaultsTypeOK'
  PROVE  Inv'
<1>1. DbInv' /\ DbGrows
  BY DbUnchanged DEF Inv
<1>2. ReceiptsOK'
  BY <1>1, ReceiptsKept DEF Inv
<1>3. pc'[t] = l /\ job'[t] = j => Promise(pc[t], job[t])'
  BY CarefreePromise
<1> QED
  BY <1>1, <1>2, <1>3, HandlerStep DEF Carefree

\* A handler that returns without another call.
LEMMA DoneStep ==
  ASSUME Inv, NEW t \in Threads, Done(t), UNCHANGED <<dbVars, hubVars, receipts, faults>>
  PROVE  Inv'
  BY CarefreeLocalStep, LabelsType, NoJobType DEF Done

-----------------------------------------------------------------------------
LEMMA ArrivalInv ==
  ASSUME Inv, NEW t \in Threads, Arrival(t)
  PROVE  Inv'
<1>1. ASSUME NEW l \in Carefree, NEW j \in Job, Receive(t, l, j) PROVE Inv'
  BY <1>1, CarefreeLocalStep DEF Receive
<1>2. SessionIds \subseteq Nat
  BY DbDomains DEF Inv, DbInv
<1>3. CASE ReceiveStart(t)
  BY <1>1, <1>3, NoJobType, LabelsType DEF ReceiveStart, StartLabels, BeforeInsert
<1>4. CASE ReceiveCheckout(t)
  BY <1>1, <1>4, NoJobType, LabelsType DEF ReceiveCheckout
<1>5. ASSUME NEW s \in SessionIds, NEW p \in Catalogue, NEW q \in 0 .. MaxQuantity - 1,
             ReceiveUpdateQuantity(t, s, p, q)
      PROVE  Inv'
  <2>1. s \in Nat /\ p \in Products /\ q \in Nat
    BY <1>2, CatalogueAssumption, BoundsAssumption
  <2>2. [NoJob EXCEPT !.session = s, !.product = p, !.quantity = q] \in Job
    BY <2>1, NoJobType DEF Job
  <2> QED
    BY <1>1, <1>5, <2>2, LabelsType DEF ReceiveUpdateQuantity, CartLabels
<1>6. ASSUME NEW s \in SessionIds, NEW p \in Catalogue, ReceiveRemoveItem(t, s, p)
      PROVE  Inv'
  <2>1. [NoJob EXCEPT !.session = s, !.product = p] \in Job
    BY <1>2, NoJobType, CatalogueAssumption DEF Job
  <2> QED
    BY <1>1, <1>6, <2>1, LabelsType DEF ReceiveRemoveItem, CartLabels
<1>7. ASSUME NEW p \in Products, ReceiveProduct(t, p) PROVE Inv'
  <2>1. [NoJob EXCEPT !.product = p] \in Job
    BY NoJobType DEF Job
  <2> QED
    BY <1>1, <1>7, <2>1, LabelsType DEF ReceiveProduct, CartLabels
<1>8. ASSUME NEW l \in Levels, ReceiveObstacle(t, l) PROVE Inv'
  <2>1. [NoJob EXCEPT !.level = l] \in Job
    BY NoJobType DEF Job
  <2> QED
    BY <1>1, <1>8, <2>1, LabelsType DEF ReceiveObstacle, ObstacleLabels
<1> QED
  BY <1>3, <1>4, <1>5, <1>6, <1>7, <1>8 DEF Arrival

-----------------------------------------------------------------------------
LEMMA StartInv ==
  ASSUME Inv, NEW t \in Threads, Start(t)
  PROVE  Inv'
<1>1. CASE StartBegin(t)
  <2>1. PICK l \in {"start_insert", "start_end"} : Go(t, l, job[t])
    BY <1>1 DEF StartBegin
  <2> QED
    BY <1>1, <2>1, CarefreeLocalStep, JobType, LabelsType DEF StartBegin, StartLabels, BeforeInsert
<1>2. CASE StartEndPrevious(t)
  BY <1>2, EndSessionStep, CarefreeDatabaseStep, JobType, LabelsType
  DEF StartEndPrevious, Inv, StartLabels, BeforeInsert
<1>3. CASE StartReset(t)
  <2>1. HubTypeOK' /\ FaultsTypeOK'
    BY <1>3, NoJobType
    DEF StartReset, reset, Inv, HubTypeOK, FaultsTypeOK, dbVars, Levels
  <2> QED
    BY <1>3, <2>1, CarefreeHubStep, JobType, LabelsType
    DEF StartReset, StartLabels, BeforeInsert
<1>4. CASE StartInsert(t)
  <2> DEFINE j == [job[t] EXCEPT !.session = NextSessionId]
  <2>1. start_session /\ Go(t, "start_assign", j)
    BY <1>4 DEF StartInsert
  <2>2. DbInv' /\ DbGrows /\ Len(shopping_sessions') = NextSessionId
    BY <2>1, StartSessionStep DEF Inv
  <2>3. NextSessionId \in Nat /\ NextSessionId >= 1
    BY DbDomains DEF NextSessionId, Inv, DbInv
  <2>4. j \in Job /\ j.session = NextSessionId
    BY <2>3, JobType DEF Job
  <2> HIDE DEF j
  <2>5. pc'[t] = "start_assign" /\ job'[t] = j => Promise(pc[t], job[t])'
    BY <2>2, <2>3, <2>4 DEF Promise
  <2> QED
    BY <1>4, <2>1, <2>2, <2>4, <2>5, DatabaseStep, LabelsType DEF StartInsert
<1>5. CASE StartAssign(t)
  <2>1. job[t].session \in 0 .. Len(shopping_sessions)
    BY <1>5, DbDomains, JobType DEF StartAssign, Inv, DbInv, HandlersKeepPromise, Promise
  <2>2. HubTypeOK' /\ FaultsTypeOK'
    BY <1>5, <2>1
    DEF StartAssign, Inv, HubTypeOK, FaultsTypeOK, dbVars, Levels
  <2> QED
    BY <1>5, <2>2, CarefreeHubStep, JobType, LabelsType DEF StartAssign, StartLabels
<1>6. CASE StartReply(t)
  BY <1>6, DoneStep DEF StartReply
<1> QED
  BY <1>1, <1>2, <1>3, <1>4, <1>5, <1>6 DEF Start

-----------------------------------------------------------------------------
LEMMA ListingType ==
  ASSUME Inv, NEW s
  PROVE  list_cart_items(s) \in Listing
  BY DbDomains, NoJobType DEF list_cart_items, Inv, DbInv

LEMMA CheckoutInv ==
  ASSUME Inv, NEW t \in Threads, Checkout(t)
  PROVE  Inv'
<1>1. CASE CheckoutBegin(t)
  <2>1. CASE Done(t)
    BY <1>1, <2>1, DoneStep DEF CheckoutBegin
  <2>2. CASE Go(t, "list", job[t])
    BY <1>1, <2>2, CarefreeLocalStep, JobType, LabelsType DEF CheckoutBegin
  <2> QED
    BY <1>1, <2>1, <2>2 DEF CheckoutBegin
<1>2. CASE CheckoutList(t)
  <2> DEFINE items == list_cart_items(session_id)
             j == [job[t] EXCEPT !.items = items, !.todo = Lines(items)]
  <2>1. Go(t, "order", j) /\ UNCHANGED <<dbVars, hubVars, receipts, faults>>
    BY <1>2 DEF CheckoutList
  <2>2. items \in Listing /\ Lines(items) \in SUBSET Products
    BY ListingType, LinesType
  <2>3. j \in Job /\ j.items = items /\ j.todo = Lines(items)
    <3> HIDE DEF items
    <3> QED
      BY <2>2, JobType DEF Job
  <2>4. pc'[t] = "order" /\ job'[t] = j => Promise(pc[t], job[t])'
    <3> HIDE DEF items, j
    <3> QED
      BY <2>3 DEF Promise, Lines
  <2> QED
    BY <2>1, <2>3, <2>4, LocalStep, LabelsType
<1>3. CASE CheckoutCreateOrder(t)
  <2> DEFINE j == [job[t] EXCEPT !.order = NextOrderId]
  <2>1. pc[t] = "order" /\ create_order(session_id, job[t].items) /\ Go(t, "detail", j)
    BY <1>3 DEF CheckoutCreateOrder
  <2>2. session_id \in Nat /\ job[t].items \in Listing
    BY JobType, DbDomains DEF Inv, HubTypeOK, DbInv
  <2>3. /\ DbInv' /\ DbGrows
        /\ NextOrderId \in Nat
        /\ NextOrderId \in DOMAIN orders'
        /\ orders'[NextOrderId].items = job[t].items
    <3>1. DbInv
      BY DEF Inv
    <3>2. /\ DbInv' /\ DbGrows
          /\ DOMAIN orders' = DOMAIN orders \cup {NextOrderId}
          /\ NextOrderId \in Nat
          /\ orders'[NextOrderId] = [session_id |-> session_id, items |-> job[t].items]
      BY <2>1, <2>2, <3>1, CreateOrderStep
    <3> QED
      BY <3>2
  <2>4. job[t].todo = Lines(job[t].items)
    BY <2>1 DEF Inv, HandlersKeepPromise, Promise
  <2>5. j \in Job /\ j.order = NextOrderId /\ j.todo = job[t].todo
    BY <2>3, JobType DEF Job
  <2>6. pc'[t] = "detail" /\ job'[t] = j => Promise(pc[t], job[t])'
    <3> HIDE DEF j
    <3> QED
      BY <2>3, <2>4, <2>5 DEF Promise, Lines
  <2> QED
    BY <1>3, <2>1, <2>3, <2>5, <2>6, DatabaseStep, LabelsType DEF CheckoutCreateOrder
<1>4. CASE CheckoutOrderRefused(t)
  BY <1>4, DoneStep DEF CheckoutOrderRefused
<1>5. CASE CheckoutAddDetail(t)
  <2>1. PICK p \in job[t].todo :
            /\ add_order_detail(job[t].order, p)
            /\ Go(t, "detail", [job[t] EXCEPT !.todo = @ \ {p}])
    BY <1>5 DEF CheckoutAddDetail
  <2> DEFINE o == job[t].order
             j == [job[t] EXCEPT !.todo = @ \ {p}]
  <2>2. /\ o \in DOMAIN orders
        /\ job[t].todo \subseteq Lines(orders[o].items)
        /\ Lines(orders[o].items) \ job[t].todo \subseteq order_details[o]
    BY <1>5 DEF CheckoutAddDetail, Inv, HandlersKeepPromise, Promise
  <2>3. /\ DbInv' /\ DbGrows
        /\ order_details'[o] = order_details[o] \cup {p}
    BY <2>1, <2>2, AddOrderDetailStep DEF Inv
  <2>4. o \in DOMAIN orders' /\ orders'[o] = orders[o]
    BY <2>2, <2>3 DEF DbGrows
  <2>5. j \in Job /\ j.order = o /\ j.todo = job[t].todo \ {p}
    BY JobType DEF Job
  <2>6. pc'[t] = "detail" /\ job'[t] = j => Promise(pc[t], job[t])'
    <3> HIDE DEF o, j
    <3> QED
      BY <2>2, <2>3, <2>4, <2>5 DEF Promise, Lines
  <2> QED
    BY <1>5, <2>1, <2>3, <2>5, <2>6, DatabaseStep, LabelsType DEF CheckoutAddDetail
<1>6. CASE CheckoutEndSession(t)
  <2>1. end_session(session_id) /\ Go(t, "notify", job[t]) /\ job[t].todo = {}
    BY <1>6 DEF CheckoutEndSession
  <2>2. DbInv' /\ DbGrows
    BY <2>1, EndSessionStep DEF Inv
  <2>3. /\ job[t].order \in DOMAIN orders
        /\ order_details[job[t].order] = Lines(orders[job[t].order].items)
    BY <1>6, <2>1 DEF CheckoutEndSession, Inv, HandlersKeepPromise, Promise, DbInv, DetailsFit
  <2>4. orders' = orders /\ order_details' = order_details
    BY <2>1 DEF end_session
  <2>5. pc'[t] = "notify" /\ job'[t] = job[t] => Promise(pc[t], job[t])'
    BY <2>3, <2>4 DEF Promise, Lines
  <2> QED
    BY <1>6, <2>1, <2>2, <2>5, DatabaseStep, JobType, LabelsType DEF CheckoutEndSession
<1>7. CASE CheckoutNotify(t)
  <2>1. /\ job[t].order \in DOMAIN orders
        /\ order_details[job[t].order] = Lines(orders[job[t].order].items)
    BY <1>7 DEF CheckoutNotify, Inv, HandlersKeepPromise, Promise
  <2>2. HubTypeOK' /\ FaultsTypeOK' /\ DbInv' /\ DbGrows
    BY <1>7, DbUnchanged
    DEF CheckoutNotify, Inv, HubTypeOK, FaultsTypeOK, dbVars, hubVars, Levels
  <2>3. ReceiptsOK'
    BY <1>7, <2>1 DEF CheckoutNotify, Inv, ReceiptsOK, ReceiptsRecorded, dbVars, Lines
  <2>4. pc'[t] = "clear" => Promise(pc[t], job[t])'
    BY LabelsType, CarefreePromise
  <2> QED
    BY <1>7, <2>2, <2>3, <2>4, HandlerStep, JobType, LabelsType
    DEF CheckoutNotify, Carefree
<1>8. CASE CheckoutClear(t)
  <2>1. HubTypeOK' /\ FaultsTypeOK'
    BY <1>8, DbDomains
    DEF CheckoutClear, Inv, DbInv, HubTypeOK, FaultsTypeOK, NoSession, dbVars, Levels
  <2> QED
    BY <1>8, <2>1, CarefreeHubStep, JobType, LabelsType DEF CheckoutClear
<1>9. CASE CheckoutReset(t)
  <2>1. HubTypeOK' /\ FaultsTypeOK'
    BY <1>9, NoJobType
    DEF CheckoutReset, reset, Inv, HubTypeOK, FaultsTypeOK, dbVars, Levels
  <2> QED
    BY <1>9, <2>1, CarefreeHubStep, NoJobType, LabelsType DEF CheckoutReset, Done
<1> QED
  BY <1>1, <1>2, <1>3, <1>4, <1>5, <1>6, <1>7, <1>8, <1>9 DEF Checkout

-----------------------------------------------------------------------------
LEMMA ChangeCartInv ==
  ASSUME Inv, NEW t \in Threads, ChangeCart(t)
  PROVE  Inv'
<1> USE JobType, LabelsType DEF CartLabels
<1>1. CASE UpdateDelete(t)
  <2>1. remove_cart_item(job[t].session, job[t].product)
    BY <1>1 DEF UpdateDelete
  <2>2. DbInv' /\ DbGrows
    BY <2>1, RemoveCartItemStep DEF Inv
  <2>3. PICK l \in {"relist", "update_insert"} : Go(t, l, job[t])
    BY <1>1 DEF UpdateDelete
  <2> QED
    BY <1>1, <2>2, <2>3, CarefreeDatabaseStep DEF UpdateDelete
<1>2. CASE UpdateInsert(t)
  <2>1. DbInv' /\ DbGrows
    BY <1>2, InsertItemStep DEF UpdateInsert, Inv
  <2> QED
    BY <1>2, <2>1, CarefreeDatabaseStep DEF UpdateInsert
<1>3. CASE UpdateInsertRefused(t)
  BY <1>3, CarefreeLocalStep DEF UpdateInsertRefused
<1>4. CASE RemoveItem(t)
  <2>1. DbInv' /\ DbGrows
    BY <1>4, RemoveCartItemStep DEF RemoveItem, Inv
  <2> QED
    BY <1>4, <2>1, CarefreeDatabaseStep DEF RemoveItem
<1>5. CASE ProductBegin(t)
  <2>1. CASE Done(t)
    BY <1>5, <2>1, DoneStep DEF ProductBegin
  <2>2. CASE Go(t, "take", job[t])
    BY <1>5, <2>2, CarefreeLocalStep DEF ProductBegin
  <2> QED
    BY <1>5, <2>1, <2>2 DEF ProductBegin
<1>6. CASE ProductTake(t)
  <2> DEFINE j == [job[t] EXCEPT !.session = session_id]
  <2>1. session_id \in Nat
    BY DbDomains DEF Inv, HubTypeOK, DbInv
  <2>2. j \in Job
    BY <2>1 DEF Job
  <2> QED
    BY <1>6, <2>2, CarefreeLocalStep DEF ProductTake
<1>7. CASE ProductNew(t)
  <2>1. HubTypeOK' /\ FaultsTypeOK'
    BY <1>7
    DEF ProductNew, Inv, HubTypeOK, FaultsTypeOK, dbVars, Levels
  <2> QED
    BY <1>7, <2>1, CarefreeHubStep DEF ProductNew
<1>8. CASE ProductAdd(t)
  <2>1. DbInv' /\ DbGrows
    BY <1>8, AddCartItemStep DEF ProductAdd, Inv
  <2> QED
    BY <1>8, <2>1, CarefreeDatabaseStep DEF ProductAdd
<1>9. CASE ListAgain(t)
  <2> DEFINE items == list_cart_items(job[t].session)
             j == [job[t] EXCEPT !.items = items]
  <2>1. items \in Listing
    BY ListingType
  <2>2. j \in Job
    <3> HIDE DEF items
    <3> QED
      BY <2>1 DEF Job
  <2> QED
    BY <1>9, <2>2, CarefreeLocalStep DEF ListAgain
<1>10. CASE SendCart(t)
  BY <1>10, DoneStep DEF SendCart
<1>11. CASE ProductDuplicate(t) \/ ProductNotAdded(t)
  BY <1>11, DoneStep DEF ProductDuplicate, ProductNotAdded
<1> QED
  BY <1>1, <1>2, <1>3, <1>4, <1>5, <1>6, <1>7, <1>8, <1>9, <1>10, <1>11 DEF ChangeCart

-----------------------------------------------------------------------------
LEMMA ObstacleInv ==
  ASSUME Inv, NEW t \in Threads, Obstacle(t)
  PROVE  Inv'
<1> USE JobType, LabelsType DEF ObstacleLabels
<1>1. CASE ObstacleDropped(t)
  BY <1>1, DoneStep DEF ObstacleDropped
<1>2. CASE ObstacleLog(t)
  BY <1>2, CarefreeLocalStep DEF ObstacleLog
<1>3. CASE ObstacleUnchanged(t)
  BY <1>3, DoneStep DEF ObstacleUnchanged
<1>4. CASE ObstacleChanged(t)
  <2>1. HubTypeOK' /\ FaultsTypeOK'
    BY <1>4
    DEF ObstacleChanged, Inv, HubTypeOK, FaultsTypeOK, dbVars, Levels
  <2> QED
    BY <1>4, <2>1, CarefreeHubStep DEF ObstacleChanged
<1>5. CASE SendAlarm(t)
  BY <1>5, DoneStep DEF SendAlarm
<1> QED
  BY <1>1, <1>2, <1>3, <1>4, <1>5 DEF Obstacle

-----------------------------------------------------------------------------
\* A handler that a fault sends to a carefree label keeps every promise.
LEMMA FaultStep ==
  ASSUME Inv, NEW t \in Threads, NEW l \in Carefree, NEW j \in Job, Go(t, l, j),
         Fault, UNCHANGED <<dbVars, hubVars, receipts>>
  PROVE  Inv'
<1>1. faults \in 0 .. MaxFaults /\ faults + 1 \in 0 .. MaxFaults
  BY BoundsAssumption DEF Inv, FaultsTypeOK, Fault
<1>2. HubTypeOK' /\ FaultsTypeOK'
  BY <1>1
  DEF Fault, Inv, HubTypeOK, FaultsTypeOK, dbVars, hubVars, Levels
<1> QED
  BY <1>2, CarefreeHubStep

LEMMA FaultInv ==
  ASSUME Inv, NEW t \in Threads, DatabaseRaises(t) \/ SendLost(t)
  PROVE  Inv'
<1>1. /\ Fault /\ UNCHANGED <<dbVars, hubVars, receipts>>
      /\ Go(t, "relist", job[t]) \/ Go(t, "clear", job[t]) \/ Done(t)
  BY DEF DatabaseRaises, SendLost
<1> QED
  BY <1>1, FaultStep, JobType, NoJobType, LabelsType DEF Done, CartLabels

LEMMA RestartInv ==
  ASSUME Inv, Restart
  PROVE  Inv'
<1>1. DbInv' /\ DbGrows
  BY DbUnchanged DEF Restart, Inv
<1>2. ReceiptsOK'
  BY <1>1, ReceiptsKept DEF Restart, Inv
<1>3. faults + 1 \in 0 .. MaxFaults
  BY BoundsAssumption DEF Restart, Inv, FaultsTypeOK, Fault
<1>4. HubTypeOK' /\ FaultsTypeOK'
  BY <1>3, NoJobType, DbDomains
  DEF Restart, Fault, Inv, DbInv, HubTypeOK, FaultsTypeOK, NoSession, dbVars, Levels
<1>5. HandlersTypeOK'
  BY NoJobType DEF Restart, HandlersTypeOK, Labels, Job, Levels
<1>6. HandlersKeepPromise'
  BY DEF Restart, HandlersKeepPromise, Promise
<1> QED
  BY <1>1, <1>2, <1>4, <1>5, <1>6 DEF Inv

LEMMA IntervalInv ==
  ASSUME Inv, IntervalElapses
  PROVE  Inv'
<1>1. DbInv' /\ DbGrows
  BY DbUnchanged DEF IntervalElapses, Inv
<1>2. ReceiptsOK'
  BY <1>1, ReceiptsKept DEF IntervalElapses, Inv
<1>3. HubTypeOK' /\ FaultsTypeOK' /\ HandlersTypeOK'
  BY DEF IntervalElapses, Inv, HubTypeOK, FaultsTypeOK, HandlersTypeOK, dbVars,
         Levels, Listing, Job
<1>4. HandlersKeepPromise'
  <2> SUFFICES ASSUME NEW t \in Threads PROVE Promise(pc[t], job[t])'
    BY DEF HandlersKeepPromise
  <2> QED
    BY <1>1, PromiseKept DEF IntervalElapses, Inv, HandlersKeepPromise
<1> QED
  BY <1>1, <1>2, <1>3, <1>4 DEF Inv

\* The hub does nothing, or a fault happens elsewhere.
LEMMA AsideInv ==
  ASSUME Inv, UNCHANGED <<dbVars, hubVars, pc, job, receipts>>, Fault \/ faults' = faults
  PROVE  Inv'
<1>1. DbInv' /\ DbGrows
  BY DbUnchanged DEF Inv
<1>2. ReceiptsOK'
  BY <1>1, ReceiptsKept DEF Inv
<1>3. FaultsTypeOK'
  BY BoundsAssumption DEF Fault, Inv, FaultsTypeOK
<1>4. HubTypeOK' /\ HandlersTypeOK'
  BY DEF Inv, HubTypeOK, HandlersTypeOK, dbVars, hubVars, Levels, Listing, Job
<1>5. HandlersKeepPromise'
  <2> SUFFICES ASSUME NEW t \in Threads PROVE Promise(pc[t], job[t])'
    BY DEF HandlersKeepPromise
  <2> QED
    BY <1>1, PromiseKept DEF Inv, HandlersKeepPromise
<1> QED
  BY <1>1, <1>2, <1>3, <1>4, <1>5 DEF Inv

LEMMA NextInv == Inv /\ [Next]_vars => Inv'
<1> SUFFICES ASSUME Inv, [Next]_vars PROVE Inv'
  OBVIOUS
<1>1. ASSUME NEW t \in Threads,
             Arrival(t) \/ Work(t) \/ DatabaseRaises(t) \/ SendLost(t)
      PROVE  Inv'
  BY <1>1, ArrivalInv, StartInv, CheckoutInv, ChangeCartInv, ObstacleInv, FaultInv
  DEF Work
<1> QED
  BY <1>1, RestartInv, IntervalInv, AsideInv DEF Next, vars

(***************************************************************************)
(* Tables, attributes and handlers always hold values of their types: in   *)
(* particular the hub's session_id is None or the id of a row, and every   *)
(* order a customer was told of is in the table.                           *)
(***************************************************************************)
THEOREM HubTypeCorrect == Spec => []TypeOK
  BY InitInv, NextInv, InvTypeOK, PTL DEF Spec

(***************************************************************************)
(* Whenever the UI was told of an order (CHECKOUT_DONE), all its detail    *)
(* rows are in the table, for any number of checkouts that run at the same *)
(* time and any exceptions, lost messages and restarts                     *)
(* (_handle_ui_checkout).                                                  *)
(***************************************************************************)
THEOREM HubReceiptsRecorded == Spec => []ReceiptsRecorded
  BY InitInv, NextInv, InvTypeOK, PTL DEF Spec

-----------------------------------------------------------------------------
(***************************************************************************)
(* CartHub implements SalesLedger, through the mapping CartHub!Ledger: for *)
(* any number of handler threads, any products and bounds, with and        *)
(* without the unique key of cart_items, with faults at every point.       *)
(*                                                                         *)
(* Four kinds of statements and one message are steps of the ledger; every *)
(* other step leaves it alone.  That a bill belongs to one order is the    *)
(* invariant UniqueOrders; that a line is one of the bill's, and that all  *)
(* are there when the bill is announced, is what Promise says of the       *)
(* handler that takes the step.                                            *)
(***************************************************************************)
\* orders.session_id is UNIQUE.
UniqueOrders ==
    \A o, r \in DOMAIN orders : orders[o].session_id = orders[r].session_id => o = r

LedgerInv == Inv /\ UniqueOrders

\* The ledger's variables.
Bills ==
    [s \in Billed |->
        [items |-> orders[OrderOf(s)].items, lines |-> order_details[OrderOf(s)]]]
Told == {orders[o].session_id : o \in receipts}

\* What the ledger is made of.
ledgerVars == <<shopping_sessions, orders, order_details, receipts>>

-----------------------------------------------------------------------------
\* With UniqueOrders, the bill of an order's session is that order.
LEMMA TheOrderOf ==
  ASSUME NEW T, \A o, r \in DOMAIN T : T[o].session_id = T[r].session_id => o = r,
         NEW o \in DOMAIN T
  PROVE  (CHOOSE r \in DOMAIN T : T[r].session_id = T[o].session_id) = o
  OBVIOUS

LEMMA OrderOfItsSession ==
  ASSUME UniqueOrders, NEW o \in DOMAIN orders
  PROVE  /\ OrderOf(orders[o].session_id) = o
         /\ orders[o].session_id \in Billed
<1>1. OrderOf(orders[o].session_id) = o
  BY TheOrderOf DEF UniqueOrders, OrderOf
<1> QED
  BY <1>1 DEF Billed

\* Every bill is the order of some session.
LEMMA BilledOrder ==
  ASSUME UniqueOrders, NEW s \in Billed
  PROVE  /\ OrderOf(s) \in DOMAIN orders
         /\ orders[OrderOf(s)].session_id = s
<1>1. PICK o \in DOMAIN orders : orders[o].session_id = s
  BY DEF Billed
<1> QED
  BY <1>1, OrderOfItsSession

\* A step that leaves the orders leaves the order of a session.
LEMMA OrderOfKept ==
  ASSUME orders' = orders
  PROVE  Billed' = Billed /\ \A s : OrderOf(s)' = OrderOf(s)
  BY DEF Billed, OrderOf

LEMMA LedgerUnchanged ==
  ASSUME UNCHANGED ledgerVars
  PROVE  /\ UniqueOrders => UniqueOrders'
         /\ UNCHANGED Ledger!vars
<1>1. UniqueOrders => UniqueOrders'
  BY DEF ledgerVars, UniqueOrders
<1>2. Bills' = Bills /\ Told' = Told
  BY OrderOfKept DEF ledgerVars, Bills, Told
<1> QED
  BY <1>1, <1>2 DEF ledgerVars, Ledger!vars, Bills, Told

-----------------------------------------------------------------------------
LEMMA LedgerInit ==
  ASSUME Init
  PROVE  UniqueOrders /\ Ledger!Init
<1>1. DOMAIN orders = {} /\ receipts = {} /\ shopping_sessions = <<>>
  BY EmptySeq DEF Init, DbInit
<1>2. UniqueOrders
  BY <1>1 DEF UniqueOrders
<1>3. Billed = {} /\ Told = {}
  BY <1>1 DEF Billed, Told
<1>4. Bills = <<>>
  BY <1>3 DEF Bills
<1> QED
  BY <1>1, <1>2, <1>3, <1>4 DEF Ledger!Init, Bills, Told

\* INSERT INTO shopping_sessions.
LEMMA LedgerOpens ==
  ASSUME UniqueOrders, start_session, receipts' = receipts
  PROVE  UniqueOrders' /\ Ledger!Open
<1>1. /\ shopping_sessions' = Append(shopping_sessions, "ACTIVE")
      /\ orders' = orders
      /\ order_details' = order_details
  BY DEF start_session
<1>2. UniqueOrders'
  BY <1>1 DEF UniqueOrders
<1>3. Bills' = Bills /\ Told' = Told
  BY <1>1, OrderOfKept DEF Bills, Told
<1> QED
  BY <1>1, <1>2, <1>3 DEF Ledger!Open, Bills, Told

\* UPDATE shopping_sessions: it closes a session that is open, and changes
\* nothing of one that is closed or is not there.
LEMMA LedgerCloses ==
  ASSUME DbTypeOK, UniqueOrders, NEW s, end_session(s), receipts' = receipts
  PROVE  /\ UniqueOrders'
         /\ \/ s \in SessionIds /\ Ledger!Close(s)
            \/ UNCHANGED Ledger!vars
<1>1. /\ orders' = orders
      /\ order_details' = order_details
      /\ shopping_sessions' =
            [i \in SessionIds |-> IF i = s THEN "COMPLETED" ELSE shopping_sessions[i]]
  BY DEF end_session
<1>2. UniqueOrders'
  BY <1>1 DEF UniqueOrders
<1>3. Bills' = Bills /\ Told' = Told
  BY <1>1, OrderOfKept DEF Bills, Told
<1>4. /\ shopping_sessions = [i \in SessionIds |-> shopping_sessions[i]]
      /\ \A i \in SessionIds : shopping_sessions[i] \in {"ACTIVE", "COMPLETED"}
  <2>1. shopping_sessions \in [1 .. Len(shopping_sessions) -> {"ACTIVE", "COMPLETED"}]
    BY LenProperties DEF DbTypeOK
  <2> QED
    BY <2>1 DEF SessionIds
<1>5. CASE s \in SessionIds /\ shopping_sessions[s] = "ACTIVE"
  <2>1. shopping_sessions' = [shopping_sessions EXCEPT ![s] = "COMPLETED"]
    BY <1>1, <1>4
  <2> QED
    BY <1>2, <1>3, <1>5, <2>1 DEF Ledger!Close, Bills, Told
<1>6. CASE ~ (s \in SessionIds /\ shopping_sessions[s] = "ACTIVE")
  <2>1. shopping_sessions' = shopping_sessions
    BY <1>1, <1>4, <1>6
  <2> QED
    BY <1>1, <1>2, <2>1, LedgerUnchanged DEF ledgerVars
<1> QED
  BY <1>5, <1>6

\* INSERT INTO orders, for a session that has no order.
LEMMA LedgerBills ==
  ASSUME DbInv, UniqueOrders, NEW s \in SessionIds, NEW items \in Listing,
         ~ OrderRefused(s), create_order(s, items), receipts \subseteq DOMAIN orders,
         receipts' = receipts
  PROVE  UniqueOrders' /\ Ledger!Bill(s)
<1> DEFINE n == NextOrderId
<1>1. /\ DOMAIN orders' = DOMAIN orders \cup {n}
      /\ orders'[n] = [session_id |-> s, items |-> items]
      /\ order_details'[n] = {}
      /\ \A o \in DOMAIN orders : orders'[o] = orders[o]
      /\ \A o \in DOMAIN orders : order_details'[o] = order_details[o]
  <2>1. s \in Nat
    BY DbDomains DEF DbInv
  <2>2. /\ DbGrows
        /\ DOMAIN orders' = DOMAIN orders \cup {n}
        /\ orders'[n] = [session_id |-> s, items |-> items]
        /\ order_details'[n] = {}
    BY <2>1, CreateOrderStep
  <2>3. \A o \in 1 .. Len(order_details) : order_details'[o] = order_details[o]
    BY AppendProperties DEF DbInv, DbTypeOK, create_order
  <2>4. DOMAIN orders = 1 .. Len(order_details)
    BY DbDomains DEF DbInv, DbTypeOK
  <2> QED
    BY <2>2, <2>3, <2>4 DEF DbGrows
<1>2. s \notin Billed
  BY DEF OrderRefused, Billed
<1> HIDE DEF n
<1>3. UniqueOrders'
  BY <1>1, <1>2 DEF UniqueOrders, Billed
<1>4. Billed' = Billed \cup {s}
  <2>1. \A o \in DOMAIN orders' : orders'[o].session_id \in Billed \cup {s}
    BY <1>1 DEF Billed
  <2>2. \A r \in Billed \cup {s} : \E o \in DOMAIN orders' : orders'[o].session_id = r
    BY <1>1 DEF Billed
  <2> QED
    BY <2>1, <2>2 DEF Billed
<1>5. OrderOf(s)' = n
  <2>1. n \in DOMAIN orders' /\ orders'[n].session_id = s
    BY <1>1
  <2> QED
    BY <1>3, <2>1, TheOrderOf DEF UniqueOrders, OrderOf
<1>6. ASSUME NEW r \in Billed PROVE OrderOf(r)' = OrderOf(r)
  <2>1. OrderOf(r) \in DOMAIN orders /\ orders[OrderOf(r)].session_id = r
    BY BilledOrder
  <2>2. OrderOf(r) \in DOMAIN orders' /\ orders'[OrderOf(r)].session_id = r
    BY <1>1, <2>1
  <2> QED
    BY <1>3, <2>2, TheOrderOf DEF UniqueOrders, OrderOf
<1>7. /\ DOMAIN Bills' = DOMAIN Bills \cup {s}
      /\ s \notin DOMAIN Bills
      /\ Bills'[s].items = items
      /\ Bills'[s].lines = {}
  BY <1>1, <1>2, <1>4, <1>5 DEF Bills
<1>8. \A r \in DOMAIN Bills : Bills'[r] = Bills[r]
  <2> SUFFICES ASSUME NEW r \in Billed PROVE Bills'[r] = Bills[r]
    BY DEF Bills
  <2>1. OrderOf(r) \in DOMAIN orders
    BY BilledOrder
  <2> QED
    BY <1>1, <1>4, <1>6, <2>1 DEF Bills
<1>9. Told' = Told
  BY <1>1 DEF Told
<1>10. shopping_sessions' = shopping_sessions
  BY DEF create_order
<1> QED
  BY <1>3, <1>7, <1>8, <1>9, <1>10 DEF Ledger!Bill, Ledger!Listing, Listing, Bills, Told

\* INSERT INTO order_details, of a line the bill has: one it lacks, or one
\* that is there already.
LEMMA LedgerAddsLine ==
  ASSUME DbInv, UniqueOrders, NEW o \in DOMAIN orders, NEW p \in Lines(orders[o].items),
         add_order_detail(o, p), receipts' = receipts
  PROVE  /\ UniqueOrders'
         /\ \/ \E s \in DOMAIN Bills : p \in Products /\ Ledger!AddLine(s, p)
            \/ UNCHANGED Ledger!vars
<1> DEFINE s == orders[o].session_id
<1>1. /\ orders' = orders
      /\ shopping_sessions' = shopping_sessions
      /\ order_details' = [order_details EXCEPT ![o] = order_details[o] \cup {p}]
  BY DEF add_order_detail
<1>2. DOMAIN order_details = DOMAIN orders
  BY DbDomains DEF DbInv
<1>3. UniqueOrders'
  BY <1>1 DEF UniqueOrders
<1>4. Told' = Told
  BY <1>1 DEF Told
<1>5. OrderOf(s) = o /\ s \in Billed
  BY OrderOfItsSession
<1>6. CASE p \in order_details[o]
  <2>1. \A r \in DOMAIN orders : order_details'[r] = order_details[r]
    BY <1>1, <1>2, <1>6
  <2>2. Bills' = Bills
    BY <1>1, <2>1, OrderOfKept, BilledOrder DEF Bills
  <2> QED
    BY <1>1, <1>3, <1>4, <2>2 DEF Ledger!vars, Bills, Told
<1>7. CASE p \notin order_details[o]
  <2>1. /\ Bills[s].items = orders[o].items
        /\ Bills[s].lines = order_details[o]
        /\ DOMAIN Bills = Billed
    BY <1>5 DEF Bills
  <2>2. p \in Ledger!Lines(Bills[s].items) \ Bills[s].lines
    BY <1>7, <2>1 DEF Ledger!Lines, Lines
  <2>3. ASSUME NEW r \in Billed
        PROVE  order_details'[OrderOf(r)] =
                   IF r = s THEN order_details[o] \cup {p} ELSE order_details[OrderOf(r)]
    <3>1. OrderOf(r) \in DOMAIN orders /\ orders[OrderOf(r)].session_id = r
      BY BilledOrder
    <3>2. r # s => OrderOf(r) # o
      BY <3>1
    <3> QED
      BY <1>1, <1>2, <1>5, <3>1, <3>2
  <2>4. Bills' = [r \in Billed |->
                     [items |-> orders[OrderOf(r)].items,
                      lines |-> IF r = s THEN order_details[o] \cup {p}
                                ELSE order_details[OrderOf(r)]]]
    <3>1. Bills' = [r \in Billed |->
                     [items |-> orders[OrderOf(r)].items,
                      lines |-> order_details'[OrderOf(r)]]]
      BY <1>1, OrderOfKept DEF Bills
    <3> QED
      BY <2>3, <3>1
  <2>5. Bills' = [Bills EXCEPT ![s].lines = Bills[s].lines \cup {p}]
    BY <1>5, <2>1, <2>4 DEF Bills
  <2>6. p \in Products
    BY DEF Lines
  <2>7. Ledger!AddLine(s, p)
    BY <1>1, <1>4, <2>2, <2>5 DEF Ledger!AddLine, Bills, Told
  <2> QED
    BY <1>3, <1>5, <2>1, <2>6, <2>7
<1> QED
  BY <1>6, <1>7

\* CHECKOUT_DONE for an order that is complete.
LEMMA LedgerAnnounces ==
  ASSUME UniqueOrders, NEW o \in DOMAIN orders,
         order_details[o] = Lines(orders[o].items),
         receipts' = receipts \cup {o}, UNCHANGED dbVars
  PROVE  /\ UniqueOrders'
         /\ \E s \in DOMAIN Bills : Ledger!Announce(s)
<1> DEFINE s == orders[o].session_id
<1>1. UNCHANGED <<shopping_sessions, orders, order_details>>
  BY DEF dbVars
<1>2. UniqueOrders'
  BY <1>1 DEF UniqueOrders
<1>3. Bills' = Bills
  BY <1>1, OrderOfKept DEF Bills
<1>4. OrderOf(s) = o /\ s \in Billed
  BY OrderOfItsSession
<1>5. s \in DOMAIN Bills /\ Bills[s].lines = Ledger!Lines(Bills[s].items)
  BY <1>4 DEF Bills, Lines, Ledger!Lines
<1>6. Told' = Told \cup {s}
  BY <1>1 DEF Told
<1>7. Ledger!Announce(s)
  BY <1>1, <1>3, <1>5, <1>6 DEF Ledger!Announce, Bills, Told
<1> QED
  BY <1>2, <1>5, <1>7 DEF Ledger!Announce

-----------------------------------------------------------------------------
\* What a step of the hub is for the ledger.
LedgerStep == UniqueOrders' /\ [Ledger!Next]_(Ledger!vars)

LEMMA LedgerStutters ==
  ASSUME UniqueOrders, UNCHANGED ledgerVars
  PROVE  LedgerStep
  BY LedgerUnchanged DEF LedgerStep

LEMMA CartStatements ==
  ASSUME NEW s, NEW p, NEW q
  PROVE  /\ add_cart_item(s, p) => UNCHANGED <<shopping_sessions, orders, order_details>>
         /\ remove_cart_item(s, p) => UNCHANGED <<shopping_sessions, orders, order_details>>
         /\ InsertItem(s, p, q) => UNCHANGED <<shopping_sessions, orders, order_details>>
  BY DEF add_cart_item, remove_cart_item, InsertItem, SetQuantity

LEMMA SessionEnds ==
  ASSUME LedgerInv, NEW s, end_session(s), receipts' = receipts
  PROVE  LedgerStep
<1>1. /\ UniqueOrders'
      /\ (s \in SessionIds /\ Ledger!Close(s)) \/ UNCHANGED Ledger!vars
  BY LedgerCloses DEF LedgerInv, Inv, DbInv
<1> QED
  BY <1>1 DEF LedgerStep, Ledger!Next, SessionIds

LEMMA StartLedger ==
  ASSUME LedgerInv, NEW t \in Threads, Start(t)
  PROVE  LedgerStep
<1>1. CASE StartEndPrevious(t)
  BY <1>1, SessionEnds DEF StartEndPrevious
<1>2. CASE StartInsert(t)
  <2>1. UniqueOrders' /\ Ledger!Open
    BY <1>2, LedgerOpens DEF StartInsert, LedgerInv
  <2> QED
    BY <2>1 DEF LedgerStep, Ledger!Next
<1>3. CASE StartBegin(t) \/ StartReset(t) \/ StartAssign(t) \/ StartReply(t)
  <2>1. UNCHANGED ledgerVars
    BY <1>3 DEF StartBegin, StartReset, StartAssign, StartReply, dbVars, ledgerVars
  <2> QED
    BY <2>1, LedgerStutters DEF LedgerInv
<1> QED
  BY <1>1, <1>2, <1>3 DEF Start

LEMMA CheckoutLedger ==
  ASSUME LedgerInv, NEW t \in Threads, Checkout(t)
  PROVE  LedgerStep
<1> USE DEF LedgerInv
<1>1. CASE CheckoutCreateOrder(t)
  <2>1. /\ ~ OrderRefused(session_id)
        /\ create_order(session_id, job[t].items)
        /\ receipts' = receipts
    BY <1>1 DEF CheckoutCreateOrder
  <2>2. session_id \in SessionIds
    BY <2>1, DbDomains DEF Inv, DbInv, HubTypeOK, OrderRefused, NoSession
  <2>3. job[t].items \in Listing
    BY JobType
  <2>4. DbInv /\ receipts \subseteq DOMAIN orders
    BY DEF Inv, ReceiptsOK
  <2>5. UniqueOrders' /\ Ledger!Bill(session_id)
    BY <2>1, <2>2, <2>3, <2>4, LedgerBills
  <2> QED
    BY <2>2, <2>5 DEF LedgerStep, Ledger!Next, SessionIds
<1>2. CASE CheckoutAddDetail(t)
  <2>1. PICK p \in job[t].todo : add_order_detail(job[t].order, p)
    BY <1>2 DEF CheckoutAddDetail
  <2>2. /\ job[t].order \in DOMAIN orders
        /\ p \in Lines(orders[job[t].order].items)
    BY <1>2 DEF CheckoutAddDetail, Inv, HandlersKeepPromise, Promise
  <2>3. DbInv /\ receipts' = receipts
    BY <1>2 DEF CheckoutAddDetail, Inv
  <2>4. /\ UniqueOrders'
        /\ \/ \E s \in DOMAIN Bills : p \in Products /\ Ledger!AddLine(s, p)
           \/ UNCHANGED Ledger!vars
    BY <2>1, <2>2, <2>3, LedgerAddsLine
  <2> QED
    BY <2>4 DEF LedgerStep, Ledger!Next, Bills
<1>3. CASE CheckoutEndSession(t)
  BY <1>3, SessionEnds DEF CheckoutEndSession
<1>4. CASE CheckoutNotify(t)
  <2>1. /\ job[t].order \in DOMAIN orders
        /\ order_details[job[t].order] = Lines(orders[job[t].order].items)
        /\ receipts' = receipts \cup {job[t].order}
        /\ UNCHANGED dbVars
    BY <1>4 DEF CheckoutNotify, Inv, HandlersKeepPromise, Promise
  <2>2. UniqueOrders' /\ \E s \in DOMAIN Bills : Ledger!Announce(s)
    BY <2>1, LedgerAnnounces
  <2> QED
    BY <2>2 DEF LedgerStep, Ledger!Next, Bills
<1>5. CASE \/ CheckoutBegin(t) \/ CheckoutList(t) \/ CheckoutOrderRefused(t)
           \/ CheckoutClear(t) \/ CheckoutReset(t)
  <2>1. UNCHANGED ledgerVars
    BY <1>5
    DEF CheckoutBegin, CheckoutList, CheckoutOrderRefused, CheckoutClear, CheckoutReset,
        dbVars, ledgerVars
  <2> QED
    BY <2>1, LedgerStutters
<1> QED
  BY <1>1, <1>2, <1>3, <1>4, <1>5 DEF Checkout

\* Cart changes, obstacles, arrivals and faults leave the ledger alone.
LEMMA OtherStepsLedger ==
  ASSUME LedgerInv, NEW t \in Threads,
         ChangeCart(t) \/ Obstacle(t) \/ Arrival(t) \/ DatabaseRaises(t) \/ SendLost(t)
  PROVE  LedgerStep
<1>1. CASE UpdateDelete(t) \/ RemoveItem(t) \/ UpdateInsert(t) \/ ProductAdd(t)
  <2>1. UNCHANGED ledgerVars
    BY <1>1, CartStatements DEF UpdateDelete, RemoveItem, UpdateInsert, ProductAdd, ledgerVars
  <2> QED
    BY <2>1, LedgerStutters DEF LedgerInv
<1>2. CASE \/ UpdateInsertRefused(t) \/ ProductBegin(t) \/ ProductTake(t)
           \/ ProductDuplicate(t) \/ ProductNew(t) \/ ProductNotAdded(t)
           \/ ListAgain(t) \/ SendCart(t)
  <2>1. UNCHANGED <<dbVars, receipts>>
    BY <1>2
    DEF UpdateInsertRefused, ProductBegin, ProductTake, ProductDuplicate, ProductNew,
        ProductNotAdded, ListAgain, SendCart
  <2> QED
    BY <2>1, LedgerStutters DEF LedgerInv, dbVars, ledgerVars
<1>3. CASE Obstacle(t)
  <2>1. UNCHANGED <<dbVars, receipts>>
    BY <1>3
    DEF Obstacle, ObstacleDropped, ObstacleLog, ObstacleUnchanged, ObstacleChanged, SendAlarm
  <2> QED
    BY <2>1, LedgerStutters DEF LedgerInv, dbVars, ledgerVars
<1>4. CASE Arrival(t)
  <2>1. UNCHANGED <<dbVars, receipts>>
    BY <1>4
    DEF Arrival, Receive, ReceiveStart, ReceiveCheckout, ReceiveUpdateQuantity,
        ReceiveRemoveItem, ReceiveProduct, ReceiveObstacle
  <2> QED
    BY <2>1, LedgerStutters DEF LedgerInv, dbVars, ledgerVars
<1>5. CASE DatabaseRaises(t) \/ SendLost(t)
  <2>1. UNCHANGED <<dbVars, receipts>>
    BY <1>5 DEF DatabaseRaises, SendLost
  <2> QED
    BY <2>1, LedgerStutters DEF LedgerInv, dbVars, ledgerVars
<1> QED
  BY <1>1, <1>2, <1>3, <1>4, <1>5 DEF ChangeCart

LEMMA LedgerNext ==
  ASSUME LedgerInv, [Next]_vars
  PROVE  LedgerInv' /\ [Ledger!Next]_(Ledger!vars)
<1>1. Inv'
  BY NextInv DEF LedgerInv
<1>2. LedgerStep
  <2>1. ASSUME NEW t \in Threads,
               Arrival(t) \/ Work(t) \/ DatabaseRaises(t) \/ SendLost(t)
        PROVE  LedgerStep
    BY <2>1, StartLedger, CheckoutLedger, OtherStepsLedger DEF Work
  <2>2. ASSUME Restart \/ IntervalElapses \/ UNCHANGED vars PROVE LedgerStep
    <3>1. UNCHANGED <<dbVars, receipts>>
      BY <2>2 DEF Restart, IntervalElapses, vars
    <3> QED
      BY <3>1, LedgerStutters DEF LedgerInv, dbVars, ledgerVars
  <2> QED
    BY <2>1, <2>2 DEF Next
<1> QED
  BY <1>1, <1>2 DEF LedgerInv, LedgerStep

(***************************************************************************)
(* The hub implements the ledger: sessions open in order and never again,  *)
(* a session has one bill whose content is fixed, lines are only added,    *)
(* and a customer is told of a bill when all its lines are there, whatever *)
(* handlers interleave and whatever fails.                                 *)
(***************************************************************************)
THEOREM HubImplementsLedger == Spec => LedgerSpec
<1>1. Init => LedgerInv /\ Ledger!Init
  BY InitInv, LedgerInit DEF LedgerInv
<1>2. LedgerInv /\ [Next]_vars => LedgerInv' /\ [Ledger!Next]_(Ledger!vars)
  BY LedgerNext
<1> QED
  BY <1>1, <1>2, PTL DEF Spec, LedgerSpec, Ledger!Spec
-----------------------------------------------------------------------------
(***************************************************************************)
(* Whose step it is.                                                       *)
(***************************************************************************)
OthersStay(t) == \A u \in Threads \ {t} : pc'[u] = pc[u] /\ job'[u] = job[u]

LEMMA GoFacts ==
  ASSUME HandlersTypeOK, NEW t \in Threads, NEW l, NEW j, Go(t, l, j)
  PROVE  pc'[t] = l /\ job'[t] = j /\ OthersStay(t)
  BY DEF HandlersTypeOK, Go, OthersStay

LEMMA DoneFacts ==
  ASSUME HandlersTypeOK, NEW t \in Threads, Done(t)
  PROVE  pc'[t] = "idle" /\ job'[t] = NoJob /\ OthersStay(t)
  BY GoFacts DEF Done

LEMMA WorkOthersStay ==
  ASSUME HandlersTypeOK, NEW t \in Threads, Work(t)
  PROVE  OthersStay(t)
<1> USE GoFacts, DoneFacts
<1>1. CASE Start(t)
  BY <1>1 DEF Start, StartBegin, StartEndPrevious, StartReset, StartInsert, StartAssign, StartReply
<1>2. CASE Checkout(t)
  BY <1>2
  DEF Checkout, CheckoutBegin, CheckoutList, CheckoutCreateOrder, CheckoutOrderRefused,
      CheckoutAddDetail, CheckoutEndSession, CheckoutNotify, CheckoutClear, CheckoutReset
<1>3. CASE ChangeCart(t)
  BY <1>3
  DEF ChangeCart, UpdateDelete, UpdateInsert, UpdateInsertRefused, RemoveItem, ProductBegin,
      ProductTake, ProductDuplicate, ProductNew, ProductNotAdded, ProductAdd, ListAgain, SendCart
<1>4. CASE Obstacle(t)
  BY <1>4
  DEF Obstacle, ObstacleDropped, ObstacleLog, ObstacleUnchanged, ObstacleChanged, SendAlarm
<1> QED
  BY <1>1, <1>2, <1>3, <1>4 DEF Work

LEMMA ArrivalOthersStay ==
  ASSUME HandlersTypeOK, NEW t \in Threads, Arrival(t)
  PROVE  OthersStay(t) /\ UNCHANGED <<dbVars, hubVars, receipts, faults>>
<1>1. ASSUME NEW l, NEW j, Receive(t, l, j)
      PROVE  OthersStay(t) /\ UNCHANGED <<dbVars, hubVars, receipts, faults>>
  BY <1>1, GoFacts DEF Receive
<1> QED
  BY <1>1
  DEF Arrival, ReceiveStart, ReceiveCheckout, ReceiveUpdateQuantity, ReceiveRemoveItem,
      ReceiveProduct, ReceiveObstacle

\* Orders are written where a checkout creates them and adds details.
LEMMA OrdersWritten ==
  ASSUME NEW t \in Threads, Work(t)
  PROVE  \/ UNCHANGED <<orders, order_details>>
         \/ CheckoutCreateOrder(t) \/ CheckoutAddDetail(t)
<1> USE CartStatements DEF dbVars
<1>1. CASE Start(t)
  BY <1>1
  DEF Start, StartBegin, StartEndPrevious, StartReset, StartInsert, StartAssign, StartReply,
      start_session, end_session
<1>2. CASE Checkout(t)
  BY <1>2
  DEF Checkout, CheckoutBegin, CheckoutList, CheckoutOrderRefused, CheckoutEndSession,
      CheckoutNotify, CheckoutClear, CheckoutReset, end_session
<1>3. CASE ChangeCart(t)
  BY <1>3
  DEF ChangeCart, UpdateDelete, UpdateInsert, UpdateInsertRefused, RemoveItem, ProductBegin,
      ProductTake, ProductDuplicate, ProductNew, ProductNotAdded, ProductAdd, ListAgain, SendCart
<1>4. CASE Obstacle(t)
  BY <1>4
  DEF Obstacle, ObstacleDropped, ObstacleLog, ObstacleUnchanged, ObstacleChanged, SendAlarm
<1> QED
  BY <1>1, <1>2, <1>3, <1>4 DEF Work

\* Faults are counted, and only they are.
LEMMA FaultsCounted ==
  ASSUME [Next]_vars
  PROVE  faults' = faults \/ Fault
<1>1. ASSUME NEW t \in Threads, Work(t) PROVE faults' = faults
  <2>1. CASE Start(t)
    BY <2>1
    DEF Start, StartBegin, StartEndPrevious, StartReset, StartInsert, StartAssign, StartReply
  <2>2. CASE Checkout(t)
    BY <2>2
    DEF Checkout, CheckoutBegin, CheckoutList, CheckoutCreateOrder, CheckoutOrderRefused,
        CheckoutAddDetail, CheckoutEndSession, CheckoutNotify, CheckoutClear, CheckoutReset
  <2>3. CASE ChangeCart(t)
    BY <2>3
    DEF ChangeCart, UpdateDelete, UpdateInsert, UpdateInsertRefused, RemoveItem, ProductBegin,
        ProductTake, ProductDuplicate, ProductNew, ProductNotAdded, ProductAdd, ListAgain, SendCart
  <2>4. CASE Obstacle(t)
    BY <2>4
    DEF Obstacle, ObstacleDropped, ObstacleLog, ObstacleUnchanged, ObstacleChanged, SendAlarm
  <2> QED
    BY <1>1, <2>1, <2>2, <2>3, <2>4 DEF Work
<1>2. ASSUME NEW t \in Threads, Arrival(t) PROVE faults' = faults
  BY <1>2
  DEF Arrival, Receive, ReceiveStart, ReceiveCheckout, ReceiveUpdateQuantity,
      ReceiveRemoveItem, ReceiveProduct, ReceiveObstacle
<1> QED
  BY <1>1, <1>2 DEF Next, DatabaseRaises, SendLost, Restart, IntervalElapses, vars

-----------------------------------------------------------------------------
(***************************************************************************)
(* An order that lacks rows is the order of a handler in the loop over its *)
(* details, as long as nothing has raised.                                 *)
(***************************************************************************)
Complete(o) == order_details[o] = Lines(orders[o].items)
Filling(t, o) == pc[t] = "detail" /\ job[t].order = o
OrdersAttended == \A o \in DOMAIN orders : Complete(o) \/ \E t \in Threads : Filling(t, o)

LEMMA OrdersLeft ==
  ASSUME OrdersAttended, UNCHANGED <<orders, order_details>>,
         NEW t \in Threads, OthersStay(t),
         \A o \in DOMAIN orders : Filling(t, o) => Complete(o) \/ Filling(t, o)'
  PROVE  OrdersAttended'
<1> SUFFICES ASSUME NEW o \in DOMAIN orders
             PROVE  Complete(o)' \/ \E u \in Threads : Filling(u, o)'
  BY DEF OrdersAttended
<1>1. Complete(o) => Complete(o)'
  BY DEF Complete, Lines
<1>2. ASSUME NEW u \in Threads, Filling(u, o) PROVE Complete(o)' \/ Filling(u, o)'
  <2>1. CASE u = t
    BY <1>1, <1>2, <2>1
  <2>2. CASE u # t
    BY <1>2, <2>2 DEF OthersStay, Filling
  <2> QED
    BY <2>1, <2>2
<1> QED
  BY <1>1, <1>2 DEF OrdersAttended

LEMMA CreateAttended ==
  ASSUME Inv, OrdersAttended, NEW t \in Threads, CheckoutCreateOrder(t)
  PROVE  OrdersAttended'
<1> DEFINE j == [job[t] EXCEPT !.order = NextOrderId]
<1>1. /\ pc[t] = "order" /\ Go(t, "detail", j)
      /\ create_order(session_id, job[t].items)
  BY DEF CheckoutCreateOrder
<1>2. session_id \in Nat /\ job[t].items \in Listing
  BY JobType, DbDomains DEF Inv, HubTypeOK, DbInv
<1>3. /\ DbInv' /\ DbGrows
      /\ DOMAIN orders' = DOMAIN orders \cup {NextOrderId}
      /\ NextOrderId \in Nat
  BY <1>1, <1>2, CreateOrderStep DEF Inv
<1>4. j.order = NextOrderId
  BY JobType DEF Job
<1> HIDE DEF j
<1>5. pc'[t] = "detail" /\ job'[t] = j /\ OthersStay(t)
  BY <1>1, GoFacts DEF Inv
<1>6. \A o \in DOMAIN orders : order_details'[o] = order_details[o]
  BY <1>1, AppendProperties, DbDomains DEF create_order, Inv, DbInv, DbTypeOK
<1> SUFFICES ASSUME NEW o \in DOMAIN orders'
             PROVE  Complete(o)' \/ \E u \in Threads : Filling(u, o)'
  BY DEF OrdersAttended
<1>7. CASE o = NextOrderId
  BY <1>4, <1>5, <1>7 DEF Filling
<1>8. CASE o \in DOMAIN orders
  <2>1. Complete(o) => Complete(o)'
    BY <1>3, <1>6, <1>8 DEF Complete, Lines, DbGrows
  <2>2. ASSUME NEW u \in Threads, Filling(u, o) PROVE Filling(u, o)'
    BY <1>1, <1>5, <2>2 DEF Filling, OthersStay
  <2> QED
    BY <1>8, <2>1, <2>2 DEF OrdersAttended
<1> QED
  BY <1>3, <1>7, <1>8

LEMMA AddDetailAttended ==
  ASSUME Inv, OrdersAttended, NEW t \in Threads, CheckoutAddDetail(t)
  PROVE  OrdersAttended'
<1>1. PICK p \in job[t].todo :
          /\ add_order_detail(job[t].order, p)
          /\ Go(t, "detail", [job[t] EXCEPT !.todo = @ \ {p}])
  BY DEF CheckoutAddDetail
<1> DEFINE j == [job[t] EXCEPT !.todo = @ \ {p}]
<1>2. pc[t] = "detail" /\ job[t].order \in DOMAIN orders
  BY DEF CheckoutAddDetail, Inv, HandlersKeepPromise, Promise
<1>3. /\ DOMAIN orders' = DOMAIN orders /\ orders' = orders
      /\ \A o \in DOMAIN orders \ {job[t].order} : order_details'[o] = order_details[o]
  BY <1>1, DbDomains DEF add_order_detail, Inv, DbInv
<1>4. j.order = job[t].order
  BY JobType DEF Job
<1> HIDE DEF j
<1>5. pc'[t] = "detail" /\ job'[t] = j /\ OthersStay(t)
  BY <1>1, GoFacts DEF Inv, j
<1> SUFFICES ASSUME NEW o \in DOMAIN orders
             PROVE  Complete(o)' \/ \E u \in Threads : Filling(u, o)'
  BY <1>3 DEF OrdersAttended
<1>6. CASE o = job[t].order
  BY <1>4, <1>5, <1>6 DEF Filling
<1>7. CASE o # job[t].order
  <2>1. Complete(o) => Complete(o)'
    BY <1>3, <1>7 DEF Complete, Lines
  <2>2. ASSUME NEW u \in Threads, Filling(u, o) PROVE Filling(u, o)'
    BY <1>5, <1>7, <2>2 DEF Filling, OthersStay
  <2> QED
    BY <2>1, <2>2 DEF OrdersAttended
<1> QED
  BY <1>6, <1>7

LEMMA AttendedNext ==
  ASSUME Inv, OrdersAttended, [Next]_vars, faults' = 0
  PROVE  OrdersAttended'
<1>1. ASSUME NEW t \in Threads, Work(t) PROVE OrdersAttended'
  <2>1. CASE CheckoutCreateOrder(t)
    BY <2>1, CreateAttended
  <2>2. CASE CheckoutAddDetail(t)
    BY <2>2, AddDetailAttended
  <2>3. CASE UNCHANGED <<orders, order_details>>
    <3>1. OthersStay(t)
      BY <1>1, WorkOthersStay DEF Inv
    <3>2. ASSUME NEW o \in DOMAIN orders, Filling(t, o)
          PROVE  Complete(o) \/ CheckoutAddDetail(t)
      <4>1. CheckoutAddDetail(t) \/ CheckoutEndSession(t)
        <5>1. pc[t] = "detail"
          BY <3>2 DEF Filling
        <5>2. ~ Start(t) /\ ~ ChangeCart(t) /\ ~ Obstacle(t)
          BY <5>1
          DEF Start, StartBegin, StartEndPrevious, StartReset, StartInsert, StartAssign,
              StartReply, ChangeCart, UpdateDelete, UpdateInsert, UpdateInsertRefused,
              RemoveItem, ProductBegin, ProductTake, ProductDuplicate, ProductNew,
              ProductNotAdded, ProductAdd, ListAgain, SendCart, Obstacle, ObstacleDropped,
              ObstacleLog, ObstacleUnchanged, ObstacleChanged, SendAlarm
        <5>3. Checkout(t)
          BY <1>1, <5>2 DEF Work
        <5> QED
          BY <5>1, <5>3
          DEF Checkout, CheckoutBegin, CheckoutList, CheckoutCreateOrder, CheckoutOrderRefused,
              CheckoutNotify, CheckoutClear, CheckoutReset
      <4>2. CheckoutEndSession(t) => Complete(o)
        BY <3>2
        DEF CheckoutEndSession, Filling, Complete, Inv, HandlersKeepPromise, Promise, DbInv,
            DetailsFit
      <4> QED
        BY <4>1, <4>2
    <3>3. CASE CheckoutAddDetail(t)
      BY <3>3, AddDetailAttended
    <3> QED
      BY <2>3, <3>1, <3>2, <3>3, OrdersLeft
  <2> QED
    BY <1>1, <2>1, <2>2, <2>3, OrdersWritten
<1>2. ASSUME NEW t \in Threads, Arrival(t) PROVE OrdersAttended'
  <2>1. OthersStay(t) /\ UNCHANGED <<orders, order_details>> /\ pc[t] = "idle"
    BY <1>2, ArrivalOthersStay
    DEF Inv, dbVars, Arrival, Receive, ReceiveStart, ReceiveCheckout, ReceiveUpdateQuantity,
        ReceiveRemoveItem, ReceiveProduct, ReceiveObstacle
  <2> QED
    BY <2>1, OrdersLeft DEF Filling
<1>3. CASE IntervalElapses \/ UNCHANGED vars
  <2>1. UNCHANGED <<orders, order_details, pc, job>>
    BY <1>3 DEF IntervalElapses, vars, dbVars
  <2> QED
    BY <2>1 DEF OrdersAttended, Complete, Filling, Lines
<1>4. ~ Fault
  BY BoundsAssumption DEF Fault, Inv, FaultsTypeOK
<1> QED
  BY <1>1, <1>2, <1>3, <1>4 DEF Next, DatabaseRaises, SendLost, Restart

(***************************************************************************)
(* Without faults no checkout leaves an order behind that lacks detail     *)
(* rows, however many checkouts interleave: whenever no handler is at      *)
(* work, every order is complete (_handle_ui_checkout, steps 3 and 4).     *)
(***************************************************************************)
THEOREM HubOrdersItemised == Spec => [](faults = 0 => OrdersItemised)
<1>1. Init => Inv /\ (faults = 0 => OrdersAttended)
  BY InitInv DEF Init, DbInit, OrdersAttended
<1>2. Inv /\ (faults = 0 => OrdersAttended) /\ [Next]_vars
          => Inv' /\ (faults = 0 => OrdersAttended)'
  <2> SUFFICES ASSUME Inv, faults = 0 => OrdersAttended, [Next]_vars
               PROVE  Inv' /\ (faults' = 0 => OrdersAttended')
    OBVIOUS
  <2>1. faults' = 0 => faults = 0
    <3>1. faults \in Nat /\ (faults' = faults \/ faults' = faults + 1)
      BY FaultsCounted, BoundsAssumption DEF Inv, FaultsTypeOK, Fault
    <3> QED
      BY <3>1
  <2> QED
    BY <2>1, NextInv, AttendedNext
<1>3. Inv /\ (faults = 0 => OrdersAttended) => (faults = 0 => OrdersItemised)
  BY DEF OrdersItemised, OrdersAttended, Idle, Complete, Filling
<1> QED
  BY <1>1, <1>2, <1>3, PTL DEF Spec
=============================================================================
