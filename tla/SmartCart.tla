----------------------------- MODULE SmartCart -----------------------------
(***************************************************************************)
(* The hub together with the cart's UI: UIController of                    *)
(* src/src/ui/ui_controller_v2.py and CartDashboard of                     *)
(* src/src/ui/dashboard_v2.py.                                             *)
(*                                                                         *)
(* The UI has two threads that matter.  The GUI thread runs the buttons    *)
(* and, for START_SESSION, waits in it for the hub's answer; the TCP       *)
(* thread takes what the hub sends.  It hands UPDATE_CART to the GUI       *)
(* thread with a Qt signal, which is served in order and before the next   *)
(* click; CHECKOUT_DONE changes current_session_id on the TCP thread       *)
(* itself.                                                                 *)
(*                                                                         *)
(* CHECKOUT, UPDATE_QUANTITY and REMOVE_ITEM are sent without waiting: the *)
(* request is at a hub thread at once, and how long it takes to be         *)
(* processed is that thread's pace.  SHOW_ALARM is left to AlarmChain.      *)
(***************************************************************************)
EXTENDS CartHub

CONSTANTS
    NoThread       \* none of the hub's threads

ASSUME NoThreadAssumption == NoThread \notin Threads

VARIABLES
    view,                 \* "standby", "shopping" or "dialog"
    current_session_id,   \* UIController.current_session_id
    table,                \* the listing the table of the dashboard shows
    asking,               \* the hub thread with the START_SESSION waited for
    reply,                \* its answer: "none", "refused" or "ok"
    reply_id,             \* the session id in an answer "ok"
    updates,              \* UPDATE_CART on the way to the table, in order: each
                          \* with the hub thread that waits in send_request,
                          \* NoThread once it is a signal for the GUI thread
    notices,              \* hub threads whose CHECKOUT_DONE is on the way
    quoted,               \* the listing behind the total the dialog shows
    overtaken             \* history: since the dialog was opened, or on the way
                          \* when it was, something has changed a cart

screenVars == <<view, table, updates>>
askVars == <<asking, reply, reply_id>>
quoteVars == <<quoted, overtaken>>
cartVars == <<screenVars, askVars, current_session_id, notices, quoteVars>>
allVars == <<vars, cartVars>>

CartTypeOK ==
    /\ TypeOK
    /\ view \in {"standby", "shopping", "dialog"}
    /\ current_session_id \in Nat
    /\ table \in Listing
    /\ asking \in Threads \cup {NoThread}
    /\ reply \in {"none", "refused", "ok"}
    /\ reply_id \in Nat
    /\ updates \in Seq([by : Threads \cup {NoThread}, items : Listing])
    /\ notices \subseteq Threads
    /\ quoted \in Listing
    /\ overtaken \in BOOLEAN

CartInit ==
    /\ Init
    /\ view = "standby"
    /\ current_session_id = NoSession
    /\ table = EmptyCart
    /\ asking = NoThread
    /\ reply = "none"
    /\ reply_id = NoSession
    /\ updates = <<>>
    /\ notices = {}
    /\ quoted = EmptyCart
    /\ overtaken = FALSE

\* The thread is not inside send_request with an UPDATE_CART.
Free(t) == \A i \in DOMAIN updates : updates[i].by # t

\* The GUI thread does not wait for an answer and has no signal to serve.
Served == asking = NoThread /\ \A i \in DOMAIN updates : updates[i].by # NoThread

\* No request is at work, no message on its way.
Quiet == Idle /\ updates = <<>> /\ notices = {} /\ asking = NoThread

-----------------------------------------------------------------------------
\* The buttons.  The GUI thread serves them while it does not wait.

PressStart(t) ==
    /\ view = "standby"
    /\ Served
    /\ Free(t)
    /\ ReceiveStart(t)
    /\ asking' = t
    /\ UNCHANGED <<screenVars, current_session_id, reply, reply_id, notices, quoteVars>>

\* Whatever the answer was, the dashboard then clears the table and shows the
\* shopping page; only an OK sets the session id.
StartReturns(s) ==
    /\ current_session_id' = s
    /\ view' = "shopping"
    /\ table' = EmptyCart
    /\ asking' = NoThread
    /\ reply' = "none"
    /\ reply_id' = NoSession
    /\ UNCHANGED <<updates, notices, quoteVars>>

\* Mutant: the session id in the answer is not stored.
TakeReplyOnly ==
    /\ reply # "none"
    /\ StartReturns(current_session_id)
    /\ UNCHANGED vars

\* Mutant: the GUI thread waits until the answer is OK.
TakeOkOnly ==
    /\ reply = "ok"
    /\ StartReturns(reply_id)
    /\ UNCHANGED vars

TakeReply ==
    /\ reply # "none"
    /\ StartReturns(IF reply = "ok" THEN reply_id ELSE current_session_id)
    /\ UNCHANGED vars

\* The hub cannot be reached.
PressStartInVain ==
    /\ view = "standby"
    /\ Served
    /\ Fault
    /\ StartReturns(current_session_id)
    /\ UNCHANGED <<dbVars, hubVars, pc, job, receipts>>

\* The socket's 5 s pass.
StartTimesOut ==
    /\ asking # NoThread
    /\ reply = "none"
    /\ Fault
    /\ StartReturns(current_session_id)
    /\ UNCHANGED <<dbVars, hubVars, pc, job, receipts>>

\* The dialog keeps the total it is opened with; the table goes on changing
\* behind it.
PressEndShopping ==
    /\ view = "shopping"
    /\ Served
    /\ view' = "dialog"
    /\ quoted' = table
    /\ overtaken' = ~ Quiet
    /\ UNCHANGED <<vars, askVars, table, updates, current_session_id, notices>>

\* Mutant: the session id is dropped with the dialog.
CancelDropsId ==
    /\ view = "dialog"
    /\ Served
    /\ view' = "shopping"
    /\ current_session_id' = NoSession
    /\ UNCHANGED <<vars, askVars, table, updates, notices, quoteVars>>

CancelCheckout ==
    /\ view = "dialog"
    /\ Served
    /\ view' = "shopping"
    /\ UNCHANGED <<vars, askVars, table, updates, current_session_id, notices, quoteVars>>

\* Mutant: the session id is left for CHECKOUT_DONE to drop.
ConfirmKeepsId ==
    /\ view = "dialog"
    /\ Served
    /\ \/ /\ current_session_id # NoSession
          /\ \E t \in Threads : Free(t) /\ ReceiveCheckout(t)
       \/ current_session_id = NoSession /\ UNCHANGED vars
    /\ view' = "standby"
    /\ table' = EmptyCart
    /\ UNCHANGED <<askVars, updates, current_session_id, notices, quoteVars>>

\* The session id is dropped right after sending, whether or not the hub was
\* reached; a controller without one sends nothing, and the dashboard goes to
\* standby either way.
ConfirmCheckout ==
    /\ view = "dialog"
    /\ Served
    /\ \/ /\ current_session_id # NoSession
          /\ \E t \in Threads : Free(t) /\ ReceiveCheckout(t)
       \/ /\ current_session_id # NoSession
          /\ Fault
          /\ UNCHANGED <<dbVars, hubVars, pc, job, receipts>>
       \/ current_session_id = NoSession /\ UNCHANGED vars
    /\ view' = "standby"
    /\ table' = EmptyCart
    /\ current_session_id' = NoSession
    /\ UNCHANGED <<askVars, updates, notices, quoteVars>>

\* The buttons of a row carry the quantity the row was built with.
PressQuantity(t, p) ==
    /\ view = "shopping"
    /\ Served
    /\ current_session_id # NoSession
    /\ p \in Lines(table)
    /\ Free(t)
    /\ \/ ReceiveUpdateQuantity(t, current_session_id, p, table[p] - 1)
       \/ ReceiveUpdateQuantity(t, current_session_id, p, table[p] + 1)
       \/ ReceiveRemoveItem(t, current_session_id, p)
    /\ UNCHANGED cartVars

-----------------------------------------------------------------------------
\* The TCP thread and what it hands to the GUI thread

\* The TCP thread takes one connection after the other; when it closes one,
\* send_request returns in the hub.
EmitCart ==
    \E i \in DOMAIN updates :
        /\ updates[i].by # NoThread
        /\ \A k \in 1 .. i - 1 : updates[k].by = NoThread
        /\ updates' = [updates EXCEPT ![i].by = NoThread]
        /\ UNCHANGED <<vars, view, table, askVars, current_session_id, notices, quoteVars>>

\* Mutant: an empty list of items is not shown.
ShowItemsOnly ==
    /\ updates # <<>>
    /\ Head(updates).by = NoThread
    /\ asking = NoThread
    /\ table' = IF Lines(Head(updates).items) = {} THEN table ELSE Head(updates).items
    /\ updates' = Tail(updates)
    /\ UNCHANGED <<vars, view, askVars, current_session_id, notices, quoteVars>>

ShowCart ==
    /\ updates # <<>>
    /\ Head(updates).by = NoThread
    /\ asking = NoThread
    /\ table' = Head(updates).items
    /\ updates' = Tail(updates)
    /\ UNCHANGED <<vars, view, askVars, current_session_id, notices, quoteVars>>

HandleCheckoutDone(t) ==
    /\ t \in notices
    /\ notices' = notices \ {t}
    /\ current_session_id' = NoSession
    /\ UNCHANGED <<vars, screenVars, askVars, quoteVars>>

-----------------------------------------------------------------------------
\* The hub's steps, with what they do to the UI

\* Mutant: the handler returns no answer.
NoAnswer(t, r, s) ==
    /\ UNCHANGED <<reply, reply_id>>
    /\ UNCHANGED <<screenVars, asking, current_session_id, notices, quoteVars>>

\* The answer to the START_SESSION the UI waits for; nobody reads another.
Answer(t, r, s) ==
    /\ IF asking = t
       THEN reply' = r /\ reply_id' = s
       ELSE UNCHANGED <<reply, reply_id>>
    /\ UNCHANGED <<screenVars, asking, current_session_id, notices, quoteVars>>

HubAnswersStart(t) ==
    /\ StartReply(t)
    /\ Answer(t, "ok", session_id)

HubStartFails(t) ==
    /\ pc[t] \in StartLabels
    /\ DatabaseRaises(t)
    /\ Answer(t, "refused", NoSession)

HubSendsCart(t) ==
    /\ SendCart(t)
    /\ updates' = Append(updates, [by |-> t, items |-> job[t].items])
    /\ UNCHANGED <<view, table, askVars, current_session_id, notices, quoteVars>>

HubSendsCheckoutDone(t) ==
    /\ t \notin notices
    /\ CheckoutNotify(t)
    /\ notices' = notices \cup {t}
    /\ UNCHANGED <<screenVars, askVars, current_session_id, quoteVars>>

\* send_request returns once the UI has handled the message and closed the
\* connection ...
HubClearsSession(t) ==
    /\ t \notin notices
    /\ CheckoutClear(t)
    /\ UNCHANGED cartVars

\* ... or after 5 s, with the message still to be handled.
HubStopsWaiting(t) ==
    /\ Fault
    /\ t \in notices
    /\ pc[t] = "clear"
    /\ session_id' = NoSession
    /\ Go(t, "checkout_reset", job[t])
    /\ UNCHANGED <<dbVars, last_obstacle_level, last_product_id, receipts, cartVars>>

HubWorks(t) ==
    \/ HubAnswersStart(t)
    \/ HubSendsCart(t)
    \/ HubSendsCheckoutDone(t)
    \/ HubClearsSession(t)
    \/ /\ Work(t)
       /\ pc[t] \notin {"start_reply", "send_cart", "notify", "clear"}
       /\ overtaken' = (overtaken \/ cart_items' # cart_items)
       /\ UNCHANGED <<screenVars, askVars, current_session_id, notices, quoted>>

HubFails(t) ==
    \/ HubStartFails(t)
    \/ HubStopsWaiting(t)
    \/ /\ pc[t] \notin StartLabels
       /\ DatabaseRaises(t) \/ SendLost(t)
       /\ UNCHANGED cartVars

HubRestarts ==
    /\ Restart
    /\ IF asking = NoThread THEN UNCHANGED reply ELSE reply' = "refused"
    /\ UNCHANGED <<screenVars, asking, reply_id, current_session_id, notices, quoteVars>>

AiReports(t) ==
    /\ Free(t)
    /\ \E p \in Products : ReceiveProduct(t, p)
    /\ UNCHANGED cartVars

-----------------------------------------------------------------------------
CartNext ==
    \/ \E t \in Threads :
          \/ PressStart(t)
          \/ \E p \in Products : PressQuantity(t, p)
          \/ HandleCheckoutDone(t)
          \/ HubWorks(t) \/ HubFails(t) \/ AiReports(t)
    \/ TakeReply \/ StartTimesOut \/ PressStartInVain
    \/ PressEndShopping \/ CancelCheckout \/ ConfirmCheckout
    \/ EmitCart \/ ShowCart
    \/ HubRestarts
    \/ IntervalElapses /\ UNCHANGED cartVars

CartSpec == CartInit /\ [][CartNext]_allVars

\* The threads of the hub, the GUI thread and the UI's TCP thread are all
\* scheduled; nobody has to press a button.
CartFairSpec ==
    /\ CartSpec
    /\ \A t \in Threads : WF_allVars(HubWorks(t))
    /\ \A t \in Threads : WF_allVars(HandleCheckoutDone(t))
    /\ WF_allVars(EmitCart)
    /\ WF_allVars(ShowCart)
    /\ WF_allVars(TakeReply)

-----------------------------------------------------------------------------
(***************************************************************************)
(* Properties.                                                             *)
(***************************************************************************)

\* Without faults, the UI and the hub work with the same session whenever
\* nothing is on its way between them.
SessionIdsAgree == faults = 0 /\ Quiet => current_session_id = session_id

\* Without faults, when nothing is on its way, the table shows the cart of the
\* session the UI works with.
TableShowsCart ==
    faults = 0 /\ Quiet /\ current_session_id # NoSession =>
        table = cart_items[current_session_id]

\* Without faults, the shopping page and the checkout dialog always have an
\* open session behind them.
ShopperHasSession ==
    faults = 0 /\ Quiet /\ view # "standby" =>
        /\ current_session_id # NoSession
        /\ shopping_sessions[current_session_id] = "ACTIVE"

\* The customer is billed what the confirmed dialog showed: without faults, an
\* order has what the table had when the dialog was opened, unless the cart has
\* changed meanwhile, or a change had not come to the table yet.
BilledAsQuoted ==
    [][\A o \in DOMAIN orders' \ DOMAIN orders :
          faults = 0 /\ ~ overtaken => orders'[o].items = quoted]_allVars

\* Nobody goes on shopping with a session that has been billed: the bill comes
\* after the customer confirmed, and the next customer gets another session.
NoBillWhileShopping == current_session_id \notin Billed

\* Every press of START ends on the shopping page.
StartReturnsToCustomer == asking # NoThread ~> view = "shopping"
=============================================================================
