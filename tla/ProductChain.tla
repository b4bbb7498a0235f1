---------------------------- MODULE ProductChain ----------------------------
(***************************************************************************)
(* How an item that is put in the cart becomes a cart item: the product    *)
(* loop of the AI server (AIServer._product_inference_loop and             *)
(* _push_event, src/src/ai_server.py) around the Recognizer, and what the  *)
(* hub and its engine do with the event (MainPC2Hub._handle_product,       *)
(* SmartCartEngine.process_product_event and _is_new_product_detection).   *)
(*                                                                         *)
(* No frame is looked at while _push_event waits for the hub.  A handler   *)
(* of the hub is two steps here: it decides what the event is, with the    *)
(* session and the debounce, and then it adds the product; CartHub has     *)
(* them in full.  A failed connection is noticed at once.                  *)
(***************************************************************************)
EXTENDS Recognizer, Sequences

CONSTANTS
    Catalogue,          \* the products in the products table
    DebounceInterval,   \* DUPLICATE_PRODUCT_INTERVAL_SEC, 2 s
    AnswerWithin,       \* the timeout of TCPClient, 5 s
    DecideWithin,       \* assumed: how long the hub takes to decide at most
    MaxFaults           \* bound: failures and restarts

ASSUME CatalogueAssumption == Catalogue \subseteq Products
ASSUME IntervalAssumption ==
    /\ DebounceInterval \in Nat
    /\ AnswerWithin \in Nat
    /\ DecideWithin \in Nat
    /\ MaxFaults \in Nat
    /\ DecideWithin <= AnswerWithin

VARIABLES
    reports,           \* history: the product and time of each event so far
    fate,              \* event -> what has become of it
    waiting,           \* the event _push_event waits for (none: 0)
    session,           \* MainPC2Hub.session_id is not None
    last_product_id,   \* SmartCartEngine._last_product_id
    last_product_ts,   \* SmartCartEngine._last_product_ts
    faults             \* failures and restarts so far

hubVars == <<session, last_product_id, last_product_ts>>
chainVars == <<reports, fate, waiting, hubVars, faults>>
allVars == <<vars, chainVars>>

Events == DOMAIN reports
Fates == {"sent", "accepted", "counted", "unknown", "no_session", "duplicate", "failed"}

ChainTypeOK ==
    /\ TypeOK
    /\ reports \in Seq([product : Products, at : 0 .. now])
    /\ fate \in [Events -> Fates]
    /\ waiting \in {0} \cup Events
    /\ session \in BOOLEAN
    /\ last_product_id \in Products \cup {NoProduct}
    /\ last_product_ts \in 0 .. now
    /\ faults \in 0 .. MaxFaults

ChainInit ==
    /\ Init
    /\ reports = <<>>
    /\ fate = <<>>
    /\ waiting = 0
    /\ session = FALSE
    /\ last_product_id = NoProduct
    /\ last_product_ts = 0
    /\ faults = 0

Fault ==
    /\ faults < MaxFaults
    /\ faults' = faults + 1

-----------------------------------------------------------------------------
(***************************************************************************)
(* The AI server.                                                          *)
(***************************************************************************)

\* _push_event with the present time; how the event fares, and whether the
\* loop now waits for an answer.
Push(p, f, w) ==
    /\ reports' = Append(reports, [product |-> p, at |-> now])
    /\ fate' = Append(fate, f)
    /\ waiting' = w

\* One round of _product_inference_loop.  "added" is pushed, and is lost when
\* the hub cannot be reached.
Inspect(seen) ==
    /\ waiting = 0
    /\ Frame(seen)
    /\ \/ /\ event' = NoProduct
          /\ UNCHANGED <<reports, fate, waiting, faults>>
       \/ /\ event' # NoProduct
          /\ Push(event', "sent", Len(reports) + 1)
          /\ UNCHANGED faults
       \/ /\ event' # NoProduct
          /\ Push(event', "failed", 0)
          /\ Fault
    /\ UNCHANGED hubVars

\* The hub has answered, or has not within the timeout.
PushReturns ==
    /\ waiting # 0
    /\ \/ fate[waiting] \notin {"sent", "accepted"}
       \/ now - reports[waiting].at = AnswerWithin
    /\ waiting' = 0
    /\ UNCHANGED <<vars, reports, fate, hubVars, faults>>

\* The AI server is started again.
AIRestarts ==
    /\ Fault
    /\ first_seen' = NoEntries
    /\ last_seen' = NoEntries
    /\ last_added' = NoEntries
    /\ added_at' = NoEntries
    /\ event' = NoProduct
    /\ waiting' = 0
    /\ UNCHANGED <<now, reports, fate, hubVars>>

\* Time passes, but not beyond what bounds the hub and the client.
TimePasses ==
    /\ Tick
    /\ \A n \in Events : fate[n] = "sent" => now - reports[n].at < DecideWithin
    /\ waiting # 0 => now - reports[waiting].at < AnswerWithin
    /\ UNCHANGED chainVars

-----------------------------------------------------------------------------
(***************************************************************************)
(* The hub.                                                                *)
(***************************************************************************)

Becomes(n, f) == fate' = [fate EXCEPT ![n] = f]

\* Mutant: the debounce does not look at the product.
DuplicateOfAny(p) ==
    last_product_id # NoProduct /\ now - last_product_ts < DebounceInterval

\* _is_new_product_detection is false.
Duplicate(p) ==
    last_product_id = p /\ now - last_product_ts < DebounceInterval

\* _handle_product without a session.
NoSessionFor(n) ==
    /\ fate[n] = "sent"
    /\ ~ session
    /\ Becomes(n, "no_session")
    /\ UNCHANGED <<vars, reports, waiting, hubVars, faults>>

Debounced(n) ==
    /\ fate[n] = "sent"
    /\ session
    /\ Duplicate(reports[n].product)
    /\ Becomes(n, "duplicate")
    /\ UNCHANGED <<vars, reports, waiting, hubVars, faults>>

Accepted(n) ==
    /\ fate[n] = "sent"
    /\ session
    /\ ~ Duplicate(reports[n].product)
    /\ last_product_id' = reports[n].product
    /\ last_product_ts' = now
    /\ Becomes(n, "accepted")
    /\ UNCHANGED <<vars, reports, waiting, session, faults>>

\* get_product_by_id, and add_cart_item when there is such a product.
Handled(n) ==
    /\ fate[n] = "accepted"
    /\ Becomes(n, IF reports[n].product \in Catalogue THEN "counted" ELSE "unknown")
    /\ UNCHANGED <<vars, reports, waiting, hubVars, faults>>

\* One of the two raises: the thread ends without an answer.
Fails(n) ==
    /\ fate[n] = "accepted"
    /\ Fault
    /\ Becomes(n, "failed")
    /\ UNCHANGED <<vars, reports, waiting, hubVars>>

\* START_SESSION and CHECKOUT, with the reset of the engine.
SessionChanges ==
    /\ session' = ~ session
    /\ last_product_id' = NoProduct
    /\ last_product_ts' = 0
    /\ UNCHANGED <<vars, reports, fate, waiting, faults>>

\* The hub is started again, without a session; its handlers end.
HubRestarts ==
    /\ Fault
    /\ session' = FALSE
    /\ last_product_id' = NoProduct
    /\ last_product_ts' = 0
    /\ fate' = [n \in Events |->
                   IF fate[n] \in {"sent", "accepted"} THEN "failed" ELSE fate[n]]
    /\ UNCHANGED <<vars, reports, waiting>>

ChainNext ==
    \/ \E seen \in SUBSET Products : Inspect(seen)
    \/ PushReturns \/ AIRestarts \/ TimePasses
    \/ \E n \in Events :
          NoSessionFor(n) \/ Debounced(n) \/ Accepted(n) \/ Handled(n) \/ Fails(n)
    \/ SessionChanges \/ HubRestarts

ChainSpec == ChainInit /\ [][ChainNext]_allVars

-----------------------------------------------------------------------------
(***************************************************************************)
(* Properties.                                                             *)
(***************************************************************************)

\* The debounce of the engine is there for a detection that is reported twice
\* and takes no item away that was put in the cart: without faults no event is
\* dropped as a duplicate, as long as the hub decides soon enough for two
\* reports of a product to be DebounceInterval apart when they are decided.
NothingDebounced ==
    faults = 0 => \A n \in Events : fate[n] # "duplicate"
=============================================================================
