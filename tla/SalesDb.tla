------------------------------ MODULE SalesDb ------------------------------
(***************************************************************************)
(* The tables the hub writes, and the statements of TransactionDAO on      *)
(* them (src/src/database/transaction_dao.py; tables as created by         *)
(* src/scripts/create_databases.sql).  Each operator is one statement that *)
(* takes effect as a whole.  Ids are AUTO_INCREMENT, so a table is a       *)
(* sequence and a row's id its index.                                      *)
(*                                                                         *)
(* Abstractions: an order row keeps the listing it was priced from, which  *)
(* stands for total_amount and total_items (both are sums over it); the    *)
(* rows of one product in one cart are kept as their total quantity, which *)
(* is all list_cart_items reports of them; time stamps are left out.       *)
(***************************************************************************)
EXTENDS Integers, Sequences

CONSTANTS
    Products,        \* product ids that AI events and UI requests may carry
    Catalogue,       \* those that have a row in the products table
    NoProduct,       \* None
    UniqueItemKey    \* cart_items has the key of fix_duplicate_cart_items.sql

ASSUME CatalogueAssumption == Catalogue \subseteq Products
ASSUME NoProductAssumption == NoProduct \notin Products
ASSUME UniqueItemKeyAssumption == UniqueItemKey \in BOOLEAN

VARIABLES
    shopping_sessions,  \* session id -> "ACTIVE" or "COMPLETED"
    cart_items,         \* session id -> product -> quantity (0: no row)
    orders,             \* order id   -> [session_id, items]
    order_details       \* order id   -> products that have a detail row

dbVars == <<shopping_sessions, cart_items, orders, order_details>>

\* None in a session_id attribute or column: ids start at 1.
NoSession == 0

Listing == [Products -> Nat]
EmptyCart == [p \in Products |-> 0]

\* The products a listing has an entry for.
Lines(items) == {p \in Products : items[p] > 0}

DbTypeOK ==
    /\ shopping_sessions \in Seq({"ACTIVE", "COMPLETED"})
    /\ cart_items \in Seq(Listing)
    /\ Len(cart_items) = Len(shopping_sessions)
    /\ orders \in Seq([session_id : Nat, items : Listing])
    /\ order_details \in Seq(SUBSET Products)
    /\ Len(order_details) = Len(orders)

DbInit ==
    /\ shopping_sessions = <<>>
    /\ cart_items = <<>>
    /\ orders = <<>>
    /\ order_details = <<>>

-----------------------------------------------------------------------------
\* Shopping session

SessionIds == DOMAIN shopping_sessions

\* Mutant: the counter is read once it has been incremented.
NextSessionIdAfter == Len(shopping_sessions) + 2

\* The id the next INSERT into shopping_sessions returns.
NextSessionId == Len(shopping_sessions) + 1

start_session ==
    /\ shopping_sessions' = Append(shopping_sessions, "ACTIVE")
    /\ cart_items' = Append(cart_items, EmptyCart)
    /\ UNCHANGED <<orders, order_details>>

\* An UPDATE without a condition on the status; WHERE session_id = NULL
\* matches no row.
end_session(s) ==
    /\ shopping_sessions' = [i \in SessionIds |->
                                IF i = s THEN "COMPLETED" ELSE shopping_sessions[i]]
    /\ UNCHANGED <<cart_items, orders, order_details>>

-----------------------------------------------------------------------------
\* Cart items

\* Mutant: the WHERE is dropped and the first cart is listed.
list_cart_items_first(s) == IF s \in SessionIds THEN cart_items[1] ELSE EmptyCart

list_cart_items(s) == IF s \in SessionIds THEN cart_items[s] ELSE EmptyCart

SetQuantity(s, p, q) ==
    /\ cart_items' = [cart_items EXCEPT ![s] = [@ EXCEPT ![p] = q]]
    /\ UNCHANGED <<shopping_sessions, orders, order_details>>

\* INSERT ... ON DUPLICATE KEY UPDATE: one more row or one more on the row.
add_cart_item(s, p) == SetQuantity(s, p, cart_items[s][p] + 1)

\* DELETE every row of the product (also the first statement of
\* update_item_quantity).
remove_cart_item(s, p) == SetQuantity(s, p, 0)

\* The plain INSERT that ends update_item_quantity: the unique key refuses it
\* when a row is there, without the key the listing adds the rows up.
InsertRefused(s, p) == UniqueItemKey /\ cart_items[s][p] > 0
InsertItem(s, p, q) == SetQuantity(s, p, cart_items[s][p] + q)

-----------------------------------------------------------------------------
\* Order / checkout

NextOrderId == Len(orders) + 1

\* Mutant: without UNIQUE.
OrderRefusedForNone(s) == s = NoSession

\* orders.session_id is UNIQUE NOT NULL.
OrderRefused(s) ==
    \/ s = NoSession
    \/ \E o \in DOMAIN orders : orders[o].session_id = s

create_order(s, items) ==
    /\ orders' = Append(orders, [session_id |-> s, items |-> items])
    /\ order_details' = Append(order_details, {})
    /\ UNCHANGED <<shopping_sessions, cart_items>>

add_order_detail(o, p) ==
    /\ order_details' = [order_details EXCEPT ![o] = @ \cup {p}]
    /\ UNCHANGED <<shopping_sessions, cart_items, orders>>
=============================================================================
