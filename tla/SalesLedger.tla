---------------------------- MODULE SalesLedger ----------------------------
(***************************************************************************)
(* What the tables promise to whoever reads them later, whatever the hub's *)
(* threads do and wherever they fail: sessions are opened one after the    *)
(* other and never opened again once closed; a session has one bill at     *)
(* most, whose content is fixed when it is written; its lines are filled   *)
(* in one by one; and a bill is announced only when all its lines are      *)
(* there.                                                                  *)
(***************************************************************************)
EXTENDS Integers, Sequences

CONSTANT Products

VARIABLES
    sessions,   \* session id -> "ACTIVE" or "COMPLETED"
    bills,      \* session id that has been billed -> [items, lines]
    announced   \* session ids whose bill the customer was told of

vars == <<sessions, bills, announced>>

Listing == [Products -> Nat]
Lines(items) == {p \in Products : items[p] > 0}

Init ==
    /\ sessions = <<>>
    /\ bills = <<>>
    /\ announced = {}

Open ==
    /\ sessions' = Append(sessions, "ACTIVE")
    /\ UNCHANGED <<bills, announced>>

Close(s) ==
    /\ sessions[s] = "ACTIVE"
    /\ sessions' = [sessions EXCEPT ![s] = "COMPLETED"]
    /\ UNCHANGED <<bills, announced>>

\* items is any listing; that it has no line is not excluded.
Bill(s) ==
    /\ s \notin DOMAIN bills
    /\ DOMAIN bills' = DOMAIN bills \cup {s}
    /\ \A r \in DOMAIN bills : bills'[r] = bills[r]
    /\ bills'[s].items \in Listing
    /\ bills'[s].lines = {}
    /\ UNCHANGED <<sessions, announced>>

AddLine(s, p) ==
    /\ p \in Lines(bills[s].items) \ bills[s].lines
    /\ bills' = [bills EXCEPT ![s].lines = @ \cup {p}]
    /\ UNCHANGED <<sessions, announced>>

Announce(s) ==
    /\ bills[s].lines = Lines(bills[s].items)
    /\ announced' = announced \cup {s}
    /\ UNCHANGED <<sessions, bills>>

Next ==
    \/ Open
    \/ \E s \in DOMAIN sessions :
          \/ Close(s)
          \/ Bill(s)
    \/ \E s \in DOMAIN bills :
          \/ \E p \in Products : AddLine(s, p)
          \/ Announce(s)

Spec == Init /\ [][Next]_vars
=============================================================================
