---------------------------- MODULE MCSmartCart ----------------------------
(***************************************************************************)
(* Instances of SmartCart for TLC.                                         *)
(***************************************************************************)
EXTENDS SmartCart, TLC

CONSTANTS t1, t2, milk, tea

OneThread == {t1}
TwoThreads == {t1, t2}

OneProduct == {milk}
TwoProducts == {milk, tea}

Selling == {"START_SESSION", "CHECKOUT", "PRODUCT_DETECTED"}
CartChanges == Selling \cup {"UPDATE_QUANTITY", "REMOVE_ITEM"}
=============================================================================
