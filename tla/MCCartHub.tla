----------------------------- MODULE MCCartHub -----------------------------
(***************************************************************************)
(* Instances of CartHub for TLC.                                           *)
(***************************************************************************)
EXTENDS CartHub, TLC

CONSTANTS t1, t2, milk, tea, coffee

OneThread == {t1}
TwoThreads == {t1, t2}

\* Handler threads are interchangeable; the safety runs use this.
ThreadSymmetry == Permutations(Threads)

\* With TwoProducts for the catalogue, coffee is recognised by the detector and
\* unknown to the products table.
ThreeProducts == {milk, tea, coffee}
TwoProducts == {milk, tea}
OneProduct == {milk}

Selling == {"START_SESSION", "CHECKOUT", "PRODUCT_DETECTED"}
CartChanges == Selling \cup {"UPDATE_QUANTITY", "REMOVE_ITEM"}
WithObstacles == CartChanges \cup {"OBSTACLE_DANGER"}
=============================================================================
