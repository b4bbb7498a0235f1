--------------------------- MODULE MCDbConnection ---------------------------
(***************************************************************************)
(* The instance of DbConnection for TLC.                                   *)
(***************************************************************************)
EXTENDS DbConnection

CONSTANTS t1, t2

TwoThreads == {t1, t2}
=============================================================================
