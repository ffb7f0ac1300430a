---------------------------- MODULE MCStatistics ----------------------------
(* A small instance of Statistics for TLC.                                 *)
EXTENDS Statistics

CONSTANTS t1, t2

MCThreads == {t1, t2}

AllCalls == DOMAIN Body

=============================================================================
