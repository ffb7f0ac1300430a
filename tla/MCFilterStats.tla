---------------------------- MODULE MCFilterStats ----------------------------
(* A small instance of FilterStats for TLC.                                *)
EXTENDS FilterStats
=============================================================================
