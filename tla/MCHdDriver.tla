----------------------------- MODULE MCHdDriver -----------------------------
(* HdDriver for TLC.                                                        *)
EXTENDS HdDriver, TLC
CONSTANTS x, y
=============================================================================
