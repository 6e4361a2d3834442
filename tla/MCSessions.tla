------------------------------ MODULE MCSessions ------------------------------
(* Sessions for TLC: the runs differ in the calls that may overlap.         *)
EXTENDS Sessions
=============================================================================
