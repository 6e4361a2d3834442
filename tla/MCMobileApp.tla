----------------------------- MODULE MCMobileApp -----------------------------
(***************************************************************************)
(* MobileApp for TLC.  Orders, and the places of the works in flight, are  *)
(* interchangeable; the runs that use this check no liveness.              *)
(***************************************************************************)
EXTENDS MobileApp, TLC

Interchangeable == Permutations(Orders) \cup Permutations(Works)
================================================================================
