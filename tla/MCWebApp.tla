------------------------------ MODULE MCWebApp ------------------------------
(***************************************************************************)
(* WebApp for TLC.  The places of the calls in flight are interchangeable, *)
(* and so are orders and records; no liveness is checked with it.  As a    *)
(* behaviour is of one part, the parts can share their places and records, *)
(* which leaves TLC few permutations to try on every state.                *)
(***************************************************************************)
EXTENDS WebApp, TLC

Interchangeable == Permutations(WebCalls) \cup Permutations(Orders)
================================================================================
