---------------------------- MODULE MCMarketplace ----------------------------
(***************************************************************************)
(* Marketplace for TLC.  The runs differ in their constants: the endpoints *)
(* in use, the number of worker threads (one thread is serial execution),  *)
(* and the sizes of the tables.                                            *)
(***************************************************************************)
EXTENDS Marketplace, TLC

\* All routes join the same two cities and differ in their districts.
SameCities == [rt \in Routes |-> "cities"]

\* Drivers are interchangeable.  Used by runs without liveness only.
DriverSymmetry == Permutations(Drivers)
=============================================================================
