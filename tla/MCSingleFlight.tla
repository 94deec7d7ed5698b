--------------------------- MODULE MCSingleFlight ---------------------------
(***************************************************************************)
(* SingleFlight for TLC.                                                   *)
(***************************************************************************)
EXTENDS SingleFlight, Integers, FiniteSets

\* Memory does not run out: when a key without an entry is entered, the other
\* keys and the other tasks leave at least one gate unreferenced.
ASSUME GatesSuffice == Cardinality(Gates) >= Cardinality(Tasks) + Cardinality(Keys) - 1
=============================================================================
