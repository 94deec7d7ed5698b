------------------------------- MODULE MCCache ------------------------------
(***************************************************************************)
(* Cache for TLC: tiers bounded by their number of entries, and the caches *)
(* of the run.                                                             *)
(***************************************************************************)
EXTENDS Cache

EntryBound(b, m) == Cardinality(Present(m)) <= b

Some(n, S) == CHOOSE s \in SUBSET S : Cardinality(s) = n

\* Callers of one key over two writable tiers that do not fail.
Stampede ==
    [n |-> 2, writable |-> 0 .. 1, fallible |-> {}, bound |-> <<1, 1>>,
     policy |-> CachePolicy, batch |-> 1, deletes |-> 1, drops |-> FALSE,
     callers |-> Clients, keys |-> Some(1, Keys), values |-> Values]

\* A read-only origin, which may fail, below one tier, with dropped futures.
Origin ==
    [n |-> 2, writable |-> {0}, fallible |-> {1}, bound |-> <<1, 1>>,
     policy |-> CachePolicy, batch |-> 1, deletes |-> 1, drops |-> TRUE,
     callers |-> Clients, keys |-> Some(1, Keys), values |-> Values]

\* Keys that displace each other.
Crowded ==
    [n |-> 1, writable |-> {0}, fallible |-> {}, bound |-> <<1>>,
     policy |-> CachePolicy, batch |-> 0, deletes |-> 0, drops |-> FALSE,
     callers |-> Clients, keys |-> Keys, values |-> Values]

Caches == {Stampede, Origin, Crowded}
=============================================================================
