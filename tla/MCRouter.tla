------------------------------ MODULE MCRouter ------------------------------
(***************************************************************************)
(* Router for TLC: tiers bounded by their number of entries, and the       *)
(* routers of each run.  A set of configurations holds, with each one, its *)
(* images under permutations of clients, keys and values, so that symmetry *)
(* reduction is sound.                                                     *)
(***************************************************************************)
EXTENDS Router

EntryBound(b, m) == Cardinality(Present(m)) <= b

\* cfg used by any `callers' clients on any `keys' keys and `values' values.
Used(callers, keys, values, cfg) ==
    {cfg @@ [callers |-> cs, keys |-> ks, values |-> vs] :
        cs \in kSubset(callers, Clients), ks \in kSubset(keys, Keys),
        vs \in kSubset(values, Values)}

\* One caller, inclusive promotion and batches: copies cascade through three
\* bounded tiers.
Sequential == Used(1, 3, 2,
    [n |-> 3, writable |-> 0 .. 2, fallible |-> {}, bound |-> <<1, 1, 2>>,
     policy |-> [CachePolicy EXCEPT !.promote = "AllAbove"],
     batch |-> 2, deletes |-> 1, drops |-> FALSE])

\* The cache's preset over two bounded tiers, with futures dropped half-way.
Dropped == Used(1, 3, 2,
    [n |-> 2, writable |-> 0 .. 1, fallible |-> {}, bound |-> <<1, 2>>,
     policy |-> CachePolicy, batch |-> 1, deletes |-> 1, drops |-> TRUE])

\* Two callers of a store with a read-only tier in the middle.
Store == Used(2, 3, 1,
    [n |-> 3, writable |-> {0, 2}, fallible |-> {}, bound |-> <<1, 3, 1>>,
     policy |-> StorePolicy, batch |-> 1, deletes |-> 1, drops |-> FALSE])

\* A store that never overflows, with futures dropped half-way.
DroppedStore == Used(1, 2, 2,
    [n |-> 3, writable |-> 0 .. 2, fallible |-> {}, bound |-> <<3, 3, 3>>,
     policy |-> StorePolicy, batch |-> 2, deletes |-> 2, drops |-> TRUE])

\* Two callers of a cache over a read-only origin; tiers below the top fail.
Origin == Used(2, 2, 1,
    [n |-> 3, writable |-> 0 .. 1, fallible |-> 1 .. 2, bound |-> <<1, 1, 2>>,
     policy |-> CachePolicy, batch |-> 1, deletes |-> 1, drops |-> FALSE])

Routers == Sequential \cup Dropped \cup Store \cup DroppedStore \cup Origin

\* Every tier call may fail.
Around == {cfg \in Used(1, 2, 1,
    [n |-> 3, writable |-> 0 .. 2, fallible |-> 0 .. 2, bound |-> <<1, 1, 2>>,
     policy |-> [promote |-> "AllAbove", on_error |-> "FallThrough",
                 write |-> "WriteAround", on_write_error |-> "FailFast",
                 demote_displaced |-> TRUE],
     batch |-> 2, deletes |-> 2, drops |-> FALSE]) :
    cfg.values = {CHOOSE v \in Values : TRUE}}

\* A store of two tiers, both failing, whose caller loses patience as well.
Through == Used(1, 2, 2,
    [n |-> 2, writable |-> 0 .. 1, fallible |-> 0 .. 1, bound |-> <<1, 2>>,
     policy |-> [StorePolicy EXCEPT !.promote = "TopOnly"],
     batch |-> 1, deletes |-> 1, drops |-> TRUE])

Failing == Around \cup Through

\* A store whose top tier may fail.
Abort == Used(1, 2, 2,
    [n |-> 2, writable |-> 0 .. 1, fallible |-> {0}, bound |-> <<1, 1>>,
     policy |-> StorePolicy, batch |-> 1, deletes |-> 1, drops |-> FALSE])

Symmetry == Permutations(Keys) \cup Permutations(Values) \cup Permutations(Clients)
=============================================================================
