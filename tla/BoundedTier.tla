----------------------------- MODULE BoundedTier -----------------------------
(***************************************************************************)
(* What a bounded tier promises (the contract of TierWrite::put in         *)
(* crates/tierstore-core/src/tier.rs, with the eviction orders of          *)
(* MemoryTier): the keys stand in one queue, in eviction order.  A put     *)
(* that takes the tier over its bound displaces keys from the head of the  *)
(* queue, one after the other, until the rest fits, and returns them.      *)
(* FIFO keeps the place of a key that is replaced; LRU moves a key to the  *)
(* back whenever it is replaced or read.                                   *)
(***************************************************************************)
EXTENDS SequencesExt

CONSTANTS
    Keys, Values, None,
    Weigh(_, _),    \* the weigher of a byte budget
    Calls           \* the batches of operations, as in MemoryTier

VARIABLES config, data, queue, batch, displaced

vars == <<config, data, queue, batch, displaced>>

\* The weight of the keys ks, with the values d.
TotalWeight(d, ks) == MapThenSumSet(LAMBDA k : Weigh(k, d[k]), ks)

Fits(d, ks) ==
    /\ config.entries # None => Cardinality(ks) <= config.entries
    /\ config.bytes # None => TotalWeight(d, ks) <= config.bytes

Init ==
    /\ data = [k \in Keys |-> None]
    /\ queue = <<>>
    /\ batch = <<>>
    /\ displaced = <<>>

Used(k) == Append(RemoveFirst(queue, k), k)

\* d are the values and q the queue before the tier is cut to its bound.
Cut(d, q) ==
    LET n == Min({m \in 0 .. Len(q) : Fits(d, ToSet(SubSeq(q, m + 1, Len(q))))})
        out == SubSeq(q, 1, n)
    IN  /\ queue' = SubSeq(q, n + 1, Len(q))
        /\ data' = [k \in Keys |-> IF k \in ToSet(out) THEN None ELSE d[k]]
        /\ displaced' = displaced \o [i \in 1 .. n |-> <<out[i], d[out[i]]>>]

Put(k, v) ==
    Cut([data EXCEPT ![k] = v],
        IF data[k] = None THEN Append(queue, k)
        ELSE IF config.eviction = "Lru" THEN Used(k) ELSE queue)

Get(k) ==
    /\ queue' = IF config.eviction = "Lru" /\ data[k] # None THEN Used(k) ELSE queue
    /\ UNCHANGED <<data, displaced>>

Delete(k) ==
    /\ data' = [data EXCEPT ![k] = None]
    /\ queue' = RemoveFirst(queue, k)
    /\ UNCHANGED displaced

Call ==
    /\ batch = <<>>
    /\ batch' \in Calls
    /\ displaced' = <<>>
    /\ UNCHANGED <<config, data, queue>>

Step ==
    /\ batch # <<>>
    /\ LET c == Head(batch)
       IN  \/ c.op = "put" /\ Put(c.key, c.value)
           \/ c.op = "get" /\ Get(c.key)
           \/ c.op = "delete" /\ Delete(c.key)
    /\ batch' = Tail(batch)
    /\ UNCHANGED config

Next == Call \/ Step

Spec == Init /\ [][Next]_vars
=============================================================================
