----------------------------- MODULE MemoryTier -----------------------------
(***************************************************************************)
(* The in-memory tier (crates/tierstore/src/memory.rs).                    *)
(*                                                                         *)
(* A Mutex guards the map, the eviction queue of (key, stamp) tickets, the *)
(* weight total and the stamp counter.  A ticket is live iff the entry of  *)
(* its key has its stamp; touches and deletes leave stale tickets behind.  *)
(* Stamps only grow and every push_back carries a fresh one, so the queue  *)
(* is the set of its tickets in the order of their stamps.                 *)
(*                                                                         *)
(* A call takes the lock once for a whole batch (get_many, put_many,       *)
(* delete_many; get, put, delete and get_ref are batches of one): `batch'  *)
(* holds what the lock holder has left to do, and nobody else runs before  *)
(* it is empty.  exists and list change nothing.                           *)
(***************************************************************************)
EXTENDS Integers, FiniteSets, FiniteSetsExt, Sequences

CONSTANTS
    Keys, Values,
    None,           \* no entry, no limit
    Weigh(_, _),    \* the weigher of a byte budget
    Configs,        \* the tiers: eviction, and the limits on entries and bytes
    Calls,          \* the batches that callers may submit
    CompactMin,     \* 16 in the code
    UsizeMax,       \* 2^64 - 1 in the code
    MaxStamp        \* bound for TLC

\* The value of a get or a delete means nothing.
Operations == [op : {"put", "get", "delete"}, key : Keys, value : Values]

ASSUME MemoryAssumption ==
    /\ IsFiniteSet(Keys) /\ None \notin Nat /\ None \notin Values
    /\ UsizeMax \in Nat /\ CompactMin \in Nat /\ MaxStamp \in Nat
    /\ Configs \subseteq [eviction : {"Fifo", "Lru"},
                          entries : (Nat \ {0}) \cup {None}, bytes : (Nat \ {0}) \cup {None}]
    /\ \A c \in Configs : c.entries = None \/ c.bytes = None   \* as the constructors
    /\ None \notin [value : Values, weight : 0 .. UsizeMax, stamp : Nat]
    /\ \A k \in Keys, v \in Values : Weigh(k, v) \in 0 .. UsizeMax
    /\ Calls \subseteq Seq(Operations) \ {<<>>}

VARIABLES
    config,     \* MemoryTier: eviction and limits, fixed when the tier is built
    map,        \* Inner.map: the entry of each key
    order,      \* Inner.order: the tickets
    total,      \* Inner.total_weight
    stamp,      \* Inner.next_stamp
    batch,      \* what the holder of the lock has left to do
    displaced   \* what the call in progress, or the last one, displaced

vars == <<config, map, order, total, stamp, batch, displaced>>

Entries == [value : Values, weight : 0 .. UsizeMax, stamp : Nat]
Present(m) == {k \in Keys : m[k] # None}

TypeOK ==
    /\ config \in Configs
    /\ map \in [Keys -> Entries \cup {None}]
    /\ order \subseteq Keys \X (1 .. stamp)
    /\ stamp \in Nat
    /\ batch \in Seq(Operations)

Init ==
    /\ config \in Configs
    /\ map = [k \in Keys |-> None]
    /\ order = {}
    /\ total = 0
    /\ stamp = 0
    /\ batch = <<>>
    /\ displaced = <<>>

-----------------------------------------------------------------------------

SaturatingAdd(a, b) == IF a + b <= UsizeMax THEN a + b ELSE UsizeMax
SaturatingSub(a, b) == IF a >= b THEN a - b ELSE 0

WeightOf(k, v) == IF config.bytes = None THEN 0 ELSE Weigh(k, v)

IsLive(m, t) == m[t[1]] # None /\ m[t[1]].stamp = t[2]
Live(m, o) == {t \in o : IsLive(m, t)}

\* compact: stale tickets go once they dominate the queue.
Compact(m, o) ==
    IF Cardinality(o) > Max({2 * Cardinality(Present(m)), CompactMin})
    THEN Live(m, o) ELSE o

\* Mutant: one entry too many.
OverByTwo(m, w) ==
    \/ config.entries # None /\ Cardinality(Present(m)) > config.entries + 1
    \/ config.bytes # None /\ w > config.bytes

Over(m, w) ==
    \/ config.entries # None /\ Cardinality(Present(m)) > config.entries
    \/ config.bytes # None /\ w > config.bytes

(***************************************************************************)
(* evict_over.  Popping the queue up to stamp s evicts the keys of the     *)
(* live tickets among those; the loop stops as soon as the tier is within  *)
(* its limits, or when the queue is empty.                                 *)
(***************************************************************************)
Popped(m, o, s) == {k \in Keys : m[k] # None /\ m[k].stamp <= s /\ <<k, m[k].stamp>> \in o}
Rest(m, o, s) == [k \in Keys |-> IF k \in Popped(m, o, s) THEN None ELSE m[k]]
RestWeight(m, o, w, s) ==
    SaturatingSub(w, MapThenSumSet(LAMBDA k : m[k].weight, Popped(m, o, s)))

\* last is the newest stamp: the queue is empty after it.
Stops(m, o, w, last, s) == s = last \/ ~Over(Rest(m, o, s), RestWeight(m, o, w, s))

\* The keys ks of m, oldest first, and their entries.
ByAge(m, ks) ==
    [i \in 1 .. Cardinality(ks) |->
        CHOOSE k \in ks : Cardinality({l \in ks : m[l].stamp < m[k].stamp}) = i - 1]
InOrder(m, ks) ==
    LET q == ByAge(m, ks) IN [i \in 1 .. Cardinality(ks) |-> <<q[i], m[q[i]].value>>]

EvictOver(m, o, w, last) ==
    \E s \in 0 .. last :
        /\ Stops(m, o, w, last, s)
        /\ \A r \in 0 .. s - 1 : ~Stops(m, o, w, last, r)
        /\ map' = Rest(m, o, s)
        /\ order' = {t \in o : t[2] > s}
        /\ total' = RestWeight(m, o, w, s)
        /\ displaced' = displaced \o InOrder(m, Popped(m, o, s))

Insert(k, v) ==
    LET fresh == stamp + 1
        old == map[k]
        keeps == old # None /\ config.eviction = "Fifo"
        new == [value |-> v, weight |-> WeightOf(k, v),
                stamp |-> IF keeps THEN old.stamp ELSE fresh]
        m == [map EXCEPT ![k] = new]
        o == IF keeps THEN order ELSE order \cup {<<k, fresh>>}
        w == SaturatingSub(SaturatingAdd(total, new.weight),
                           IF old = None THEN 0 ELSE old.weight)
    IN  /\ stamp' = fresh
        /\ EvictOver(m, Compact(m, o), w, fresh)

\* Mutant: the ticket is not pushed.
TouchWithoutTicket(k) ==
    /\ stamp' = stamp + 1
    /\ map' = [map EXCEPT ![k].stamp = stamp + 1]
    /\ UNCHANGED <<order, total, displaced>>

Touch(k) ==
    LET fresh == stamp + 1
        m == [map EXCEPT ![k].stamp = fresh]
    IN  /\ stamp' = fresh
        /\ map' = m
        /\ order' = Compact(m, order \cup {<<k, fresh>>})
        /\ UNCHANGED <<total, displaced>>

\* Mutant: FIFO counts reads, too.
FetchTouches(k) ==
    \/ map[k] # None /\ Touch(k)
    \/ map[k] = None /\ UNCHANGED <<map, order, total, stamp, displaced>>

\* fetch: under LRU a hit is a touch.
Fetch(k) ==
    \/ config.eviction = "Lru" /\ map[k] # None /\ Touch(k)
    \/ ~(config.eviction = "Lru" /\ map[k] # None)
       /\ UNCHANGED <<map, order, total, stamp, displaced>>

\* Mutant: the weight of a removed entry stays.
RemoveKeepsWeight(k) ==
    /\ map' = [map EXCEPT ![k] = None]
    /\ UNCHANGED <<total, order, stamp, displaced>>

Remove(k) ==
    /\ map' = [map EXCEPT ![k] = None]
    /\ total' = IF map[k] = None THEN total ELSE SaturatingSub(total, map[k].weight)
    /\ UNCHANGED <<order, stamp, displaced>>

-----------------------------------------------------------------------------

Call ==
    /\ batch = <<>>
    /\ \E calls \in Calls :
          /\ calls[1].op = "delete" \/ stamp + Len(calls) <= MaxStamp
          /\ batch' = calls
    /\ displaced' = <<>>
    /\ UNCHANGED <<config, map, order, total, stamp>>

Step ==
    /\ batch # <<>>
    /\ LET c == Head(batch)
       IN  \/ c.op = "put" /\ Insert(c.key, c.value)
           \/ c.op = "get" /\ Fetch(c.key)
           \/ c.op = "delete" /\ Remove(c.key)
    /\ batch' = Tail(batch)
    /\ UNCHANGED config

Next == Call \/ Step

Spec == Init /\ [][Next]_vars

-----------------------------------------------------------------------------

(***************************************************************************)
(* "map, tickets, and weight total stay in sync" (memory.rs), first part:  *)
(* every entry has its live ticket in the queue, so that eviction can find *)
(* it whatever was touched, replaced, deleted and compacted before.        *)
(***************************************************************************)
TicketsInSync == \A k \in Keys : map[k] # None => <<k, map[k].stamp>> \in order

(***************************************************************************)
(* The second part: the total is the sum of the weights of the entries.    *)
(***************************************************************************)
WeightInSync == total = MapThenSumSet(LAMBDA k : map[k].weight, Present(map))

(***************************************************************************)
(* The tier is within its limits after every operation: the eviction loop  *)
(* never runs out of tickets too early, and oversized entries and          *)
(* replacements by heavier values leave as well.                           *)
(***************************************************************************)
WithinEntries == config.entries # None => Cardinality(Present(map)) <= config.entries
WithinBytes ==
    config.bytes # None =>
        MapThenSumSet(LAMBDA k : map[k].weight, Present(map)) <= config.bytes

(***************************************************************************)
(* Stale tickets do not pile up: reads, replacements and deletes leave the *)
(* queue linear in the number of entries that the tier may hold.           *)
(***************************************************************************)
MostEntries == IF config.entries = None THEN Cardinality(Keys) ELSE config.entries + 1
QueueBounded == Cardinality(order) <= Max({2 * MostEntries, CompactMin})
(***************************************************************************)
(* The bookkeeping as a whole, after any sequence of calls: the types, the *)
(* running total, the byte budget and the length of the queue.             *)
(***************************************************************************)
BooksInSync == TypeOK /\ WeightInSync /\ WithinBytes /\ QueueBounded

(***************************************************************************)
(* The tier implements the contract of a bounded tier: with the keys of    *)
(* the live tickets as the queue, every step displaces what the contract   *)
(* says, in its order.                                                     *)
(***************************************************************************)
DataOf(m) == [k \in Keys |-> IF m[k] = None THEN None ELSE m[k].value]
LiveKeys(m, o) == {t[1] : t \in Live(m, o)}

Contract == INSTANCE BoundedTier WITH
    data <- DataOf(map), queue <- ByAge(map, LiveKeys(map, order))

Implements == Contract!Spec
=============================================================================
