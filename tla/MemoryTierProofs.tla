-------------------------- MODULE MemoryTierProofs --------------------------
(***************************************************************************)
(* The tickets of the in-memory tier stay in sync with its map, its queue  *)
(* stays bounded, and a tier stays within its limit on entries or on bytes *)
(* with an exact weight total, for any keys, values, limits and batches;   *)
(* and it implements the contract of a bounded tier.                       *)
(***************************************************************************)
EXTENDS MemoryTier, FiniteSetTheorems, WellFoundedInduction, TLAPS

\* The queue o has the live ticket of every entry of m.
InSync(m, o) == \A k \in Keys : m[k] # None => <<k, m[k].stamp>> \in o

(***************************************************************************)
(* The inductive invariant: TicketsInSync is what makes the eviction loop  *)
(* reach every entry, and with it the bound on the entries inductive; that *)
(* bound is what bounds the queue of a tier limited by entries.            *)
(***************************************************************************)
IInv == TypeOK /\ TicketsInSync /\ WithinEntries /\ QueueBounded

Maps == [Keys -> Entries \cup {None}]

-----------------------------------------------------------------------------

\* Popping the whole queue empties a map that is in sync with it.
LEMMA PopAll ==
    ASSUME NEW m \in Maps, NEW last \in Nat,
           NEW o \in SUBSET (Keys \X (1 .. last)), InSync(m, o)
    PROVE  Present(Rest(m, o, last)) = {}
  <1>1. ASSUME NEW k \in Keys, m[k] # None PROVE k \in Popped(m, o, last)
    <2>1. <<k, m[k].stamp>> \in o
      BY <1>1 DEF InSync
    <2> QED
      BY <1>1, <2>1 DEF Popped
  <1> QED
    BY <1>1 DEF Present, Rest

\* Where the loop of evict_over stops, the tier has no more entries than it
\* may: a limit on entries is at least one, and the empty queue is below it.
LEMMA StopsWithinEntries ==
    ASSUME config \in Configs, config.entries # None, NEW m \in Maps, NEW last \in Nat, NEW w,
           NEW o \in SUBSET (Keys \X (1 .. last)), InSync(m, o),
           NEW s \in 0 .. last, Stops(m, o, w, last, s)
    PROVE  Cardinality(Present(Rest(m, o, s))) <= config.entries
  <1>1. config.entries \in Nat
    BY MemoryAssumption
  <1>2. Cardinality(Present(Rest(m, o, s))) \in Nat
    BY MemoryAssumption, FS_Subset, FS_CardinalityType DEF Present
  <1>3. CASE s = last
    <2>1. Present(Rest(m, o, s)) = {}
      BY <1>3, PopAll
    <2>2. Cardinality(Present(Rest(m, o, s))) = 0
      BY <2>1, FS_EmptySet
    <2> QED
      BY <1>1, <2>2
  <1>4. CASE s # last
    BY <1>1, <1>2, <1>4 DEF Stops, Over
  <1> QED
    BY <1>3, <1>4

\* The queue keeps the tickets of the entries that stay.
LEMMA RestInSync ==
    ASSUME NEW m \in Maps, NEW last \in Nat,
           NEW o \in SUBSET (Keys \X (1 .. last)), InSync(m, o), NEW s \in 0 .. last
    PROVE  /\ Rest(m, o, s) \in Maps
           /\ InSync(Rest(m, o, s), {t \in o : t[2] > s})
  <1>1. Rest(m, o, s) \in Maps
    BY DEF Maps, Rest
  <1>2. ASSUME NEW k \in Keys, Rest(m, o, s)[k] # None
        PROVE  <<k, Rest(m, o, s)[k].stamp>> \in {t \in o : t[2] > s}
    <2>1. Rest(m, o, s)[k] = m[k] /\ m[k] # None /\ k \notin Popped(m, o, s)
      BY <1>2 DEF Rest
    <2>2. <<k, m[k].stamp>> \in o /\ m[k].stamp \in 1 .. last
      BY <2>1 DEF InSync
    <2>3. m[k].stamp > s
      BY <2>1, <2>2 DEF Popped
    <2> QED
      BY <2>1, <2>2, <2>3
  <1> QED
    BY <1>1, <1>2 DEF InSync

\* Compaction drops stale tickets only.
LEMMA CompactInSync ==
    ASSUME NEW m, NEW last, NEW o \in SUBSET (Keys \X (1 .. last)), InSync(m, o)
    PROVE  Compact(m, o) \in SUBSET (Keys \X (1 .. last)) /\ InSync(m, Compact(m, o))
  <1>1. Live(m, o) \subseteq o
    BY DEF Live
  <1>2. InSync(m, Live(m, o))
    BY DEF InSync, Live, IsLive
  <1> QED
    BY <1>1, <1>2 DEF Compact

-----------------------------------------------------------------------------
(* The length of the queue                                                 *)

\* The greater of two numbers.
LEMMA MaxOfTwo ==
    ASSUME NEW a \in Nat, NEW b \in Nat
    PROVE  /\ Max({a, b}) \in Nat /\ Max({a, b}) >= a /\ Max({a, b}) >= b
           /\ Max({a, b}) = a \/ Max({a, b}) = b
  <1>1. \E x \in {a, b} : \A y \in {a, b} : x >= y
    OBVIOUS
  <1>2. Max({a, b}) \in {a, b} /\ \A y \in {a, b} : Max({a, b}) >= y
    BY <1>1 DEF Max
  <1> QED
    BY <1>2

\* A set of keys is finite, and no larger than Keys.
LEMMA KeySets ==
    ASSUME NEW S \in SUBSET Keys
    PROVE  /\ IsFiniteSet(S) /\ Cardinality(S) \in Nat /\ Cardinality(S) <= Cardinality(Keys)
           /\ Cardinality(Keys) \in Nat
  BY MemoryAssumption, FS_Subset, FS_CardinalityType

\* A key adds at most one to them.
LEMMA OneMore ==
    ASSUME NEW S, IsFiniteSet(S), NEW x
    PROVE  Cardinality(S \cup {x}) <= Cardinality(S) + 1
  <1>1. Cardinality(S) \in Nat
    BY FS_CardinalityType
  <1>2. Cardinality(S \cup {x}) = IF x \in S THEN Cardinality(S) ELSE Cardinality(S) + 1
    BY FS_AddElement
  <1> QED
    BY <1>1, <1>2

\* A queue of finitely many stamps is finite, and so is every part of it.
LEMMA QueueFinite ==
    ASSUME NEW last \in Nat, NEW o \in SUBSET (Keys \X (1 .. last))
    PROVE  IsFiniteSet(o) /\ Cardinality(o) \in Nat
  <1>1. IsFiniteSet(1 .. last)
    BY FS_Interval
  <1>2. IsFiniteSet(Keys \X (1 .. last))
    BY <1>1, MemoryAssumption, FS_Product
  <1> QED
    BY <1>2, FS_Subset, FS_CardinalityType

\* No entry has two live tickets.
LEMMA LiveFew ==
    ASSUME NEW m \in Maps, NEW last \in Nat, NEW o \in SUBSET (Keys \X (1 .. last))
    PROVE  Cardinality(Live(m, o)) <= Cardinality(Present(m))
  <1> DEFINE f == [t \in Live(m, o) |-> t[1]]
  <1>1. \A t \in Live(m, o) : t = <<t[1], t[2]>> /\ t[1] \in Present(m) /\ t[2] = m[t[1]].stamp
    BY DEF Live, IsLive, Present
  <1>2. f \in [Live(m, o) -> Present(m)]
    BY <1>1
  <1>3. ASSUME NEW t \in Live(m, o), NEW u \in Live(m, o), f[t] = f[u] PROVE t = u
    <2>1. t[1] = u[1]
      BY <1>3
    <2>2. t[2] = u[2]
      BY <1>1, <2>1
    <2> QED
      BY <1>1, <2>1, <2>2
  <1>4. f \in Injection(Live(m, o), Present(m))
    BY <1>2, <1>3 DEF Injection, IsInjective
  <1>5. IsFiniteSet(Present(m))
    BY KeySets DEF Present
  <1> HIDE DEF f
  <1> QED
    BY <1>4, <1>5, FS_Injection

\* What compaction leaves is linear in the number of entries.
LEMMA CompactBounded ==
    ASSUME NEW m \in Maps, NEW last \in Nat, NEW o \in SUBSET (Keys \X (1 .. last)),
           NEW n \in Nat, Cardinality(Present(m)) <= n
    PROVE  Cardinality(Compact(m, o)) <= Max({2 * n, CompactMin})
  <1> DEFINE p == Cardinality(Present(m))
  <1>1. p \in Nat /\ p <= n
    BY KeySets DEF Present
  <1> HIDE DEF p
  <1>2. CompactMin \in Nat /\ 2 * n \in Nat /\ 2 * p \in Nat /\ 2 * p <= 2 * n
    BY <1>1, MemoryAssumption
  <1>3. Max({2 * n, CompactMin}) \in Nat /\ Max({2 * n, CompactMin}) >= 2 * n
        /\ Max({2 * n, CompactMin}) >= CompactMin
    BY <1>2, MaxOfTwo
  <1>4. Max({2 * p, CompactMin}) <= Max({2 * n, CompactMin})
    <2>1. Max({2 * p, CompactMin}) = 2 * p \/ Max({2 * p, CompactMin}) = CompactMin
      BY <1>2, MaxOfTwo
    <2> QED
      BY <1>2, <1>3, <2>1
  <1>5. CASE Cardinality(o) > Max({2 * p, CompactMin})
    <2>1. Compact(m, o) = Live(m, o)
      BY <1>5 DEF Compact, p
    <2>2. Cardinality(Live(m, o)) <= p
      BY LiveFew DEF p
    <2>3. Cardinality(Live(m, o)) \in Nat
      BY QueueFinite DEF Live
    <2> QED
      BY <1>1, <1>2, <1>3, <2>1, <2>2, <2>3
  <1>6. CASE ~(Cardinality(o) > Max({2 * p, CompactMin}))
    <2>1. Compact(m, o) = o
      BY <1>6 DEF Compact, p
    <2>2. Cardinality(o) \in Nat /\ Max({2 * p, CompactMin}) \in Nat
      BY <1>2, QueueFinite, MaxOfTwo
    <2> QED
      BY <1>3, <1>4, <1>6, <2>1, <2>2
  <1> QED
    BY <1>5, <1>6

\* The bound is a number, and a tier within its limit is one below it.
LEMMA MostEntriesFacts ==
    ASSUME config \in Configs
    PROVE  MostEntries \in Nat
  BY MemoryAssumption, KeySets DEF MostEntries

-----------------------------------------------------------------------------

\* An empty tier.
LEMMA InitIInv == Init => IInv
  <1> SUFFICES ASSUME Init PROVE IInv
    OBVIOUS
  <1>1. TypeOK /\ TicketsInSync
    BY DEF Init, TypeOK, TicketsInSync
  <1>2. Cardinality(Present(map)) = 0
    <2>1. Present(map) = {}
      BY DEF Init, Present
    <2> QED
      BY <2>1, FS_EmptySet
  <1>3. WithinEntries
    BY <1>2, MemoryAssumption DEF Init, WithinEntries
  <1>4. QueueBounded
    <2>1. Cardinality(order) = 0
      BY FS_EmptySet DEF Init
    <2>2. MostEntries \in Nat
      BY MostEntriesFacts DEF Init
    <2>3. 2 * MostEntries \in Nat /\ CompactMin \in Nat
      BY <2>2, MemoryAssumption
    <2> QED
      BY <2>1, <2>3, MaxOfTwo DEF QueueBounded
  <1> QED
    BY <1>1, <1>3, <1>4 DEF IInv

\* insert: a new or fresh ticket, compaction and eviction.
LEMMA InsertStep ==
    ASSUME IInv, NEW k \in Keys, NEW v \in Values, Insert(k, v),
           UNCHANGED config, batch' = Tail(batch), batch # <<>>
    PROVE  IInv'
  <1> DEFINE fresh == stamp + 1
             keeps == map[k] # None /\ config.eviction = "Fifo"
             new == [value |-> v, weight |-> WeightOf(k, v),
                     stamp |-> IF keeps THEN map[k].stamp ELSE fresh]
             m == [map EXCEPT ![k] = new]
             o == IF keeps THEN order ELSE order \cup {<<k, fresh>>}
             w == SaturatingSub(SaturatingAdd(total, new.weight),
                                IF map[k] = None THEN 0 ELSE map[k].weight)
  <1>1. stamp' = fresh /\ EvictOver(m, Compact(m, o), w, fresh)
    BY DEF Insert
  <1>2. fresh \in Nat /\ config \in Configs
    BY DEF IInv, TypeOK
  <1>3. new \in Entries
    <2>1. WeightOf(k, v) \in 0 .. UsizeMax
      BY MemoryAssumption DEF WeightOf
    <2>2. keeps => map[k].stamp \in Nat
      BY DEF IInv, TypeOK, Entries
    <2> QED
      BY <1>2, <2>1, <2>2 DEF Entries
  <1>4. m \in Maps
    BY <1>3 DEF IInv, TypeOK, Maps
  <1>5. o \in SUBSET (Keys \X (1 .. fresh))
    BY DEF IInv, TypeOK
  <1>6. InSync(m, o)
    <2>1. <<k, new.stamp>> \in o
      BY DEF IInv, TicketsInSync
    <2>2. m[k] = new /\ \A l \in Keys \ {k} : m[l] = map[l]
      BY DEF IInv, TypeOK
    <2> QED
      BY <2>1, <2>2 DEF InSync, IInv, TicketsInSync
  <1>7. Cardinality(Present(m)) <= MostEntries /\ MostEntries \in Nat
    <2>1. Present(m) = Present(map) \cup {k}
      BY <1>3, MemoryAssumption DEF Present, IInv, TypeOK, Entries
    <2>2. IsFiniteSet(Present(map)) /\ Cardinality(Present(map)) \in Nat
      BY KeySets DEF Present
    <2>3. Cardinality(Present(m)) <= Cardinality(Present(map)) + 1
      <3>1. Cardinality(Present(map) \cup {k}) <= Cardinality(Present(map)) + 1
        BY <2>2, OneMore
      <3> QED
        BY <2>1, <3>1
    <2>4. Cardinality(Present(m)) <= Cardinality(Keys) /\ Cardinality(Present(m)) \in Nat
      BY KeySets DEF Present
    <2>5. MostEntries \in Nat
      BY <1>2, MostEntriesFacts
    <2>6. CASE config.entries = None
      BY <2>4, <2>5, <2>6 DEF MostEntries
    <2>7. CASE config.entries # None
      <3>1. config.entries \in Nat /\ Cardinality(Present(map)) <= config.entries
        BY <1>2, <2>7, MemoryAssumption DEF IInv, WithinEntries
      <3> QED
        BY <2>2, <2>3, <2>4, <2>5, <2>7, <3>1 DEF MostEntries
    <2> QED
      BY <2>6, <2>7
  <1> HIDE DEF m, o, w, fresh
  <1> DEFINE c == Compact(m, o)
  <1>8. Cardinality(c) <= Max({2 * MostEntries, CompactMin})
    BY <1>2, <1>4, <1>5, <1>7, CompactBounded
  <1>9. c \in SUBSET (Keys \X (1 .. fresh)) /\ InSync(m, c)
    BY <1>5, <1>6, CompactInSync
  <1> HIDE DEF c
  <1>10. PICK s \in 0 .. fresh :
           /\ Stops(m, c, w, fresh, s)
           /\ map' = Rest(m, c, s)
           /\ order' = {t \in c : t[2] > s}
    BY <1>1 DEF EvictOver, c
  <1>11. map' \in Maps /\ InSync(map', order')
    BY <1>2, <1>4, <1>9, <1>10, RestInSync
  <1>12. config.entries # None => Cardinality(Present(map')) <= config.entries
    BY <1>2, <1>4, <1>9, <1>10, StopsWithinEntries
  <1>13. TypeOK'
    <2>1. order' \subseteq Keys \X (1 .. stamp')
      BY <1>1, <1>9, <1>10
    <2>2. batch' \in Seq(Operations)
      BY DEF IInv, TypeOK
    <2> QED
      BY <1>1, <1>2, <1>11, <2>1, <2>2 DEF TypeOK, Maps
  <1>14. TicketsInSync' /\ WithinEntries'
    BY <1>11, <1>12 DEF TicketsInSync, InSync, WithinEntries, Present
  <1>15. QueueBounded'
    <2>1. order' \in SUBSET c
      BY <1>10
    <2>2. IsFiniteSet(c) /\ Cardinality(c) \in Nat
      BY <1>2, <1>9, QueueFinite
    <2>3. Cardinality(order') <= Cardinality(c) /\ Cardinality(order') \in Nat
      BY <2>1, <2>2, FS_Subset, FS_CardinalityType
    <2>4. MostEntries' = MostEntries
      BY DEF MostEntries
    <2>5. Max({2 * MostEntries, CompactMin}) \in Nat
      <3>1. 2 * MostEntries \in Nat /\ CompactMin \in Nat
        BY <1>7, MemoryAssumption
      <3> QED
        BY <3>1, MaxOfTwo
    <2>6. Cardinality(order') <= Max({2 * MostEntries, CompactMin})
      BY <1>8, <2>2, <2>3, <2>5
    <2> QED
      BY <2>4, <2>6 DEF QueueBounded
  <1> QED
    BY <1>13, <1>14, <1>15 DEF IInv

\* touch, on the LRU path of a read.
LEMMA TouchStep ==
    ASSUME IInv, NEW k \in Keys, map[k] # None, Touch(k),
           UNCHANGED config, batch' = Tail(batch), batch # <<>>
    PROVE  IInv'
  <1> DEFINE fresh == stamp + 1
             m == [map EXCEPT ![k].stamp = fresh]
             o == order \cup {<<k, fresh>>}
  <1>1. stamp' = fresh /\ map' = m /\ order' = Compact(m, o)
    BY DEF Touch
  <1>2. m \in Maps /\ fresh \in Nat
    BY DEF IInv, TypeOK, Maps, Entries
  <1>3. o \in SUBSET (Keys \X (1 .. fresh))
    BY DEF IInv, TypeOK
  <1>4. m[k].stamp = fresh /\ \A l \in Keys \ {k} : m[l] = map[l]
    BY DEF IInv, TypeOK, Entries
  <1>5. InSync(m, o)
    BY <1>4 DEF InSync, IInv, TicketsInSync
  <1>6. Present(m) = Present(map)
    BY <1>2, <1>4, MemoryAssumption DEF Present, IInv, TypeOK, Entries, Maps
  <1> HIDE DEF m, o, fresh
  <1>7. order' \in SUBSET (Keys \X (1 .. fresh)) /\ InSync(map', order')
    BY <1>1, <1>3, <1>5, CompactInSync
  <1>8. TypeOK'
    BY <1>1, <1>2, <1>7 DEF IInv, TypeOK, Maps
  <1>9. TicketsInSync' /\ WithinEntries'
    BY <1>1, <1>6, <1>7 DEF InSync, IInv, TicketsInSync, WithinEntries, Present
  <1>10. QueueBounded'
    <2>1. MostEntries' = MostEntries
      BY DEF MostEntries
    <2>2. Cardinality(Present(map)) \in Nat /\ Cardinality(Present(map)) <= Cardinality(Keys)
          /\ Cardinality(Keys) \in Nat
      BY KeySets DEF Present
    <2>3. MostEntries \in Nat
      BY MostEntriesFacts DEF IInv, TypeOK
    <2>4. Cardinality(Present(m)) <= MostEntries
      BY <1>6, <2>2, MemoryAssumption DEF IInv, TypeOK, WithinEntries, MostEntries
    <2>5. Cardinality(Compact(m, o)) <= Max({2 * MostEntries, CompactMin})
      BY <1>2, <1>3, <2>3, <2>4, CompactBounded
    <2> QED
      BY <1>1, <2>1, <2>5 DEF QueueBounded
  <1> QED
    BY <1>8, <1>9, <1>10 DEF IInv

\* remove: the ticket goes stale; the other entries keep theirs.
LEMMA RemoveStep ==
    ASSUME IInv, NEW k \in Keys, Remove(k),
           UNCHANGED config, batch' = Tail(batch), batch # <<>>
    PROVE  IInv'
  <1>1. TypeOK'
    BY DEF Remove, IInv, TypeOK
  <1>2. TicketsInSync'
    BY DEF Remove, IInv, TypeOK, TicketsInSync
  <1>3. WithinEntries'
    <2>1. Present(map') \subseteq Present(map)
      BY DEF Remove, IInv, TypeOK, Present
    <2>2. IsFiniteSet(Present(map))
      BY MemoryAssumption, FS_Subset DEF Present
    <2>3. Cardinality(Present(map')) \in Nat /\ Cardinality(Present(map)) \in Nat
          /\ Cardinality(Present(map')) <= Cardinality(Present(map))
      BY <2>1, <2>2, FS_Subset, FS_CardinalityType
    <2>4. config.entries # None => config.entries \in Nat
      BY MemoryAssumption DEF IInv, TypeOK
    <2> QED
      BY <2>3, <2>4 DEF IInv, WithinEntries, Present
  <1>4. QueueBounded'
    BY DEF Remove, IInv, QueueBounded, MostEntries
  <1> QED
    BY <1>1, <1>2, <1>3, <1>4 DEF IInv

\* IInv is an invariant of the tier.
THEOREM IInvAlways == Spec => []IInv
  <1>1. ASSUME IInv, [Next]_vars PROVE IInv'
    <2>1. CASE Call
      BY <1>1, <2>1, MemoryAssumption
      DEF Call, IInv, TypeOK, TicketsInSync, WithinEntries, Present, QueueBounded, MostEntries
    <2>2. CASE Step
      <3> DEFINE c == Head(batch)
      <3>1. batch # <<>> /\ batch' = Tail(batch) /\ UNCHANGED config
        BY <2>2 DEF Step
      <3>2. c.key \in Keys /\ c.value \in Values
        <4>1. c \in Operations
          BY <1>1, <3>1 DEF IInv, TypeOK
        <4> QED
          BY <4>1 DEF Operations
      <3>3. CASE Insert(c.key, c.value)
        BY <1>1, <3>1, <3>2, <3>3, InsertStep
      <3>4. CASE map[c.key] # None /\ Touch(c.key)
        BY <1>1, <3>1, <3>2, <3>4, TouchStep
      <3>5. CASE UNCHANGED <<map, order, total, stamp, displaced>>
        BY <1>1, <3>1, <3>5 DEF IInv, TypeOK, TicketsInSync, WithinEntries, Present, QueueBounded, MostEntries
      <3>6. CASE Remove(c.key)
        BY <1>1, <3>1, <3>2, <3>6, RemoveStep
      <3> QED
        BY <2>2, <3>3, <3>4, <3>5, <3>6 DEF Step, Fetch
    <2>3. CASE UNCHANGED vars
      BY <1>1, <2>3 DEF vars, IInv, TypeOK, TicketsInSync, WithinEntries, Present, QueueBounded, MostEntries
    <2> QED
      BY <1>1, <2>1, <2>2, <2>3 DEF Next
  <1> QED
    BY InitIInv, <1>1, PTL DEF Spec

\* Type correctness of the in-memory tier.
THEOREM TypeCorrect == Spec => []TypeOK
  <1>1. IInv => TypeOK
    BY DEF IInv
  <1> QED
    BY IInvAlways, <1>1, PTL

\* Every entry keeps its live ticket, through touches, replacements, deletes,
\* compaction and eviction.
THEOREM TicketsStayInSync == Spec => []TicketsInSync
  <1>1. IInv => TicketsInSync
    BY DEF IInv
  <1> QED
    BY IInvAlways, <1>1, PTL

\* A tier bounded by entries never holds more than its bound: the eviction
\* loop does not run out of tickets before it is reached.
THEOREM EntryLimitKept == Spec => []WithinEntries
  <1>1. IInv => WithinEntries
    BY DEF IInv
  <1> QED
    BY IInvAlways, <1>1, PTL

\* Stale tickets never pile up: the queue stays linear in the number of
\* entries that the tier may hold, whatever was read, replaced and deleted.
THEOREM QueueStaysBounded == Spec => []QueueBounded
  <1>1. IInv => QueueBounded
    BY DEF IInv
  <1> QED
    BY IInvAlways, <1>1, PTL

-----------------------------------------------------------------------------
(* Sums of weights                                                         *)

\* A sum of weights counts: as many units for every key as it weighs.
Units(m, S) == UNION {{x} \X (1 .. m[x].weight) : x \in S}

\* Finitely many weights have finitely many units.
LEMMA UnitsFinite ==
    ASSUME NEW m, NEW S, IsFiniteSet(S), \A x \in S : m[x].weight \in Nat
    PROVE  IsFiniteSet(Units(m, S)) /\ Cardinality(Units(m, S)) \in Nat
  <1> DEFINE U(x) == {x} \X (1 .. m[x].weight)
             us == {U(x) : x \in S}
             g == [x \in S |-> U(x)]
  <1>1. \A x \in S : IsFiniteSet(U(x))
    <2> SUFFICES ASSUME NEW x \in S PROVE IsFiniteSet(U(x))
      OBVIOUS
    <2>1. IsFiniteSet({x}) /\ IsFiniteSet(1 .. m[x].weight)
      <3>1. m[x].weight \in Int /\ 1 \in Int
        OBVIOUS
      <3>2. IsFiniteSet(1 .. m[x].weight)
        BY <3>1, FS_Interval
      <3>3. IsFiniteSet({x})
        BY FS_Singleton
      <3> QED
        BY <3>2, <3>3
    <2> QED
      BY <2>1, FS_Product
  <1>2. IsFiniteSet(us)
    <2>1. us = {g[x] : x \in S}
      OBVIOUS
    <2>2. g \in Surjection(S, us)
      BY DEF Surjection
    <2> HIDE DEF g, us
    <2> QED
      BY <2>2, FS_Surjection
  <1>3. IsFiniteSet(UNION us)
    <2>1. \A T \in us : IsFiniteSet(T)
      BY <1>1
    <2> HIDE DEF us
    <2> QED
      BY <1>2, <2>1, FS_UNION
  <1>4. Units(m, S) = UNION us
    BY DEF Units
  <1> HIDE DEF us
  <1> QED
    BY <1>3, <1>4, FS_CardinalityType

\* A column of units.
LEMMA Column ==
    ASSUME NEW y, NEW n \in Nat
    PROVE  IsFiniteSet({y} \X (1 .. n)) /\ Cardinality({y} \X (1 .. n)) = n
  <1>1. IsFiniteSet({y}) /\ Cardinality({y}) = 1
    BY FS_Singleton
  <1>2. IsFiniteSet(1 .. n) /\ Cardinality(1 .. n) = n
    BY FS_Interval
  <1>3. IsFiniteSet({y} \X (1 .. n))
        /\ Cardinality({y} \X (1 .. n)) = Cardinality({y}) * Cardinality(1 .. n)
    BY <1>1, <1>2, FS_Product
  <1> QED
    BY <1>1, <1>2, <1>3

\* One more element adds its own units.
LEMMA UnitsAdd ==
    ASSUME NEW m, NEW S, IsFiniteSet(S), NEW y, y \notin S,
           \A x \in S \cup {y} : m[x].weight \in Nat
    PROVE  Cardinality(Units(m, S \cup {y})) = m[y].weight + Cardinality(Units(m, S))
  <1> DEFINE A == Units(m, S)
             B == {y} \X (1 .. m[y].weight)
  <1>1. Units(m, S \cup {y}) = A \cup B /\ A \cap B = {}
    BY DEF Units
  <1>2. IsFiniteSet(A) /\ Cardinality(A) \in Nat
    BY UnitsFinite
  <1>3. IsFiniteSet(B) /\ Cardinality(B) = m[y].weight
    <2>1. m[y].weight \in Nat
      OBVIOUS
    <2> QED
      BY <2>1, Column
  <1>4. Cardinality(A \cap B) = 0
    BY <1>1, FS_EmptySet
  <1> HIDE DEF A, B
  <1>5. Cardinality(A \cup B) = Cardinality(A) + Cardinality(B) - Cardinality(A \cap B)
    BY <1>2, <1>3, FS_Union
  <1>6. Cardinality(A \cup B) = m[y].weight + Cardinality(A)
    <2>1. m[y].weight \in Nat
      OBVIOUS
    <2> QED
      BY <1>2, <1>3, <1>4, <1>5, <2>1
  <1> QED
    BY <1>1, <1>6 DEF A

\* MapThenSumSet as a recursion over the subsets.
Pick(s) == CHOOSE x \in s : TRUE
Recursive(m, S, g) ==
    g = [s \in SUBSET S |-> IF s = {} THEN 0 ELSE m[Pick(s)].weight + g[s \ {Pick(s)}]]

(***************************************************************************)
(* The recursion has one solution, the number of units: it solves it, and  *)
(* a least set where another one differs cannot exist.                     *)
(***************************************************************************)
LEMMA SumCounts ==
    ASSUME NEW m, NEW S, IsFiniteSet(S), \A x \in S : m[x].weight \in Nat
    PROVE  /\ \E h : Recursive(m, S, h)
           /\ \A h : Recursive(m, S, h) => h[S] = Cardinality(Units(m, S))
  <1> DEFINE g == [s \in SUBSET S |-> Cardinality(Units(m, s))]
  <1>2. \A s \in SUBSET S : IsFiniteSet(s)
    BY FS_Subset
  <1>3. \A s \in SUBSET S : s # {} => Pick(s) \in s
    BY DEF Pick
  <1>4. ASSUME NEW s \in SUBSET S, s # {}
        PROVE  g[s] = m[Pick(s)].weight + g[s \ {Pick(s)}]
    <2> DEFINE p == Pick(s)
    <2>1. p \in s /\ s = (s \ {p}) \cup {p} /\ s \ {p} \in SUBSET S
      BY <1>3, <1>4
    <2> HIDE DEF p
    <2>2. IsFiniteSet(s \ {p})
      BY <1>2, <2>1
    <2>3. Cardinality(Units(m, (s \ {p}) \cup {p})) = m[p].weight + Cardinality(Units(m, s \ {p}))
      BY <2>1, <2>2, UnitsAdd
    <2> QED
      BY <2>1, <2>3 DEF p
  <1>5. g[{}] = 0
    <2>1. Units(m, {}) = {}
      BY DEF Units
    <2> QED
      BY <2>1, FS_EmptySet
  <1>6. Recursive(m, S, g)
    <2> DEFINE r == [s \in SUBSET S |-> IF s = {} THEN 0 ELSE m[Pick(s)].weight + g[s \ {Pick(s)}]]
    <2>1. \A s \in SUBSET S : g[s] = r[s]
      BY <1>4, <1>5
    <2>2. g = r
      BY <2>1, Zenon
    <2> QED
      BY <2>2 DEF Recursive
  <1> HIDE DEF g
  <1>7. ASSUME NEW iter, Recursive(m, S, iter) PROVE iter[S] = g[S]
    <2> SUFFICES \A s \in SUBSET S : iter[s] = g[s]
      OBVIOUS
    <2> DEFINE Bad == {s \in SUBSET S : iter[s] # g[s]}
    <2> SUFFICES ASSUME Bad # {} PROVE FALSE
      OBVIOUS
    <2>1. IsWellFoundedOn(StrictSubsetOrdering(S), SUBSET S)
      BY FS_StrictSubsetOrderingWellFounded, FS_FiniteSubsetsOfFinite
    <2>2. Bad \subseteq SUBSET S
      OBVIOUS
    <2> HIDE DEF Bad
    <2>3. PICK s \in Bad : \A r \in Bad : <<r, s>> \notin StrictSubsetOrdering(S)
      BY <2>1, <2>2, WFMin
    <2> USE DEF Bad
    <2>4. CASE s = {}
      BY <1>5, <1>7, <2>4 DEF Recursive
    <2>5. CASE s # {}
      <3> DEFINE r == s \ {Pick(s)}
      <3>1. r \in SUBSET S /\ r # s /\ r \subseteq s
        BY <1>3, <2>5
      <3>2. r \notin Bad
        BY <2>3, <3>1 DEF StrictSubsetOrdering
      <3>3. iter[r] = g[r]
        BY <3>1, <3>2
      <3>4. iter[s] = m[Pick(s)].weight + iter[r]
        BY <1>7, <2>5 DEF Recursive
      <3> QED
        BY <1>4, <2>5, <3>3, <3>4
    <2> QED
      BY <2>4, <2>5
  <1>8. g[S] = Cardinality(Units(m, S))
    BY DEF g
  <1> QED
    BY <1>6, <1>7, <1>8

\* The weights in a map are numbers, and so is their sum.
LEMMA SumFacts ==
    ASSUME NEW m \in Maps, NEW S \in SUBSET Present(m)
    PROVE  /\ MapThenSumSet(LAMBDA k : m[k].weight, S) = Cardinality(Units(m, S))
           /\ Cardinality(Units(m, S)) \in Nat /\ IsFiniteSet(Units(m, S))
           /\ \A k \in S : m[k].weight \in 0 .. UsizeMax
  <1>1. S \in SUBSET Keys /\ \A k \in S : m[k].weight \in 0 .. UsizeMax
    BY DEF Present, Maps, Entries
  <1>2. IsFiniteSet(S) /\ \A k \in S : m[k].weight \in Nat
    BY <1>1, KeySets
  <1>3. MapThenSumSet(LAMBDA k : m[k].weight, S) = (CHOOSE h : Recursive(m, S, h))[S]
    BY Zenon DEF MapThenSumSet, MapThenFoldSet, Recursive, Pick
  <1>4. (CHOOSE h : Recursive(m, S, h))[S] = Cardinality(Units(m, S))
    <2>1. \E h : Recursive(m, S, h)
      BY <1>2, SumCounts
    <2>2. Recursive(m, S, CHOOSE h : Recursive(m, S, h))
      BY <2>1, Zenon
    <2> QED
      BY <1>2, <2>2, SumCounts
  <1>5. Cardinality(Units(m, S)) \in Nat /\ IsFiniteSet(Units(m, S))
    BY <1>2, UnitsFinite
  <1> QED
    BY <1>1, <1>3, <1>4, <1>5

\* What a map weighs, and what it weighs without some of its keys.
Weight(m) == Cardinality(Units(m, Present(m)))
WeightWithout(m, S) == Cardinality(Units(m, Present(m) \ S))

LEMMA WeightSplit ==
    ASSUME NEW m \in Maps, NEW S \in SUBSET Present(m)
    PROVE  /\ Weight(m) = Cardinality(Units(m, S)) + WeightWithout(m, S)
           /\ Weight(m) \in Nat /\ WeightWithout(m, S) \in Nat /\ Cardinality(Units(m, S)) \in Nat
  <1> DEFINE A == Units(m, S)
             B == Units(m, Present(m) \ S)
  <1>1. Units(m, Present(m)) = A \cup B /\ A \cap B = {}
    BY DEF Units
  <1>2. IsFiniteSet(A) /\ Cardinality(A) \in Nat /\ IsFiniteSet(B) /\ Cardinality(B) \in Nat
    <2>1. Present(m) \ S \in SUBSET Present(m)
      OBVIOUS
    <2> HIDE DEF Present
    <2> QED
      BY <2>1, SumFacts
  <1>3. Cardinality(A \cap B) = 0
    BY <1>1, FS_EmptySet
  <1> HIDE DEF A, B
  <1>4. Cardinality(A \cup B) = Cardinality(A) + Cardinality(B) - Cardinality(A \cap B)
    BY <1>2, FS_Union
  <1>5. Cardinality(A \cup B) = Cardinality(A) + Cardinality(B)
    BY <1>2, <1>3, <1>4
  <1> QED
    BY <1>1, <1>2, <1>5 DEF Weight, WeightWithout, A, B

\* The rest of two maps that agree on it weighs the same.
LEMMA SameWithout ==
    ASSUME NEW m, NEW n, NEW S \in SUBSET Keys, \A k \in Keys \ S : m[k] = n[k]
    PROVE  WeightWithout(m, S) = WeightWithout(n, S)
  <1>1. Present(m) \ S = Present(n) \ S
    BY DEF Present
  <1>2. Units(m, Present(m) \ S) = Units(n, Present(m) \ S)
    BY DEF Units, Present
  <1> QED
    BY <1>1, <1>2 DEF WeightWithout

\* One key is what it weighs.
LEMMA WeightOfOne ==
    ASSUME NEW m \in Maps, NEW k \in Keys
    PROVE  /\ Weight(m) = (IF m[k] = None THEN 0 ELSE m[k].weight) + WeightWithout(m, {k})
           /\ WeightWithout(m, {k}) \in Nat /\ Weight(m) \in Nat
           /\ m[k] # None => m[k].weight \in 0 .. UsizeMax
  <1>1. CASE m[k] = None
    <2>1. Present(m) \ {k} = Present(m) \ {}
      BY <1>1 DEF Present
    <2>2. Units(m, {}) = {}
      BY DEF Units
    <2>3. Cardinality(Units(m, {})) = 0
      BY <2>2, FS_EmptySet
    <2>4. Weight(m) = Cardinality(Units(m, {})) + WeightWithout(m, {})
          /\ Weight(m) \in Nat /\ WeightWithout(m, {}) \in Nat
      BY WeightSplit
    <2>5. WeightWithout(m, {}) = WeightWithout(m, {k})
      BY <2>1 DEF WeightWithout
    <2> QED
      BY <1>1, <2>3, <2>4, <2>5
  <1>2. CASE m[k] # None
    <2>1. {k} \in SUBSET Present(m)
      BY <1>2 DEF Present
    <2>2. m[k].weight \in 0 .. UsizeMax
      BY <2>1, SumFacts
    <2>3. Cardinality(Units(m, {k})) = m[k].weight
      <3>1. Units(m, {k}) = {k} \X (1 .. m[k].weight)
        BY DEF Units
      <3>2. m[k].weight \in Nat
        BY <2>2, MemoryAssumption
      <3> QED
        BY <3>1, <3>2, Column
    <2>4. Weight(m) = Cardinality(Units(m, {k})) + WeightWithout(m, {k})
          /\ Weight(m) \in Nat /\ WeightWithout(m, {k}) \in Nat
      BY <2>1, WeightSplit
    <2> QED
      BY <1>2, <2>2, <2>3, <2>4
  <1> QED
    BY <1>1, <1>2

-----------------------------------------------------------------------------
(* The weight total                                                        *)

(***************************************************************************)
(* The saturating arithmetic of the total is exact as long as an entry on  *)
(* top of a full budget stays within a usize.  (Where it does not, a       *)
(* replacement can leave the total short of the entries for ever.)         *)
(***************************************************************************)
NoOverflow ==
    \A c \in Configs, k \in Keys, v \in Values :
        c.bytes # None => c.bytes + Weigh(k, v) <= UsizeMax

\* The inductive invariant: a tier without a budget weighs nothing.
WInv ==
    /\ IInv
    /\ total = Weight(map) /\ total \in Nat
    /\ IF config.bytes = None THEN total = 0 ELSE total <= config.bytes

\* Eviction subtracts what it removes, and stops within the budget.
LEMMA EvictedWeight ==
    ASSUME config \in Configs, NEW m \in Maps, NEW last \in Nat,
           NEW o \in SUBSET (Keys \X (1 .. last)), InSync(m, o), NEW s \in 0 .. last,
           NEW w, w = Weight(m)
    PROVE  /\ RestWeight(m, o, w, s) = Weight(Rest(m, o, s))
           /\ Weight(Rest(m, o, s)) \in Nat /\ Weight(Rest(m, o, s)) <= w
           /\ config.bytes # None /\ Stops(m, o, w, last, s)
                => Weight(Rest(m, o, s)) <= config.bytes
  <1> DEFINE P == Popped(m, o, s)
             r == Rest(m, o, s)
  <1>1. P \in SUBSET Present(m) /\ P \in SUBSET Keys
    BY DEF Popped, Present
  <1>2. \A k \in Keys : r[k] = IF k \in P THEN None ELSE m[k]
    BY DEF Rest
  <1>3. r \in Maps
    BY RestInSync
  <1> HIDE DEF P, r
  <1>4. /\ Weight(m) = Cardinality(Units(m, P)) + WeightWithout(m, P)
        /\ Weight(m) \in Nat /\ WeightWithout(m, P) \in Nat /\ Cardinality(Units(m, P)) \in Nat
    BY <1>1, WeightSplit
  <1>5. MapThenSumSet(LAMBDA k : m[k].weight, P) = Cardinality(Units(m, P))
    BY <1>1, SumFacts
  <1>6. Weight(r) = WeightWithout(m, P)
    <2>1. Present(r) \ P = Present(r)
      BY <1>2 DEF Present
    <2>2. Weight(r) = WeightWithout(r, P)
      BY <2>1 DEF Weight, WeightWithout
    <2>3. WeightWithout(r, P) = WeightWithout(m, P)
      BY <1>1, <1>2, SameWithout
    <2> QED
      BY <2>2, <2>3
  <1>7. RestWeight(m, o, w, s) = SaturatingSub(w, Cardinality(Units(m, P)))
    BY <1>5 DEF RestWeight, P
  <1>8. RestWeight(m, o, w, s) = Weight(r) /\ Weight(r) \in Nat /\ Weight(r) <= w
    BY <1>4, <1>6, <1>7 DEF SaturatingSub
  <1>9. ASSUME config.bytes # None, Stops(m, o, w, last, s) PROVE Weight(r) <= config.bytes
    <2>1. config.bytes \in Nat
      BY <1>9, MemoryAssumption
    <2>2. CASE s = last
      <3>1. Present(r) = {}
        BY <2>2, PopAll DEF r
      <3>2. Units(r, {}) = {}
        BY DEF Units
      <3>3. Weight(r) = 0
        BY <3>1, <3>2, FS_EmptySet DEF Weight
      <3> QED
        BY <2>1, <3>3
    <2>3. CASE s # last
      <3>1. ~(RestWeight(m, o, w, s) > config.bytes)
        BY <1>9, <2>3 DEF Stops, Over
      <3> QED
        BY <1>8, <2>1, <3>1
    <2> QED
      BY <2>2, <2>3
  <1> QED
    BY <1>8, <1>9 DEF r

\* insert: the old weight goes, the new one comes, and eviction follows.
LEMMA Inserted ==
    ASSUME NoOverflow, WInv, NEW k \in Keys, NEW v \in Values, Insert(k, v)
    PROVE  \E m \in Maps, c \in SUBSET (Keys \X (1 .. stamp + 1)), w \in Nat :
              /\ m[k] = [value |-> v, weight |-> WeightOf(k, v),
                         stamp |-> IF map[k] # None /\ config.eviction = "Fifo"
                                   THEN map[k].stamp ELSE stamp + 1]
              /\ m[k] # None /\ \A l \in Keys \ {k} : m[l] = map[l]
              /\ InSync(m, c) /\ w = Weight(m) /\ (config.bytes = None => w = 0)
              /\ stamp' = stamp + 1 /\ EvictOver(m, c, w, stamp + 1)
  <1> DEFINE fresh == stamp + 1
             keeps == map[k] # None /\ config.eviction = "Fifo"
             new == [value |-> v, weight |-> WeightOf(k, v),
                     stamp |-> IF keeps THEN map[k].stamp ELSE fresh]
             m == [map EXCEPT ![k] = new]
             o == IF keeps THEN order ELSE order \cup {<<k, fresh>>}
             old == IF map[k] = None THEN 0 ELSE map[k].weight
             w == SaturatingSub(SaturatingAdd(total, new.weight), old)
  <1>1. stamp' = fresh /\ EvictOver(m, Compact(m, o), w, fresh)
    BY DEF Insert
  <1>2. fresh \in Nat /\ config \in Configs /\ map \in Maps
    BY DEF WInv, IInv, TypeOK, Maps
  <1>3. new \in Entries /\ new.weight = WeightOf(k, v) /\ new.weight \in Nat
    <2>1. WeightOf(k, v) \in 0 .. UsizeMax
      BY MemoryAssumption DEF WeightOf
    <2>2. keeps => map[k].stamp \in Nat
      BY DEF WInv, IInv, TypeOK, Entries
    <2> QED
      BY <1>2, <2>1, <2>2, MemoryAssumption DEF Entries
  <1>4. m \in Maps /\ m[k] = new /\ m[k] # None /\ \A l \in Keys \ {k} : m[l] = map[l]
    BY <1>2, <1>3, MemoryAssumption DEF Maps, Entries
  <1>5. o \in SUBSET (Keys \X (1 .. fresh))
    BY DEF WInv, IInv, TypeOK
  <1>6. InSync(m, o)
    <2>1. <<k, new.stamp>> \in o
      BY DEF WInv, IInv, TicketsInSync
    <2> QED
      BY <1>4, <2>1 DEF InSync, WInv, IInv, TicketsInSync
  <1> HIDE DEF m, o, fresh, new
  <1>7. total + new.weight <= UsizeMax
    <2>1. CASE config.bytes = None
      BY <1>3, <2>1, MemoryAssumption DEF WInv, WeightOf
    <2>2. CASE config.bytes # None
      <3>1. config.bytes \in Nat /\ config.bytes + Weigh(k, v) <= UsizeMax /\ UsizeMax \in Nat
        BY <1>2, <2>2, MemoryAssumption DEF NoOverflow
      <3>2. new.weight = Weigh(k, v) /\ total \in Nat /\ total <= config.bytes
        BY <1>3, <2>2 DEF WInv, WeightOf
      <3> QED
        BY <1>3, <3>1, <3>2
    <2> QED
      BY <2>1, <2>2
  <1>8. /\ total = old + WeightWithout(map, {k}) /\ old \in Nat
        /\ WeightWithout(map, {k}) \in Nat /\ total \in Nat
    <2>1. map[k] # None => map[k].weight \in Nat
      BY <1>2, MemoryAssumption DEF Maps, Entries
    <2>2. old \in Nat
      BY <2>1
    <2> QED
      BY <1>2, <2>2, WeightOfOne DEF WInv
  <1>9. Weight(m) = new.weight + WeightWithout(m, {k})
    BY <1>4, WeightOfOne
  <1>10. WeightWithout(m, {k}) = WeightWithout(map, {k})
    BY <1>4, SameWithout
  <1> HIDE DEF old
  <1>11. w = Weight(m) /\ Weight(m) \in Nat
    <2>1. SaturatingAdd(total, new.weight) = total + new.weight
      BY <1>7 DEF SaturatingAdd
    <2>2. w = total + new.weight - old
      BY <1>3, <1>8, <2>1 DEF SaturatingSub
    <2> QED
      BY <1>3, <1>8, <1>9, <1>10, <2>2
  <1>12. config.bytes = None => w = 0
    <2> SUFFICES ASSUME config.bytes = None PROVE w = 0
      OBVIOUS
    <2>1. total = 0 /\ new.weight = 0
      BY <1>3 DEF WInv, WeightOf
    <2>2. old = 0 /\ WeightWithout(map, {k}) = 0
      BY <1>8, <2>1
    <2> QED
      BY <1>9, <1>10, <1>11, <2>1, <2>2
  <1> HIDE DEF w
  <1> DEFINE c == Compact(m, o)
  <1>13. c \in SUBSET (Keys \X (1 .. fresh)) /\ InSync(m, c)
    BY <1>5, <1>6, CompactInSync
  <1> HIDE DEF c
  <1>14. m[k] = [value |-> v, weight |-> WeightOf(k, v),
                 stamp |-> IF map[k] # None /\ config.eviction = "Fifo"
                           THEN map[k].stamp ELSE stamp + 1]
    BY <1>4 DEF new, fresh
  <1>15. stamp' = fresh /\ EvictOver(m, c, w, fresh)
    BY <1>1 DEF c
  <1> QED
    BY <1>4, <1>11, <1>12, <1>13, <1>14, <1>15 DEF fresh

LEMMA InsertWeight ==
    ASSUME NoOverflow, WInv, NEW k \in Keys, NEW v \in Values, Insert(k, v),
           UNCHANGED config, IInv'
    PROVE  WInv'
  <1> DEFINE fresh == stamp + 1
  <1>1. fresh \in Nat /\ config \in Configs
    BY DEF WInv, IInv, TypeOK
  <1> HIDE DEF fresh
  <1>2. PICK m \in Maps, c \in SUBSET (Keys \X (1 .. fresh)), w \in Nat :
           /\ InSync(m, c) /\ w = Weight(m) /\ (config.bytes = None => w = 0)
           /\ EvictOver(m, c, w, fresh)
    BY Inserted DEF fresh
  <1>3. PICK s \in 0 .. fresh :
           /\ Stops(m, c, w, fresh, s)
           /\ map' = Rest(m, c, s)
           /\ total' = RestWeight(m, c, w, s)
    BY <1>2 DEF EvictOver
  <1>4. /\ RestWeight(m, c, w, s) = Weight(Rest(m, c, s))
        /\ Weight(Rest(m, c, s)) \in Nat /\ Weight(Rest(m, c, s)) <= w
        /\ config.bytes # None => Weight(Rest(m, c, s)) <= config.bytes
    BY <1>1, <1>2, <1>3, EvictedWeight
  <1>5. total' = Weight(map') /\ total' \in Nat
    BY <1>3, <1>4
  <1>6. IF config.bytes = None THEN total' = 0 ELSE total' <= config.bytes
    BY <1>2, <1>3, <1>4
  <1> QED
    BY <1>5, <1>6 DEF WInv, Weight, Units, Present

\* touch: a ticket weighs nothing.
LEMMA TouchWeight ==
    ASSUME WInv, NEW k \in Keys, map[k] # None, Touch(k), UNCHANGED config, IInv'
    PROVE  WInv'
  <1>1. map \in Maps /\ map' \in Maps
    BY DEF WInv, IInv, TypeOK, Maps
  <1>2. map'[k].weight = map[k].weight /\ map'[k] # None /\ \A l \in Keys \ {k} : map'[l] = map[l]
    <2>1. map[k] \in Entries /\ stamp \in Nat
      BY <1>1 DEF Maps, WInv, IInv, TypeOK
    <2>2. map' = [map EXCEPT ![k] = [map[k] EXCEPT !.stamp = stamp + 1]]
      BY DEF Touch
    <2> DEFINE e == [map[k] EXCEPT !.stamp = stamp + 1]
    <2>3. e \in Entries /\ e.weight = map[k].weight
      BY <2>1 DEF Entries
    <2> HIDE DEF e
    <2>4. e # None
      BY <2>3, MemoryAssumption DEF Entries
    <2>5. map' = [map EXCEPT ![k] = e]
      BY <2>2 DEF e
    <2> QED
      BY <1>1, <2>3, <2>4, <2>5 DEF Maps
  <1>3. WeightWithout(map', {k}) = WeightWithout(map, {k})
    BY <1>2, SameWithout
  <1>4. Weight(map') = Weight(map)
    BY <1>1, <1>2, <1>3, WeightOfOne
  <1> QED
    BY <1>4 DEF Touch, WInv, Weight, Units, Present

\* remove: the total loses the weight of the entry.
LEMMA RemoveWeight ==
    ASSUME WInv, NEW k \in Keys, Remove(k), UNCHANGED config, IInv'
    PROVE  WInv'
  <1> DEFINE old == IF map[k] = None THEN 0 ELSE map[k].weight
  <1>1. map \in Maps /\ map' \in Maps /\ config \in Configs
    BY DEF WInv, IInv, TypeOK, Maps
  <1>2. map'[k] = None /\ \A l \in Keys \ {k} : map'[l] = map[l]
    BY <1>1 DEF Remove, Maps
  <1>3. WeightWithout(map', {k}) = WeightWithout(map, {k})
    BY <1>2, SameWithout
  <1>4. Weight(map') = WeightWithout(map, {k}) /\ Weight(map') \in Nat
    BY <1>1, <1>2, <1>3, WeightOfOne
  <1>5. total = old + WeightWithout(map, {k}) /\ total \in Nat /\ old \in Nat
    <2>1. map[k] # None => map[k].weight \in Nat
      BY <1>1, MemoryAssumption DEF Maps, Entries
    <2> QED
      BY <1>1, <2>1, WeightOfOne DEF WInv
  <1>6. total' = total - old
    BY <1>4, <1>5 DEF Remove, SaturatingSub
  <1> HIDE DEF old
  <1>7. total' = Weight(map') /\ total' \in Nat /\ total' <= total
    BY <1>3, <1>4, <1>5, <1>6
  <1>8. IF config.bytes = None THEN total' = 0 ELSE total' <= config.bytes
    BY <1>1, <1>5, <1>7, MemoryAssumption DEF WInv
  <1> QED
    BY <1>7, <1>8 DEF WInv, Weight, Units, Present

\* WInv is an invariant of a tier whose weights do not overflow.
THEOREM WInvAlways == ASSUME NoOverflow PROVE Spec => []WInv
  <1>1. ASSUME Init, IInv PROVE WInv
    <2>1. Present(map) = {} /\ Units(map, {}) = {}
      BY <1>1 DEF Init, Present, Units
    <2>2. Weight(map) = 0
      BY <2>1, FS_EmptySet DEF Weight
    <2>3. config.bytes # None => config.bytes >= 0
      BY <1>1, MemoryAssumption DEF Init
    <2> QED
      BY <1>1, <2>2, <2>3 DEF Init, WInv
  <1>2. ASSUME WInv, [Next]_vars, IInv' PROVE WInv'
    <2>1. CASE UNCHANGED <<config, map, total>>
      BY <1>2, <2>1 DEF WInv, Weight, Units, Present
    <2>2. CASE Step
      <3> DEFINE c == Head(batch)
      <3>1. batch # <<>> /\ UNCHANGED config
        BY <2>2 DEF Step
      <3>2. c.key \in Keys /\ c.value \in Values
        <4>1. c \in Operations
          BY <1>2, <3>1 DEF WInv, IInv, TypeOK
        <4> QED
          BY <4>1 DEF Operations
      <3>3. CASE Insert(c.key, c.value)
        BY <1>2, <3>1, <3>2, <3>3, InsertWeight
      <3>4. CASE map[c.key] # None /\ Touch(c.key)
        BY <1>2, <3>1, <3>2, <3>4, TouchWeight
      <3>5. CASE UNCHANGED <<map, order, total, stamp, displaced>>
        BY <2>1, <3>1, <3>5
      <3>6. CASE Remove(c.key)
        BY <1>2, <3>1, <3>2, <3>6, RemoveWeight
      <3> QED
        BY <2>2, <3>3, <3>4, <3>5, <3>6 DEF Step, Fetch
    <2> QED
      BY <1>2, <2>1, <2>2 DEF Next, Call, vars
  <1> QED
    BY IInvAlways, <1>1, <1>2, PTL DEF Spec

(***************************************************************************)
(* The books stay in sync: after any sequence of puts, reads, deletes,     *)
(* compactions and evictions the total is the sum of the weights, a byte   *)
(* budget is kept and the queue is bounded, as long as an entry on top of  *)
(* a full budget stays within a usize.                                     *)
(***************************************************************************)
THEOREM BooksStayInSync == ASSUME NoOverflow PROVE Spec => []BooksInSync
  <1>1. ASSUME WInv PROVE BooksInSync
    <2>1. map \in Maps
      BY <1>1 DEF WInv, IInv, TypeOK, Maps
    <2>2. Present(map) \in SUBSET Present(map)
      OBVIOUS
    <2>3. MapThenSumSet(LAMBDA k : map[k].weight, Present(map)) = Weight(map)
      BY <2>1, <2>2, SumFacts DEF Weight
    <2>4. WeightInSync /\ WithinBytes
      BY <1>1, <2>3 DEF WInv, WeightInSync, WithinBytes
    <2> QED
      BY <1>1, <2>4 DEF WInv, IInv, BooksInSync
  <1> QED
    BY WInvAlways, <1>1, PTL

-----------------------------------------------------------------------------
(* Queues by age                                                           *)

\* q is the keys ks of m, oldest first.
Aged(m, ks, q) ==
    /\ q \in Seq(ks)
    /\ \A k \in ks : \E i \in 1 .. Len(q) : q[i] = k
    /\ \A i, j \in 1 .. Len(q) : i < j => m[q[i]].stamp < m[q[j]].stamp

\* An initial segment of an interval is as long as it has elements.
LEMMA Segment ==
    ASSUME NEW n \in Nat, NEW I \in SUBSET (1 .. n), \A i \in I, j \in 1 .. n : j < i => j \in I
    PROVE  Cardinality(I) \in 0 .. n /\ I = 1 .. Cardinality(I)
  <1>1. \A i \in Nat : IsFiniteSet(1 .. i) /\ Cardinality(1 .. i) = i
    BY FS_Interval
  <1>2. IsFiniteSet(I) /\ Cardinality(I) \in Nat /\ Cardinality(I) <= n
    <2>1. IsFiniteSet(I) /\ Cardinality(I) <= Cardinality(1 .. n)
      BY <1>1, FS_Subset
    <2> QED
      BY <1>1, <2>1, FS_CardinalityType
  <1>3. ASSUME NEW i \in I PROVE i <= Cardinality(I)
    <2>1. 1 .. i \in SUBSET I /\ i \in Nat
      OBVIOUS
    <2>2. Cardinality(1 .. i) <= Cardinality(I)
      BY <1>2, <2>1, FS_Subset
    <2> QED
      BY <1>1, <2>1, <2>2
  <1>4. ASSUME NEW i \in 1 .. n, i \notin I PROVE Cardinality(I) < i
    <2>1. I \in SUBSET (1 .. i - 1) /\ i - 1 \in Nat
      BY <1>4
    <2>2. Cardinality(I) <= Cardinality(1 .. i - 1)
      BY <1>1, <2>1, FS_Subset
    <2> QED
      BY <1>1, <1>2, <2>1, <2>2
  <1>5. \A i \in 1 .. n : i \in I <=> i <= Cardinality(I)
    BY <1>2, <1>3, <1>4
  <1>6. PICK c \in 0 .. n : c = Cardinality(I)
    BY <1>2
  <1>7. I = 1 .. c
    <2>1. \A i \in I : i \in 1 .. c
      BY <1>3, <1>6
    <2>2. \A i \in 1 .. c : i \in 1 .. n /\ i <= Cardinality(I)
      BY <1>6
    <2>3. \A i \in 1 .. c : i \in I
      BY <1>5, <2>2
    <2> QED
      BY <2>1, <2>3
  <1> QED
    BY <1>6, <1>7

Oldest(q, n) == {q[i] : i \in 1 .. n}

\* The oldest keys of a queue are as many as their places.
LEMMA OldestCount ==
    ASSUME NEW m \in Maps, NEW ks \in SUBSET Present(m), NEW q, Aged(m, ks, q), NEW n \in 0 .. Len(q)
    PROVE  Cardinality(Oldest(q, n)) = n
  <1> DEFINE f == [i \in 1 .. n |-> q[i]]
             S == {q[i] : i \in 1 .. n}
  <1>1. n \in Nat /\ \A i \in 1 .. n : i \in 1 .. Len(q) /\ q[i] \in ks
    BY DEF Aged
  <1>2. \A k \in ks : m[k].stamp \in Nat
    BY DEF Maps, Entries, Present
  <1>3. \A i, j \in 1 .. n : i # j => f[i] # f[j]
    <2>1. ASSUME NEW i \in 1 .. n, NEW j \in 1 .. n, i < j PROVE f[i] # f[j]
      <3>1. m[q[i]].stamp < m[q[j]].stamp /\ m[q[i]].stamp \in Nat
        BY <1>1, <1>2, <2>1 DEF Aged
      <3> QED
        BY <3>1
    <2> QED
      BY <1>1, <2>1
  <1>4. f \in Bijection(1 .. n, S)
    <2>1. f \in [1 .. n -> S] /\ \A t \in S : \E i \in 1 .. n : f[i] = t
      OBVIOUS
    <2> QED
      BY <1>3, <2>1 DEF Bijection, Injection, Surjection, IsInjective
  <1> HIDE DEF f, S
  <1>5. IsFiniteSet(1 .. n) /\ Cardinality(1 .. n) = n
    BY <1>1, FS_Interval
  <1>6. Cardinality(S) = n
    BY <1>4, <1>5, FS_Bijection DEF ExistsBijection
  <1> QED
    BY <1>6 DEF S, Oldest

\* Keys have one order by age, the one of ByAge.
LEMMA AgedUnique ==
    ASSUME NEW m \in Maps, NEW ks \in SUBSET Present(m), NEW q, Aged(m, ks, q)
    PROVE  q = ByAge(m, ks) /\ Len(q) = Cardinality(ks)
  <1> DEFINE Older(k) == {l \in ks : m[l].stamp < m[k].stamp}
  <1>1. \A k \in ks : m[k].stamp \in Nat
    BY DEF Maps, Entries, Present
  <1>2. Len(q) \in Nat /\ q \in [1 .. Len(q) -> ks]
    BY DEF Aged
  <1>3. ks = {q[i] : i \in 1 .. Len(q)}
    BY <1>2 DEF Aged
  <1>4. Cardinality(ks) = Len(q)
    <2>1. Len(q) \in 0 .. Len(q)
      BY <1>2
    <2> QED
      BY <1>3, <2>1, OldestCount DEF Oldest
  <1>5. ASSUME NEW i \in 1 .. Len(q) PROVE Cardinality(Older(q[i])) = i - 1
    <2>1. i - 1 \in 0 .. Len(q)
      BY <1>2
    <2>2. Older(q[i]) = {q[j] : j \in 1 .. i - 1}
      <3>1. ASSUME NEW j \in 1 .. Len(q) PROVE m[q[j]].stamp < m[q[i]].stamp <=> j < i
        <4>1. m[q[j]].stamp \in Nat /\ m[q[i]].stamp \in Nat
          BY <1>1, <1>2
        <4>2. j < i => m[q[j]].stamp < m[q[i]].stamp
          BY DEF Aged
        <4>3. i < j => m[q[i]].stamp < m[q[j]].stamp
          BY DEF Aged
        <4> QED
          BY <1>2, <4>1, <4>2, <4>3
      <3>2. ASSUME NEW l \in Older(q[i]) PROVE \E j \in 1 .. i - 1 : l = q[j]
        <4>1. PICK j \in 1 .. Len(q) : l = q[j]
          BY <1>3
        <4>2. j < i
          BY <3>1, <4>1
        <4> QED
          BY <1>2, <4>1, <4>2
      <3>3. ASSUME NEW j \in 1 .. i - 1 PROVE q[j] \in Older(q[i])
        <4>1. j \in 1 .. Len(q) /\ j < i
          BY <1>2
        <4> QED
          BY <1>2, <3>1, <4>1
      <3> QED
        BY <3>2, <3>3
    <2> QED
      BY <2>1, <2>2, OldestCount DEF Oldest
  <1> HIDE DEF Older
  <1>6. ASSUME NEW i \in 1 .. Len(q)
        PROVE  q[i] = CHOOSE k \in ks : Cardinality(Older(k)) = i - 1
    <2>1. q[i] \in ks /\ Cardinality(Older(q[i])) = i - 1
      BY <1>2, <1>5
    <2>2. ASSUME NEW k \in ks, Cardinality(Older(k)) = i - 1 PROVE k = q[i]
      <3>1. PICK j \in 1 .. Len(q) : k = q[j]
        BY <1>3
      <3>2. j - 1 = i - 1
        BY <1>5, <2>2, <3>1
      <3> QED
        BY <1>2, <3>1, <3>2
    <2> QED
      BY <2>1, <2>2
  <1>7. ByAge(m, ks) = [i \in 1 .. Len(q) |-> CHOOSE k \in ks : Cardinality(Older(k)) = i - 1]
    BY <1>4 DEF ByAge, Older
  <1>8. q = ByAge(m, ks)
    BY <1>2, <1>6, <1>7
  <1> QED
    BY <1>4, <1>8

\* A younger key goes to the back.
LEMMA AgedAppend ==
    ASSUME NEW m, NEW ks, NEW q, Aged(m, ks, q), NEW k,
           \A l \in ks : m[l].stamp < m[k].stamp
    PROVE  Aged(m, ks \cup {k}, Append(q, k))
  <1> DEFINE r == Append(q, k)
  <1>1. /\ q \in Seq(ks) /\ Len(q) \in Nat /\ r \in Seq(ks \cup {k}) /\ Len(r) = Len(q) + 1
        /\ \A i \in 1 .. Len(q) : r[i] = q[i] /\ q[i] \in ks
        /\ r[Len(q) + 1] = k
    BY DEF Aged
  <1> HIDE DEF r
  <1>2. ASSUME NEW l \in ks \cup {k} PROVE \E i \in 1 .. Len(r) : r[i] = l
    <2>1. CASE l \in ks
      <3>1. PICK i \in 1 .. Len(q) : q[i] = l
        BY <2>1 DEF Aged
      <3>2. i \in 1 .. Len(r) /\ r[i] = l
        BY <1>1, <3>1
      <3> QED
        BY <3>2
    <2>2. CASE l = k
      <3>1. Len(q) + 1 \in 1 .. Len(r)
        BY <1>1
      <3> QED
        BY <1>1, <2>2, <3>1
    <2> QED
      BY <2>1, <2>2
  <1>3. ASSUME NEW i \in 1 .. Len(r), NEW j \in 1 .. Len(r), i < j
        PROVE  m[r[i]].stamp < m[r[j]].stamp
    <2>1. i \in 1 .. Len(q) /\ r[i] = q[i] /\ q[i] \in ks
      BY <1>1, <1>3
    <2>2. CASE j \in 1 .. Len(q)
      BY <1>1, <1>3, <2>1, <2>2 DEF Aged
    <2>3. CASE j = Len(q) + 1
      BY <1>1, <2>1, <2>3
    <2> QED
      BY <1>1, <2>2, <2>3
  <1>4. Aged(m, ks \cup {k}, r)
    BY <1>1, <1>2, <1>3 DEF Aged
  <1> QED
    BY <1>4 DEF r

\* The order does not depend on anything but the stamps.
LEMMA AgedSame ==
    ASSUME NEW m, NEW n, NEW ks, NEW q, Aged(m, ks, q), \A k \in ks : n[k].stamp = m[k].stamp
    PROVE  Aged(n, ks, q)
  <1>1. q \in Seq(ks) /\ \A i \in 1 .. Len(q) : q[i] \in ks
    BY DEF Aged
  <1> QED
    BY <1>1 DEF Aged

\* A key is at one place.
LEMMA OnePlace ==
    ASSUME NEW m \in Maps, NEW ks \in SUBSET Present(m), NEW q, Aged(m, ks, q),
           NEW i \in 1 .. Len(q), NEW j \in 1 .. Len(q), q[i] = q[j]
    PROVE  i = j
  <1>1. q[i] \in ks /\ q[j] \in ks /\ Len(q) \in Nat
    BY DEF Aged
  <1>2. m[q[i]].stamp \in Nat
    BY <1>1 DEF Maps, Entries, Present
  <1>3. i < j => m[q[i]].stamp < m[q[j]].stamp
    BY DEF Aged
  <1>4. j < i => m[q[j]].stamp < m[q[i]].stamp
    BY DEF Aged
  <1> QED
    BY <1>1, <1>2, <1>3, <1>4

\* RemoveFirst takes a key out of a queue.
LEMMA AgedRemove ==
    ASSUME NEW m \in Maps, NEW ks \in SUBSET Present(m), NEW q, Aged(m, ks, q), NEW k
    PROVE  Aged(m, ks \ {k}, Contract!RemoveFirst(q, k))
  <1>1. Len(q) \in Nat /\ q \in Seq(ks) /\ \A i \in 1 .. Len(q) : q[i] \in ks
    BY DEF Aged
  <1>2. CASE k \notin ks
    <2>1. Contract!RemoveFirst(q, k) = q
      BY <1>1, <1>2 DEF Contract!RemoveFirst
    <2>2. ks \ {k} = ks
      BY <1>2
    <2> QED
      BY <2>1, <2>2
  <1>3. CASE k \in ks
    <2>1. PICK p \in 1 .. Len(q) : q[p] = k
      BY <1>3 DEF Aged
    <2>2. \A i \in 1 .. Len(q) : q[i] = k => i = p
      BY <2>1, OnePlace
    <2>3. {i \in 1 .. Len(q) : q[i] = k} = {p}
      BY <2>1, <2>2
    <2>4. Contract!Min({p}) = p
      BY <1>1 DEF Contract!Min
    <2>5. Contract!RemoveFirst(q, k) = Contract!RemoveAt(q, p)
      <3>1. Contract!RemoveFirst(q, k)
              = Contract!RemoveAt(q, Contract!Min({i \in 1 .. Len(q) : q[i] = k}))
        BY <2>1, <2>3 DEF Contract!RemoveFirst, Contract!SelectInSeq
      <3> QED
        BY <2>3, <2>4, <3>1
    <2> DEFINE r == SubSeq(q, 1, p - 1) \o SubSeq(q, p + 1, Len(q))
    <2>6. Contract!RemoveFirst(q, k) = r
      BY <2>5 DEF Contract!RemoveAt
    <2>7. /\ r \in Seq(ks) /\ Len(r) = Len(q) - 1
          /\ \A i \in 1 .. Len(q) - 1 : r[i] = IF i < p THEN q[i] ELSE q[i + 1]
      <3> DEFINE a == SubSeq(q, 1, p - 1)
                 b == SubSeq(q, p + 1, Len(q))
      <3>1. a \in Seq(ks) /\ Len(a) = p - 1 /\ \A i \in 1 .. p - 1 : a[i] = q[i]
        BY <1>1, <2>1
      <3>2. /\ b \in Seq(ks) /\ Len(b) = Len(q) - p
            /\ \A i \in 1 .. Len(q) - p : b[i] = q[p + i]
        BY <1>1, <2>1
      <3> HIDE DEF a, b
      <3>3. /\ a \o b \in Seq(ks) /\ Len(a \o b) = Len(a) + Len(b)
            /\ \A i \in 1 .. Len(a) + Len(b) :
                  (a \o b)[i] = IF i <= Len(a) THEN a[i] ELSE b[i - Len(a)]
        <4>1. a \in Seq(ks) /\ b \in Seq(ks)
          BY <3>1, <3>2
        <4> QED
          BY <4>1
      <3>4. a \o b \in Seq(ks) /\ Len(a \o b) = Len(q) - 1
        <4>1. p \in Int /\ Len(q) \in Int
          BY <1>1, <2>1
        <4> QED
          BY <3>1, <3>2, <3>3, <4>1
      <3>5. ASSUME NEW i \in 1 .. Len(q) - 1
            PROVE  (a \o b)[i] = IF i < p THEN q[i] ELSE q[i + 1]
        <4>1. CASE i < p
          <5>1. i \in 1 .. Len(a) + Len(b) /\ i <= Len(a) /\ i \in 1 .. p - 1
            BY <1>1, <2>1, <3>1, <3>2, <4>1
          <5> QED
            BY <3>1, <3>3, <4>1, <5>1
        <4>2. CASE ~(i < p)
          <5>1. /\ i \in 1 .. Len(a) + Len(b) /\ ~(i <= Len(a)) /\ i - Len(a) = i - p + 1
                /\ i - p + 1 \in 1 .. Len(q) - p /\ p + (i - p + 1) = i + 1
            BY <1>1, <2>1, <3>1, <3>2, <4>2
          <5>2. (a \o b)[i] = b[i - p + 1]
            BY <3>3, <5>1
          <5>3. b[i - p + 1] = q[i + 1]
            BY <3>2, <5>1
          <5> QED
            BY <4>2, <5>2, <5>3
        <4> QED
          BY <4>1, <4>2
      <3> QED
        BY <3>4, <3>5 DEF a, b
    <2> HIDE DEF r
    <2>8. \A i \in 1 .. Len(r) : r[i] \in ks \ {k}
      <3> SUFFICES ASSUME NEW i \in 1 .. Len(r) PROVE r[i] \in ks \ {k}
        OBVIOUS
      <3>1. i \in 1 .. Len(q) /\ i + 1 \in 1 .. Len(q)
        BY <1>1, <2>7
      <3> QED
        BY <1>1, <2>1, <2>2, <2>7, <3>1
    <2>9. r \in Seq(ks \ {k})
      <3>1. r \in [1 .. Len(r) -> ks \ {k}] /\ Len(r) \in Nat
        BY <2>7, <2>8
      <3> QED
        BY <3>1
    <2>10. ASSUME NEW l \in ks \ {k} PROVE \E i \in 1 .. Len(r) : r[i] = l
      <3>1. PICK j \in 1 .. Len(q) : q[j] = l
        BY DEF Aged
      <3>2. CASE j < p
        <4>1. j \in 1 .. Len(r) /\ r[j] = l
          BY <1>1, <2>1, <2>7, <3>1, <3>2
        <4> QED
          BY <4>1
      <3>3. CASE j > p
        <4>1. j - 1 \in 1 .. Len(r) /\ r[j - 1] = q[j - 1 + 1]
          BY <1>1, <2>1, <2>7, <3>1, <3>3
        <4> QED
          BY <1>1, <3>1, <4>1
      <3> QED
        BY <1>1, <2>1, <3>1, <3>2, <3>3
    <2>11. ASSUME NEW i \in 1 .. Len(r), NEW j \in 1 .. Len(r), i < j
           PROVE  m[r[i]].stamp < m[r[j]].stamp
      <3>1. PICK a \in 1 .. Len(q) : r[i] = q[a] /\ a = IF i < p THEN i ELSE i + 1
        BY <1>1, <2>1, <2>7
      <3>2. PICK b \in 1 .. Len(q) : r[j] = q[b] /\ b = IF j < p THEN j ELSE j + 1
        BY <1>1, <2>1, <2>7
      <3>3. a < b
        BY <1>1, <2>1, <2>7, <2>11, <3>1, <3>2
      <3> QED
        BY <3>1, <3>2, <3>3 DEF Aged
    <2> QED
      BY <2>6, <2>9, <2>10, <2>11 DEF Aged
  <1> QED
    BY <1>2, <1>3

\* The elements of a queue are its keys.
LEMMA AgedElements ==
    ASSUME NEW m, NEW ks, NEW q, Aged(m, ks, q)
    PROVE  {q[i] : i \in DOMAIN q} = ks
  <1>1. q \in Seq(ks) /\ DOMAIN q = 1 .. Len(q) /\ \A i \in 1 .. Len(q) : q[i] \in ks
    BY DEF Aged
  <1> QED
    BY <1>1 DEF Aged

\* The oldest keys, and the others.
LEMMA AgedSplit ==
    ASSUME NEW m \in Maps, NEW ks \in SUBSET Present(m), NEW q, Aged(m, ks, q), NEW n \in 0 .. Len(q)
    PROVE  /\ Aged(m, Oldest(q, n), SubSeq(q, 1, n)) /\ Len(SubSeq(q, 1, n)) = n
           /\ Aged(m, ks \ Oldest(q, n), SubSeq(q, n + 1, Len(q)))
  <1> DEFINE S == Oldest(q, n)
             a == SubSeq(q, 1, n)
             b == SubSeq(q, n + 1, Len(q))
  <1>1. Len(q) \in Nat /\ q \in Seq(ks) /\ \A i \in 1 .. Len(q) : q[i] \in ks
    BY DEF Aged
  <1>2. \A i, j \in 1 .. Len(q) : i < j => m[q[i]].stamp < m[q[j]].stamp
    BY DEF Aged
  <1>3. \A k : k \in S <=> \E i \in 1 .. n : k = q[i]
    BY DEF Oldest
  <1>4. a \in Seq(ks) /\ Len(a) = n /\ \A i \in 1 .. n : a[i] = q[i]
    BY <1>1
  <1>5. b \in Seq(ks) /\ Len(b) = Len(q) - n /\ \A i \in 1 .. Len(q) - n : b[i] = q[n + i]
    BY <1>1
  <1> HIDE DEF a, b, S
  <1>6. \A i \in 1 .. n : i \in 1 .. Len(q) /\ a[i] \in S
    BY <1>1, <1>3, <1>4
  <1>7. \A i \in 1 .. Len(b) : n + i \in 1 .. Len(q) /\ b[i] \in ks \ S
    <2> SUFFICES ASSUME NEW i \in 1 .. Len(b) PROVE n + i \in 1 .. Len(q) /\ q[n + i] \notin S
      BY <1>1, <1>5
    <2>1. n + i \in 1 .. Len(q) /\ \A j \in 1 .. n : j \in 1 .. Len(q) /\ j # n + i
      BY <1>1, <1>5
    <2>2. ASSUME NEW j \in 1 .. n PROVE q[n + i] # q[j]
      BY <2>1, OnePlace
    <2> QED
      BY <1>3, <2>1, <2>2
  <1>8. \A l \in S : \E i \in 1 .. Len(a) : a[i] = l
    BY <1>3, <1>4
  <1>9. ASSUME NEW l \in ks \ S PROVE \E i \in 1 .. Len(b) : b[i] = l
    <2>1. PICK j \in 1 .. Len(q) : q[j] = l
      BY DEF Aged
    <2>2. j \notin 1 .. n
      BY <1>3, <2>1
    <2>3. PICK i \in 1 .. Len(b) : n + i = j
      <3>1. j - n \in 1 .. Len(q) - n /\ n + (j - n) = j
        BY <1>1, <2>1, <2>2
      <3> QED
        BY <1>5, <3>1
    <2> QED
      BY <1>5, <2>1, <2>3
  <1>10. a \in Seq(S) /\ b \in Seq(ks \ S)
    <2>1. a \in [1 .. n -> S] /\ n \in Nat
      <3>1. n \in Nat /\ a \in [1 .. Len(a) -> ks]
        BY <1>1, <1>4
      <3> QED
        BY <1>4, <1>6, <3>1
    <2>2. b \in [1 .. Len(b) -> ks \ S] /\ Len(b) \in Nat
      BY <1>1, <1>5, <1>7
    <2> QED
      BY <2>1, <2>2
  <1>11. Aged(m, S, a)
    BY <1>2, <1>4, <1>6, <1>8, <1>10 DEF Aged
  <1>12. Aged(m, ks \ S, b)
    <2>1. ASSUME NEW i \in 1 .. Len(b), NEW j \in 1 .. Len(b), i < j
          PROVE  m[b[i]].stamp < m[b[j]].stamp
      <3>1. n + i \in 1 .. Len(q) /\ n + j \in 1 .. Len(q) /\ n + i < n + j
        BY <1>1, <1>7, <2>1
      <3>2. b[i] = q[n + i] /\ b[j] = q[n + j]
        BY <1>5
      <3> QED
        BY <1>2, <3>1, <3>2
    <2> QED
      BY <1>9, <1>10, <2>1 DEF Aged
  <1> QED
    BY <1>4, <1>11, <1>12 DEF a, b, S

-----------------------------------------------------------------------------
(* The contract                                                            *)

\* Entries have the weights of their values.
Weighed(m) == \A k \in Keys : m[k] # None => m[k].weight = WeightOf(k, m[k].value)

\* The contract counts as the tier does.
LEMMA ContractCount == ASSUME NEW S PROVE Contract!Cardinality(S) = Cardinality(S)
  BY Zenon DEF Contract!Cardinality, Cardinality

\* The contract's sum of weights is the one of the entries.
LEMMA ContractWeight ==
    ASSUME NEW m \in Maps, Weighed(m), config.bytes # None, NEW S \in SUBSET Present(m)
    PROVE  Contract!TotalWeight(DataOf(m), S) = Cardinality(Units(m, S))
  <1> DEFINE d == DataOf(m)
             P(h) == h = [s \in SUBSET S |-> IF s = {} THEN 0
                                             ELSE Weigh(Pick(s), d[Pick(s)]) + h[s \ {Pick(s)}]]
  <1>1. IsFiniteSet(S) /\ \A k \in S : m[k].weight \in Nat /\ m[k].weight = Weigh(k, d[k])
    <2>1. S \in SUBSET Keys /\ \A k \in S : m[k] # None /\ m[k] \in Entries
      BY DEF Present, Maps
    <2>2. \A k \in S : d[k] = m[k].value /\ m[k].weight \in Nat
      BY <2>1, MemoryAssumption DEF DataOf, Entries
    <2> QED
      BY <2>1, <2>2, KeySets DEF Weighed, WeightOf
  <1>2. \A s \in SUBSET S : s # {} => Pick(s) \in S
    BY DEF Pick
  <1>3. Contract!TotalWeight(d, S) = (CHOOSE h : P(h))[S]
    BY Zenon DEF Contract!TotalWeight, Contract!MapThenSumSet, Contract!MapThenFoldSet, Pick
  <1> HIDE DEF d
  <1>4. ASSUME NEW h PROVE P(h) <=> Recursive(m, S, h)
    <2>1. [s \in SUBSET S |-> IF s = {} THEN 0
                              ELSE Weigh(Pick(s), d[Pick(s)]) + h[s \ {Pick(s)}]]
            = [s \in SUBSET S |-> IF s = {} THEN 0 ELSE m[Pick(s)].weight + h[s \ {Pick(s)}]]
      BY <1>1, <1>2
    <2> QED
      BY <2>1 DEF Recursive
  <1> HIDE DEF P
  <1>5. (CHOOSE h : P(h))[S] = Cardinality(Units(m, S))
    <2>1. PICK g : Recursive(m, S, g)
      BY <1>1, SumCounts
    <2>2. P(CHOOSE h : P(h))
      BY <1>4, <2>1
    <2> QED
      BY <1>1, <1>4, <2>2, SumCounts
  <1> QED
    BY <1>3, <1>5 DEF d

\* What eviction leaves fits exactly if the loop may stop there.
LEMMA FitsAfter ==
    ASSUME config \in Configs, NEW m \in Maps, Weighed(m), NEW last \in Nat,
           NEW o \in SUBSET (Keys \X (1 .. last)), InSync(m, o), NEW w, w = Weight(m),
           NEW s \in 0 .. last
    PROVE  Contract!Fits(DataOf(m), Present(m) \ Popped(m, o, s))
             <=> ~Over(Rest(m, o, s), RestWeight(m, o, w, s))
  <1> DEFINE r == Rest(m, o, s)
             S == Present(m) \ Popped(m, o, s)
  <1>1. Present(r) = S /\ \A k \in S : r[k] = m[k]
    BY DEF Rest, Popped, Present
  <1>2. S \in SUBSET Present(m) /\ S \in SUBSET Keys
    BY DEF Present
  <1>3. RestWeight(m, o, w, s) = Weight(r) /\ Weight(r) \in Nat
    BY EvictedWeight
  <1> HIDE DEF r, S
  <1>4. Weight(r) = Cardinality(Units(m, S))
    <2>1. Units(r, S) = Units(m, S)
      BY <1>1 DEF Units
    <2> QED
      BY <1>1, <2>1 DEF Weight
  <1>5. Cardinality(S) \in Nat
    BY <1>2, KeySets
  <1>6. config.entries # None => config.entries \in Nat
    BY MemoryAssumption
  <1>7. config.bytes # None => config.bytes \in Nat
    BY MemoryAssumption
  <1>8. config.bytes # None => Contract!TotalWeight(DataOf(m), S) = Weight(r)
    BY <1>2, <1>4, ContractWeight
  <1>9. Contract!Fits(DataOf(m), S)
          <=> /\ config.entries # None => Cardinality(S) <= config.entries
              /\ config.bytes # None => Contract!TotalWeight(DataOf(m), S) <= config.bytes
    BY ContractCount DEF Contract!Fits
  <1>10. Contract!Fits(DataOf(m), S) <=> ~Over(r, Weight(r))
    BY <1>1, <1>3, <1>5, <1>6, <1>7, <1>8, <1>9 DEF Over
  <1> QED
    BY <1>3, <1>10 DEF r, S

\* Eviction pops the oldest keys of a queue.
LEMMA PopsOldest ==
    ASSUME NEW m \in Maps, NEW last \in Nat, NEW o \in SUBSET (Keys \X (1 .. last)), InSync(m, o),
           NEW q, Aged(m, Present(m), q), NEW s \in 0 .. last
    PROVE  \E n \in 0 .. Len(q) :
              /\ Popped(m, o, s) = Oldest(q, n)
              /\ \A i \in 1 .. Len(q) : m[q[i]].stamp <= s <=> i <= n
  <1> DEFINE I == {i \in 1 .. Len(q) : m[q[i]].stamp <= s}
  <1>1. Len(q) \in Nat /\ \A i \in 1 .. Len(q) : q[i] \in Present(m)
    BY DEF Aged
  <1>2. \A k \in Present(m) : k \in Keys /\ m[k] # None /\ m[k].stamp \in Nat /\ <<k, m[k].stamp>> \in o
    BY DEF Present, Maps, Entries, InSync
  <1>3. ASSUME NEW i \in I, NEW j \in 1 .. Len(q), j < i PROVE j \in I
    <2>1. m[q[j]].stamp < m[q[i]].stamp
      BY <1>3 DEF Aged
    <2>2. m[q[i]].stamp \in Nat /\ m[q[j]].stamp \in Nat /\ m[q[i]].stamp <= s
      BY <1>1, <1>2
    <2>3. m[q[j]].stamp <= s
      BY <2>1, <2>2
    <2> QED
      BY <2>3
  <1>4. PICK n \in 0 .. Len(q) : I = 1 .. n
    <2>1. I \in SUBSET (1 .. Len(q))
      OBVIOUS
    <2> HIDE DEF I
    <2> QED
      BY <1>1, <1>3, <2>1, Segment
  <1>5. \A i \in 1 .. Len(q) : m[q[i]].stamp <= s <=> i <= n
    <2> SUFFICES ASSUME NEW i \in 1 .. Len(q) PROVE i \in I <=> i \in 1 .. n
      BY <1>1, <1>4
    <2> QED
      BY <1>4
  <1>6. Popped(m, o, s) = {k \in Present(m) : m[k].stamp <= s}
    BY <1>2 DEF Popped, Present
  <1>7. Popped(m, o, s) = Oldest(q, n)
    <2>1. ASSUME NEW k \in Present(m), m[k].stamp <= s PROVE k \in Oldest(q, n)
      <3>1. PICK i \in 1 .. Len(q) : q[i] = k
        BY DEF Aged
      <3>2. i \in I
        BY <2>1, <3>1
      <3> QED
        BY <1>4, <3>1, <3>2 DEF Oldest
    <2>2. ASSUME NEW k \in Oldest(q, n) PROVE k \in Present(m) /\ m[k].stamp <= s
      <3>1. PICK i \in 1 .. n : q[i] = k
        BY DEF Oldest
      <3>2. i \in I
        BY <1>4
      <3> QED
        BY <1>1, <3>1, <3>2
    <2> HIDE DEF I
    <2> QED
      BY <1>6, <2>1, <2>2
  <1> QED
    BY <1>5, <1>7

\* Stopping at s pops what the contract cuts off the queue q.
StopsAtCut(m, o, q, s) ==
    \E n \in 0 .. Len(q) :
        /\ Popped(m, o, s) = Oldest(q, n)
        /\ n = Contract!Min({x \in 0 .. Len(q) :
                  Contract!Fits(DataOf(m), Contract!ToSet(SubSeq(q, x + 1, Len(q))))})

\* The contract cuts the tier where the loop of evict_over stops.
LEMMA CutStep ==
    ASSUME config \in Configs, NEW m \in Maps, Weighed(m), NEW last \in Nat,
           NEW o \in SUBSET (Keys \X (1 .. last)), InSync(m, o), NEW w, w = Weight(m),
           NEW q, Aged(m, Present(m), q), NEW s \in 0 .. last, Stops(m, o, w, last, s),
           \A r \in 0 .. s - 1 : ~Stops(m, o, w, last, r)
    PROVE  StopsAtCut(m, o, q, s)
  <1> DEFINE Fit(x) == Contract!Fits(DataOf(m), Present(m) \ Oldest(q, x))
  <1>1. Len(q) \in Nat /\ \A i \in 1 .. Len(q) : q[i] \in Present(m)
    BY DEF Aged
  <1>2. \A k \in Present(m) : m[k].stamp \in 1 .. last
    BY DEF Present, InSync
  <1>3. PICK n \in 0 .. Len(q) :
           /\ Popped(m, o, s) = Oldest(q, n)
           /\ \A i \in 1 .. Len(q) : m[q[i]].stamp <= s <=> i <= n
    BY PopsOldest
  <1>4. ASSUME NEW x \in 0 .. Len(q)
        PROVE  Contract!ToSet(SubSeq(q, x + 1, Len(q))) = Present(m) \ Oldest(q, x)
    <2>1. Aged(m, Present(m) \ Oldest(q, x), SubSeq(q, x + 1, Len(q)))
      BY AgedSplit
    <2>2. PICK ks, b : ks = Present(m) \ Oldest(q, x) /\ b = SubSeq(q, x + 1, Len(q))
      OBVIOUS
    <2>3. Aged(m, ks, b)
      BY <2>1, <2>2
    <2>4. Contract!ToSet(b) = ks
      BY <2>3, AgedElements DEF Contract!ToSet
    <2> QED
      BY <2>2, <2>4, Zenon
  <1>5. Fit(n)
    <2>1. CASE s = last
      <3>1. Present(Rest(m, o, s)) = {}
        BY <2>1, PopAll
      <3>2. Weight(Rest(m, o, s)) = 0
        <4>1. Units(Rest(m, o, s), {}) = {}
          BY DEF Units
        <4> QED
          BY <3>1, <4>1, FS_EmptySet DEF Weight
      <3>3. RestWeight(m, o, w, s) = 0
        BY <3>2, EvictedWeight
      <3>4. Cardinality(Present(Rest(m, o, s))) = 0
        BY <3>1, FS_EmptySet
      <3>5. ~Over(Rest(m, o, s), RestWeight(m, o, w, s))
        <4>1. config.entries # None => config.entries > 0 /\ config.entries \in Nat
          BY MemoryAssumption
        <4>2. config.bytes # None => config.bytes > 0 /\ config.bytes \in Nat
          BY MemoryAssumption
        <4> QED
          BY <3>3, <3>4, <4>1, <4>2 DEF Over
      <3> QED
        BY <1>3, <3>5, FitsAfter
    <2>2. CASE s # last
      <3>1. ~Over(Rest(m, o, s), RestWeight(m, o, w, s))
        BY <2>2 DEF Stops
      <3> QED
        BY <1>3, <3>1, FitsAfter
    <2> QED
      BY <2>1, <2>2
  <1>6. ASSUME NEW x \in 0 .. Len(q), x < n PROVE ~Fit(x)
    <2>1. PICK r \in 0 .. s - 1 : \A i \in 1 .. Len(q) : m[q[i]].stamp <= r <=> i <= x
      <3>1. n \in 1 .. Len(q) /\ m[q[n]].stamp <= s /\ m[q[n]].stamp \in 1 .. last
        BY <1>1, <1>2, <1>3, <1>6
      <3>2. CASE x = 0
        <4>1. 0 \in 0 .. s - 1
          BY <3>1
        <4>2. \A i \in 1 .. Len(q) : ~(m[q[i]].stamp <= 0) /\ ~(i <= x)
          BY <1>1, <1>2, <3>2
        <4> QED
          BY <4>1, <4>2
      <3>3. CASE x # 0
        <4> DEFINE r == m[q[x]].stamp
        <4>1. x \in 1 .. Len(q) /\ r < m[q[n]].stamp /\ r \in 1 .. last
          <5>1. x \in 1 .. Len(q)
            BY <3>3
          <5>2. r < m[q[n]].stamp
            BY <1>6, <3>1, <5>1 DEF Aged
          <5> QED
            BY <1>1, <1>2, <5>1, <5>2
        <4>2. ASSUME NEW i \in 1 .. Len(q) PROVE m[q[i]].stamp <= r <=> i <= x
          <5>1. m[q[i]].stamp \in 1 .. last
            BY <1>1, <1>2
          <5>2. i < x => m[q[i]].stamp < r
            BY <4>1 DEF Aged
          <5>3. x < i => r < m[q[i]].stamp
            BY <4>1 DEF Aged
          <5> QED
            BY <4>1, <5>1, <5>2, <5>3
        <4> HIDE DEF r
        <4>3. r \in 0 .. s - 1
          BY <3>1, <4>1
        <4> QED
          BY <4>2, <4>3
      <3> QED
        BY <3>2, <3>3
    <2>2. r \in 0 .. last /\ r # last
      OBVIOUS
    <2>3. PICK y \in 0 .. Len(q) :
             /\ Popped(m, o, r) = Oldest(q, y)
             /\ \A i \in 1 .. Len(q) : m[q[i]].stamp <= r <=> i <= y
      BY <2>2, PopsOldest
    <2>4. x = y
      <3>1. \A i \in 1 .. Len(q) : i <= x <=> i <= y
        BY <2>1, <2>3
      <3>2. ~(x < y)
        <4>1. x < y => y \in 1 .. Len(q)
          OBVIOUS
        <4> QED
          BY <3>1, <4>1
      <3>3. ~(y < x)
        <4>1. y < x => x \in 1 .. Len(q)
          OBVIOUS
        <4> QED
          BY <3>1, <4>1
      <3> QED
        BY <3>2, <3>3
    <2>5. Over(Rest(m, o, r), RestWeight(m, o, w, r))
      BY <2>2 DEF Stops
    <2> QED
      BY <2>2, <2>3, <2>4, <2>5, FitsAfter
  <1> HIDE DEF Fit
  <1>7. {x \in 0 .. Len(q) : Contract!Fits(DataOf(m), Contract!ToSet(SubSeq(q, x + 1, Len(q))))}
          = {x \in 0 .. Len(q) : Fit(x)}
    BY <1>4 DEF Fit
  <1>8. n = Contract!Min({x \in 0 .. Len(q) : Fit(x)})
    <2>1. n \in {x \in 0 .. Len(q) : Fit(x)} /\ n \in Nat
      BY <1>1, <1>5
    <2>2. \A x \in {y \in 0 .. Len(q) : Fit(y)} : n <= x /\ x \in Nat
      BY <1>1, <1>6
    <2> QED
      BY <2>1, <2>2 DEF Contract!Min
  <1> QED
    BY <1>3, <1>7, <1>8 DEF StopsAtCut

\* The keys of the live tickets are all keys.
LEMMA LiveKeysPresent ==
    ASSUME NEW m, NEW last, NEW o \in SUBSET (Keys \X (1 .. last)), InSync(m, o)
    PROVE  LiveKeys(m, o) = Present(m)
  <1>1. ASSUME NEW t \in Live(m, o) PROVE t[1] \in Present(m)
    BY DEF Live, IsLive, Present
  <1>2. ASSUME NEW k \in Present(m) PROVE \E t \in Live(m, o) : t[1] = k
    <2>1. <<k, m[k].stamp>> \in Live(m, o)
      BY DEF Live, IsLive, Present, InSync
    <2> QED
      BY <2>1
  <1> QED
    BY <1>1, <1>2 DEF LiveKeys

\* The queue of the contract.
Queue(m) == ByAge(m, Present(m))

(***************************************************************************)
(* The inductive invariant of the refinement: the entries have weights of  *)
(* their own, and stamps that put them in exactly one order.               *)
(***************************************************************************)
CInv == WInv /\ Weighed(map) /\ Aged(map, Present(map), Queue(map))

\* What the invariant says of the state.
LEMMA CInvFacts ==
    ASSUME CInv
    PROVE  /\ config \in Configs /\ map \in Maps /\ stamp \in Nat
           /\ InSync(map, order) /\ order \in SUBSET (Keys \X (1 .. stamp))
           /\ \A k \in Present(map) : map[k].stamp \in 1 .. stamp
           /\ LiveKeys(map, order) = Present(map)
  <1>1. /\ config \in Configs /\ map \in Maps /\ stamp \in Nat
        /\ InSync(map, order) /\ order \in SUBSET (Keys \X (1 .. stamp))
    BY DEF CInv, WInv, IInv, TypeOK, TicketsInSync, InSync, Maps
  <1>2. \A k \in Present(map) : map[k].stamp \in 1 .. stamp
    BY <1>1 DEF InSync, Present
  <1> QED
    BY <1>1, <1>2, LiveKeysPresent

\* The mapping after a step that keeps the books in sync.
LEMMA MappedNext ==
    ASSUME WInv'
    PROVE  LiveKeys(map', order') = Present(map') /\ map' \in Maps
  <1>1. order' \in SUBSET (Keys \X (1 .. stamp')) /\ InSync(map', order') /\ map' \in Maps
    BY DEF WInv, IInv, TypeOK, TicketsInSync, InSync, Maps
  <1> QED
    BY <1>1, LiveKeysPresent

\* insert is the contract's put.
LEMMA PutStep ==
    ASSUME NoOverflow, CInv, NEW k \in Keys, NEW v \in Values, Insert(k, v), UNCHANGED config, WInv'
    PROVE  CInv' /\ Contract!Put(k, v)
  <1> DEFINE fresh == stamp + 1
  <1>1. /\ config \in Configs /\ map \in Maps /\ stamp \in Nat /\ fresh \in Nat
        /\ \A l \in Present(map) : map[l].stamp \in 1 .. stamp
        /\ LiveKeys(map, order) = Present(map)
    BY CInvFacts
  <1>2. PICK m \in Maps, c \in SUBSET (Keys \X (1 .. fresh)), w \in Nat :
           /\ m[k] = [value |-> v, weight |-> WeightOf(k, v),
                      stamp |-> IF map[k] # None /\ config.eviction = "Fifo"
                                THEN map[k].stamp ELSE fresh]
           /\ m[k] # None /\ \A l \in Keys \ {k} : m[l] = map[l]
           /\ InSync(m, c) /\ w = Weight(m)
           /\ EvictOver(m, c, w, fresh)
    BY Inserted DEF CInv
  <1>3. Present(m) = Present(map) \cup {k} /\ Present(map) \in SUBSET Keys
    BY <1>2 DEF Present
  <1>4. m[k].value = v /\ m[k].weight = WeightOf(k, v)
    BY <1>2
  <1>5. m[k].stamp = IF map[k] # None /\ config.eviction = "Fifo" THEN map[k].stamp ELSE fresh
    BY <1>2
  <1>6. Weighed(m)
    <2> SUFFICES ASSUME NEW l \in Keys, m[l] # None PROVE m[l].weight = WeightOf(l, m[l].value)
      BY DEF Weighed
    <2> QED
      BY <1>2, <1>4 DEF CInv, Weighed
  <1> DEFINE q == IF map[k] = None THEN Append(Queue(map), k)
                  ELSE IF config.eviction = "Lru"
                       THEN Append(Contract!RemoveFirst(Queue(map), k), k) ELSE Queue(map)
  <1>7. Aged(m, Present(m), q)
    <2>1. Aged(map, Present(map), Queue(map)) /\ Present(map) \in SUBSET Present(map)
      BY DEF CInv
    <2>2. CASE map[k] = None
      <3>1. k \notin Present(map) /\ m[k].stamp = fresh
        BY <1>5, <2>2 DEF Present
      <3>2. \A l \in Present(map) : m[l].stamp = map[l].stamp /\ m[l].stamp < m[k].stamp
        BY <1>1, <1>2, <1>3, <3>1
      <3>3. Aged(m, Present(map), Queue(map))
        BY <2>1, <3>2, AgedSame
      <3>4. Aged(m, Present(map) \cup {k}, Append(Queue(map), k))
        BY <3>2, <3>3, AgedAppend
      <3> QED
        BY <1>3, <2>2, <3>4
    <2>3. CASE map[k] # None /\ config.eviction = "Lru"
      <3> DEFINE r == Contract!RemoveFirst(Queue(map), k)
      <3>1. m[k].stamp = fresh /\ (Present(map) \ {k}) \cup {k} = Present(m)
        BY <1>3, <1>5, <2>3
      <3>2. \A l \in Present(map) \ {k} : m[l].stamp = map[l].stamp /\ m[l].stamp < m[k].stamp
        BY <1>1, <1>2, <1>3, <3>1
      <3>3. Aged(map, Present(map) \ {k}, r)
        BY <1>1, <2>1, AgedRemove
      <3> HIDE DEF r
      <3>4. Aged(m, Present(map) \ {k}, r)
        BY <3>2, <3>3, AgedSame
      <3>5. Aged(m, (Present(map) \ {k}) \cup {k}, Append(r, k))
        BY <3>2, <3>4, AgedAppend
      <3> QED
        BY <2>3, <3>1, <3>5 DEF r
    <2>4. CASE map[k] # None /\ config.eviction # "Lru"
      <3>1. config.eviction = "Fifo"
        BY <1>1, <2>4, MemoryAssumption
      <3>2. Present(m) = Present(map) /\ \A l \in Present(map) : m[l].stamp = map[l].stamp
        BY <1>2, <1>3, <1>5, <2>4, <3>1 DEF Present
      <3>3. Aged(m, Present(map), Queue(map))
        BY <2>1, <3>2, AgedSame
      <3> QED
        BY <2>4, <3>2, <3>3
    <2> QED
      BY <2>2, <2>3, <2>4
  <1>8. DataOf(m) = [DataOf(map) EXCEPT ![k] = v]
    BY <1>2, <1>4 DEF DataOf
  <1>9. q = IF DataOf(map)[k] = None THEN Append(Queue(map), k)
            ELSE IF config.eviction = "Lru"
                 THEN Append(Contract!RemoveFirst(Queue(map), k), k) ELSE Queue(map)
    <2>1. map[k] # None => map[k].value \in Values
      BY <1>1 DEF Maps, Entries
    <2>2. DataOf(map)[k] = None <=> map[k] = None
      BY <2>1, MemoryAssumption DEF DataOf
    <2> QED
      BY <2>2
  <1> HIDE DEF q, fresh
  <1>10. PICK s \in 0 .. fresh :
           /\ Stops(m, c, w, fresh, s) /\ \A r \in 0 .. s - 1 : ~Stops(m, c, w, fresh, r)
           /\ map' = Rest(m, c, s)
           /\ displaced' = displaced \o InOrder(m, Popped(m, c, s))
    BY <1>2 DEF EvictOver
  <1>11. PICK n \in 0 .. Len(q) :
           /\ Popped(m, c, s) = Oldest(q, n)
           /\ n = Contract!Min({x \in 0 .. Len(q) :
                     Contract!Fits(DataOf(m), Contract!ToSet(SubSeq(q, x + 1, Len(q))))})
    <2>1. InSync(m, c) /\ w = Weight(m) /\ fresh \in Nat /\ config \in Configs
      BY <1>1, <1>2
    <2>2. Stops(m, c, w, fresh, s) /\ \A r \in 0 .. s - 1 : ~Stops(m, c, w, fresh, r)
      BY <1>10
    <2>3. StopsAtCut(m, c, q, s)
      BY <1>6, <1>7, <2>1, <2>2, CutStep
    <2> QED
      BY <2>3 DEF StopsAtCut
  <1>12. PICK out, back : out = SubSeq(q, 1, n) /\ back = SubSeq(q, n + 1, Len(q))
    OBVIOUS
  <1>13. PICK ks \in SUBSET Present(m) : ks = Popped(m, c, s)
    BY DEF Popped, Present
  <1>14. Aged(m, ks, out) /\ Aged(m, Present(m) \ ks, back)
    <2>1. Present(m) \in SUBSET Present(m)
      OBVIOUS
    <2>2. Aged(m, Oldest(q, n), SubSeq(q, 1, n))
      BY <1>7, <2>1, AgedSplit
    <2>3. Aged(m, Present(m) \ Oldest(q, n), SubSeq(q, n + 1, Len(q)))
      BY <1>7, <2>1, AgedSplit
    <2> QED
      BY <1>11, <1>12, <1>13, <2>2, <2>3
  <1>15. out = ByAge(m, ks) /\ Len(out) = Cardinality(ks)
    BY <1>14, AgedUnique
  <1>16. Cardinality(ks) = n
    <2>1. Present(m) \in SUBSET Present(m)
      OBVIOUS
    <2> QED
      BY <1>7, <1>11, <1>13, <2>1, OldestCount
  <1>17. Contract!ToSet(out) = ks
    BY <1>14, AgedElements DEF Contract!ToSet
  <1>18. InOrder(m, ks) = [i \in 1 .. n |-> <<out[i], DataOf(m)[out[i]]>>]
    <2>1. InOrder(m, ks) = [i \in 1 .. n |-> <<out[i], m[out[i]].value>>]
      BY <1>15, <1>16 DEF InOrder
    <2>2. \A i \in 1 .. n : out[i] \in ks
      BY <1>14, <1>15, <1>16 DEF Aged
    <2>3. \A l \in ks : DataOf(m)[l] = m[l].value
      BY DEF DataOf, Present
    <2> QED
      BY <2>1, <2>2, <2>3
  <1>19. \A l \in Keys : map'[l] = IF l \in ks THEN None ELSE m[l]
    BY <1>10, <1>13 DEF Rest
  <1>20. map' \in Maps /\ Present(map') = Present(m) \ ks
    <2>1. map' \in Maps
      BY <1>1, <1>2, <1>10, RestInSync DEF fresh
    <2> QED
      BY <1>19, <2>1 DEF Present
  <1>21. DataOf(map') = [l \in Keys |-> IF l \in ks THEN None ELSE DataOf(m)[l]]
    BY <1>19 DEF DataOf
  <1>22. Aged(map', Present(map'), back)
    <2>1. \A l \in Present(m) \ ks : map'[l].stamp = m[l].stamp
      BY <1>19 DEF Present
    <2> QED
      BY <1>14, <1>20, <2>1, AgedSame
  <1>23. Queue(map') = back
    <2>1. Present(map') \in SUBSET Present(map')
      OBVIOUS
    <2> QED
      BY <1>20, <1>22, <2>1, AgedUnique DEF Queue
  <1>24. Weighed(map)'
    <2> SUFFICES ASSUME NEW l \in Keys, map'[l] # None
                 PROVE  map'[l].weight = WeightOf(l, map'[l].value)
      BY DEF Weighed, WeightOf
    <2> QED
      BY <1>6, <1>19 DEF Weighed
  <1>25. CInv'
    <2>1. Aged(map', Present(map'), Queue(map'))
      BY <1>22, <1>23
    <2> QED
      BY <1>24, <2>1 DEF CInv, Queue, ByAge, Aged, Present
  <1>26. LiveKeys(map', order') = Present(map')
    BY MappedNext
  <1>27. Contract!Cut(DataOf(m), q)
    <2>1. /\ Queue(map') = SubSeq(q, n + 1, Len(q))
          /\ DataOf(map') = [l \in Keys |-> IF l \in Contract!ToSet(SubSeq(q, 1, n)) THEN None
                                            ELSE DataOf(m)[l]]
          /\ displaced' = displaced \o [i \in 1 .. n |-> <<SubSeq(q, 1, n)[i],
                                                           DataOf(m)[SubSeq(q, 1, n)[i]]>>]
      BY <1>10, <1>12, <1>13, <1>17, <1>18, <1>21, <1>23, Zenon
    <2> QED
      BY <1>11, <1>26, <2>1, Zenon DEF Contract!Cut, Queue
  <1>28. Contract!Put(k, v)
    BY <1>1, <1>8, <1>9, <1>27, Zenon DEF Contract!Put, Contract!Used, Queue
  <1> QED
    BY <1>25, <1>28

\* What a step leaves in order is the queue after it.
LEMMA QueueNext ==
    ASSUME WInv', \A l \in Keys : map'[l] # None =>
              map[l] # None /\ map'[l].weight = map[l].weight /\ map'[l].value = map[l].value,
           CInv, UNCHANGED config, NEW q, Aged(map', Present(map'), q)
    PROVE  CInv' /\ LiveKeys(map', order') = Present(map') /\ Queue(map') = q
  <1>1. /\ map' \in Maps /\ Present(map') \in SUBSET Present(map')
        /\ LiveKeys(map', order') = Present(map')
    BY MappedNext
  <1>2. Queue(map') = q
    BY <1>1, AgedUnique DEF Queue
  <1>3. Weighed(map)'
    BY DEF CInv, Weighed, WeightOf
  <1>4. Aged(map', Present(map'), Queue(map'))
    BY <1>2
  <1> QED
    BY <1>1, <1>2, <1>3, <1>4 DEF CInv, Queue, ByAge, Aged, Present

\* What leaves the entries alone leaves the queue alone.
LEMMA SameQueue ==
    ASSUME WInv', CInv, UNCHANGED <<config, map>>
    PROVE  CInv'
  <1>1. Aged(map', Present(map'), Queue(map))
    BY DEF CInv
  <1>2. \A l \in Keys : map'[l] # None =>
              map[l] # None /\ map'[l].weight = map[l].weight /\ map'[l].value = map[l].value
    OBVIOUS
  <1> QED
    BY <1>1, <1>2, QueueNext

\* A touch is a get of the contract that moves the key to the back.
LEMMA HitStep ==
    ASSUME CInv, NEW k \in Keys, config.eviction = "Lru", map[k] # None, Touch(k),
           UNCHANGED config, WInv'
    PROVE  CInv' /\ Contract!Get(k)
  <1> DEFINE ks == Present(map) \ {k}
             r == Contract!RemoveFirst(Queue(map), k)
  <1>1. /\ map \in Maps /\ stamp \in Nat
        /\ \A l \in Present(map) : map[l].stamp \in 1 .. stamp
        /\ LiveKeys(map, order) = Present(map)
    BY CInvFacts
  <1>2. map[k] \in Entries
    BY <1>1 DEF Maps
  <1>3. /\ map'[k] = [map[k] EXCEPT !.stamp = stamp + 1]
        /\ \A l \in Keys \ {k} : map'[l] = map[l]
        /\ displaced' = displaced
    BY <1>1 DEF Touch, Maps
  <1>4. /\ map'[k].stamp = stamp + 1 /\ map'[k].value = map[k].value
        /\ map'[k].weight = map[k].weight /\ map'[k] \in Entries
    BY <1>1, <1>2, <1>3 DEF Entries
  <1>5. map'[k] # None
    BY <1>4, MemoryAssumption DEF Entries
  <1>6. Present(map') = ks \cup {k}
    BY <1>3, <1>5 DEF Present
  <1>7. \A l \in ks : map'[l].stamp = map[l].stamp /\ map'[l].stamp < map'[k].stamp
    BY <1>1, <1>3, <1>4 DEF Present
  <1>8. Aged(map, ks, r)
    <2>1. Aged(map, Present(map), Queue(map)) /\ Present(map) \in SUBSET Present(map)
      BY DEF CInv
    <2> QED
      BY <1>1, <2>1, AgedRemove
  <1>9. PICK js, p : js = ks /\ p = r
    OBVIOUS
  <1>10. Aged(map', js, p)
    BY <1>7, <1>8, <1>9, AgedSame
  <1>11. Aged(map', js \cup {k}, Append(p, k))
    BY <1>7, <1>9, <1>10, AgedAppend
  <1>12. Aged(map', Present(map'), Append(p, k))
    BY <1>6, <1>9, <1>11
  <1>13. \A l \in Keys : map'[l] # None =>
              map[l] # None /\ map'[l].weight = map[l].weight /\ map'[l].value = map[l].value
    BY <1>3, <1>4
  <1>14. CInv' /\ LiveKeys(map', order') = Present(map') /\ Queue(map') = Append(p, k)
    BY <1>12, <1>13, QueueNext
  <1>15. DataOf(map') = DataOf(map)
    BY <1>3, <1>4, <1>5 DEF DataOf
  <1>16. DataOf(map)[k] # None
    BY <1>2, MemoryAssumption DEF DataOf, Entries
  <1>17. Queue(map') = Contract!Used(k)
    BY <1>1, <1>9, <1>14, Zenon DEF Contract!Used, Queue
  <1>18. Contract!Get(k)
    BY <1>1, <1>3, <1>14, <1>15, <1>16, <1>17, Zenon DEF Contract!Get, Queue
  <1> QED
    BY <1>14, <1>18

\* A fetch that changes nothing is a get of the contract, too.
LEMMA MissStep ==
    ASSUME CInv, NEW k \in Keys, ~(config.eviction = "Lru" /\ map[k] # None),
           UNCHANGED <<config, map, order, displaced>>, WInv'
    PROVE  CInv' /\ Contract!Get(k)
  <1>1. CInv'
    BY SameQueue
  <1>2. map[k] = None => DataOf(map)[k] = None
    BY DEF DataOf
  <1>3. /\ DataOf(map') = DataOf(map)
        /\ ByAge(map', LiveKeys(map', order')) = ByAge(map, LiveKeys(map, order))
    BY DEF DataOf
  <1>4. Contract!Get(k)
    BY <1>2, <1>3 DEF Contract!Get
  <1> QED
    BY <1>1, <1>4

\* remove is the contract's delete.
LEMMA DeleteStep ==
    ASSUME CInv, NEW k \in Keys, Remove(k), UNCHANGED config, WInv'
    PROVE  CInv' /\ Contract!Delete(k)
  <1> DEFINE ks == Present(map) \ {k}
             r == Contract!RemoveFirst(Queue(map), k)
  <1>1. map \in Maps /\ LiveKeys(map, order) = Present(map)
    BY CInvFacts
  <1>2. map'[k] = None /\ (\A l \in Keys \ {k} : map'[l] = map[l]) /\ displaced' = displaced
    BY <1>1 DEF Remove, Maps
  <1>3. Present(map') = ks
    BY <1>2 DEF Present
  <1>4. \A l \in ks : map'[l].stamp = map[l].stamp
    BY <1>2 DEF Present
  <1>5. Aged(map, ks, r)
    <2>1. Aged(map, Present(map), Queue(map)) /\ Present(map) \in SUBSET Present(map)
      BY DEF CInv
    <2> QED
      BY <1>1, <2>1, AgedRemove
  <1>6. PICK js, p : js = ks /\ p = r
    OBVIOUS
  <1>7. Aged(map', js, p)
    BY <1>4, <1>5, <1>6, AgedSame
  <1>8. Aged(map', Present(map'), p)
    BY <1>3, <1>6, <1>7
  <1>9. \A l \in Keys : map'[l] # None =>
              map[l] # None /\ map'[l].weight = map[l].weight /\ map'[l].value = map[l].value
    BY <1>2
  <1>10. CInv' /\ LiveKeys(map', order') = Present(map') /\ Queue(map') = p
    BY <1>8, <1>9, QueueNext
  <1>11. DataOf(map') = [DataOf(map) EXCEPT ![k] = None]
    BY <1>2 DEF DataOf
  <1>12. Contract!Delete(k)
    BY <1>1, <1>2, <1>6, <1>10, <1>11, Zenon DEF Contract!Delete, Queue
  <1> QED
    BY <1>10, <1>12

\* A new tier is an empty queue.
LEMMA ContractInit ==
    ASSUME Init, WInv
    PROVE  CInv /\ Contract!Init
  <1>1. Present(map) = {} /\ LiveKeys(map, order) = {}
    BY DEF Init, Present, LiveKeys, Live
  <1>2. Cardinality({}) = 0
    BY FS_EmptySet
  <1>3. ByAge(map, {}) = <<>>
    BY <1>2 DEF ByAge
  <1>4. Aged(map, {}, <<>>)
    BY DEF Aged
  <1>5. Weighed(map)
    BY DEF Init, Weighed
  <1>6. CInv
    BY <1>1, <1>3, <1>4, <1>5 DEF CInv, Queue
  <1>7. DataOf(map) = [k \in Keys |-> None]
    BY DEF Init, DataOf
  <1> QED
    BY <1>1, <1>3, <1>6, <1>7 DEF Contract!Init, Init

\* Every step is a step of the contract.
LEMMA ContractNext ==
    ASSUME NoOverflow, CInv, [Next]_vars, WInv'
    PROVE  CInv' /\ [Contract!Next]_(Contract!vars)
  <1>1. CASE UNCHANGED vars
    <2>1. CInv'
      BY <1>1, SameQueue DEF vars
    <2>2. UNCHANGED Contract!vars
      BY <1>1 DEF vars, Contract!vars
    <2> QED
      BY <2>1, <2>2
  <1>2. CASE Call
    <2>1. CInv'
      BY <1>2, SameQueue DEF Call
    <2>2. UNCHANGED <<config, DataOf(map), ByAge(map, LiveKeys(map, order))>>
      BY <1>2 DEF Call
    <2>3. Contract!Call
      BY <1>2, <2>2 DEF Call, Contract!Call
    <2> QED
      BY <2>1, <2>3 DEF Contract!Next
  <1>3. CASE Step
    <2> DEFINE c == Head(batch)
    <2>1. batch # <<>> /\ batch' = Tail(batch) /\ UNCHANGED config
      BY <1>3 DEF Step
    <2>2. c.key \in Keys /\ c.value \in Values
      <3>1. c \in Operations
        BY <2>1 DEF CInv, WInv, IInv, TypeOK
      <3> QED
        BY <3>1 DEF Operations
    <2>3. CASE c.op = "put" /\ Insert(c.key, c.value)
      <3>1. CInv' /\ Contract!Put(c.key, c.value)
        BY <2>1, <2>2, <2>3, PutStep
      <3> QED
        BY <2>1, <2>3, <3>1 DEF Contract!Next, Contract!Step
    <2>4. CASE c.op = "get" /\ Fetch(c.key)
      <3>1. ASSUME config.eviction = "Lru" /\ map[c.key] # None /\ Touch(c.key)
            PROVE  CInv' /\ Contract!Get(c.key)
        BY <2>1, <2>2, <3>1, HitStep
      <3>2. ASSUME ~(config.eviction = "Lru" /\ map[c.key] # None),
                   UNCHANGED <<map, order, total, stamp, displaced>>
            PROVE  CInv' /\ Contract!Get(c.key)
        BY <2>1, <2>2, <3>2, MissStep
      <3>3. CInv' /\ Contract!Get(c.key)
        BY <2>4, <3>1, <3>2 DEF Fetch
      <3> QED
        BY <2>1, <2>4, <3>3 DEF Contract!Next, Contract!Step
    <2>5. CASE c.op = "delete" /\ Remove(c.key)
      <3>1. CInv' /\ Contract!Delete(c.key)
        BY <2>1, <2>2, <2>5, DeleteStep
      <3> QED
        BY <2>1, <2>5, <3>1 DEF Contract!Next, Contract!Step
    <2> QED
      BY <1>3, <2>3, <2>4, <2>5 DEF Step
  <1> QED
    BY <1>1, <1>2, <1>3 DEF Next

(***************************************************************************)
(* MemoryTier implements the contract of a bounded tier: stale tickets,    *)
(* compaction and the running total notwithstanding, an insert displaces   *)
(* the keys that the contract displaces, in its order, as long as an entry *)
(* on top of a full budget stays within a usize.                           *)
(***************************************************************************)
THEOREM ContractImplemented == ASSUME NoOverflow PROVE Spec => Implements
  <1>1. ASSUME Init, WInv PROVE CInv /\ Contract!Init
    BY <1>1, ContractInit
  <1>2. ASSUME CInv, [Next]_vars, WInv' PROVE CInv' /\ [Contract!Next]_(Contract!vars)
    BY <1>2, ContractNext
  <1> QED
    BY WInvAlways, <1>1, <1>2, PTL DEF Spec, Implements, Contract!Spec
=============================================================================
