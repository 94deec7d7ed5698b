---------------------------- MODULE RouterProofs ----------------------------
(***************************************************************************)
(* What the router promises about misses, deletes, writes, losses and      *)
(* freshness, and the cache over it about loads and cold reads, for any    *)
(* stack of tiers, policy, callers, keys and values.                       *)
(***************************************************************************)
EXTENDS Cache, FiniteSetTheorems, SequenceTheorems, TLAPS

-----------------------------------------------------------------------------
(* Enumerations                                                            *)

\* An element has fewer elements below it than the set has.
LEMMA RankType ==
    ASSUME NEW S \in SUBSET Nat, IsFiniteSet(S), NEW s \in S
    PROVE  Rank(S, s) \in Nat /\ Rank(S, s) + 1 \in 1 .. Cardinality(S)
  <1> DEFINE L == {r \in S : r < s}
  <1>1. L \in SUBSET (S \ {s}) /\ Rank(S, s) = Cardinality(L)
    BY DEF Rank
  <1>2. Cardinality(S) \in Nat /\ Cardinality(S \ {s}) = Cardinality(S) - 1 /\ IsFiniteSet(S \ {s})
    BY FS_RemoveElement, FS_CardinalityType
  <1> HIDE DEF L
  <1>3. IsFiniteSet(L) /\ Cardinality(L) <= Cardinality(S \ {s})
    BY <1>1, <1>2, FS_Subset
  <1>4. Cardinality(L) \in Nat
    BY <1>3, FS_CardinalityType
  <1> QED
    BY <1>1, <1>2, <1>3, <1>4

\* The number of smaller elements tells the elements of a set apart.
LEMMA RankMonotone ==
    ASSUME NEW S \in SUBSET Nat, IsFiniteSet(S), NEW s \in S, NEW t \in S, s < t
    PROVE  Rank(S, s) < Rank(S, t)
  <1> DEFINE L == {r \in S : r < s}
             M == {r \in S : r < t}
  <1>1. L \in SUBSET M /\ L # M /\ M \in SUBSET S
    <2>1. L \in SUBSET M /\ M \in SUBSET S
      <3>1. \A r \in S : r < s => r < t
        OBVIOUS
      <3> QED
        BY <3>1
    <2>2. s \in M /\ s \notin L
      OBVIOUS
    <2> HIDE DEF L, M
    <2> QED
      BY <2>1, <2>2
  <1>2. Rank(S, s) = Cardinality(L) /\ Rank(S, t) = Cardinality(M)
    BY DEF Rank
  <1>3. Rank(S, s) \in Nat /\ Rank(S, t) \in Nat
    BY RankType
  <1> HIDE DEF L, M
  <1>4. IsFiniteSet(M)
    BY <1>1, FS_Subset
  <1>5. Cardinality(L) <= Cardinality(M) /\ (Cardinality(M) = Cardinality(L) => M = L)
    BY <1>1, <1>4, FS_Subset
  <1> QED
    BY <1>1, <1>2, <1>3, <1>5

LEMMA RankInjective ==
    ASSUME NEW S \in SUBSET Nat, IsFiniteSet(S), NEW s \in S, NEW t \in S,
           Rank(S, s) = Rank(S, t)
    PROVE  s = t
  <1>1. s < t \/ t < s \/ s = t
    OBVIOUS
  <1>2. s < t => Rank(S, s) < Rank(S, t)
    BY RankMonotone
  <1>3. t < s => Rank(S, t) < Rank(S, s)
    BY RankMonotone
  <1> QED
    BY <1>1, <1>2, <1>3, RankType

\* Every rank is taken: as many elements as ranks, no two with the same.
LEMMA RankSurjective ==
    ASSUME NEW S \in SUBSET Nat, IsFiniteSet(S), NEW n \in 1 .. Cardinality(S)
    PROVE  \E s \in S : Rank(S, s) = n - 1
  <1> DEFINE rank == [s \in S |-> Rank(S, s) + 1]
             N == 1 .. Cardinality(S)
  <1>1. Cardinality(S) \in Nat
    BY FS_CardinalityType
  <1>2. IsFiniteSet(N) /\ Cardinality(N) = Cardinality(S)
    BY <1>1, FS_Interval
  <1>3. rank \in Injection(S, N)
    <2>1. rank \in [S -> N]
      BY RankType
    <2>2. \A s, t \in S : rank[s] = rank[t] => s = t
      BY RankType, RankInjective
    <2> QED
      BY <2>1, <2>2 DEF Injection, IsInjective
  <1>4. rank \in Surjection(S, N)
    <2> HIDE DEF rank, N
    <2> QED
      BY <1>2, <1>3, FS_Injection
  <1>5. \E s \in S : rank[s] = n
    <2> HIDE DEF rank
    <2> QED
      BY <1>4 DEF Surjection
  <1> QED
    BY <1>1, <1>5, RankType

\* Ascending enumerates the set, each element once.
LEMMA AscendingEnumerates ==
    ASSUME NEW S \in SUBSET Nat, IsFiniteSet(S)
    PROVE  /\ Cardinality(S) \in Nat
           /\ Ascending(S) \in [1 .. Cardinality(S) -> S]
           /\ IsInjective(Ascending(S))
           /\ \A s \in S : \E n \in 1 .. Cardinality(S) : Ascending(S)[n] = s
  <1>1. Cardinality(S) \in Nat
    BY FS_CardinalityType
  <1>2. Ascending(S) = [n \in 1 .. Cardinality(S) |-> CHOOSE s \in S : Rank(S, s) = n - 1]
    BY DEF Ascending
  <1>3. \A n \in 1 .. Cardinality(S) :
            Ascending(S)[n] \in S /\ Rank(S, Ascending(S)[n]) = n - 1
    BY <1>2, RankSurjective
  <1>4. \A s \in S : Rank(S, s) + 1 \in 1 .. Cardinality(S) /\ Ascending(S)[Rank(S, s) + 1] = s
    <2> SUFFICES ASSUME NEW s \in S
                 PROVE  Rank(S, s) + 1 \in 1 .. Cardinality(S) /\ Ascending(S)[Rank(S, s) + 1] = s
      OBVIOUS
    <2>1. Rank(S, s) \in Nat /\ Rank(S, s) + 1 \in 1 .. Cardinality(S)
      BY RankType
    <2> DEFINE t == Ascending(S)[Rank(S, s) + 1]
    <2>2. t \in S /\ Rank(S, t) = Rank(S, s)
      BY <1>3, <2>1
    <2> HIDE DEF t
    <2>3. t = s
      BY <2>2, RankInjective
    <2> QED
      BY <2>1, <2>3 DEF t
  <1>5. IsInjective(Ascending(S))
    <2>1. DOMAIN Ascending(S) = 1 .. Cardinality(S)
      BY <1>2
    <2>2. ASSUME NEW m \in 1 .. Cardinality(S), NEW n \in 1 .. Cardinality(S),
                 Ascending(S)[m] = Ascending(S)[n]
          PROVE  m = n
      <3>1. m - 1 = n - 1
        BY <1>3, <2>2
      <3> QED
        BY <1>1, <3>1
    <2> QED
      BY <2>1, <2>2 DEF IsInjective
  <1> QED
    BY <1>1, <1>2, <1>3, <1>4, <1>5

\* A finite set of numbers has a greatest one: that of the highest rank.
LEMMA MaxExists ==
    ASSUME NEW S \in SUBSET Nat, IsFiniteSet(S), S # {}
    PROVE  Max(S) \in S /\ \A r \in S : Max(S) >= r
  <1>1. Cardinality(S) \in Nat \ {0}
    BY FS_CardinalityType, FS_EmptySet
  <1>2. PICK s \in S : Rank(S, s) = Cardinality(S) - 1
    BY <1>1, RankSurjective
  <1>3. \A r \in S : s >= r
    <2> SUFFICES ASSUME NEW r \in S, s < r PROVE FALSE
      OBVIOUS
    <2> QED
      BY <1>1, <1>2, RankMonotone, RankType
  <1> QED
    BY <1>2, <1>3 DEF Max

LEMMA MinExists ==
    ASSUME NEW S \in SUBSET Nat, IsFiniteSet(S), S # {}
    PROVE  Min(S) \in S /\ \A r \in S : Min(S) <= r
  <1>1. Cardinality(S) \in Nat \ {0}
    BY FS_CardinalityType, FS_EmptySet
  <1>2. PICK s \in S : Rank(S, s) = 1 - 1
    BY <1>1, RankSurjective
  <1>3. \A r \in S : s <= r
    <2> SUFFICES ASSUME NEW r \in S, r < s PROVE FALSE
      OBVIOUS
    <2> QED
      BY <1>2, RankMonotone, RankType
  <1> QED
    BY <1>2, <1>3 DEF Min

\* The elements of a sequence at some of its places.
LEMMA SubsequenceElements ==
    ASSUME NEW T, NEW seq \in Seq(T), NEW S \in SUBSET (DOMAIN seq)
    PROVE  /\ Subsequence(seq, S) \in Seq(T)
           /\ ToSet(Subsequence(seq, S)) = {seq[n] : n \in S}
           /\ Len(Subsequence(seq, S)) = Cardinality(S) /\ IsFiniteSet(S)
  <1> DEFINE a == Ascending(S)
             c == Cardinality(S)
             q == Subsequence(seq, S)
  <1>1. S \in SUBSET Nat /\ IsFiniteSet(S)
    <2>1. DOMAIN seq = 1 .. Len(seq) /\ Len(seq) \in Nat
      OBVIOUS
    <2>2. IsFiniteSet(1 .. Len(seq))
      BY <2>1, FS_Interval
    <2> QED
      BY <2>1, <2>2, FS_Subset
  <1>2. /\ c \in Nat /\ a \in [1 .. c -> S] /\ IsInjective(a)
        /\ \A s \in S : \E n \in 1 .. c : a[n] = s
    BY <1>1, AscendingEnumerates
  <1>3. q = [n \in 1 .. c |-> seq[a[n]]]
    BY DEF Subsequence
  <1> HIDE DEF a, c, q
  <1>4. \A n \in 1 .. c : a[n] \in S /\ seq[a[n]] \in T /\ q[n] = seq[a[n]]
    BY <1>2, <1>3
  <1>5. q \in Seq(T) /\ DOMAIN q = 1 .. c /\ Len(q) = c
    <2>1. q \in [1 .. c -> T]
      BY <1>3, <1>4
    <2>2. q \in UNION {[1 .. n -> T] : n \in Nat}
      BY <1>2, <2>1, Zenon
    <2>3. q \in Seq(T)
      BY <2>2, SeqDef, Zenon
    <2> QED
      BY <1>2, <2>1, <2>3
  <1>6. ToSet(q) = {seq[n] : n \in S}
    <2>1. ASSUME NEW x \in ToSet(q) PROVE x \in {seq[n] : n \in S}
      <3>1. PICK n \in 1 .. c : x = q[n]
        BY <1>5, Zenon DEF ToSet
      <3> QED
        BY <1>4, <3>1
    <2>2. ASSUME NEW s \in S PROVE seq[s] \in ToSet(q)
      <3>1. PICK n \in 1 .. c : a[n] = s
        BY <1>2
      <3>2. n \in DOMAIN q /\ q[n] = seq[s]
        BY <1>4, <1>5, <3>1
      <3> QED
        BY <3>2, Zenon DEF ToSet
    <2> QED
      BY <2>1, <2>2
  <1> QED
    BY <1>1, <1>5, <1>6 DEF q, c

-----------------------------------------------------------------------------
(* The stack                                                               *)

\* What the configuration of a router guarantees.
LEMMA ConfigFacts ==
    ASSUME config \in Configs
    PROVE  /\ config.n \in Nat /\ config.n > 0 /\ 0 \in Tiers /\ NoTier \notin Tiers
           /\ Tiers \in SUBSET Nat /\ IsFiniteSet(Tiers) /\ Writable \in SUBSET Tiers
           /\ Fallible \in SUBSET Tiers
           /\ config.policy \in Policy
           /\ config.callers \in SUBSET Clients
           /\ config.keys \in SUBSET Keys /\ config.values \in SUBSET Values
           /\ config.batch \in Nat /\ config.deletes \in Nat
  <1>1. config \in Config /\ config.writable \cup config.fallible \subseteq 0 .. config.n - 1
    BY RouterAssumption
  <1>2. /\ config.n \in Nat /\ config.n > 0
        /\ config.policy \in Policy /\ config.callers \in SUBSET Clients
        /\ config.keys \in SUBSET Keys /\ config.values \in SUBSET Values
        /\ config.batch \in Nat /\ config.deletes \in Nat
    BY <1>1 DEF Config
  <1>3. 0 \in Tiers /\ NoTier \notin Tiers /\ Tiers \in SUBSET Nat
    BY <1>2 DEF Tiers, NoTier
  <1>4. IsFiniteSet(Tiers)
    <2>1. 0 \in Int /\ config.n - 1 \in Int
      BY <1>2
    <2> QED
      BY <2>1, FS_Interval DEF Tiers
  <1> QED
    BY <1>1, <1>2, <1>3, <1>4 DEF Tiers, Writable, Fallible

\* The ends of a set of tiers.
LEMMA TierSets ==
    ASSUME config \in Configs, NEW S \in SUBSET Tiers, S # {}
    PROVE  /\ Min(S) \in S /\ \A r \in S : Min(S) <= r
           /\ Max(S) \in S /\ \A r \in S : Max(S) >= r
  <1>1. S \in SUBSET Nat /\ IsFiniteSet(S)
    BY ConfigFacts, FS_Subset
  <1> QED
    BY <1>1, MinExists, MaxExists

LEMMA AroundTier ==
    ASSUME config \in Configs, NEW i \in Tiers
    PROVE  Below(i) \in SUBSET Writable /\ Above(i) \in SUBSET Writable
           /\ Below(i) \in SUBSET Tiers /\ Above(i) \in SUBSET Tiers
  BY ConfigFacts DEF Below, Above

-----------------------------------------------------------------------------
(* The registers of an operation                                           *)

Registers ==
    [kind : Kinds, pc : Phases, outcome : Outcomes,
     keys : Seq(Keys), entries : Seq(Entries),
     from : [Keys -> Tiers \cup {NoTier}], got : Contents,
     failures : SUBSET Tiers, src : Tiers, tier : Tiers,
     at : Tiers, todo : Seq(Entries), out : Seq(Entries),
     evicted : SUBSET Entries]

\* The request and the hits, which only the call and the probes change.
Same(o, r) ==
    /\ r.kind = o.kind /\ r.keys = o.keys /\ r.entries = o.entries
    /\ r.from = o.from /\ r.got = o.got

\* The phases belong to their operations; whoever puts has something to put,
\* and puts and deletes go to writable tiers.
Probing(o) == o.pc = "probe" => o.kind \in {"read", "exists"}
Putting(o) ==
    o.pc \in {"promote", "write"} =>
        /\ o.kind = IF o.pc = "promote" THEN "read" ELSE "put"
        /\ o.at \in Writable /\ o.tier \in Writable /\ o.todo # <<>>
Writing(o) ==
    o.pc = "write" =>
        /\ o.failures = {}
        /\ config.policy.write = "WriteAround" => o.tier = Bottom
Removing(o) ==
    /\ o.pc = "purge" =>
          o.kind = "put" /\ o.tier \in Above(Bottom) /\ config.policy.write = "WriteAround"
    /\ o.pc = "remove" => o.kind = "delete" /\ o.tier \in Writable
Requested(o) ==
    /\ o.kind = "put" => o.keys = <<>> /\ o.entries # <<>>
    /\ o.kind # "put" => o.entries = <<>>
Found(o) == \A k \in Keys : o.from[k] # NoTier => o.got[k] \in Values

Sound(o) ==
    /\ o \in Registers
    /\ Probing(o) /\ Putting(o) /\ Writing(o) /\ Removing(o) /\ Requested(o) /\ Found(o)

\* An operation that has returned.
LEMMA ReturnFacts ==
    ASSUME config \in Configs, NEW o \in Registers, NEW x \in Outcomes
    PROVE  /\ Return(o, x) \in Registers /\ Same(o, Return(o, x))
           /\ Return(o, x).pc = "idle" /\ Return(o, x).outcome = x
           /\ Return(o, x).failures = o.failures /\ Return(o, x).evicted = o.evicted
  <1> DEFINE r == Return(o, x)
  <1>1. r = [o EXCEPT !.pc = "idle", !.outcome = x,
                      !.src = 0, !.tier = 0, !.at = 0, !.todo = <<>>, !.out = <<>>]
    BY DEF Return
  <1>2. 0 \in Tiers /\ <<>> \in Seq(Entries)
    BY ConfigFacts
  <1>3. r = [kind |-> o.kind, pc |-> "idle", outcome |-> x,
             keys |-> o.keys, entries |-> o.entries, from |-> o.from, got |-> o.got,
             failures |-> o.failures, src |-> 0, tier |-> 0, at |-> 0,
             todo |-> <<>>, out |-> <<>>, evicted |-> o.evicted]
    BY <1>1, ZenonT(60) DEF Registers
  <1> HIDE DEF r
  <1>4. r \in Registers
    BY <1>2, <1>3 DEF Registers, Phases
  <1> QED
    BY <1>3, <1>4 DEF r, Same

\* It is sound: nothing is left to do.
LEMMA ReturnSound ==
    ASSUME config \in Configs, NEW o \in Registers, Requested(o), Found(o), NEW x \in Outcomes
    PROVE  Sound(Return(o, x))
  BY ReturnFacts
  DEF Sound, Same, Probing, Putting, Writing, Removing, Requested, Found

-----------------------------------------------------------------------------
(* Sequences                                                               *)

\* A sequence is one over any set that has its elements.
LEMMA SeqOfElements ==
    ASSUME NEW T, NEW q \in Seq(T), NEW U, \A e \in ToSet(q) : e \in U
    PROVE  q \in Seq(U)
  <1>1. DOMAIN q = 1 .. Len(q) /\ Len(q) \in Nat /\ q = [n \in 1 .. Len(q) |-> q[n]]
    OBVIOUS
  <1>2. \A n \in 1 .. Len(q) : q[n] \in U
    BY <1>1, Zenon DEF ToSet
  <1>3. q \in [1 .. Len(q) -> U]
    BY <1>1, <1>2
  <1>4. q \in UNION {[1 .. n -> U] : n \in Nat}
    BY <1>1, <1>3, Zenon
  <1> QED
    BY <1>4, SeqDef, Zenon

\* A function on 1 .. n is a sequence.
LEMMA FunctionIsSeq ==
    ASSUME NEW T, NEW n \in Nat, NEW q \in [1 .. n -> T]
    PROVE  q \in Seq(T) /\ Len(q) = n /\ DOMAIN q = 1 .. n
  <1>1. q \in UNION {[1 .. m -> T] : m \in Nat}
    BY Zenon
  <1>2. q \in Seq(T)
    BY <1>1, SeqDef, Zenon
  <1> QED
    BY <1>2

\* The elements of a sequence.
LEMMA Elements ==
    ASSUME NEW T, NEW q \in Seq(T)
    PROVE  /\ \A n \in 1 .. Len(q) : q[n] \in ToSet(q)
           /\ \A e \in ToSet(q) : e \in T /\ \E n \in 1 .. Len(q) : q[n] = e
           /\ q # <<>> => q[1] \in ToSet(q) /\ q[1] \in T
  <1>1. DOMAIN q = 1 .. Len(q) /\ Len(q) \in Nat
    OBVIOUS
  <1>2. \A n \in 1 .. Len(q) : q[n] \in ToSet(q)
    BY <1>1, Zenon DEF ToSet
  <1>3. \A e \in ToSet(q) : \E n \in 1 .. Len(q) : q[n] = e
    BY <1>1, Zenon DEF ToSet
  <1>4. \A e \in ToSet(q) : e \in T
    BY <1>1, <1>3
  <1>5. q # <<>> => 1 \in 1 .. Len(q)
    BY <1>1
  <1> QED
    BY <1>2, <1>3, <1>4, <1>5

\* What is left of a sequence without its first element.
LEMMA TailElements ==
    ASSUME NEW T, NEW q \in Seq(T), q # <<>>
    PROVE  Tail(q) \in Seq(T) /\ ToSet(q) = {q[1]} \cup ToSet(Tail(q))
  <1>1. /\ Tail(q) \in Seq(T) /\ Len(q) \in Nat /\ Len(q) > 0 /\ Len(Tail(q)) = Len(q) - 1
        /\ \A n \in 1 .. Len(q) - 1 : Tail(q)[n] = q[n + 1]
    OBVIOUS
  <1>2. ASSUME NEW e \in ToSet(q) PROVE e \in {q[1]} \cup ToSet(Tail(q))
    <2>1. PICK n \in 1 .. Len(q) : q[n] = e
      BY Elements
    <2>2. CASE n = 1
      BY <2>1, <2>2
    <2>3. CASE n # 1
      <3>1. n - 1 \in 1 .. Len(Tail(q)) /\ Tail(q)[n - 1] = e
        BY <1>1, <2>1, <2>3
      <3> QED
        BY <1>1, <3>1, Elements
    <2> QED
      BY <2>2, <2>3
  <1>3. ASSUME NEW e \in ToSet(Tail(q)) PROVE e \in ToSet(q)
    <2>1. PICK n \in 1 .. Len(Tail(q)) : Tail(q)[n] = e
      BY <1>1, Elements
    <2>2. n + 1 \in 1 .. Len(q) /\ q[n + 1] = e
      BY <1>1, <2>1
    <2> QED
      BY <2>2, Elements
  <1>4. q[1] \in ToSet(q)
    BY Elements
  <1> QED
    BY <1>1, <1>2, <1>3, <1>4

\* The elements of a concatenation.
LEMMA ConcatElements ==
    ASSUME NEW T, NEW p \in Seq(T), NEW q \in Seq(T)
    PROVE  p \o q \in Seq(T) /\ ToSet(p \o q) = ToSet(p) \cup ToSet(q)
  <1>1. /\ p \o q \in Seq(T) /\ Len(p) \in Nat /\ Len(q) \in Nat
        /\ Len(p \o q) = Len(p) + Len(q)
        /\ \A n \in 1 .. Len(p) + Len(q) :
              (p \o q)[n] = IF n <= Len(p) THEN p[n] ELSE q[n - Len(p)]
    OBVIOUS
  <1>2. ASSUME NEW e \in ToSet(p \o q) PROVE e \in ToSet(p) \cup ToSet(q)
    <2>1. PICK n \in 1 .. Len(p \o q) : (p \o q)[n] = e
      BY <1>1, Elements
    <2>2. CASE n <= Len(p)
      <3>1. n \in 1 .. Len(p) /\ p[n] = e
        BY <1>1, <2>1, <2>2
      <3> QED
        BY <3>1, Elements
    <2>3. CASE ~(n <= Len(p))
      <3>1. n - Len(p) \in 1 .. Len(q) /\ q[n - Len(p)] = e
        BY <1>1, <2>1, <2>3
      <3> QED
        BY <3>1, Elements
    <2> QED
      BY <2>2, <2>3
  <1>3. ASSUME NEW e \in ToSet(p) PROVE e \in ToSet(p \o q)
    <2>1. PICK n \in 1 .. Len(p) : p[n] = e
      BY Elements
    <2>2. n \in 1 .. Len(p \o q) /\ (p \o q)[n] = e
      BY <1>1, <2>1
    <2> QED
      BY <1>1, <2>2, Elements
  <1>4. ASSUME NEW e \in ToSet(q) PROVE e \in ToSet(p \o q)
    <2>1. PICK n \in 1 .. Len(q) : q[n] = e
      BY Elements
    <2>2. n + Len(p) \in 1 .. Len(p \o q) /\ (p \o q)[n + Len(p)] = e
      BY <1>1, <2>1
    <2> QED
      BY <1>1, <2>2, Elements
  <1> QED
    BY <1>1, <1>2, <1>3, <1>4

-----------------------------------------------------------------------------
(* Reads                                                                   *)

\* The hits of a tier are entries of keys that were found there.
LEMMA HitsFacts ==
    ASSUME NEW o \in Registers, Found(o), NEW i, i # NoTier,
           NEW k \in ToSet(o.keys), o.from[k] = i
    PROVE  /\ HitsAt(o, i) \in Seq(Entries) /\ HitsAt(o, i) # <<>>
           /\ \A e \in ToSet(HitsAt(o, i)) :
                 e[1] \in ToSet(o.keys) /\ o.from[e[1]] = i /\ e[2] = o.got[e[1]]
  <1> DEFINE ks == o.keys
             S == {n \in DOMAIN ks : o.from[ks[n]] = i}
             T == Keys \X (Values \cup {None})
             all == [n \in DOMAIN ks |-> <<ks[n], o.got[ks[n]]>>]
  <1>1. ks \in Seq(Keys) /\ o.from \in [Keys -> Tiers \cup {NoTier}] /\ o.got \in Contents
    BY DEF Registers
  <1>2. DOMAIN ks = 1 .. Len(ks) /\ Len(ks) \in Nat /\ \A n \in DOMAIN ks : ks[n] \in Keys
    BY <1>1
  <1>3. \A n \in DOMAIN ks : ks[n] \in ToSet(ks)
    BY <1>1, <1>2, Elements
  <1> HIDE DEF ks
  <1>4. all \in [1 .. Len(ks) -> T]
    BY <1>1, <1>2 DEF Contents
  <1>5. all \in Seq(T) /\ DOMAIN all = DOMAIN ks
    BY <1>2, <1>4, FunctionIsSeq
  <1>6. HitsAt(o, i) = Subsequence(all, S)
    BY DEF HitsAt, ks
  <1>7. S \in SUBSET DOMAIN all
    BY <1>5
  <1>8. ASSUME NEW n \in S
        PROVE  /\ all[n] \in Entries /\ all[n][1] \in ToSet(ks)
               /\ o.from[all[n][1]] = i /\ all[n][2] = o.got[all[n][1]]
    <2>1. n \in DOMAIN ks /\ all[n] = <<ks[n], o.got[ks[n]]>> /\ o.from[ks[n]] = i
      OBVIOUS
    <2>2. o.got[ks[n]] \in Values
      BY <1>2, <2>1 DEF Found
    <2> QED
      BY <1>2, <1>3, <2>1, <2>2 DEF Entries
  <1>9. S # {}
    <2>1. PICK n \in 1 .. Len(ks) : ks[n] = k
      BY <1>1, Elements DEF ks
    <2> QED
      BY <1>2, <2>1
  <1> DEFINE q == Subsequence(all, S)
  <1> HIDE DEF all, S, T
  <1>10. q \in Seq(T) /\ ToSet(q) = {all[n] : n \in S} /\ Len(q) = Cardinality(S) /\ IsFiniteSet(S)
    BY <1>5, <1>7, SubsequenceElements
  <1> HIDE DEF q
  <1>11. \A e \in ToSet(q) :
            e \in Entries /\ e[1] \in ToSet(ks) /\ o.from[e[1]] = i /\ e[2] = o.got[e[1]]
    BY <1>8, <1>10
  <1>12. q \in Seq(Entries)
    BY <1>10, <1>11, SeqOfElements
  <1>13. q # <<>>
    BY <1>9, <1>10, FS_EmptySet
  <1> QED
    BY <1>6, <1>11, <1>12, <1>13 DEF q, ks

LEMMA PairFacts ==
    ASSUME NEW A, NEW B, NEW p \in A \X B, NEW q \in A \X B
    PROVE  p[1] \in A /\ p[2] \in B /\ (p[1] = q[1] /\ p[2] = q[2] => p = q)
  OBVIOUS

\* There is a first promotion among any.
LEMMA FirstPromotion ==
    ASSUME config \in Configs, NEW ps \in SUBSET (Tiers \X Writable), ps # {}
    PROVE  \E p \in ps : \A q \in ps \ {p} : Later(q, p)
  <1> DEFINE I == {p[1] : p \in ps}
  <1>1. I \in SUBSET Tiers /\ I # {} /\ Tiers \in SUBSET Nat /\ Writable \in SUBSET Tiers
    BY ConfigFacts
  <1> DEFINE i == Min(I)
             J == {p[2] : p \in {q \in ps : q[1] = i}}
  <1>2. i \in I /\ \A r \in I : i <= r
    <2> HIDE DEF I
    <2> QED
      BY <1>1, TierSets
  <1> HIDE DEF i
  <1>3. J \in SUBSET Tiers /\ J # {}
    BY <1>1, <1>2
  <1> DEFINE j == Min(J)
  <1>4. j \in J /\ \A r \in J : j <= r
    <2> HIDE DEF J
    <2> QED
      BY <1>3, TierSets
  <1> HIDE DEF j
  <1>5. PICK p \in ps : p[1] = i /\ p[2] = j
    BY <1>4
  <1>6. ASSUME NEW q \in ps \ {p} PROVE Later(q, p)
    <2>1. q[1] \in Nat /\ q[2] \in Nat /\ p[1] \in Nat /\ p[2] \in Nat
          /\ (q[1] # p[1] \/ q[2] # p[2])
      <3>1. q \in Tiers \X Writable /\ p \in Tiers \X Writable /\ q # p
        OBVIOUS
      <3> HIDE DEF I, J
      <3>2. q[1] \in Tiers /\ q[2] \in Writable /\ p[1] \in Tiers /\ p[2] \in Writable
            /\ (q[1] # p[1] \/ q[2] # p[2])
        BY <3>1, PairFacts
      <3> QED
        BY <1>1, <3>2
    <2>2. q[1] \in I /\ i <= q[1]
      BY <1>2
    <2>3. CASE q[1] = i
      <3>1. q[2] \in J
        BY <2>3
      <3>2. j <= q[2] /\ q[2] # j
        BY <1>4, <1>5, <2>1, <2>3, <3>1
      <3> QED
        BY <1>5, <2>1, <2>3, <3>2 DEF Later
    <2>4. CASE q[1] # i
      BY <1>5, <2>1, <2>2, <2>4 DEF Later
    <2> QED
      BY <2>3, <2>4
  <1> QED
    BY <1>6

\* Either the read returns or it promotes hits into a writable tier.
PromotionGoesOn(o, r) ==
    \/ r.pc = "idle" /\ r.outcome = ReadOutcome(o)
    \/ /\ r.pc = "promote" /\ r.out = <<>> /\ config.policy.promote # "Never"
       /\ \A e \in ToSet(r.todo) :
             /\ e[1] \in ToSet(o.keys) /\ o.from[e[1]] # NoTier
             /\ e[2] = o.got[e[1]]

\* The first promotion goes to the topmost tier.
PromotesTop(o, r) ==
    /\ o.kind = "read" /\ 0 \in Writable /\ config.policy.promote # "Never"
    /\ \E k \in ToSet(o.keys) : o.from[k] \in Tiers \ {0}
    => r.pc = "promote" /\ r.tier = 0 /\ r.at = 0

LEMMA NextPromotionFacts ==
    ASSUME config \in Configs, NEW o \in Registers, Found(o), Requested(o),
           o.kind \in {"read", "exists"}, NEW r, r = NextPromotion(o)
    PROVE  /\ r \in Registers /\ Same(o, r) /\ Sound(r)
           /\ r.failures = o.failures /\ r.evicted = o.evicted
           /\ PromotionGoesOn(o, r) /\ (o.src = 0 /\ o.tier = 0 => PromotesTop(o, r))
  <1> DEFINE ps == {p \in Promotions(o) : Later(p, <<o.src, o.tier>>)}
  <1>1. ReadOutcome(o) \in Outcomes
    BY DEF ReadOutcome, Outcomes
  <1>2. CASE ps = {}
    <2>1. r = Return(o, ReadOutcome(o))
      BY <1>2 DEF NextPromotion
    <2>2. ~(o.src = 0 /\ o.tier = 0
            /\ o.kind = "read" /\ 0 \in Writable /\ config.policy.promote # "Never"
            /\ \E k \in ToSet(o.keys) : o.from[k] \in Tiers \ {0})
      <3> SUFFICES ASSUME o.src = 0, o.tier = 0, o.kind = "read", 0 \in Writable,
                          config.policy.promote # "Never",
                          NEW k \in ToSet(o.keys), o.from[k] \in Tiers \ {0}
                   PROVE  FALSE
        OBVIOUS
      <3>1. PICK j : j = o.from[k]
        OBVIOUS
      <3>2. j \in Tiers /\ j \in Nat /\ j > 0
        BY <3>1, ConfigFacts
      <3>3. <<j, 0>> \in Promotions(o)
        BY <3>1, <3>2 DEF Promotions
      <3>4. Later(<<j, 0>>, <<0, 0>>)
        BY <3>2 DEF Later
      <3> QED
        BY <1>2, <3>3, <3>4
    <2> QED
      BY <1>1, <2>1, <2>2, ReturnFacts, ReturnSound DEF PromotionGoesOn, PromotesTop
  <1>3. CASE ps # {}
    <2> DEFINE p == CHOOSE p \in ps : \A q \in ps \ {p} : Later(q, p)
    <2>1. r = [o EXCEPT !.pc = "promote", !.src = p[1], !.tier = p[2], !.at = p[2],
                        !.todo = HitsAt(o, p[1]), !.out = <<>>]
      BY <1>3 DEF NextPromotion
    <2>2. ps \in SUBSET (Tiers \X Writable)
      BY DEF Promotions
    <2>3. p \in ps /\ \A q \in ps \ {p} : Later(q, p)
      <3> HIDE DEF ps
      <3>1. \E x \in ps : \A q \in ps \ {x} : Later(q, x)
        BY <1>3, <2>2, FirstPromotion
      <3> QED
        BY <3>1
    <2> HIDE DEF p
    <2>4. /\ p[1] \in Tiers /\ p[2] \in Writable /\ o.kind = "read"
          /\ config.policy.promote # "Never" /\ \E k \in ToSet(o.keys) : o.from[k] = p[1]
      BY <2>3 DEF Promotions
    <2> DEFINE hits == HitsAt(o, p[1])
    <2>5. /\ hits \in Seq(Entries) /\ hits # <<>>
          /\ \A e \in ToSet(hits) :
                e[1] \in ToSet(o.keys) /\ o.from[e[1]] = p[1] /\ e[2] = o.got[e[1]]
      BY <2>4, HitsFacts, ConfigFacts
    <2>6. r = [kind |-> o.kind, pc |-> "promote", outcome |-> o.outcome,
               keys |-> o.keys, entries |-> o.entries, from |-> o.from, got |-> o.got,
               failures |-> o.failures, src |-> p[1], tier |-> p[2], at |-> p[2],
               todo |-> hits, out |-> <<>>, evicted |-> o.evicted]
      BY <2>1, ZenonT(60) DEF Registers
    <2> HIDE DEF hits
    <2>7. p[2] \in Tiers /\ <<>> \in Seq(Entries) /\ NoTier \notin Tiers
      BY <2>4, ConfigFacts
    <2>8. r \in Registers
      BY <2>4, <2>5, <2>6, <2>7 DEF Registers, Phases
    <2>9. /\ Same(o, r) /\ r.failures = o.failures /\ r.evicted = o.evicted /\ r.pc = "promote"
          /\ r.kind = "read" /\ r.out = <<>> /\ r.at \in Writable /\ r.tier \in Writable
          /\ r.todo = hits /\ r.entries = o.entries /\ r.from = o.from /\ r.got = o.got
      BY <2>4, <2>6 DEF Same
    <2>10. Sound(r)
      BY <2>5, <2>8, <2>9
      DEF Sound, Probing, Putting, Writing, Removing, Requested, Found
    <2>11. ASSUME o.src = 0, o.tier = 0, 0 \in Writable PROVE p[2] = 0
      <3>1. PICK j : j = p[1]
        OBVIOUS
      <3>2. p[2] < j /\ p[2] \in Nat /\ j \in Nat
        BY <2>3, <2>4, <3>1, ConfigFacts DEF Promotions
      <3>3. <<j, 0>> \in Promotions(o)
        BY <2>3, <2>11, <3>1, <3>2 DEF Promotions
      <3>4. <<j, 0>> \in ps
        BY <2>11, <3>2, <3>3 DEF Later
      <3>5. ~Later(<<j, 0>>, p)
        BY <3>1, <3>2 DEF Later
      <3>6. p = <<j, 0>>
        BY <2>3, <3>4, <3>5
      <3> QED
        BY <3>6
    <2>12. o.src = 0 /\ o.tier = 0 => PromotesTop(o, r)
      BY <2>6, <2>11 DEF PromotesTop
    <2> QED
      BY <2>4, <2>5, <2>7, <2>8, <2>9, <2>10, <2>12 DEF PromotionGoesOn
  <1> QED
    BY <1>2, <1>3

\* After a probe: the next tier, or what follows the probing.
LEMMA AfterProbeFacts ==
    ASSUME config \in Configs, NEW o \in Registers, Found(o), Requested(o),
           o.pc = "probe", o.kind \in {"read", "exists"}, NEW r, r = AfterProbe(o)
    PROVE  /\ r \in Registers /\ Same(o, r) /\ Sound(r)
           /\ r.failures = o.failures /\ r.evicted = o.evicted
           /\ \/ /\ Unresolved(o) # {}
                 /\ r.pc = "probe" /\ r.tier = o.tier + 1 /\ r.todo = o.todo /\ r.out = o.out
              \/ /\ Unresolved(o) = {} \/ o.tier + 1 = config.n
                 /\ PromotionGoesOn(o, r) /\ PromotesTop(o, r)
  <1>1. o.tier \in Tiers /\ config.n \in Nat /\ o.tier \in Nat /\ o.tier < config.n
    BY ConfigFacts DEF Registers, Tiers
  <1>2. CASE Unresolved(o) # {} /\ o.tier + 1 < config.n
    <2>1. r = [o EXCEPT !.tier = o.tier + 1]
      BY <1>2 DEF AfterProbe
    <2>2. o.tier + 1 \in Tiers
      BY <1>1, <1>2 DEF Tiers
    <2>3. r = [kind |-> o.kind, pc |-> o.pc, outcome |-> o.outcome,
               keys |-> o.keys, entries |-> o.entries, from |-> o.from, got |-> o.got,
               failures |-> o.failures, src |-> o.src, tier |-> o.tier + 1, at |-> o.at,
               todo |-> o.todo, out |-> o.out, evicted |-> o.evicted]
      BY <2>1 DEF Registers
    <2>4. r \in Registers
      BY <2>2, <2>3 DEF Registers
    <2>5. /\ Same(o, r) /\ r.failures = o.failures /\ r.evicted = o.evicted /\ r.pc = "probe"
          /\ r.tier = o.tier + 1 /\ r.todo = o.todo /\ r.out = o.out
      BY <2>3 DEF Same
    <2>6. Sound(r)
      BY <2>4, <2>5 DEF Same, Sound, Probing, Putting, Writing, Removing, Requested, Found
    <2> QED
      BY <1>2, <2>4, <2>5, <2>6
  <1>3. CASE ~(Unresolved(o) # {} /\ o.tier + 1 < config.n)
    <2>0. PICK x : x = [o EXCEPT !.src = 0, !.tier = 0]
      OBVIOUS
    <2>1. r = NextPromotion(x)
      BY <1>3, <2>0 DEF AfterProbe
    <2>2. x = [kind |-> o.kind, pc |-> o.pc, outcome |-> o.outcome,
               keys |-> o.keys, entries |-> o.entries, from |-> o.from, got |-> o.got,
               failures |-> o.failures, src |-> 0, tier |-> 0, at |-> o.at,
               todo |-> o.todo, out |-> o.out, evicted |-> o.evicted]
      BY <2>0 DEF Registers
    <2>3. 0 \in Tiers
      BY ConfigFacts
    <2>4. x \in Registers
      BY <2>2, <2>3 DEF Registers
    <2>5. Same(o, x) /\ x.failures = o.failures /\ x.evicted = o.evicted
          /\ x.kind = o.kind /\ x.keys = o.keys /\ x.entries = o.entries
          /\ x.from = o.from /\ x.got = o.got /\ x.src = 0 /\ x.tier = 0
      BY <2>2 DEF Same
    <2>6. Found(x) /\ Requested(x) /\ ReadOutcome(x) = ReadOutcome(o)
      BY <2>5 DEF Found, Requested, ReadOutcome, Unresolved
    <2>7. /\ r \in Registers /\ Same(x, r) /\ Sound(r)
          /\ r.failures = x.failures /\ r.evicted = x.evicted
          /\ PromotionGoesOn(x, r) /\ PromotesTop(x, r)
      BY <2>1, <2>4, <2>5, <2>6, NextPromotionFacts
    <2>8. Unresolved(o) = {} \/ o.tier + 1 = config.n
      BY <1>1, <1>3
    <2>9. Same(o, r)
      BY <2>5, <2>7 DEF Same
    <2> QED
      BY <2>5, <2>6, <2>7, <2>8, <2>9 DEF PromotionGoesOn, PromotesTop
  <1> QED
    BY <1>2, <1>3

-----------------------------------------------------------------------------
(* Writes                                                                  *)

\* The registers of a put in progress, which may have nothing left to put.
Active(o) ==
    /\ o \in Registers /\ Writing(o) /\ Requested(o) /\ Found(o)
    /\ o.pc \in {"promote", "write"}
    /\ o.kind = IF o.pc = "promote" THEN "read" ELSE "put"
    /\ o.at \in Writable /\ o.tier \in Writable

\* What the end of a tier's write leads to.
WriteGoesOn(o, r) ==
    \/ /\ Above(o.tier) = {}
       /\ r.pc = "idle" /\ r.outcome = "ok"
    \/ /\ Above(o.tier) # {} /\ config.policy.write = "WriteThrough"
       /\ r.pc = "write" /\ r.tier = Max(Above(o.tier)) /\ r.at = r.tier
       /\ r.todo = o.entries /\ r.out = <<>>
    \/ /\ Above(o.tier) # {} /\ config.policy.write = "WriteAround"
       /\ r.pc = "purge" /\ o.tier = Bottom /\ r.tier = Min(Above(o.tier))

LEMMA NextWriteFacts ==
    ASSUME config \in Configs, NEW o, Active(o), o.pc = "write", NEW r, r = NextWrite(o)
    PROVE  /\ r \in Registers /\ Same(o, r) /\ Sound(r)
           /\ r.failures = {} /\ r.evicted = o.evicted
           /\ WriteGoesOn(o, r)
  <1>1. o \in Registers /\ o.kind = "put" /\ o.tier \in Writable /\ o.failures = {}
        /\ o.entries # <<>>
    BY DEF Active, Writing, Requested
  <1>2. o.tier \in Tiers /\ Above(o.tier) \in SUBSET Writable /\ Above(o.tier) \in SUBSET Tiers
    <2>1. o.tier \in Tiers
      BY <1>1 DEF Registers
    <2> QED
      BY <2>1, AroundTier
  <1>3. config.policy.write \in {"WriteThrough", "WriteAround"}
    BY ConfigFacts DEF Policy
  <1>4. CASE Above(o.tier) = {}
    <2>1. r = Return(o, "ok")
      BY <1>4 DEF NextWrite
    <2>2. "ok" \in Outcomes
      BY DEF Outcomes
    <2>3. Requested(o) /\ Found(o)
      BY DEF Active
    <2>4. /\ r \in Registers /\ Same(o, r) /\ Sound(r)
          /\ r.failures = o.failures /\ r.evicted = o.evicted /\ r.pc = "idle" /\ r.outcome = "ok"
      BY <1>1, <2>1, <2>2, <2>3, ReturnFacts, ReturnSound
    <2> QED
      BY <1>1, <1>4, <2>4 DEF WriteGoesOn
  <1>5. CASE Above(o.tier) # {} /\ config.policy.write = "WriteThrough"
    <2> DEFINE i == Max(Above(o.tier))
    <2>1. r = [o EXCEPT !.tier = i, !.at = i, !.todo = o.entries, !.out = <<>>]
      BY <1>5 DEF NextWrite, StartTier
    <2>2. i \in Writable /\ i \in Tiers
      BY <1>2, <1>5, TierSets
    <2> HIDE DEF i
    <2>3. r = [kind |-> o.kind, pc |-> o.pc, outcome |-> o.outcome,
               keys |-> o.keys, entries |-> o.entries, from |-> o.from, got |-> o.got,
               failures |-> o.failures, src |-> o.src, tier |-> i, at |-> i,
               todo |-> o.entries, out |-> <<>>, evicted |-> o.evicted]
      BY <1>1, <2>1 DEF Registers
    <2>4. <<>> \in Seq(Entries)
      OBVIOUS
    <2>5. r \in Registers
      BY <1>1, <2>2, <2>3, <2>4 DEF Registers
    <2>6. /\ Same(o, r) /\ r.failures = o.failures /\ r.evicted = o.evicted
          /\ r.pc = "write" /\ r.tier = i /\ r.at = i /\ r.todo = o.entries /\ r.out = <<>>
          /\ r.kind = o.kind
      BY <2>3 DEF Same
    <2>7. Requested(r) /\ Found(r)
      BY <2>6 DEF Same, Active, Requested, Found
    <2>8. Probing(r) /\ Putting(r) /\ Writing(r) /\ Removing(r)
      BY <1>1, <1>5, <2>2, <2>6 DEF Probing, Putting, Writing, Removing
    <2> QED
      BY <1>1, <1>5, <2>5, <2>6, <2>7, <2>8 DEF WriteGoesOn, Sound, i
  <1>6. CASE Above(o.tier) # {} /\ config.policy.write = "WriteAround"
    <2> DEFINE i == Min(Above(o.tier))
    <2>1. r = [o EXCEPT !.pc = "purge", !.tier = i]
      BY <1>6 DEF NextWrite
    <2>2. i \in Above(o.tier) /\ i \in Tiers /\ o.tier = Bottom
      <3>1. o.tier = Bottom
        BY <1>6 DEF Active, Writing
      <3> QED
        BY <1>2, <1>6, <3>1, TierSets
    <2> HIDE DEF i
    <2>3. r = [kind |-> o.kind, pc |-> "purge", outcome |-> o.outcome,
               keys |-> o.keys, entries |-> o.entries, from |-> o.from, got |-> o.got,
               failures |-> o.failures, src |-> o.src, tier |-> i, at |-> o.at,
               todo |-> o.todo, out |-> o.out, evicted |-> o.evicted]
      BY <1>1, <2>1 DEF Registers
    <2>4. r \in Registers
      BY <1>1, <2>2, <2>3 DEF Registers, Phases
    <2>5. /\ Same(o, r) /\ r.failures = o.failures /\ r.evicted = o.evicted
          /\ r.pc = "purge" /\ r.tier = i /\ r.kind = o.kind
      BY <2>3 DEF Same
    <2>6. Requested(r) /\ Found(r)
      BY <2>5 DEF Same, Active, Requested, Found
    <2>7. Probing(r) /\ Putting(r) /\ Writing(r) /\ Removing(r)
      BY <1>1, <1>6, <2>2, <2>5 DEF Probing, Putting, Writing, Removing
    <2> QED
      BY <1>1, <1>6, <2>2, <2>4, <2>5, <2>6, <2>7 DEF WriteGoesOn, Sound, i
  <1> QED
    BY <1>3, <1>4, <1>5, <1>6

\* A level of a put or of its cascade goes on, or is followed by the next level
\* or by what follows the put.
Settled(o, r) ==
    \/ o.todo # <<>> /\ r = o
    \/ /\ o.todo = <<>> /\ o.out # <<>>
       /\ config.policy.demote_displaced /\ Below(o.at) # {}
       /\ r.pc = o.pc /\ r.tier = o.tier /\ r.at = Min(Below(o.at))
       /\ r.todo = o.out /\ r.out = <<>> /\ r.evicted = o.evicted
    \/ /\ o.todo = <<>> /\ o.pc = "promote"
       /\ r.evicted = o.evicted /\ PromotionGoesOn(o, r)
    \/ /\ o.todo = <<>> /\ o.pc = "write"
       /\ r.evicted = o.evicted \cup ToSet(o.out) /\ WriteGoesOn(o, r)

\* Dropping or reporting what was displaced changes nothing else.
Clear(o, ev) == [o EXCEPT !.evicted = ev, !.out = <<>>]

LEMMA ClearFacts ==
    ASSUME NEW o, Active(o), NEW ev \in SUBSET Entries, NEW x, x = Clear(o, ev)
    PROVE  /\ Active(x) /\ Same(o, x) /\ x.pc = o.pc /\ x.tier = o.tier
           /\ x.failures = o.failures /\ x.evicted = ev
  <1>1. o \in Registers
    BY DEF Active
  <1>2. x = [kind |-> o.kind, pc |-> o.pc, outcome |-> o.outcome,
             keys |-> o.keys, entries |-> o.entries, from |-> o.from, got |-> o.got,
             failures |-> o.failures, src |-> o.src, tier |-> o.tier, at |-> o.at,
             todo |-> o.todo, out |-> <<>>, evicted |-> ev]
    BY <1>1 DEF Registers, Clear
  <1>3. <<>> \in Seq(Entries)
    OBVIOUS
  <1>4. x \in Registers
    BY <1>1, <1>2, <1>3 DEF Registers
  <1>5. /\ Same(o, x) /\ x.pc = o.pc /\ x.tier = o.tier /\ x.at = o.at
        /\ x.failures = o.failures /\ x.evicted = ev
    BY <1>2 DEF Same
  <1>6. Writing(x) /\ Requested(x) /\ Found(x)
    BY <1>5 DEF Same, Active, Writing, Requested, Found
  <1> QED
    BY <1>4, <1>5, <1>6 DEF Same, Active

LEMMA SettleFacts ==
    ASSUME config \in Configs, NEW o, Active(o), NEW r, r = Settle(o)
    PROVE  /\ r \in Registers /\ Same(o, r) /\ Sound(r)
           /\ r.failures = o.failures /\ Settled(o, r)
  <1>1. /\ o \in Registers /\ o.at \in Writable /\ o.tier \in Writable /\ o.at \in Tiers
        /\ o.out \in Seq(Entries) /\ o.evicted \in SUBSET Entries
    BY DEF Active, Registers
  <1>2. CASE o.todo # <<>>
    <2>1. r = o
      BY <1>2 DEF Settle
    <2>2. Sound(o)
      BY <1>2 DEF Active, Sound, Probing, Putting, Removing
    <2> QED
      BY <1>1, <1>2, <2>1, <2>2 DEF Settled, Same
  <1>3. CASE o.todo = <<>> /\ o.out # <<>> /\ config.policy.demote_displaced /\ Below(o.at) # {}
    <2> DEFINE i == Min(Below(o.at))
    <2>1. r = [o EXCEPT !.at = i, !.todo = o.out, !.out = <<>>]
      BY <1>3 DEF Settle
    <2>2. i \in Writable /\ i \in Tiers
      <3>1. Below(o.at) \in SUBSET Writable /\ Below(o.at) \in SUBSET Tiers
        BY <1>1, AroundTier
      <3> QED
        BY <1>3, <3>1, TierSets
    <2> HIDE DEF i
    <2>3. r = [kind |-> o.kind, pc |-> o.pc, outcome |-> o.outcome,
               keys |-> o.keys, entries |-> o.entries, from |-> o.from, got |-> o.got,
               failures |-> o.failures, src |-> o.src, tier |-> o.tier, at |-> i,
               todo |-> o.out, out |-> <<>>, evicted |-> o.evicted]
      BY <1>1, <2>1 DEF Registers
    <2>4. <<>> \in Seq(Entries)
      OBVIOUS
    <2>5. r \in Registers
      BY <1>1, <2>2, <2>3, <2>4 DEF Registers
    <2>6. /\ Same(o, r) /\ r.failures = o.failures /\ r.evicted = o.evicted
          /\ r.pc = o.pc /\ r.tier = o.tier /\ r.at = i /\ r.todo = o.out /\ r.out = <<>>
      BY <2>3 DEF Same
    <2>7. Writing(r) /\ Requested(r) /\ Found(r)
      BY <2>6 DEF Same, Active, Writing, Requested, Found
    <2>8. Probing(r) /\ Putting(r) /\ Removing(r)
      BY <1>1, <1>3, <2>2, <2>6 DEF Same, Active, Probing, Putting, Removing
    <2>9. Settled(o, r)
      BY <1>3, <2>6 DEF Settled, i
    <2> QED
      BY <2>5, <2>6, <2>7, <2>8, <2>9 DEF Sound
  <1>4. CASE /\ o.todo = <<>>
             /\ ~(o.out # <<>> /\ config.policy.demote_displaced /\ Below(o.at) # {})
    <2>1. r = Resume(o)
      BY <1>4 DEF Settle
    <2>2. CASE o.pc = "promote"
      <3>1. PICK x : x = Clear(o, o.evicted)
        OBVIOUS
      <3>2. x = [o EXCEPT !.out = <<>>]
        BY <1>1, <3>1 DEF Registers, Clear
      <3>3. r = NextPromotion(x)
        BY <2>1, <2>2, <3>2 DEF Resume
      <3>4. /\ Active(x) /\ Same(o, x) /\ x.pc = o.pc /\ x.tier = o.tier
            /\ x.failures = o.failures /\ x.evicted = o.evicted
        BY <1>1, <3>1, ClearFacts
      <3>5. x \in Registers /\ Found(x) /\ Requested(x) /\ x.kind = "read"
        BY <2>2, <3>4 DEF Active
      <3>6. /\ r \in Registers /\ Same(x, r) /\ Sound(r) /\ r.failures = x.failures
            /\ r.evicted = x.evicted /\ PromotionGoesOn(x, r)
        BY <3>3, <3>5, NextPromotionFacts
      <3>7. PromotionGoesOn(o, r)
        BY <3>4, <3>6 DEF PromotionGoesOn, ReadOutcome, Unresolved, Same
      <3> QED
        BY <1>4, <2>2, <3>4, <3>6, <3>7 DEF Same, Settled
    <2>3. CASE o.pc = "write"
      <3>1. PICK x : x = Clear(o, o.evicted \cup ToSet(o.out))
        OBVIOUS
      <3>2. r = NextWrite(x)
        BY <2>1, <2>3, <3>1 DEF Resume, Clear
      <3>3. o.evicted \cup ToSet(o.out) \in SUBSET Entries
        BY <1>1, Elements
      <3>4. /\ Active(x) /\ Same(o, x) /\ x.pc = o.pc /\ x.tier = o.tier
            /\ x.failures = o.failures /\ x.evicted = o.evicted \cup ToSet(o.out)
        BY <3>1, <3>3, ClearFacts
      <3>5. /\ r \in Registers /\ Same(x, r) /\ Sound(r)
            /\ r.failures = {} /\ r.evicted = x.evicted /\ WriteGoesOn(x, r)
        BY <2>3, <3>2, <3>4, NextWriteFacts
      <3>6. WriteGoesOn(o, r) /\ o.failures = {}
        BY <2>3, <3>4, <3>5 DEF WriteGoesOn, Same, Active, Writing
      <3> QED
        BY <1>4, <2>3, <3>4, <3>5, <3>6 DEF Same, Settled
    <2> QED
      BY <2>2, <2>3 DEF Active
  <1> QED
    BY <1>2, <1>3, <1>4

\* One entry less to put, and what its put displaced.
Advance(o, q) == [o EXCEPT !.todo = Tail(@), !.out = @ \o q]

Advanced(o, q, x) ==
    /\ Active(x) /\ Same(o, x) /\ x.pc = o.pc /\ x.tier = o.tier /\ x.at = o.at
    /\ x.failures = o.failures /\ x.evicted = o.evicted
    /\ x.todo = Tail(o.todo) /\ x.out = o.out \o q
    /\ ToSet(o.todo) = {o.todo[1]} \cup ToSet(x.todo) /\ o.todo[1] \in Entries
    /\ ToSet(x.out) = ToSet(o.out) \cup ToSet(q)

LEMMA AdvanceFacts ==
    ASSUME NEW o, Sound(o), o.pc \in {"promote", "write"}, NEW q \in Seq(Entries),
           NEW x, x = Advance(o, q)
    PROVE  Advanced(o, q, x)
  <1>1. /\ o \in Registers /\ o.todo \in Seq(Entries) /\ o.todo # <<>> /\ o.out \in Seq(Entries)
        /\ o.kind = (IF o.pc = "promote" THEN "read" ELSE "put")
        /\ o.at \in Writable /\ o.tier \in Writable
    BY DEF Sound, Putting, Registers
  <1>2. /\ Tail(o.todo) \in Seq(Entries) /\ o.out \o q \in Seq(Entries)
        /\ ToSet(o.todo) = {o.todo[1]} \cup ToSet(Tail(o.todo)) /\ o.todo[1] \in Entries
        /\ ToSet(o.out \o q) = ToSet(o.out) \cup ToSet(q)
    BY <1>1, TailElements, ConcatElements, Elements
  <1>3. x = [kind |-> o.kind, pc |-> o.pc, outcome |-> o.outcome,
             keys |-> o.keys, entries |-> o.entries, from |-> o.from, got |-> o.got,
             failures |-> o.failures, src |-> o.src, tier |-> o.tier, at |-> o.at,
             todo |-> Tail(o.todo), out |-> o.out \o q, evicted |-> o.evicted]
    BY <1>1 DEF Registers, Advance
  <1>4. x \in Registers
    BY <1>1, <1>2, <1>3 DEF Registers
  <1>5. /\ Same(o, x) /\ x.pc = o.pc /\ x.tier = o.tier /\ x.at = o.at
        /\ x.failures = o.failures /\ x.evicted = o.evicted
        /\ x.todo = Tail(o.todo) /\ x.out = o.out \o q
    BY <1>3 DEF Same
  <1>6. Writing(x) /\ Requested(x) /\ Found(x)
    BY <1>5 DEF Same, Sound, Writing, Requested, Found
  <1>7. Active(x)
    BY <1>1, <1>4, <1>5, <1>6 DEF Same, Active
  <1> QED
    BY <1>2, <1>5, <1>7 DEF Advanced

\* What a put, accepted or rejected, may do to the registers.
PutStep(o, r) ==
    /\ Sound(r) /\ Same(o, r)
    /\ o.pc = "promote" =>
          /\ r.failures = o.failures
          /\ r.pc = "promote" \/ (r.pc = "idle" /\ r.outcome = ReadOutcome(o))
          /\ r.pc = "promote" => \A e \in ToSet(r.todo) \cup ToSet(r.out) :
                e \in ToSet(o.todo) \cup ToSet(o.out) \/ e[1] \notin Unresolved(o)
    /\ o.pc = "write" =>
          \/ r.pc = "write"
          \/ /\ r.pc = "purge" /\ r.failures = {} /\ Above(Bottom) # {}
             /\ r.tier = Min(Above(Bottom))
          \/ /\ r.pc = "idle" /\ r.outcome = "ok" /\ r.failures = {}
             /\ config.policy.write = "WriteAround" => Above(Bottom) = {}
          \/ r.pc = "idle" /\ r.outcome = "tier"

LEMMA PromotionIsPutStep ==
    ASSUME NEW o, NEW r, o.pc = "promote", Sound(r), Same(o, r), r.failures = o.failures,
           PromotionGoesOn(o, r)
    PROVE  PutStep(o, r)
  <1>1. r.pc = "promote" => \A e \in ToSet(r.todo) \cup ToSet(r.out) : e[1] \notin Unresolved(o)
    <2> SUFFICES ASSUME r.pc = "promote", NEW e \in ToSet(r.todo) \cup ToSet(r.out)
                 PROVE  e[1] \notin Unresolved(o)
      OBVIOUS
    <2>1. r.out = <<>> /\ ToSet(r.out) = {}
      <3>1. r.out = <<>>
        BY DEF PromotionGoesOn
      <3> QED
        BY <3>1 DEF ToSet
    <2> QED
      BY <2>1 DEF PromotionGoesOn, Unresolved
  <1>2. r.pc = "promote" \/ (r.pc = "idle" /\ r.outcome = ReadOutcome(o))
    BY DEF PromotionGoesOn
  <1>3. o.pc # "write"
    OBVIOUS
  <1> QED
    BY <1>1, <1>2, <1>3, Zenon DEF PutStep

LEMMA WriteIsPutStep ==
    ASSUME NEW o, NEW r, Active(o), o.pc = "write", Sound(r), Same(o, r), r.failures = {},
           WriteGoesOn(o, r)
    PROVE  PutStep(o, r)
  <1>1. config.policy.write = "WriteAround" => o.tier = Bottom
    BY DEF Active, Writing
  <1>2. CASE Above(o.tier) = {} /\ r.pc = "idle" /\ r.outcome = "ok"
    BY <1>1, <1>2 DEF PutStep
  <1>3. CASE r.pc = "write"
    BY <1>3 DEF PutStep
  <1>4. CASE Above(o.tier) # {} /\ r.pc = "purge" /\ o.tier = Bottom /\ r.tier = Min(Above(o.tier))
    BY <1>4 DEF PutStep
  <1> QED
    BY <1>2, <1>3, <1>4 DEF WriteGoesOn

LEMMA SettleIsPutStep ==
    ASSUME config \in Configs, NEW o, Active(o), NEW r, r = Settle(o)
    PROVE  PutStep(o, r)
  <1>1. /\ r \in Registers /\ Same(o, r) /\ Sound(r)
        /\ r.failures = o.failures /\ Settled(o, r)
    BY SettleFacts
  <1>2. CASE o.todo # <<>> /\ r = o
    <2>1. o.pc = "promote" \/ (o.pc = "write" /\ "write" # "promote")
      BY DEF Active
    <2> QED
      BY <1>1, <1>2, <2>1, Zenon DEF PutStep
  <1>3. CASE r.pc = o.pc /\ r.todo = o.out /\ r.out = <<>>
    <2>1. ToSet(r.out) = {}
      BY <1>3 DEF ToSet
    <2>2. o.pc = "promote" \/ (o.pc = "write" /\ "write" # "promote")
      BY DEF Active
    <2>3. \A e \in ToSet(r.todo) \cup ToSet(r.out) : e \in ToSet(o.todo) \cup ToSet(o.out)
      BY <1>3, <2>1
    <2> QED
      BY <1>1, <1>3, <2>2, <2>3, Zenon DEF PutStep
  <1>4. CASE o.pc = "promote" /\ PromotionGoesOn(o, r)
    BY <1>1, <1>4, PromotionIsPutStep
  <1>5. CASE o.pc = "write" /\ WriteGoesOn(o, r)
    BY <1>1, <1>5, WriteIsPutStep DEF Active, Writing
  <1> QED
    BY <1>1, <1>2, <1>3, <1>4, <1>5 DEF Settled

\* What the rejection of an entry leads to.
PutFails(o, r) ==
    \/ o.at # o.tier /\ \E x : Advanced(o, <<>>, x) /\ Settled(x, r)
    \/ o.at = o.tier /\ o.pc = "promote" /\ PromotionGoesOn(o, r)
    \/ o.at = o.tier /\ o.pc = "write" /\ r.pc = "idle" /\ r.outcome = "tier"
    \/ /\ o.at = o.tier /\ o.pc = "write"
       /\ config.policy.on_write_error # "FailFast" /\ config.policy.write # "WriteAround"
       /\ WriteGoesOn(o, r)

LEMMA RejectedIsPutStep ==
    ASSUME config \in Configs, NEW o, Sound(o), o.pc \in {"promote", "write"},
           NEW r, r = Rejected(o)
    PROVE  PutStep(o, r) /\ PutFails(o, r)
  <1>1. /\ o \in Registers /\ o.at \in Tiers /\ o.evicted \in SUBSET Entries
        /\ o.out \in Seq(Entries) /\ Active(o)
    BY DEF Sound, Putting, Registers, Active
  <1>2. CASE o.at # o.tier
    <2>0. <<>> \in Seq(Entries)
      OBVIOUS
    <2>1. PICK q \in Seq(Entries) : q = <<>>
      BY <2>0
    <2>2. PICK x : x = Advance(o, q)
      OBVIOUS
    <2>3. r = Settle(x)
      <3>1. o.out \o q = o.out
        BY <1>1, <2>1
      <3>2. x = [o EXCEPT !.todo = Tail(@)]
        BY <1>1, <2>2, <3>1 DEF Registers, Advance
      <3> QED
        BY <1>2, <3>2 DEF Rejected
    <2>4. ToSet(q) = {}
      BY <2>1 DEF ToSet
    <2>5. Advanced(o, q, x)
      BY <2>2, AdvanceFacts
    <2>6. /\ Active(x) /\ Same(o, x) /\ x.pc = o.pc /\ x.failures = o.failures
          /\ ToSet(o.todo) = {o.todo[1]} \cup ToSet(x.todo)
          /\ ToSet(x.out) = ToSet(o.out) \cup ToSet(q)
      BY <2>5 DEF Advanced
    <2>7. PutStep(x, r) /\ Settled(x, r)
      BY <2>3, <2>6, SettleIsPutStep, SettleFacts
    <2>8. Unresolved(x) = Unresolved(o) /\ ReadOutcome(x) = ReadOutcome(o)
      BY <2>6 DEF Same, Unresolved, ReadOutcome
    <2>9. PutStep(o, r)
      BY <2>4, <2>6, <2>7, <2>8 DEF PutStep, Same
    <2>10. PutFails(o, r)
      BY <1>2, <2>1, <2>5, <2>7 DEF PutFails
    <2> QED
      BY <2>9, <2>10
  <1>3. CASE o.at = o.tier /\ o.pc = "promote"
    <2>1. PICK x : x = Clear(o, o.evicted)
      OBVIOUS
    <2>2. x = [o EXCEPT !.out = <<>>]
      BY <1>1, <2>1 DEF Registers, Clear
    <2>3. r = NextPromotion(x)
      BY <1>3, <2>2 DEF Rejected
    <2>4. /\ Active(x) /\ Same(o, x) /\ x.pc = o.pc /\ x.failures = o.failures
      BY <1>1, <2>1, ClearFacts
    <2>5. x \in Registers /\ Found(x) /\ Requested(x) /\ x.kind = "read"
      BY <1>3, <2>4 DEF Active
    <2>6. /\ r \in Registers /\ Same(x, r) /\ Sound(r) /\ r.failures = x.failures
          /\ PromotionGoesOn(x, r)
      BY <2>3, <2>5, NextPromotionFacts
    <2>7. PromotionGoesOn(o, r) /\ Same(o, r)
      BY <2>4, <2>6 DEF PromotionGoesOn, ReadOutcome, Unresolved, Same
    <2>8. PutFails(o, r)
      BY <1>3, <2>7 DEF PutFails
    <2> QED
      BY <1>3, <2>4, <2>6, <2>7, <2>8, PromotionIsPutStep
  <1>4. CASE /\ o.at = o.tier /\ o.pc = "write"
             /\ config.policy.on_write_error = "FailFast" \/ config.policy.write = "WriteAround"
    <2>1. PICK x : x = [o EXCEPT !.failures = o.failures \cup {o.at}]
      OBVIOUS
    <2>2. r = Return(x, "tier")
      BY <1>4, <2>1 DEF Rejected
    <2>3. x = [kind |-> o.kind, pc |-> o.pc, outcome |-> o.outcome,
               keys |-> o.keys, entries |-> o.entries, from |-> o.from, got |-> o.got,
               failures |-> o.failures \cup {o.at}, src |-> o.src, tier |-> o.tier, at |-> o.at,
               todo |-> o.todo, out |-> o.out, evicted |-> o.evicted]
      BY <1>1, <2>1 DEF Registers
    <2>4. x \in Registers
      BY <1>1, <2>3 DEF Registers
    <2>5. Same(o, x)
      BY <2>3 DEF Same
    <2>6. Requested(x) /\ Found(x) /\ "tier" \in Outcomes
      BY <2>5 DEF Same, Sound, Requested, Found, Outcomes
    <2>7. Sound(r) /\ Same(x, r) /\ r.pc = "idle" /\ r.outcome = "tier"
      BY <2>2, <2>4, <2>6, ReturnFacts, ReturnSound
    <2>8. PutFails(o, r)
      BY <1>4, <2>7 DEF PutFails
    <2> QED
      BY <1>4, <2>5, <2>7, <2>8 DEF PutStep, Same
  <1>5. CASE /\ o.at = o.tier /\ o.pc = "write"
             /\ ~(config.policy.on_write_error = "FailFast" \/ config.policy.write = "WriteAround")
    <2>1. PICK x : x = Clear(o, o.evicted)
      OBVIOUS
    <2>2. x = [o EXCEPT !.out = <<>>]
      BY <1>1, <2>1 DEF Registers, Clear
    <2>3. r = NextWrite(x)
      BY <1>5, <2>2 DEF Rejected
    <2>4. /\ Active(x) /\ Same(o, x) /\ x.pc = o.pc /\ x.tier = o.tier
      BY <1>1, <2>1, ClearFacts
    <2>5. Sound(r) /\ Same(x, r) /\ r.failures = {} /\ WriteGoesOn(x, r)
      BY <1>5, <2>3, <2>4, NextWriteFacts
    <2>6. PutStep(x, r)
      BY <1>5, <2>4, <2>5, WriteIsPutStep
    <2>7. WriteGoesOn(o, r)
      BY <2>4, <2>5 DEF WriteGoesOn, Same
    <2>8. PutFails(o, r)
      BY <1>5, <2>7 DEF PutFails
    <2> QED
      BY <1>5, <2>4, <2>6, <2>8 DEF PutStep, Same
  <1> QED
    BY <1>2, <1>3, <1>4, <1>5

\* What a put displaces is what the tier holds, as entries.
Displaced(s, m) == [n \in 1 .. Len(s) |-> <<s[n], m[s[n]]>>]

LEMMA VictimsFacts ==
    ASSUME NEW i, NEW k, NEW m \in Contents, NEW s \in Victims(i, m)
    PROVE  /\ s \in Seq(Keys) /\ ToSet(s) \in SUBSET Present(m)
           /\ Displaced(s, m) \in Seq(Entries)
           /\ ToSet(Displaced(s, m)) = {<<j, m[j]>> : j \in ToSet(s)}
  <1> DEFINE P == Present(m)
             q == Displaced(s, m)
  <1>1. P \in SUBSET Keys /\ \A j \in P : m[j] \in Values
    BY DEF Present, Contents
  <1>2. PICK t \in SUBSET P : s \in [1 .. Cardinality(t) -> t]
    <2>1. s \in SetToAllKPermutations(P)
      BY DEF Victims
    <2>2. \E t \in SUBSET P : s \in SetToSeqs(t)
      BY <2>1 DEF SetToAllKPermutations
    <2> QED
      BY <2>2 DEF SetToSeqs
  <1> HIDE DEF P
  <1>3. Cardinality(t) \in Nat
    BY <1>1, <1>2, RouterAssumption, FS_Subset, FS_CardinalityType
  <1>4. s \in Seq(t) /\ Len(s) \in Nat /\ DOMAIN s = 1 .. Len(s)
    BY <1>2, <1>3, FunctionIsSeq
  <1>5. \A e \in ToSet(s) : e \in t
    BY <1>4, Elements
  <1>6. ToSet(s) \in SUBSET P /\ \A e \in ToSet(s) : e \in Keys
    BY <1>1, <1>5
  <1>7. s \in Seq(Keys)
    BY <1>4, <1>6, SeqOfElements
  <1>8. q = [n \in 1 .. Len(s) |-> <<s[n], m[s[n]]>>]
    BY DEF Displaced
  <1> HIDE DEF q
  <1>9. q \in [1 .. Len(s) -> Entries]
    <2>1. ASSUME NEW n \in 1 .. Len(s) PROVE <<s[n], m[s[n]]>> \in Entries
      <3>1. s[n] \in P
        BY <1>4, <1>6, Elements
      <3> QED
        BY <1>1, <3>1 DEF Entries
    <2> QED
      BY <1>8, <2>1
  <1>10. q \in Seq(Entries) /\ DOMAIN q = 1 .. Len(s)
    BY <1>4, <1>9, FunctionIsSeq
  <1>11. ToSet(q) = {<<j, m[j]>> : j \in ToSet(s)}
    <2>1. ASSUME NEW e \in ToSet(q) PROVE e \in {<<j, m[j]>> : j \in ToSet(s)}
      <3>1. PICK n \in 1 .. Len(s) : e = q[n]
        BY <1>10, Zenon DEF ToSet
      <3>2. s[n] \in ToSet(s) /\ e = <<s[n], m[s[n]]>>
        BY <1>4, <1>8, <3>1, Elements
      <3> QED
        BY <3>2
    <2>2. ASSUME NEW j \in ToSet(s) PROVE <<j, m[j]>> \in ToSet(q)
      <3>1. PICK n \in 1 .. Len(s) : s[n] = j
        BY <1>4, Elements
      <3>2. n \in DOMAIN q /\ q[n] = <<j, m[j]>>
        BY <1>8, <1>10, <3>1
      <3> QED
        BY <3>2, Zenon DEF ToSet
    <2> QED
      BY <2>1, <2>2
  <1> QED
    BY <1>6, <1>7, <1>10, <1>11 DEF P, q

-----------------------------------------------------------------------------
(* Deletes and invalidations                                               *)

\* The tiers that a removal visits.
Visited(o) == IF o.pc = "purge" THEN Above(Bottom) ELSE Writable

RemovalGoesOn(o, r) ==
    \/ /\ r.pc = o.pc /\ r.tier \in Visited(o) /\ r.todo = o.todo /\ r.out = o.out
       /\ \A j \in Visited(o) : j < r.tier => j <= o.tier
    \/ /\ r.pc = "idle" /\ r.outcome = IF r.failures = {} THEN "ok" ELSE "partial"
       /\ \A j \in Visited(o) : j <= o.tier

LEMMA NextRemovalFacts ==
    ASSUME config \in Configs, NEW o \in Registers, Removing(o), Requested(o), Found(o),
           o.pc \in {"purge", "remove"}, NEW r, r = NextRemoval(o)
    PROVE  /\ Sound(r) /\ Same(o, r) /\ r.failures = o.failures /\ r.evicted = o.evicted
           /\ RemovalGoesOn(o, r)
  <1> DEFINE rest == Below(o.tier) \ (IF o.pc = "purge" THEN {Bottom} ELSE {})
  <1>1. o.tier \in Tiers /\ Tiers \in SUBSET Nat /\ Writable \in SUBSET Tiers
    BY ConfigFacts DEF Registers
  <1>2. Writable # {}
    BY DEF Removing, Above
  <1>3. Bottom \in Writable /\ \A j \in Writable : j <= Bottom
    BY <1>1, <1>2, TierSets DEF Bottom
  <1>4. /\ rest \in SUBSET Tiers /\ \A j \in rest : j \in Visited(o)
        /\ \A j \in Visited(o) : j \in rest \/ j <= o.tier
    <2>1. Bottom \in Nat /\ o.tier \in Nat /\ \A j \in Writable : j \in Nat
      BY <1>1, <1>3
    <2>2. CASE o.pc = "purge"
      <3>1. rest = {j \in Writable : j > o.tier} \ {Bottom}
        BY <2>2 DEF Below
      <3>2. Visited(o) = {j \in Writable : j < Bottom}
        BY <2>2 DEF Visited, Above
      <3> HIDE DEF rest
      <3>3. \A j \in rest : j \in Writable /\ j # Bottom
        BY <3>1
      <3>4. \A j \in Writable : j > o.tier /\ j # Bottom => j \in rest
        BY <3>1
      <3>5. ASSUME NEW j \in rest PROVE j \in Tiers /\ j \in Visited(o)
        <4>1. j \in Writable /\ j # Bottom /\ j <= Bottom /\ j \in Nat /\ Bottom \in Nat
          BY <1>3, <2>1, <3>3
        <4>2. j < Bottom
          BY <4>1
        <4> QED
          BY <1>1, <3>2, <4>1, <4>2
      <3>6. ASSUME NEW j \in Visited(o) PROVE j \in rest \/ j <= o.tier
        <4>1. j \in Writable /\ j < Bottom /\ j \in Nat
          BY <2>1, <3>2
        <4> QED
          BY <2>1, <3>4, <4>1
      <3> QED
        BY <3>5, <3>6
    <2>3. CASE o.pc # "purge"
      <3>1. rest = {j \in Writable : j > o.tier}
        BY <2>3 DEF Below
      <3>2. Visited(o) = Writable
        BY <2>3 DEF Visited
      <3> HIDE DEF rest
      <3>3. \A j \in rest : j \in Writable
        BY <3>1
      <3>4. \A j \in Writable : j > o.tier => j \in rest
        BY <3>1
      <3>5. ASSUME NEW j \in rest PROVE j \in Tiers /\ j \in Visited(o)
        BY <1>1, <3>2, <3>3
      <3>6. ASSUME NEW j \in Visited(o) PROVE j \in rest \/ j <= o.tier
        <4>1. j \in Writable /\ j \in Nat
          BY <2>1, <3>2
        <4> QED
          BY <2>1, <3>4, <4>1
      <3> QED
        BY <3>5, <3>6
    <2> QED
      BY <2>2, <2>3
  <1>5. \A j \in Visited(o) : j \in Nat
    BY <1>1 DEF Visited, Above
  <1>6. r = IF rest # {} THEN [o EXCEPT !.tier = Min(rest)]
            ELSE Return(o, IF o.failures = {} THEN "ok" ELSE "partial")
    BY DEF NextRemoval
  <1> HIDE DEF rest
  <1>7. CASE rest # {}
    <2> DEFINE i == Min(rest)
    <2>1. i \in rest /\ i \in Tiers /\ \A j \in rest : i <= j
      BY <1>4, <1>7, TierSets
    <2> HIDE DEF i
    <2>2. r = [kind |-> o.kind, pc |-> o.pc, outcome |-> o.outcome,
               keys |-> o.keys, entries |-> o.entries, from |-> o.from, got |-> o.got,
               failures |-> o.failures, src |-> o.src, tier |-> i, at |-> o.at,
               todo |-> o.todo, out |-> o.out, evicted |-> o.evicted]
      BY <1>6, <1>7 DEF Registers, i
    <2>3. r \in Registers
      BY <2>1, <2>2 DEF Registers
    <2>4. /\ Same(o, r) /\ r.failures = o.failures /\ r.evicted = o.evicted
          /\ r.pc = o.pc /\ r.tier = i /\ r.kind = o.kind /\ r.todo = o.todo /\ r.out = o.out
      BY <2>2 DEF Same
    <2>5. i \in Visited(o)
      BY <1>4, <2>1
    <2>6. Requested(r) /\ Found(r)
      BY <2>4 DEF Same, Requested, Found
    <2>7. Probing(r) /\ Putting(r) /\ Writing(r) /\ Removing(r)
      BY <2>4, <2>5 DEF Probing, Putting, Writing, Removing, Visited
    <2>8. \A j \in Visited(o) : j < i => j <= o.tier
      <3>1. i \in Nat
        BY <1>1, <2>1
      <3> QED
        BY <1>4, <1>5, <2>1, <3>1
    <2>9. RemovalGoesOn(o, r)
      BY <2>4, <2>5, <2>8 DEF RemovalGoesOn
    <2> QED
      BY <2>3, <2>4, <2>6, <2>7, <2>9 DEF Sound
  <1>8. CASE rest = {}
    <2> DEFINE out == IF o.failures = {} THEN "ok" ELSE "partial"
    <2>1. r = Return(o, out) /\ out \in Outcomes
      BY <1>6, <1>8 DEF Outcomes
    <2> HIDE DEF out
    <2>2. /\ Sound(r) /\ Same(o, r) /\ r.failures = o.failures /\ r.evicted = o.evicted
          /\ r.pc = "idle" /\ r.outcome = out
      BY <2>1, ReturnFacts, ReturnSound
    <2>3. \A j \in Visited(o) : j <= o.tier
      BY <1>4, <1>8
    <2> QED
      BY <2>2, <2>3 DEF RemovalGoesOn, out
  <1> QED
    BY <1>7, <1>8

-----------------------------------------------------------------------------
(* The steps of a client                                                   *)

\* The configuration never changes, so what is said of registers stays said.
LEMMA Rigid ==
    ASSUME config' = config
    PROVE  /\ Tiers' = Tiers /\ NoTier' = NoTier /\ Writable' = Writable
           /\ Fallible' = Fallible /\ Bottom' = Bottom /\ Registers' = Registers
  BY DEF Tiers, NoTier, Writable, Fallible, Bottom, Registers

LEMMA SoundStays ==
    ASSUME NEW CONSTANT d, NEW CONSTANT r, op'[d] = r, config' = config, Sound(r)
    PROVE  Sound(op[d])'
  <1>1. (op[d] \in Registers)'
    BY Rigid DEF Sound
  <1>2. Probing(op[d])' /\ Putting(op[d])' /\ Writing(op[d])' /\ Requested(op[d])'
    BY Rigid DEF Sound, Probing, Putting, Writing, Requested
  <1>3. Removing(op[d])'
    BY Rigid DEF Sound, Removing, Above
  <1>4. Found(op[d])'
    BY Rigid DEF Sound, Found
  <1> QED
    BY <1>1, <1>2, <1>3, <1>4 DEF Sound

\* Types, and the registers of every client.
Base ==
    /\ TypeOK
    /\ \A c \in Clients : Sound(op[c])
    /\ \A c \in Clients \ config.callers : op[c] = NoOperation

\* A call.
Started(o, r) ==
    /\ o.pc = "idle" /\ Sound(r) /\ r.failures = {} /\ r.evicted = {}
    /\ \A k \in Keys : r.from[k] = NoTier
    /\ r.pc # "idle" => r.todo = r.entries /\ r.out = <<>>
    /\ \/ r.kind \in {"read", "exists"} /\ r.pc = "probe" /\ r.tier = 0
       \/ r.kind = "put" /\ r.pc = "idle" /\ r.outcome = "readonly"
       \/ r.kind = "put" /\ r.pc = "write" /\ r.tier = Bottom /\ r.at = Bottom
       \/ r.kind = "delete" /\ r.pc = "idle" /\ r.outcome = "ok" /\ Writable = {}
       \/ r.kind = "delete" /\ r.pc = "remove" /\ Writable # {} /\ r.tier = Min(Writable)

Blank(kind, pc, keys, entries, tier, r) ==
    /\ r \in Registers /\ r.kind = kind /\ r.pc = pc /\ r.keys = keys
    /\ r.entries = entries /\ r.tier = tier /\ r.at = tier /\ r.todo = entries
    /\ r.out = <<>> /\ r.failures = {} /\ r.evicted = {}
    /\ \A k \in Keys : r.from[k] = NoTier
    /\ Found(r)

LEMMA StartFacts ==
    ASSUME config \in Configs, NEW kind \in Kinds, NEW pc \in Phases,
           NEW keys \in Seq(Keys), NEW entries \in Seq(Entries), NEW tier \in Tiers,
           NEW r, r = Start(kind, pc, keys, entries, tier)
    PROVE  Blank(kind, pc, keys, entries, tier, r)
  <1>1. r = [kind |-> kind, pc |-> pc, outcome |-> "none", keys |-> keys, entries |-> entries,
             from |-> [k \in Keys |-> NoTier], got |-> Empty, failures |-> {},
             src |-> 0, tier |-> tier, at |-> tier, todo |-> entries, out |-> <<>>,
             evicted |-> {}]
    BY DEF Start
  <1>2. 0 \in Tiers /\ <<>> \in Seq(Entries)
    BY ConfigFacts
  <1>3. Empty \in Contents /\ [k \in Keys |-> NoTier] \in [Keys -> Tiers \cup {NoTier}]
        /\ "none" \in Outcomes
    BY DEF Empty, Contents, Outcomes
  <1>4. r \in Registers
    BY <1>1, <1>2, <1>3 DEF Registers
  <1>5. \A k \in Keys : r.from[k] = NoTier
    BY <1>1
  <1> QED
    BY <1>1, <1>4, <1>5 DEF Found, Blank

LEMMA NoOperationSound ==
    ASSUME config \in Configs
    PROVE  Sound(NoOperation) /\ NoOperation.kind = "none" /\ NoOperation.pc = "idle"
  <1>1. PICK r : r = Start("none", "idle", <<>>, <<>>, 0)
    OBVIOUS
  <1>2. /\ "none" \in Kinds /\ "idle" \in Phases /\ "none" \in Outcomes
        /\ <<>> \in Seq(Keys) /\ <<>> \in Seq(Entries) /\ 0 \in Tiers
    <2>1. 0 \in Tiers
      BY ConfigFacts
    <2> QED
      BY <2>1 DEF Kinds, Phases, Outcomes
  <1>3. r \in Registers /\ r.kind = "none" /\ r.entries = <<>> /\ Found(r)
    <2>1. Blank("none", "idle", <<>>, <<>>, 0, r)
      BY <1>1, <1>2, StartFacts
    <2> QED
      BY <2>1 DEF Blank
  <1>4. Requested(r)
    BY <1>3 DEF Requested
  <1>5. NoOperation = Return(r, "none")
    BY <1>1 DEF NoOperation
  <1>6. Sound(Return(r, "none")) /\ Same(r, Return(r, "none")) /\ Return(r, "none").pc = "idle"
    BY <1>2, <1>3, <1>4, ReturnFacts, ReturnSound
  <1> QED
    BY <1>3, <1>5, <1>6 DEF Same

\* No key twice in a put, and a single entry in a batch of one.
Distinct(es) ==
    \A e, f \in ToSet(es) : (e[1] = f[1] => e = f) /\ (config.batch <= 1 => e = f)

\* The batches of a request.
LEMMA BatchFacts ==
    ASSUME config \in Configs, NEW n \in Nat, NEW ks \in Batches(n)
    PROVE  /\ ks \in Seq(Keys) /\ ks # <<>> /\ ks \in Seq(config.keys)
           /\ Len(ks) <= n /\ IsInjective(ks)
  <1>1. ks \in SeqOf(config.keys, n) /\ ks # <<>>
    BY DEF Batches
  <1>2. PICK m \in 0 .. n : ks \in [1 .. m -> config.keys]
    BY <1>1 DEF SeqOf
  <1>3. m \in Nat
    OBVIOUS
  <1>4. ks \in Seq(config.keys) /\ Len(ks) = m
    BY <1>2, <1>3, FunctionIsSeq
  <1>5. \A k \in ToSet(ks) : k \in Keys
    BY <1>4, Elements, ConfigFacts
  <1>6. ks \in Seq(Keys)
    BY <1>4, <1>5, SeqOfElements
  <1>7. IsInjective(ks)
    BY DEF Batches
  <1> QED
    BY <1>1, <1>4, <1>6, <1>7

LEMMA DistinctKeys ==
    ASSUME NEW ks \in Seq(Keys), IsInjective(ks), config.batch \in Nat, Len(ks) <= config.batch,
           NEW es \in Seq(Entries), Len(es) = Len(ks), \A m \in 1 .. Len(ks) : es[m][1] = ks[m]
    PROVE  Distinct(es)
  <1> SUFFICES ASSUME NEW e \in ToSet(es), NEW f \in ToSet(es)
               PROVE  (e[1] = f[1] => e = f) /\ (config.batch <= 1 => e = f)
    BY DEF Distinct
  <1>1. PICK a \in 1 .. Len(ks), b \in 1 .. Len(ks) : e = es[a] /\ f = es[b]
    BY Elements
  <1>2. ks[a] = ks[b] => a = b
    BY DEF IsInjective
  <1>3. config.batch <= 1 => a = b
    <2>1. /\ Len(ks) \in Nat /\ a \in Nat /\ b \in Nat
          /\ 1 <= a /\ a <= Len(ks) /\ 1 <= b /\ b <= Len(ks)
      OBVIOUS
    <2> QED
      BY <2>1
  <1> QED
    BY <1>1, <1>2, <1>3

LEMMA BatchOfEntries ==
    ASSUME config \in Configs, NEW ks \in Batches(config.batch),
           NEW vs \in [DOMAIN ks -> config.values],
           NEW es, es = [m \in DOMAIN ks |-> <<ks[m], vs[m]>>]
    PROVE  es \in Seq(Entries) /\ es # <<>> /\ Distinct(es)
  <1>1. /\ ks \in Seq(Keys) /\ ks # <<>> /\ Len(ks) <= config.batch /\ IsInjective(ks)
        /\ config.batch \in Nat
    BY BatchFacts, ConfigFacts
  <1>2. DOMAIN ks = 1 .. Len(ks) /\ Len(ks) \in Nat /\ Len(ks) # 0
    BY <1>1
  <1>3. config.values \in SUBSET Values
    BY ConfigFacts
  <1>4. es \in [1 .. Len(ks) -> Entries]
    BY <1>1, <1>2, <1>3 DEF Entries
  <1>5. es \in Seq(Entries) /\ Len(es) = Len(ks)
    BY <1>2, <1>4, FunctionIsSeq
  <1>6. es # <<>>
    BY <1>2, <1>5
  <1>7. \A m \in 1 .. Len(ks) : es[m][1] = ks[m]
    BY <1>2
  <1> QED
    BY <1>1, <1>5, <1>6, <1>7, DistinctKeys

\* What a call does to the histories.
Recorded(r) ==
    /\ r.kind \in {"read", "exists"} => latest' = latest /\ torn' = torn
    /\ r.kind = "put" =>
          /\ latest' = latest /\ Distinct(r.entries)
          /\ torn' = torn \cup Followed({e[1] : e \in ToSet(r.entries)})
    /\ r.kind = "delete" =>
          /\ latest' = Without(latest, ToSet(r.keys))
          /\ torn' = torn \cup Followed(ToSet(r.keys))

\* A call changes neither the tiers nor what is owed.
Calls(c) ==
    /\ config' = config /\ store' = store /\ owed' = owed
    /\ latest' \in Contents /\ torn' \in SUBSET Keys
    /\ \E r : op' = [op EXCEPT ![c] = r] /\ Started(op[c], r) /\ Recorded(r)

LEMMA Types ==
    ASSUME TypeOK
    PROVE  /\ config \in Configs /\ store \in [Tiers -> Contents] /\ op \in [Clients -> Registers]
           /\ latest \in Contents /\ owed \in SUBSET Keys /\ torn \in SUBSET Keys
  BY DEF TypeOK, Registers

LEMMA CallReadFacts ==
    ASSUME Base, NEW c, NEW kind \in {"read", "exists"}, NEW ks \in Seq(Keys), op[c].pc = "idle",
           op' = [op EXCEPT ![c] = Start(kind, "probe", ks, <<>>, 0)],
           UNCHANGED <<config, store, latest, owed, torn>>
    PROVE  Calls(c)
  <1>1. PICK r : r = Start(kind, "probe", ks, <<>>, 0)
    OBVIOUS
  <1>2. kind \in Kinds /\ "probe" \in Phases /\ <<>> \in Seq(Entries)
    BY DEF Kinds, Phases
  <1>3. config \in Configs /\ 0 \in Tiers /\ latest \in Contents /\ torn \in SUBSET Keys
    BY Types, ConfigFacts DEF Base
  <1>4. Blank(kind, "probe", ks, <<>>, 0, r)
    BY <1>1, <1>2, <1>3, StartFacts
  <1>5. Sound(r)
    BY <1>4 DEF Blank, Sound, Probing, Putting, Writing, Removing, Requested
  <1>6. Started(op[c], r)
    BY <1>4, <1>5 DEF Blank, Started
  <1>7. Recorded(r)
    BY <1>4 DEF Blank, Recorded
  <1> QED
    BY <1>1, <1>3, <1>6, <1>7 DEF Calls

LEMMA CallPutFacts ==
    ASSUME Base, NEW c, NEW es \in Seq(Entries), es # <<>>, Distinct(es), CallPut(c, es)
    PROVE  Calls(c)
  <1>1. "put" \in Kinds /\ "write" \in Phases /\ <<>> \in Seq(Keys) /\ "readonly" \in Outcomes
    BY DEF Kinds, Phases, Outcomes
  <1>2. config \in Configs /\ 0 \in Tiers /\ latest \in Contents /\ torn \in SUBSET Keys
        /\ Writable \in SUBSET Tiers
    BY Types, ConfigFacts DEF Base
  <1>3. torn' \in SUBSET Keys
    <2>1. \A e \in ToSet(es) : e \in Entries
      BY Elements
    <2>2. {e[1] : e \in ToSet(es)} \in SUBSET Keys
      BY <2>1 DEF Entries
    <2> QED
      BY <1>2, <2>2 DEF CallPut, Followed
  <1>4. \E r : op' = [op EXCEPT ![c] = r] /\ Started(op[c], r) /\ Recorded(r)
    <2>1. CASE Writable = {}
      <3>1. PICK b : b = Start("put", "write", <<>>, es, 0)
        OBVIOUS
      <3>2. Blank("put", "write", <<>>, es, 0, b)
        BY <1>1, <1>2, <3>1, StartFacts
      <3>3. b \in Registers /\ Requested(b) /\ Found(b)
        BY <3>2 DEF Blank, Requested
      <3>4. PICK r : r = Return(b, "readonly")
        OBVIOUS
      <3>5. /\ Sound(r) /\ Same(b, r) /\ r.pc = "idle" /\ r.outcome = "readonly"
            /\ r.failures = b.failures /\ r.evicted = b.evicted
        BY <1>1, <1>2, <3>3, <3>4, ReturnFacts, ReturnSound
      <3>6. Started(op[c], r)
        BY <3>2, <3>5 DEF Blank, Same, Started, CallPut
      <3>7. Recorded(r)
        BY <3>2, <3>5 DEF Blank, Same, Recorded, CallPut
      <3> QED
        BY <2>1, <3>1, <3>4, <3>6, <3>7 DEF CallPut
    <2>2. CASE Writable # {}
      <3>1. PICK r : r = Start("put", "write", <<>>, es, Bottom)
        OBVIOUS
      <3>2. Bottom \in Writable /\ Bottom \in Tiers
        BY <1>2, <2>2, TierSets DEF Bottom
      <3>3. Blank("put", "write", <<>>, es, Bottom, r)
        BY <1>1, <1>2, <3>1, <3>2, StartFacts
      <3>4. Sound(r)
        BY <3>2, <3>3 DEF Blank, Sound, Probing, Putting, Writing, Removing, Requested
      <3>5. Started(op[c], r)
        BY <3>3, <3>4 DEF Blank, Started, CallPut
      <3>6. Recorded(r)
        BY <3>3 DEF Blank, Recorded, CallPut
      <3> QED
        BY <2>2, <3>1, <3>5, <3>6 DEF CallPut
    <2> QED
      BY <2>1, <2>2
  <1> QED
    BY <1>2, <1>3, <1>4 DEF Calls, CallPut

LEMMA CallDeleteFacts ==
    ASSUME Base, NEW c, NEW ks \in Seq(Keys), CallDelete(c, ks)
    PROVE  Calls(c)
  <1>1. "delete" \in Kinds /\ "remove" \in Phases /\ <<>> \in Seq(Entries) /\ "ok" \in Outcomes
    BY DEF Kinds, Phases, Outcomes
  <1>2. config \in Configs /\ 0 \in Tiers /\ latest \in Contents /\ torn \in SUBSET Keys
        /\ Writable \in SUBSET Tiers
    BY Types, ConfigFacts DEF Base
  <1>3. torn' \in SUBSET Keys /\ latest' \in Contents
    <2>1. \A k \in ToSet(ks) : k \in Keys
      BY Elements
    <2> QED
      BY <1>2, <2>1 DEF CallDelete, Followed, Without, Contents
  <1>4. \E r : op' = [op EXCEPT ![c] = r] /\ Started(op[c], r) /\ Recorded(r)
    <2>1. CASE Writable = {}
      <3>1. PICK b : b = Start("delete", "remove", ks, <<>>, 0)
        OBVIOUS
      <3>2. Blank("delete", "remove", ks, <<>>, 0, b)
        BY <1>1, <1>2, <3>1, StartFacts
      <3>3. b \in Registers /\ Requested(b) /\ Found(b)
        BY <3>2 DEF Blank, Requested
      <3>4. PICK r : r = Return(b, "ok")
        OBVIOUS
      <3>5. /\ Sound(r) /\ Same(b, r) /\ r.pc = "idle" /\ r.outcome = "ok"
            /\ r.failures = b.failures /\ r.evicted = b.evicted
        BY <1>1, <1>2, <3>3, <3>4, ReturnFacts, ReturnSound
      <3>6. Started(op[c], r)
        BY <2>1, <3>2, <3>5 DEF Blank, Same, Started, CallDelete
      <3>7. Recorded(r)
        BY <3>2, <3>5 DEF Blank, Same, Recorded, CallDelete
      <3> QED
        BY <2>1, <3>1, <3>4, <3>6, <3>7 DEF CallDelete
    <2>2. CASE Writable # {}
      <3>1. PICK r : r = Start("delete", "remove", ks, <<>>, Min(Writable))
        OBVIOUS
      <3>2. Min(Writable) \in Writable /\ Min(Writable) \in Tiers
        BY <1>2, <2>2, TierSets
      <3>3. Blank("delete", "remove", ks, <<>>, Min(Writable), r)
        BY <1>1, <1>2, <3>1, <3>2, StartFacts
      <3>4. Sound(r)
        BY <3>2, <3>3 DEF Blank, Sound, Probing, Putting, Writing, Removing, Requested
      <3>5. Started(op[c], r)
        BY <2>2, <3>3, <3>4 DEF Blank, Started, CallDelete
      <3>6. Recorded(r)
        BY <3>3 DEF Blank, Recorded, CallDelete
      <3> QED
        BY <2>2, <3>1, <3>5, <3>6 DEF CallDelete
    <2> QED
      BY <2>1, <2>2
  <1> QED
    BY <1>2, <1>3, <1>4 DEF Calls, CallDelete

LEMMA BeginFacts ==
    ASSUME Base, NEW c, Begin(c)
    PROVE  Calls(c)
  <1>1. config \in Configs /\ config.batch \in Nat /\ config.deletes \in Nat
        /\ config.keys \in SUBSET Keys
    BY Types, ConfigFacts DEF Base
  <1>2. ASSUME NEW ks \in Batches(config.batch), CallRead(c, ks) PROVE Calls(c)
    <2>1. ks \in Seq(Keys)
      BY <1>1, BatchFacts
    <2> QED
      BY <1>2, <2>1, CallReadFacts DEF CallRead
  <1>3. ASSUME NEW ks \in Batches(config.batch), NEW vs \in [DOMAIN ks -> config.values],
               CallPut(c, [n \in DOMAIN ks |-> <<ks[n], vs[n]>>])
        PROVE  Calls(c)
    <2>1. PICK es : es = [n \in DOMAIN ks |-> <<ks[n], vs[n]>>]
      OBVIOUS
    <2>2. es \in Seq(Entries) /\ es # <<>> /\ Distinct(es)
      BY <1>1, <2>1, BatchOfEntries
    <2>3. CallPut(c, es)
      BY <1>3, <2>1
    <2> QED
      BY <2>2, <2>3, CallPutFacts
  <1>4. ASSUME NEW k \in config.keys, CallExists(c, k) PROVE Calls(c)
    <2>1. PICK ks : ks = <<k>>
      OBVIOUS
    <2>2. ks \in Seq(Keys)
      BY <1>1, <2>1
    <2> QED
      BY <1>4, <2>1, <2>2, CallReadFacts DEF CallExists
  <1>5. ASSUME NEW ks \in Batches(config.deletes), CallDelete(c, ks) PROVE Calls(c)
    <2>1. ks \in Seq(Keys)
      BY <1>1, BatchFacts
    <2> QED
      BY <1>5, <2>1, CallDeleteFacts
  <1> QED
    BY <1>2, <1>3, <1>4, <1>5 DEF Begin

\* A probe: the next tier is asked, or the hits are promoted and returned.
ReadGoesOn(o, r) ==
    \/ /\ r.pc = "probe" /\ r.tier = o.tier + 1 /\ Unresolved(r) # {}
       /\ r.todo = o.todo /\ r.out = o.out /\ r.evicted = o.evicted
    \/ /\ Unresolved(r) = {} \/ o.tier + 1 = config.n
       /\ PromotionGoesOn(r, r) /\ PromotesTop(r, r)

\* What the answer of a tier adds to the hits.
Learned(o, r) ==
    \A k \in Keys : \/ r.from[k] = o.from[k] /\ r.got[k] = o.got[k]
                   \/ /\ k \in Unresolved(o) /\ store[o.tier][k] # None
                      /\ r.from[k] = o.tier /\ r.got[k] = store[o.tier][k]

ProbeStep(o, r) ==
    /\ o.pc = "probe" /\ Sound(r) /\ r.kind = o.kind /\ r.keys = o.keys /\ Learned(o, r)
    /\ \/ r.pc = "idle" /\ r.outcome = "tier"
       \/ /\ r.failures = o.failures /\ ReadGoesOn(o, r)
          /\ Unresolved(r) = {k \in Unresolved(o) : store[o.tier][k] = None}
       \/ /\ r.failures = o.failures \cup {o.tier} /\ ReadGoesOn(o, r)
          /\ Unresolved(r) = Unresolved(o)

\* A tier that answers and does not fail.
AnswerStep(o, r) ==
    /\ ProbeStep(o, r) /\ ReadGoesOn(o, r)
    /\ Unresolved(r) = {k \in Unresolved(o) : store[o.tier][k] = None}

Answers(c) ==
    /\ UNCHANGED <<config, store, latest, owed, torn>>
    /\ \E r : op' = [op EXCEPT ![c] = r] /\ AnswerStep(op[c], r)

Probes(c) ==
    /\ UNCHANGED <<config, store, latest, owed, torn>>
    /\ \E r : op' = [op EXCEPT ![c] = r] /\ ProbeStep(op[c], r)

LEMMA AfterProbeGoesOn ==
    ASSUME config \in Configs, NEW x \in Registers, Found(x), Requested(x),
           x.pc = "probe", x.kind \in {"read", "exists"}, NEW r, r = AfterProbe(x)
    PROVE  /\ Sound(r) /\ Same(x, r) /\ r.failures = x.failures /\ ReadGoesOn(x, r)
           /\ Unresolved(r) = Unresolved(x)
  <1>1. /\ r \in Registers /\ Same(x, r) /\ Sound(r)
        /\ r.failures = x.failures /\ r.evicted = x.evicted
        /\ \/ /\ Unresolved(x) # {}
              /\ r.pc = "probe" /\ r.tier = x.tier + 1 /\ r.todo = x.todo /\ r.out = x.out
           \/ /\ Unresolved(x) = {} \/ x.tier + 1 = config.n
              /\ PromotionGoesOn(x, r) /\ PromotesTop(x, r)
    BY AfterProbeFacts
  <1>2. Unresolved(r) = Unresolved(x) /\ ReadOutcome(r) = ReadOutcome(x)
    BY <1>1 DEF Same, Unresolved, ReadOutcome
  <1>3. PromotionGoesOn(x, r) /\ PromotesTop(x, r) => PromotionGoesOn(r, r) /\ PromotesTop(r, r)
    BY <1>1, <1>2 DEF PromotionGoesOn, PromotesTop, Same
  <1> QED
    BY <1>1, <1>2, <1>3 DEF ReadGoesOn

LEMMA ProbeOkFacts ==
    ASSUME Base, NEW c \in Clients, ProbeOk(c)
    PROVE  Probes(c) /\ Answers(c)
  <1>1. PICK o : o = op[c]
    OBVIOUS
  <1> DEFINE found == {k \in Unresolved(o) : store[o.tier][k] # None}
             from == [k \in Keys |-> IF k \in found THEN o.tier ELSE o.from[k]]
             got == [k \in Keys |-> IF k \in found THEN store[o.tier][k] ELSE o.got[k]]
  <1>2. /\ config \in Configs /\ store \in [Tiers -> Contents] /\ Sound(o) /\ o \in Registers
        /\ o.pc = "probe" /\ o.tier \in Tiers /\ o.from \in [Keys -> Tiers \cup {NoTier}]
        /\ o.got \in Contents /\ NoTier \notin Tiers /\ o.keys \in Seq(Keys)
    <2>1. config \in Configs /\ store \in [Tiers -> Contents] /\ Sound(o) /\ o.pc = "probe"
      BY <1>1, Types DEF Base, ProbeOk
    <2> QED
      BY <2>1, ConfigFacts DEF Sound, Registers
  <1>3. /\ o.kind \in {"read", "exists"} /\ Requested(o) /\ Found(o)
    BY <1>2 DEF Sound, Probing
  <1>4. PICK x : x = [o EXCEPT !.from = from, !.got = got]
    OBVIOUS
  <1>5. PICK r : r = AfterProbe(x)
    OBVIOUS
  <1>6. op' = [op EXCEPT ![c] = r] /\ UNCHANGED <<config, store, latest, owed, torn>>
    BY <1>1, <1>2, <1>4, <1>5 DEF ProbeOk
  <1>7. store[o.tier] \in Contents
    BY <1>2
  <1>8. from \in [Keys -> Tiers \cup {NoTier}] /\ got \in Contents
    BY <1>2, <1>7 DEF Contents
  <1>9. \A k \in Keys : from[k] # NoTier => got[k] \in Values
    <2> SUFFICES ASSUME NEW k \in Keys, from[k] # NoTier PROVE got[k] \in Values
      OBVIOUS
    <2>1. CASE k \in found
      BY <1>7, <2>1 DEF Contents
    <2>2. CASE k \notin found
      BY <1>3, <2>2 DEF Found
    <2> QED
      BY <2>1, <2>2
  <1>10. {k \in ToSet(o.keys) : from[k] = NoTier} = {k \in Unresolved(o) : store[o.tier][k] = None}
    <2>1. \A k \in ToSet(o.keys) : k \in Keys
      BY <1>2, Elements
    <2>2. \A k \in ToSet(o.keys) : k \in Unresolved(o) <=> o.from[k] = NoTier
      BY DEF Unresolved
    <2>3. \A k \in Unresolved(o) : k \in ToSet(o.keys)
      BY DEF Unresolved
    <2> QED
      BY <1>2, <2>1, <2>2, <2>3
  <1>11. \A k \in Keys : \/ from[k] = o.from[k] /\ got[k] = o.got[k]
                       \/ /\ k \in Unresolved(o) /\ store[o.tier][k] # None
                          /\ from[k] = o.tier /\ got[k] = store[o.tier][k]
    OBVIOUS
  <1> HIDE DEF from, got, found
  <1>12. x = [kind |-> o.kind, pc |-> o.pc, outcome |-> o.outcome,
              keys |-> o.keys, entries |-> o.entries, from |-> from, got |-> got,
              failures |-> o.failures, src |-> o.src, tier |-> o.tier, at |-> o.at,
              todo |-> o.todo, out |-> o.out, evicted |-> o.evicted]
    BY <1>2, <1>4 DEF Registers
  <1>13. x \in Registers
    BY <1>2, <1>8, <1>12 DEF Registers
  <1>14. /\ x.kind = o.kind /\ x.pc = "probe" /\ x.keys = o.keys /\ x.entries = o.entries
         /\ x.from = from /\ x.got = got /\ x.failures = o.failures /\ x.tier = o.tier
         /\ x.todo = o.todo /\ x.out = o.out /\ x.evicted = o.evicted
    BY <1>2, <1>12
  <1>15. Found(x) /\ Requested(x)
    BY <1>3, <1>9, <1>14 DEF Found, Requested
  <1>16. /\ Sound(r) /\ Same(x, r) /\ r.failures = x.failures /\ ReadGoesOn(x, r)
         /\ Unresolved(r) = Unresolved(x)
    BY <1>2, <1>3, <1>5, <1>13, <1>14, <1>15, AfterProbeGoesOn
  <1>17. Unresolved(x) = {k \in Unresolved(o) : store[o.tier][k] = None}
    BY <1>10, <1>14 DEF Unresolved
  <1>18. ReadGoesOn(o, r) /\ r.kind = o.kind /\ r.keys = o.keys /\ r.failures = o.failures
    BY <1>14, <1>16 DEF ReadGoesOn, Same
  <1>19. Learned(o, r)
    BY <1>11, <1>14, <1>16 DEF Same, Learned
  <1>20. ProbeStep(o, r)
    BY <1>2, <1>16, <1>17, <1>18, <1>19 DEF ProbeStep
  <1>21. AnswerStep(o, r)
    BY <1>16, <1>17, <1>18, <1>20 DEF AnswerStep
  <1> QED
    BY <1>1, <1>6, <1>20, <1>21 DEF Probes, Answers

LEMMA ProbeErrFacts ==
    ASSUME Base, NEW c \in Clients, ProbeErr(c)
    PROVE  Probes(c)
  <1>1. PICK o : o = op[c]
    OBVIOUS
  <1>2. PICK x : x = [o EXCEPT !.failures = o.failures \cup {o.tier}]
    OBVIOUS
  <1>3. config \in Configs /\ Sound(o) /\ o \in Registers /\ o.tier \in Tiers
    BY <1>1, Types DEF Base, Sound, Registers
  <1>4. x = [kind |-> o.kind, pc |-> o.pc, outcome |-> o.outcome,
             keys |-> o.keys, entries |-> o.entries, from |-> o.from, got |-> o.got,
             failures |-> o.failures \cup {o.tier}, src |-> o.src, tier |-> o.tier, at |-> o.at,
             todo |-> o.todo, out |-> o.out, evicted |-> o.evicted]
    BY <1>2, <1>3 DEF Registers
  <1>5. x \in Registers
    BY <1>3, <1>4 DEF Registers
  <1>6. /\ x.kind = o.kind /\ x.pc = o.pc /\ x.keys = o.keys /\ x.entries = o.entries
        /\ x.from = o.from /\ x.got = o.got /\ x.failures = o.failures \cup {o.tier}
        /\ x.tier = o.tier /\ x.todo = o.todo /\ x.out = o.out /\ x.evicted = o.evicted
    BY <1>4
  <1>7. PICK r : r = IF config.policy.on_error = "FailFast" THEN Return(x, "tier") ELSE AfterProbe(x)
    OBVIOUS
  <1>8. /\ op' = [op EXCEPT ![c] = r] /\ UNCHANGED <<config, store, latest, owed, torn>>
        /\ o.pc = "probe"
    BY <1>1, <1>2, <1>6, <1>7 DEF ProbeErr
  <1>9. o.kind \in {"read", "exists"} /\ Found(x) /\ Requested(x) /\ "tier" \in Outcomes
    BY <1>3, <1>6, <1>8 DEF Sound, Probing, Found, Requested, Outcomes
  <1>10. Unresolved(x) = Unresolved(o)
    BY <1>6 DEF Unresolved
  <1>11. CASE config.policy.on_error = "FailFast"
    <2>1. r = Return(x, "tier")
      BY <1>7, <1>11
    <2>2. Sound(r)
      BY <1>3, <1>5, <1>9, <2>1, ReturnSound
    <2>3. Same(x, r) /\ r.pc = "idle" /\ r.outcome = "tier"
      BY <1>3, <1>5, <1>9, <2>1, ReturnFacts
    <2>4. Learned(o, r)
      BY <1>6, <2>3 DEF Same, Learned
    <2>5. ProbeStep(o, r)
      BY <1>6, <1>8, <2>2, <2>3, <2>4 DEF ProbeStep, Same
    <2> QED
      BY <1>1, <1>8, <2>5 DEF Probes
  <1>12. CASE config.policy.on_error # "FailFast"
    <2>1. r = AfterProbe(x)
      BY <1>7, <1>12
    <2>2. /\ Sound(r) /\ Same(x, r) /\ r.failures = x.failures /\ ReadGoesOn(x, r)
          /\ Unresolved(r) = Unresolved(x)
      BY <1>3, <1>5, <1>6, <1>8, <1>9, <2>1, AfterProbeGoesOn
    <2>3. ReadGoesOn(o, r)
      BY <1>6, <2>2 DEF ReadGoesOn
    <2>4. Learned(o, r)
      BY <1>6, <2>2 DEF Same, Learned
    <2>5. ProbeStep(o, r)
      BY <1>6, <1>8, <1>10, <2>2, <2>3, <2>4 DEF ProbeStep, Same
    <2> QED
      BY <1>1, <1>8, <2>5 DEF Probes
  <1> QED
    BY <1>11, <1>12

\* A put that a tier accepts: the entry is in, what it displaced is out.
FullTier(o) == [store[o.at] EXCEPT ![o.todo[1][1]] = o.todo[1][2]]

AcceptedBy(c, s, x, r) ==
    /\ s \in Victims(op[c].at, FullTier(op[c]))
    /\ Advanced(op[c], Displaced(s, FullTier(op[c])), x)
    /\ PutStep(x, r) /\ Settled(x, r)
    /\ op' = [op EXCEPT ![c] = r]
    /\ store' = [store EXCEPT ![op[c].at] = Without(FullTier(op[c]), ToSet(s))]
    /\ owed' = (owed \cup IF CallersWrite(op[c]) THEN {op[c].todo[1][1]} ELSE {}) \ Reported(r)
    /\ torn' = torn \ Mended(r)
    /\ latest' = [latest EXCEPT ![op[c].todo[1][1]] =
                     IF CallersWrite(op[c]) /\ Alone THEN op[c].todo[1][2] ELSE @]

Accepts(c) ==
    /\ config' = config /\ op[c].pc \in {"promote", "write"}
    /\ latest' \in Contents /\ torn' \in SUBSET Keys
    /\ \E s, x, r : AcceptedBy(c, s, x, r)

\* The entry that is being put.
LEMMA EntryFacts ==
    ASSUME Base, NEW c \in Clients, op[c].pc \in {"promote", "write"}
    PROVE  /\ config \in Configs /\ Sound(op[c]) /\ op[c].at \in Tiers /\ op[c].at \in Writable
           /\ op[c].todo[1] \in Entries /\ op[c].todo[1] \in ToSet(op[c].todo)
           /\ op[c].todo[1][1] \in Keys /\ op[c].todo[1][2] \in Values
           /\ store[op[c].at] \in Contents /\ FullTier(op[c]) \in Contents
  <1>1. PICK o : o = op[c]
    OBVIOUS
  <1>2. config \in Configs /\ store \in [Tiers -> Contents] /\ Sound(o)
    BY <1>1, Types DEF Base
  <1>3. o.todo \in Seq(Entries) /\ o.todo # <<>> /\ o.at \in Tiers /\ o.at \in Writable
    BY <1>1, <1>2 DEF Sound, Putting, Registers
  <1>4. PICK e : e = o.todo[1]
    OBVIOUS
  <1>5. e \in Entries /\ e \in ToSet(o.todo)
    BY <1>3, <1>4, Elements
  <1>6. e[1] \in Keys /\ e[2] \in Values
    BY <1>5 DEF Entries
  <1>7. store[o.at] \in Contents /\ [store[o.at] EXCEPT ![e[1]] = e[2]] \in Contents
    BY <1>2, <1>3, <1>6 DEF Contents
  <1> QED
    BY <1>1, <1>2, <1>3, <1>4, <1>5, <1>6, <1>7 DEF FullTier

LEMMA PutOkFacts ==
    ASSUME Base, NEW c \in Clients, PutOk(c)
    PROVE  Accepts(c)
  <1>1. PICK o : o = op[c]
    OBVIOUS
  <1>2. PICK full : full = FullTier(o)
    OBVIOUS
  <1>3. o.pc \in {"promote", "write"}
    BY <1>1 DEF PutOk
  <1>4. /\ config \in Configs /\ Sound(o) /\ o.at \in Tiers
        /\ o.todo[1][1] \in Keys /\ o.todo[1][2] \in Values /\ full \in Contents
    BY <1>1, <1>2, <1>3, EntryFacts
  <1>5. PICK s \in Victims(o.at, full) :
            /\ store' = [store EXCEPT ![o.at] = Without(full, ToSet(s))]
            /\ op' = [op EXCEPT ![c] = Settle(Advance(o, Displaced(s, full)))]
    <2>1. \E s \in Victims(op[c].at, FullTier(op[c])) :
             /\ store' = [store EXCEPT ![op[c].at] = Without(FullTier(op[c]), ToSet(s))]
             /\ op' = [op EXCEPT ![c] = Settle(Advance(op[c], Displaced(s, FullTier(op[c]))))]
      BY Zenon DEF PutOk, FullTier, Advance, Displaced
    <2> QED
      BY <1>1, <1>2, <2>1
  <1>6. PICK q : q = Displaced(s, full)
    OBVIOUS
  <1>7. q \in Seq(Entries)
    BY <1>4, <1>6, VictimsFacts
  <1>8. PICK x : x = Advance(o, q)
    OBVIOUS
  <1>9. Advanced(o, q, x)
    BY <1>3, <1>4, <1>7, <1>8, AdvanceFacts
  <1>10. Active(x)
    BY <1>9 DEF Advanced
  <1>11. PICK r : r = Settle(x)
    OBVIOUS
  <1>12. PutStep(x, r) /\ Settled(x, r)
    BY <1>4, <1>10, <1>11, SettleFacts, SettleIsPutStep
  <1>13. op' = [op EXCEPT ![c] = r]
    BY <1>5, <1>6, <1>8, <1>11
  <1>14. op \in [Clients -> Registers] /\ latest \in Contents /\ torn \in SUBSET Keys
    BY Types DEF Base
  <1>15. op'[c] = r
    BY <1>13, <1>14
  <1>16. owed' = (owed \cup IF CallersWrite(o) THEN {o.todo[1][1]} ELSE {}) \ Reported(r)
    BY <1>1, <1>15 DEF PutOk
  <1>17. latest' = [latest EXCEPT ![o.todo[1][1]] =
                       IF CallersWrite(o) /\ Alone THEN o.todo[1][2] ELSE @]
    BY <1>1 DEF PutOk
  <1>18. latest' \in Contents
    BY <1>4, <1>14, <1>17 DEF Contents
  <1>19. torn' = torn \ Mended(r)
    BY <1>1, <1>15 DEF PutOk
  <1>20. torn' \in SUBSET Keys
    BY <1>14, <1>19
  <1>21. AcceptedBy(c, s, x, r)
    BY <1>1, <1>2, <1>5, <1>6, <1>9, <1>12, <1>13, <1>16, <1>17, <1>19 DEF AcceptedBy
  <1> QED
    BY <1>1, <1>3, <1>18, <1>20, <1>21 DEF Accepts, PutOk

\* A put that a tier rejects leaves the key's contents there unspecified.
RejectedBy(c, w, r) ==
    /\ w \in {store[op[c].at][op[c].todo[1][1]], op[c].todo[1][2], None}
    /\ PutStep(op[c], r) /\ PutFails(op[c], r)
    /\ op' = [op EXCEPT ![c] = r]
    /\ store' = [store EXCEPT ![op[c].at][op[c].todo[1][1]] = w]
    /\ owed' = owed \ Reported(r)
    /\ torn' = torn \ Mended(r)

Rejects(c) ==
    /\ config' = config /\ op[c].pc \in {"promote", "write"} /\ op[c].at \in Fallible
    /\ latest' = latest /\ torn' \in SUBSET Keys
    /\ \E w, r : RejectedBy(c, w, r)

LEMMA PutErrFacts ==
    ASSUME Base, NEW c \in Clients, PutErr(c)
    PROVE  Rejects(c)
  <1>1. PICK o : o = op[c]
    OBVIOUS
  <1>2. o.pc \in {"promote", "write"} /\ o.at \in Fallible
    BY <1>1 DEF PutErr
  <1>3. config \in Configs /\ Sound(o)
    BY <1>1, <1>2, EntryFacts
  <1>4. PICK r : r = Rejected(o)
    OBVIOUS
  <1>5. PutStep(o, r) /\ PutFails(o, r)
    BY <1>2, <1>3, <1>4, RejectedIsPutStep
  <1>6. op' = [op EXCEPT ![c] = r]
    BY <1>1, <1>4 DEF PutErr
  <1>7. op \in [Clients -> Registers] /\ torn \in SUBSET Keys
    BY Types DEF Base
  <1>8. op'[c] = r
    BY <1>6, <1>7
  <1>9. owed' = owed \ Reported(r) /\ torn' = torn \ Mended(r)
    BY <1>8 DEF PutErr
  <1>10. PICK w \in {store[o.at][o.todo[1][1]], o.todo[1][2], None} :
            store' = [store EXCEPT ![o.at][o.todo[1][1]] = w]
    BY <1>1 DEF PutErr
  <1>11. RejectedBy(c, w, r)
    BY <1>1, <1>5, <1>6, <1>9, <1>10 DEF RejectedBy
  <1> QED
    BY <1>1, <1>2, <1>7, <1>11 DEF Rejects, PutErr

\* The keys of a request.
LEMMA TargetFacts ==
    ASSUME NEW o \in Registers
    PROVE  /\ Targets(o) \in Seq(Keys)
           /\ ToSet(Targets(o)) = ToSet(o.keys) \cup {e[1] : e \in ToSet(o.entries)}
           /\ ToSet(Targets(o)) \in SUBSET Keys
  <1>1. PICK ks, es : ks = o.keys /\ es = o.entries
    OBVIOUS
  <1>2. ks \in Seq(Keys) /\ es \in Seq(Entries)
    BY <1>1 DEF Registers
  <1>3. PICK q : q = [n \in 1 .. Len(es) |-> es[n][1]]
    OBVIOUS
  <1>4. Len(es) \in Nat /\ \A n \in 1 .. Len(es) : es[n] \in Entries
    BY <1>2
  <1>5. \A e \in Entries : e[1] \in Keys
    BY DEF Entries
  <1>6. q \in [1 .. Len(es) -> Keys]
    BY <1>3, <1>4, <1>5
  <1>7. q \in Seq(Keys) /\ Len(q) = Len(es)
    BY <1>4, <1>6, FunctionIsSeq
  <1>8. ToSet(q) = {e[1] : e \in ToSet(es)}
    <2>1. ASSUME NEW k \in ToSet(q) PROVE k \in {e[1] : e \in ToSet(es)}
      <3>1. PICK n \in 1 .. Len(es) : q[n] = k
        BY <1>7, Elements
      <3>2. es[n] \in ToSet(es) /\ k = es[n][1]
        BY <1>2, <1>3, <3>1, Elements
      <3> QED
        BY <3>2
    <2>2. ASSUME NEW e \in ToSet(es) PROVE e[1] \in ToSet(q)
      <3>1. PICK n \in 1 .. Len(es) : es[n] = e
        BY <1>2, Elements
      <3>2. q[n] = e[1]
        BY <1>3, <3>1
      <3> QED
        BY <1>7, <3>2, Elements
    <2> QED
      BY <2>1, <2>2
  <1>9. Targets(o) = ks \o q
    BY <1>1, <1>3 DEF Targets
  <1>10. ks \o q \in Seq(Keys) /\ ToSet(ks \o q) = ToSet(ks) \cup ToSet(q)
    BY <1>2, <1>7, ConcatElements
  <1>11. \A k \in ToSet(ks \o q) : k \in Keys
    BY <1>10, Elements
  <1> QED
    BY <1>1, <1>8, <1>9, <1>10, <1>11

\* A removal takes all keys of the request, or is a failure of the tier.
RemovedBy(c, ks, r) ==
    /\ Sound(r) /\ Same(op[c], r) /\ r.evicted = op[c].evicted /\ RemovalGoesOn(op[c], r)
    /\ ks \in SUBSET ToSet(Targets(op[c]))
    /\ \/ ks = ToSet(Targets(op[c])) /\ r.failures = op[c].failures
       \/ op[c].tier \in Fallible /\ r.failures = op[c].failures \cup {op[c].tier}
    /\ op' = [op EXCEPT ![c] = r]
    /\ store' = [store EXCEPT ![op[c].tier] = Without(@, ks)]
    /\ owed' = (owed \ Forget(op[c])) \ Reported(r)
    /\ torn' = torn \ Mended(r)

Removes(c) ==
    /\ config' = config /\ op[c].pc \in {"purge", "remove"}
    /\ latest' = latest /\ torn' \in SUBSET Keys
    /\ \E ks, r : RemovedBy(c, ks, r)

LEMMA RemoveOkFacts ==
    ASSUME Base, NEW c \in Clients, RemoveOk(c)
    PROVE  Removes(c)
  <1>1. PICK o : o = op[c]
    OBVIOUS
  <1>2. config \in Configs /\ Sound(o) /\ o.pc \in {"purge", "remove"} /\ torn \in SUBSET Keys
    BY <1>1, Types DEF Base, RemoveOk
  <1>3. o \in Registers /\ Removing(o) /\ Requested(o) /\ Found(o)
    BY <1>2 DEF Sound
  <1>4. PICK r : r = NextRemoval(o)
    OBVIOUS
  <1>5. /\ Sound(r) /\ Same(o, r) /\ r.failures = o.failures /\ r.evicted = o.evicted
        /\ RemovalGoesOn(o, r)
    BY <1>2, <1>3, <1>4, NextRemovalFacts
  <1>6. /\ op' = [op EXCEPT ![c] = r]
        /\ store' = [store EXCEPT ![o.tier] = Without(@, ToSet(Targets(o)))]
        /\ owed' = (owed \ Forget(o)) \ Reported(r) /\ torn' = torn \ Mended(r)
    BY <1>1, <1>4 DEF RemoveOk
  <1>7. RemovedBy(c, ToSet(Targets(o)), r)
    BY <1>1, <1>5, <1>6 DEF RemovedBy
  <1> QED
    BY <1>1, <1>2, <1>7 DEF Removes, RemoveOk

LEMMA RemoveErrFacts ==
    ASSUME Base, NEW c \in Clients, RemoveErr(c)
    PROVE  Removes(c)
  <1>1. PICK o : o = op[c]
    OBVIOUS
  <1>2. /\ config \in Configs /\ Sound(o) /\ o.pc \in {"purge", "remove"} /\ torn \in SUBSET Keys
        /\ o.tier \in Fallible
    BY <1>1, Types DEF Base, RemoveErr
  <1>3. o \in Registers /\ Removing(o) /\ Requested(o) /\ Found(o) /\ o.tier \in Tiers
    BY <1>2 DEF Sound, Registers
  <1>4. PICK x : x = [o EXCEPT !.failures = o.failures \cup {o.tier}]
    OBVIOUS
  <1>5. x = [kind |-> o.kind, pc |-> o.pc, outcome |-> o.outcome,
             keys |-> o.keys, entries |-> o.entries, from |-> o.from, got |-> o.got,
             failures |-> o.failures \cup {o.tier}, src |-> o.src, tier |-> o.tier, at |-> o.at,
             todo |-> o.todo, out |-> o.out, evicted |-> o.evicted]
    BY <1>3, <1>4 DEF Registers
  <1>6. x \in Registers
    BY <1>3, <1>5 DEF Registers
  <1>7. /\ Same(o, x) /\ x.pc = o.pc /\ x.tier = o.tier
        /\ x.failures = o.failures \cup {o.tier} /\ x.evicted = o.evicted
        /\ x.todo = o.todo /\ x.out = o.out
    BY <1>5 DEF Same
  <1>8. Removing(x) /\ Requested(x) /\ Found(x)
    BY <1>3, <1>7 DEF Same, Removing, Requested, Found
  <1>9. PICK r : r = NextRemoval(x)
    OBVIOUS
  <1>10. /\ Sound(r) /\ Same(x, r) /\ r.failures = x.failures /\ r.evicted = x.evicted
         /\ RemovalGoesOn(x, r)
    BY <1>2, <1>6, <1>7, <1>8, <1>9, NextRemovalFacts
  <1>11. /\ Same(o, r) /\ r.failures = o.failures \cup {o.tier} /\ r.evicted = o.evicted
         /\ RemovalGoesOn(o, r)
    BY <1>7, <1>10 DEF Same, RemovalGoesOn, Visited
  <1>12. PICK n \in 0 .. Len(Targets(o)) :
            store' = [store EXCEPT ![o.tier] = Without(@, ToSet(SubSeq(Targets(o), 1, n)))]
    BY <1>1 DEF RemoveErr
  <1>13. /\ op' = [op EXCEPT ![c] = r]
         /\ owed' = (owed \ Forget(o)) \ Reported(r) /\ torn' = torn \ Mended(r)
    BY <1>1, <1>4, <1>9 DEF RemoveErr
  <1> DEFINE t == Targets(o)
             q == SubSeq(t, 1, n)
  <1>14. ToSet(q) \in SUBSET ToSet(t)
    <2>1. t \in Seq(Keys)
      BY <1>3, TargetFacts
    <2> HIDE DEF t
    <2>2. n \in Nat /\ n <= Len(t) /\ Len(t) \in Nat
      BY <2>1 DEF t
    <2>3. q \in Seq(Keys) /\ Len(q) = n /\ \A m \in 1 .. n : q[m] = t[m]
      BY <2>1, <2>2
    <2> HIDE DEF q
    <2>4. ASSUME NEW k \in ToSet(q) PROVE k \in ToSet(t)
      <3>1. PICK m \in 1 .. n : q[m] = k
        BY <2>3, Elements
      <3>2. m \in 1 .. Len(t) /\ t[m] = k
        BY <2>2, <2>3, <3>1
      <3> QED
        BY <2>1, <3>2, Elements
    <2> QED
      BY <2>4
  <1>15. RemovedBy(c, ToSet(q), r)
    BY <1>1, <1>2, <1>10, <1>11, <1>12, <1>13, <1>14 DEF RemovedBy
  <1> QED
    BY <1>1, <1>2, <1>15 DEF Removes, RemoveErr

\* A dropped future.
Drops(c) ==
    /\ UNCHANGED <<config, store, latest, owed, torn>> /\ config.drops
    /\ \E r : /\ op' = [op EXCEPT ![c] = r]
              /\ Sound(r) /\ Same(op[c], r) /\ r.pc = "idle" /\ r.outcome = "dropped"

LEMMA DropFacts ==
    ASSUME Base, NEW c \in Clients, Drop(c)
    PROVE  Drops(c)
  <1>1. PICK o : o = op[c]
    OBVIOUS
  <1>2. config \in Configs /\ o \in Registers /\ Requested(o) /\ Found(o) /\ "dropped" \in Outcomes
    BY <1>1, Types DEF Base, Sound, Outcomes
  <1>3. PICK r : r = Return(o, "dropped")
    OBVIOUS
  <1>4. Sound(r) /\ Same(o, r) /\ r.pc = "idle" /\ r.outcome = "dropped"
    BY <1>2, <1>3, ReturnFacts, ReturnSound
  <1> QED
    BY <1>1, <1>3, <1>4 DEF Drop, Drops

\* Every step is one of these.
Moves(c) == Calls(c) \/ Probes(c) \/ Accepts(c) \/ Rejects(c) \/ Removes(c) \/ Drops(c)

LEMMA StepCases ==
    ASSUME Base, Next
    PROVE  \E c \in config.callers : c \in Clients /\ Moves(c)
  <1>1. PICK c \in config.callers : Begin(c) \/ Continue(c) \/ Drop(c)
    BY DEF Next
  <1>2. c \in Clients
    BY Types, ConfigFacts DEF Base
  <1>3. Begin(c) => Calls(c)
    BY BeginFacts
  <1>4. Drop(c) => Drops(c)
    BY <1>2, DropFacts
  <1>5. (ProbeOk(c) => Probes(c)) /\ (ProbeErr(c) => Probes(c))
    BY <1>2, ProbeOkFacts, ProbeErrFacts
  <1>6. (PutOk(c) => Accepts(c)) /\ (PutErr(c) => Rejects(c))
    BY <1>2, PutOkFacts, PutErrFacts
  <1>7. (RemoveOk(c) => Removes(c)) /\ (RemoveErr(c) => Removes(c))
    BY <1>2, RemoveOkFacts, RemoveErrFacts
  <1> QED
    BY <1>1, <1>2, <1>3, <1>4, <1>5, <1>6, <1>7 DEF Continue, Moves

-----------------------------------------------------------------------------
(* Types, and the registers of every client                                *)

\* The registers after a step of one client.
LEMMA OneClient ==
    ASSUME Base, NEW c, NEW r, op' = [op EXCEPT ![c] = r], c \in Clients
    PROVE  op'[c] = r /\ \A d \in Clients : d # c => op'[d] = op[d]
  BY Types DEF Base

LEMMA InitBase == Init => Base
  <1> SUFFICES ASSUME Init PROVE Base
    OBVIOUS
  <1>1. config \in Configs /\ op = [c \in Clients |-> NoOperation]
    BY DEF Init
  <1>2. Sound(NoOperation)
    BY <1>1, NoOperationSound
  <1>3. /\ \A c \in Clients : Sound(op[c]) /\ op[c] = NoOperation
        /\ op \in [Clients -> Registers]
    BY <1>1, <1>2 DEF Sound
  <1>4. store \in [Tiers -> Contents]
    <2>1. PICK m \in [config.keys -> config.values \cup {None}] :
            store = [i \in Tiers |->
                        IF i \in Writable THEN Empty
                        ELSE [k \in Keys |-> IF k \in config.keys THEN m[k] ELSE None]]
      BY DEF Init
    <2>2. config.values \in SUBSET Values
      BY <1>1, ConfigFacts
    <2>3. Empty \in Contents
          /\ [k \in Keys |-> IF k \in config.keys THEN m[k] ELSE None] \in Contents
      BY <2>2 DEF Empty, Contents
    <2> QED
      BY <2>1, <2>3
  <1>5. latest \in Contents /\ owed \subseteq Keys /\ torn \subseteq Keys
    BY DEF Init, Empty, Contents
  <1>6. TypeOK
    BY <1>1, <1>3, <1>4, <1>5 DEF TypeOK, Registers
  <1> QED
    BY <1>3, <1>6 DEF Base

LEMMA BaseStep ==
    ASSUME Base, NEW c \in config.callers, c \in Clients, NEW r, op' = [op EXCEPT ![c] = r],
           Sound(r), config' = config, store' \in [Tiers -> Contents],
           latest' \in Contents, owed' \in SUBSET Keys, torn' \in SUBSET Keys
    PROVE  Base'
  <1>1. /\ op'[c] = r /\ (\A d \in Clients : d # c => op'[d] = op[d])
        /\ DOMAIN op' = Clients /\ op' = [d \in DOMAIN op' |-> op'[d]]
    <2>1. op \in [Clients -> Registers]
      BY Types DEF Base
    <2> QED
      BY <2>1
  <1>2. \A d \in Clients : Sound(op[d])'
    <2> SUFFICES ASSUME NEW d \in Clients PROVE Sound(op[d])'
      OBVIOUS
    <2>1. PICK y : y = op'[d]
      OBVIOUS
    <2>2. Sound(y)
      <3>1. CASE d = c
        BY <1>1, <2>1, <3>1
      <3>2. CASE d # c
        BY <1>1, <2>1, <3>2 DEF Base
      <3> QED
        BY <3>1, <3>2
    <2> QED
      BY <2>1, <2>2, SoundStays
  <1>3. op' \in [Clients -> Registers']
    BY <1>1, <1>2 DEF Sound
  <1>4. config \in Configs
    BY Types DEF Base
  <1>5. TypeOK'
    BY <1>3, <1>4, Rigid DEF TypeOK, Registers
  <1>6. (\A d \in Clients \ config.callers : op[d] = NoOperation)'
    <2>1. NoOperation' = NoOperation
      BY Rigid DEF NoOperation, Return, Start
    <2> QED
      BY <1>1, <2>1 DEF Base
  <1> QED
    BY <1>2, <1>5, <1>6 DEF Base

LEMMA MovesBase ==
    ASSUME Base, NEW c \in config.callers, c \in Clients, Moves(c)
    PROVE  Base'
  <1>1. /\ config \in Configs /\ store \in [Tiers -> Contents] /\ op \in [Clients -> Registers]
        /\ latest \in Contents /\ owed \in SUBSET Keys /\ torn \in SUBSET Keys
    BY Types DEF Base
  <1>2. CASE Calls(c)
    <2>1. PICK r : op' = [op EXCEPT ![c] = r] /\ Started(op[c], r)
      BY <1>2 DEF Calls
    <2> QED
      BY <1>1, <1>2, <2>1, BaseStep DEF Calls, Started
  <1>3. CASE Probes(c)
    <2>1. PICK r : op' = [op EXCEPT ![c] = r] /\ ProbeStep(op[c], r)
      BY <1>3 DEF Probes
    <2> QED
      BY <1>1, <1>3, <2>1, BaseStep DEF Probes, ProbeStep
  <1>4. CASE Accepts(c)
    <2>1. PICK s, x, r : AcceptedBy(c, s, x, r)
      BY <1>4 DEF Accepts
    <2>2. Sound(r) /\ op' = [op EXCEPT ![c] = r]
      BY <2>1 DEF AcceptedBy, PutStep
    <2>3. op[c].todo[1][1] \in Keys /\ FullTier(op[c]) \in Contents
      BY <1>4, EntryFacts DEF Accepts
    <2>4. Without(FullTier(op[c]), ToSet(s)) \in Contents
      BY <2>3 DEF Without, Contents
    <2>5. store' \in [Tiers -> Contents] /\ owed' \in SUBSET Keys
      BY <1>1, <2>1, <2>3, <2>4 DEF AcceptedBy
    <2> QED
      BY <1>1, <1>4, <2>2, <2>5, BaseStep DEF Accepts
  <1>5. CASE Rejects(c)
    <2>1. PICK w, r : RejectedBy(c, w, r)
      BY <1>5 DEF Rejects
    <2>2. Sound(r) /\ op' = [op EXCEPT ![c] = r]
      BY <2>1 DEF RejectedBy, PutStep
    <2>3. PICK i, k : i = op[c].at /\ k = op[c].todo[1][1]
      OBVIOUS
    <2>4. i \in Tiers /\ k \in Keys /\ op[c].todo[1][2] \in Values
      BY <1>5, <2>3, EntryFacts DEF Rejects
    <2>5. w \in Values \cup {None}
      BY <1>1, <2>1, <2>3, <2>4 DEF RejectedBy, Contents
    <2>6. store' = [store EXCEPT ![i][k] = w]
      BY <2>1, <2>3 DEF RejectedBy
    <2>7. store' \in [Tiers -> Contents]
      BY <1>1, <2>4, <2>5, <2>6 DEF Contents
    <2>8. owed' \in SUBSET Keys
      BY <1>1, <2>1 DEF RejectedBy
    <2> QED
      BY <1>1, <1>5, <2>2, <2>7, <2>8, BaseStep DEF Rejects
  <1>6. CASE Removes(c)
    <2>1. PICK ks, r : RemovedBy(c, ks, r)
      BY <1>6 DEF Removes
    <2>2. Sound(r) /\ op' = [op EXCEPT ![c] = r]
      BY <2>1 DEF RemovedBy
    <2>3. store' \in [Tiers -> Contents]
      BY <1>1, <2>1 DEF RemovedBy, Without, Contents
    <2>4. owed' \in SUBSET Keys
      BY <1>1, <2>1 DEF RemovedBy
    <2> QED
      BY <1>1, <1>6, <2>2, <2>3, <2>4, BaseStep DEF Removes
  <1>7. CASE Drops(c)
    <2>1. PICK r : op' = [op EXCEPT ![c] = r] /\ Sound(r)
      BY <1>7 DEF Drops
    <2> QED
      BY <1>1, <1>7, <2>1, BaseStep DEF Drops
  <1> QED
    BY <1>2, <1>3, <1>4, <1>5, <1>6, <1>7 DEF Moves

LEMMA NextBase ==
    ASSUME Base, [Next]_vars
    PROVE  Base'
  <1>1. CASE Next
    BY <1>1, StepCases, MovesBase
  <1>2. CASE UNCHANGED vars
    BY <1>2 DEF vars, Base, TypeOK, Tiers, NoTier, Sound, Registers, Probing, Putting, Writing,
                Removing, Requested, Found, Writable, Bottom, Above, NoOperation, Return, Start
  <1> QED
    BY <1>1, <1>2

LEMMA BaseHolds == Spec => []Base
  <1>1. Init => Base
    BY InitBase
  <1>2. Base /\ [Next]_vars => Base'
    BY NextBase
  <1> QED
    BY <1>1, <1>2, PTL DEF Spec

(***************************************************************************)
(* The registers of every operation and the contents of every tier stay    *)
(* well-formed, whatever calls the clients make and drop and whichever     *)
(* tiers fail: TypeOK.                                                     *)
(***************************************************************************)
THEOREM RouterTypes == Spec => []TypeOK
  <1>1. Base => TypeOK
    BY DEF Base
  <1> QED
    BY <1>1, BaseHolds, PTL

-----------------------------------------------------------------------------
(* Misses                                                                  *)

\* What a read knows of the keys it has not found, in the tiers of S of the
\* stack st: a tier that has answered has none of them; and a read that calls
\* a key missing has had the answer of every tier.
Answered(o) ==
    o.pc = "promote" \/ (o.pc = "idle" /\ o.kind \in {"read", "exists"} /\ o.outcome = "ok")

ToldOf(st, o, S) ==
    /\ o.pc = "probe" =>
          \A k \in Unresolved(o), i \in S \ o.failures : i < o.tier => st[i][k] = None
    /\ Answered(o) /\ o.failures = {} => \A k \in Unresolved(o), i \in S : st[i][k] = None
    /\ Answered(o) /\ o.pc = "idle" => Unresolved(o) = {} \/ o.failures = {}

LEMMA StartedTold ==
    ASSUME config \in Configs, NEW S \in SUBSET Tiers, NEW st, NEW o, NEW r, Started(o, r)
    PROVE  ToldOf(st, r, S)
  <1>1. \A i \in S : ~(i < 0)
    BY ConfigFacts
  <1>2. r.pc = "probe" => r.tier = 0
    BY DEF Started
  <1>3. ~Answered(r)
    BY DEF Started, Answered
  <1> QED
    BY <1>1, <1>2, <1>3 DEF ToldOf

LEMMA ProbedTold ==
    ASSUME config \in Configs, NEW S \in SUBSET Tiers, NEW o \in Registers, NEW r,
           ToldOf(store, o, S), ProbeStep(o, r)
    PROVE  ToldOf(store, r, S)
  <1>1. /\ o.pc = "probe" /\ o.tier \in Nat /\ config.n \in Nat
        /\ \A i \in S : i \in Nat /\ i < config.n
    <2>1. o.pc = "probe" /\ o.tier \in Tiers
      BY DEF ProbeStep, Registers
    <2>2. Tiers = 0 .. config.n - 1 /\ config.n \in Nat
      BY ConfigFacts DEF Tiers
    <2>3. \A i \in Tiers : i \in Nat /\ i < config.n
      BY <2>2
    <2> QED
      BY <2>1, <2>2, <2>3
  <1>2. \A k \in Unresolved(o), i \in S : i \notin o.failures /\ i < o.tier => store[i][k] = None
    BY <1>1 DEF ToldOf
  <1>3. CASE r.pc = "idle" /\ r.outcome = "tier"
    BY <1>3 DEF ToldOf, Answered
  <1>4. ASSUME ReadGoesOn(o, r), NEW F, r.failures = F, o.failures \subseteq F,
               \A k \in Unresolved(r), i \in S : i \notin F /\ i <= o.tier => store[i][k] = None
        PROVE  ToldOf(store, r, S)
    <2>1. CASE r.pc = "probe" /\ r.tier = o.tier + 1
      <3>1. \A i \in S : i < r.tier => i <= o.tier
        BY <1>1, <2>1
      <3>2. ~Answered(r)
        BY <2>1 DEF Answered
      <3> QED
        BY <1>4, <3>1, <3>2 DEF ToldOf
    <2>2. CASE (Unresolved(r) = {} \/ o.tier + 1 = config.n) /\ PromotionGoesOn(r, r)
      <3>1. r.pc # "probe"
        BY <2>2 DEF PromotionGoesOn
      <3>2. r.failures = {} => \A k \in Unresolved(r), i \in S : store[i][k] = None
        <4>1. o.tier + 1 = config.n => \A i \in S : i <= o.tier
          BY <1>1
        <4> QED
          BY <1>4, <2>2, <4>1
      <3>3. r.pc = "idle" /\ r.outcome = "ok" => Unresolved(r) = {} \/ r.failures = {}
        BY <2>2 DEF PromotionGoesOn, ReadOutcome
      <3> QED
        BY <3>1, <3>2, <3>3 DEF ToldOf, Answered
    <2> QED
      BY <1>4, <2>1, <2>2 DEF ReadGoesOn
  <1>5. CASE /\ r.failures = o.failures /\ ReadGoesOn(o, r)
             /\ Unresolved(r) = {k \in Unresolved(o) : store[o.tier][k] = None}
    <2>1. \A k \in Unresolved(r), i \in S :
             i \notin o.failures /\ i <= o.tier => store[i][k] = None
      <3> SUFFICES ASSUME NEW k \in Unresolved(r), NEW i \in S, i \notin o.failures, i <= o.tier
                   PROVE  store[i][k] = None
        OBVIOUS
      <3>1. k \in Unresolved(o) /\ store[o.tier][k] = None
        BY <1>5
      <3>2. i < o.tier \/ i = o.tier
        BY <1>1
      <3> QED
        BY <1>2, <3>1, <3>2
    <2> QED
      BY <1>4, <1>5, <2>1
  <1>6. CASE /\ r.failures = o.failures \cup {o.tier} /\ ReadGoesOn(o, r)
             /\ Unresolved(r) = Unresolved(o)
    <2> DEFINE F == o.failures \cup {o.tier}
    <2>1. \A k \in Unresolved(r), i \in S : i \notin F /\ i <= o.tier => store[i][k] = None
      <3> SUFFICES ASSUME NEW k \in Unresolved(r), NEW i \in S, i \notin F, i <= o.tier
                   PROVE  store[i][k] = None
        OBVIOUS
      <3>1. k \in Unresolved(o) /\ i \notin o.failures /\ i # o.tier
        BY <1>6
      <3>2. i < o.tier
        BY <1>1, <3>1
      <3> QED
        BY <1>2, <3>1, <3>2
    <2>2. o.failures \subseteq F /\ r.failures = F
      BY <1>6
    <2> HIDE DEF F
    <2> QED
      BY <1>4, <1>6, <2>1, <2>2
  <1> QED
    BY <1>3, <1>5, <1>6 DEF ProbeStep

\* A put leaves a read where it was, or ends it.
Kept(o, r) ==
    /\ Sound(r) /\ Same(o, r)
    /\ o.pc = "promote" =>
          /\ r.failures = o.failures
          /\ r.pc = "promote" \/ (r.pc = "idle" /\ r.outcome = ReadOutcome(o))

LEMMA KeptTold ==
    ASSUME NEW S, NEW st, NEW o, NEW r, Sound(o), ToldOf(store, o, S), Kept(o, r),
           o.pc \in {"promote", "write"},
           o.pc = "promote" /\ o.failures = {} =>
              \A k \in Unresolved(o), i \in S : store[i][k] = None => st[i][k] = None
    PROVE  ToldOf(st, r, S)
  <1>1. CASE o.pc = "write"
    <2>1. r.kind = "put" /\ Sound(r)
      BY <1>1 DEF Kept, Same, Sound, Putting
    <2>2. r.pc \notin {"probe", "promote"}
      BY <2>1 DEF Sound, Probing, Putting
    <2> QED
      BY <2>1, <2>2 DEF ToldOf, Answered
  <1>2. CASE o.pc = "promote"
    <2>1. /\ r.failures = o.failures /\ Unresolved(r) = Unresolved(o)
          /\ r.pc = "promote" \/ (r.pc = "idle" /\ r.outcome = ReadOutcome(o))
      BY <1>2 DEF Kept, Same, Unresolved
    <2>2. o.failures = {} => \A k \in Unresolved(o), i \in S : st[i][k] = None
      BY <1>2 DEF ToldOf, Answered
    <2>3. r.pc = "idle" /\ r.outcome = "ok" => Unresolved(r) = {} \/ r.failures = {}
      BY <2>1 DEF ReadOutcome
    <2> QED
      BY <2>1, <2>2, <2>3 DEF ToldOf, Answered
  <1> QED
    BY <1>1, <1>2

LEMMA RemovedTold ==
    ASSUME NEW S, NEW st, NEW o, NEW r, Sound(o), Sound(r), Same(o, r), o.pc \in {"purge", "remove"}
    PROVE  ToldOf(st, r, S)
  <1>1. r.kind \in {"put", "delete"}
    BY DEF Same, Sound, Removing
  <1>2. r.pc \notin {"probe", "promote"}
    BY <1>1 DEF Sound, Probing, Putting
  <1> QED
    BY <1>1, <1>2 DEF ToldOf, Answered

LEMMA DroppedTold ==
    ASSUME NEW S, NEW st, NEW r, r.pc = "idle", r.outcome = "dropped"
    PROVE  ToldOf(st, r, S)
  BY DEF ToldOf, Answered

\* The registers of a client that puts.
LEMMA PutKept ==
    ASSUME NEW c, NEW r,
           \/ \E s, x : AcceptedBy(c, s, x, r)
           \/ \E w : RejectedBy(c, w, r)
    PROVE  Kept(op[c], r)
  <1>1. ASSUME NEW s, NEW x, AcceptedBy(c, s, x, r) PROVE Kept(op[c], r)
    <2>1. PutStep(x, r) /\ Advanced(op[c], Displaced(s, FullTier(op[c])), x)
      BY <1>1 DEF AcceptedBy
    <2>2. Same(op[c], x) /\ x.pc = op[c].pc /\ x.failures = op[c].failures
      BY <2>1 DEF Advanced
    <2>3. ReadOutcome(x) = ReadOutcome(op[c])
      BY <2>2 DEF Same, ReadOutcome, Unresolved
    <2> QED
      BY <2>1, <2>2, <2>3 DEF PutStep, Kept, Same
  <1>2. ASSUME NEW w, RejectedBy(c, w, r) PROVE Kept(op[c], r)
    BY <1>2 DEF RejectedBy, PutStep, Kept
  <1> QED
    BY <1>1, <1>2


\* What its own step does to what a client knows.
LEMMA ToldStep ==
    ASSUME Base, NEW c \in Clients, Moves(c), NEW S \in SUBSET Tiers, ToldOf(store, op[c], S),
           op[c].pc = "promote" /\ op[c].failures = {} =>
              \A k \in Unresolved(op[c]), i \in S : store[i][k] = None => store'[i][k] = None
    PROVE  \E r, st : op' = [op EXCEPT ![c] = r] /\ st = store' /\ ToldOf(st, r, S)
  <1>1. PICK o, st : o = op[c] /\ st = store'
    OBVIOUS
  <1>2. config \in Configs /\ Sound(o) /\ o \in Registers
    BY <1>1, Types DEF Base, Sound
  <1>3. CASE Calls(c)
    <2>1. PICK r : op' = [op EXCEPT ![c] = r] /\ Started(o, r)
      BY <1>1, <1>3 DEF Calls
    <2> QED
      BY <1>1, <1>2, <2>1, StartedTold
  <1>4. CASE Probes(c)
    <2>1. PICK r : op' = [op EXCEPT ![c] = r] /\ ProbeStep(o, r)
      BY <1>1, <1>4 DEF Probes
    <2>2. st = store
      BY <1>1, <1>4 DEF Probes
    <2> QED
      BY <1>1, <1>2, <2>1, <2>2, ProbedTold
  <1>5. CASE Accepts(c) \/ Rejects(c)
    <2>1. PICK r : /\ \/ \E s, x : AcceptedBy(c, s, x, r)
                      \/ \E w : RejectedBy(c, w, r)
                   /\ op' = [op EXCEPT ![c] = r]
      BY <1>5 DEF Accepts, Rejects, AcceptedBy, RejectedBy
    <2>2. Kept(o, r)
      BY <1>1, <2>1, PutKept
    <2>3. o.pc \in {"promote", "write"}
      BY <1>1, <1>5 DEF Accepts, Rejects
    <2> QED
      BY <1>1, <1>2, <2>1, <2>2, <2>3, KeptTold
  <1>6. CASE Removes(c)
    <2>1. PICK ks, r : RemovedBy(c, ks, r)
      BY <1>6 DEF Removes
    <2>2. op' = [op EXCEPT ![c] = r] /\ Sound(r) /\ Same(o, r) /\ o.pc \in {"purge", "remove"}
      BY <1>1, <1>6, <2>1 DEF RemovedBy, Removes
    <2> QED
      BY <1>1, <1>2, <2>2, RemovedTold
  <1>7. CASE Drops(c)
    <2>1. PICK r : op' = [op EXCEPT ![c] = r] /\ r.pc = "idle" /\ r.outcome = "dropped"
      BY <1>7 DEF Drops
    <2> QED
      BY <1>1, <2>1, DroppedTold
  <1> QED
    BY <1>3, <1>4, <1>5, <1>6, <1>7 DEF Moves

\* The router writes and deletes in writable tiers only.
LEMMA OriginsUntouched ==
    ASSUME Base, NEW c \in Clients, Moves(c)
    PROVE  config' = config /\ \A i \in Tiers \ Writable : store'[i] = store[i]
  <1>1. store \in [Tiers -> Contents] /\ Sound(op[c])
    BY Types DEF Base
  <1>2. CASE Calls(c)
    BY <1>2 DEF Calls
  <1>3. CASE Probes(c)
    BY <1>3 DEF Probes
  <1>4. CASE Accepts(c)
    <2>1. op[c].at \in Writable
      BY <1>4, EntryFacts DEF Accepts
    <2>2. PICK m : store' = [store EXCEPT ![op[c].at] = m]
      BY <1>4 DEF Accepts, AcceptedBy
    <2> QED
      BY <1>1, <1>4, <2>1, <2>2 DEF Accepts
  <1>5. CASE Rejects(c)
    <2>1. op[c].at \in Writable
      BY <1>5, EntryFacts DEF Rejects
    <2>2. PICK k, w : store' = [store EXCEPT ![op[c].at][k] = w]
      BY <1>5 DEF Rejects, RejectedBy
    <2> QED
      BY <1>1, <1>5, <2>1, <2>2 DEF Rejects
  <1>6. CASE Removes(c)
    <2>1. op[c].tier \in Writable
      BY <1>1, <1>6 DEF Removes, Sound, Removing, Above
    <2>2. PICK ks : store' = [store EXCEPT ![op[c].tier] = Without(@, ks)]
      BY <1>6 DEF Removes, RemovedBy
    <2> QED
      BY <1>1, <1>6, <2>1, <2>2 DEF Removes
  <1>7. CASE Drops(c)
    BY <1>7 DEF Drops
  <1> QED
    BY <1>2, <1>3, <1>4, <1>5, <1>6, <1>7 DEF Moves

OriginsTold == \A c \in Clients : ToldOf(store, op[c], Tiers \ Writable)

LEMMA NextOriginsTold ==
    ASSUME Base, OriginsTold, [Next]_vars
    PROVE  OriginsTold'
  <1>1. CASE Next
    <2>1. PICK c \in config.callers : c \in Clients /\ Moves(c)
      BY <1>1, StepCases
    <2>2. PICK S : S = Tiers \ Writable
      OBVIOUS
    <2>3. config' = config /\ \A i \in S : store'[i] = store[i]
      BY <2>1, <2>2, OriginsUntouched
    <2>4. S \in SUBSET Tiers /\ \A d \in Clients : ToldOf(store, op[d], S)
      BY <2>2 DEF OriginsTold
    <2>5. PICK r, st : op' = [op EXCEPT ![c] = r] /\ st = store' /\ ToldOf(st, r, S)
      BY <2>1, <2>3, <2>4, ToldStep
    <2>6. op'[c] = r /\ \A d \in Clients : d # c => op'[d] = op[d]
      BY <2>1, <2>5, OneClient
    <2>7. \A d \in Clients : \E y : y = op'[d] /\ ToldOf(st, y, S)
      <3> SUFFICES ASSUME NEW d \in Clients PROVE \E y : y = op'[d] /\ ToldOf(st, y, S)
        OBVIOUS
      <3>1. CASE d = c
        BY <2>5, <2>6, <3>1
      <3>2. CASE d # c
        <4>1. ToldOf(st, op[d], S)
          BY <2>3, <2>4, <2>5 DEF ToldOf
        <4> QED
          BY <2>6, <3>2, <4>1
      <3> QED
        BY <3>1, <3>2
    <2>8. Tiers' \ Writable' = S /\ NoTier' = NoTier
      BY <2>2, <2>3, Rigid
    <2> QED
      BY <2>5, <2>7, <2>8 DEF OriginsTold, ToldOf, Unresolved, Answered
  <1>2. CASE UNCHANGED vars
    BY <1>2 DEF vars, OriginsTold, ToldOf, Unresolved, Answered, NoTier, Tiers, Writable
  <1> QED
    BY <1>1, <1>2

\* Nothing has been asked of a client that has not called.
LEMMA IdleTold ==
    ASSUME config \in Configs, NEW S, NEW st
    PROVE  ToldOf(st, NoOperation, S)
  BY NoOperationSound DEF ToldOf, Answered

(***************************************************************************)
(* The read-only tiers under any stack: for any callers beside it, tiers   *)
(* failing as they may and any policy, a read that calls a key missing has *)
(* asked every read-only tier, none of them has the key, and none of them  *)
(* will (OriginServes, of Router::read_many and Router::exists).           *)
(***************************************************************************)
THEOREM OriginsServe == Spec => []OriginServes
  <1>1. Init => OriginsTold
    <2> SUFFICES ASSUME Init, NEW c \in Clients PROVE ToldOf(store, op[c], Tiers \ Writable)
      BY DEF OriginsTold
    <2>1. config \in Configs /\ op[c] = NoOperation
      BY DEF Init
    <2> QED
      BY <2>1, IdleTold
  <1>2. Base /\ OriginsTold /\ [Next]_vars => OriginsTold'
    BY NextOriginsTold
  <1>3. OriginsTold => OriginServes
    BY DEF OriginsTold, OriginServes, ToldOf, Answered, Returned
  <1> QED
    BY <1>1, <1>2, <1>3, BaseHolds, PTL DEF Spec

\* What promotion carries, between the tiers, are keys that the read has found.
CarriesFound(o) ==
    o.pc = "promote" /\ o.failures = {} =>
        \A e \in ToSet(o.todo) \cup ToSet(o.out) : e[1] \notin Unresolved(o)

AllTold == Alone => \A c \in Clients : ToldOf(store, op[c], Tiers) /\ CarriesFound(op[c])

LEMMA PromotedFound ==
    ASSUME NEW r, PromotionGoesOn(r, r)
    PROVE  CarriesFound(r)
  <1> SUFFICES ASSUME r.pc = "promote", NEW e \in ToSet(r.todo) \cup ToSet(r.out)
               PROVE  e[1] \notin Unresolved(r)
    BY DEF CarriesFound
  <1>1. r.out = <<>>
    BY DEF PromotionGoesOn
  <1>2. ToSet(r.out) = {}
    BY <1>1 DEF ToSet
  <1> QED
    BY <1>2 DEF PromotionGoesOn, Unresolved

\* A put of a promotion in progress.
LEMMA PromotionPuts ==
    ASSUME Base, NEW c \in Clients, Accepts(c) \/ Rejects(c),
           ToldOf(store, op[c], Tiers), CarriesFound(op[c])
    PROVE  /\ op[c].pc = "promote" /\ op[c].failures = {} =>
                 \A k \in Unresolved(op[c]), i \in Tiers : store[i][k] = None => store'[i][k] = None
           /\ \E r : op' = [op EXCEPT ![c] = r] /\ CarriesFound(r)
  <1>1. PICK o : o = op[c]
    OBVIOUS
  <1>2. PICK i, e : i = o.at /\ e = o.todo[1]
    OBVIOUS
  <1>3. o.pc \in {"promote", "write"}
    BY <1>1 DEF Accepts, Rejects
  <1>4. /\ config \in Configs /\ Sound(o) /\ i \in Tiers /\ e \in ToSet(o.todo)
        /\ e[1] \in Keys /\ e[2] \in Values /\ store[i] \in Contents /\ FullTier(o) \in Contents
        /\ store \in [Tiers -> Contents]
    BY <1>1, <1>2, <1>3, EntryFacts, Types DEF Base
  <1>5. Unresolved(o) \in SUBSET Keys
    <2>1. o.keys \in Seq(Keys)
      BY <1>4 DEF Sound, Registers
    <2> QED
      BY <2>1, Elements DEF Unresolved
  <1>6. o.pc = "promote" /\ o.failures = {} =>
           /\ e[1] \notin Unresolved(o)
           /\ \A k \in Unresolved(o) : store[i][k] = None
    BY <1>1, <1>4 DEF ToldOf, Answered, CarriesFound
  <1>7. \A k \in Keys : k # e[1] => FullTier(o)[k] = store[i][k]
    BY <1>2, <1>4 DEF FullTier, Contents
  <1>8. CASE Accepts(c)
    <2>1. PICK s, x, r : AcceptedBy(c, s, x, r)
      BY <1>8 DEF Accepts
    <2>2. PICK full : full = FullTier(o)
      OBVIOUS
    <2>3. /\ Advanced(o, Displaced(s, full), x) /\ PutStep(x, r) /\ op' = [op EXCEPT ![c] = r]
          /\ s \in Victims(i, full)
          /\ store' = [store EXCEPT ![i] = Without(full, ToSet(s))]
      BY <1>1, <1>2, <2>1, <2>2 DEF AcceptedBy
    <2>4. /\ ToSet(s) \in SUBSET Present(full)
          /\ ToSet(Displaced(s, full)) = {<<j, full[j]>> : j \in ToSet(s)}
      BY <1>4, <2>2, <2>3, VictimsFacts
    <2>5. /\ x.pc = o.pc /\ x.failures = o.failures /\ Unresolved(x) = Unresolved(o)
          /\ ToSet(x.todo) \subseteq ToSet(o.todo)
          /\ ToSet(x.out) = ToSet(o.out) \cup ToSet(Displaced(s, full))
      BY <2>3 DEF Advanced, Same, Unresolved
    <2>6. Same(x, r) /\ Unresolved(r) = Unresolved(o)
      BY <2>3, <2>5 DEF PutStep, Same, Unresolved
    <2>7. CarriesFound(r)
      <3> SUFFICES ASSUME r.pc = "promote", r.failures = {},
                          NEW d \in ToSet(r.todo) \cup ToSet(r.out)
                   PROVE  d[1] \notin Unresolved(r)
        BY DEF CarriesFound
      <3>1. o.pc = "promote"
        BY <1>3, <2>3, <2>5, <2>6 DEF PutStep, Sound, Putting, Same, Advanced, Active
      <3>2. o.failures = {} /\ (d \in ToSet(x.todo) \cup ToSet(x.out) \/ d[1] \notin Unresolved(x))
        BY <2>3, <2>5, <3>1 DEF PutStep
      <3>3. CASE d \in ToSet(o.todo) \cup ToSet(o.out)
        BY <1>1, <2>6, <3>1, <3>2, <3>3 DEF CarriesFound
      <3>4. CASE d \in ToSet(Displaced(s, full))
        <4>1. PICK j \in ToSet(s) : d = <<j, full[j]>>
          BY <2>4, <3>4
        <4>2. j \in Keys /\ full[j] # None
          BY <2>4 DEF Present
        <4>3. j \notin Unresolved(o)
          BY <1>6, <1>7, <2>2, <3>1, <3>2, <4>2
        <4> QED
          BY <2>6, <4>1, <4>3
      <3> QED
        BY <2>5, <2>6, <3>2, <3>3, <3>4
    <2>8. ASSUME o.pc = "promote", o.failures = {}, NEW k \in Unresolved(o), NEW j \in Tiers,
                 store[j][k] = None
          PROVE  store'[j][k] = None
      <3>1. CASE j # i
        BY <1>4, <2>3, <2>8, <3>1
      <3>2. CASE j = i
        <4>1. k \in Keys /\ full[k] = None
          BY <1>5, <1>6, <1>7, <2>2, <2>8
        <4>2. store'[i] = Without(full, ToSet(s))
          BY <1>4, <2>3
        <4> QED
          BY <3>2, <4>1, <4>2 DEF Without
      <3> QED
        BY <3>1, <3>2
    <2> QED
      BY <1>1, <2>3, <2>7, <2>8
  <1>9. CASE Rejects(c)
    <2>1. PICK w, r : RejectedBy(c, w, r)
      BY <1>9 DEF Rejects
    <2>2. /\ PutStep(o, r) /\ op' = [op EXCEPT ![c] = r]
          /\ store' = [store EXCEPT ![i][e[1]] = w]
      BY <1>1, <1>2, <2>1 DEF RejectedBy
    <2>3. Unresolved(r) = Unresolved(o)
      BY <2>2 DEF PutStep, Same, Unresolved
    <2>4. CarriesFound(r)
      <3> SUFFICES ASSUME r.pc = "promote", r.failures = {},
                          NEW d \in ToSet(r.todo) \cup ToSet(r.out)
                   PROVE  d[1] \notin Unresolved(r)
        BY DEF CarriesFound
      <3>1. o.pc = "promote"
        BY <1>3, <1>4, <2>2 DEF PutStep, Sound, Putting, Same
      <3>2. /\ o.failures = {}
            /\ d \in ToSet(o.todo) \cup ToSet(o.out) \/ d[1] \notin Unresolved(o)
        BY <2>2, <3>1 DEF PutStep
      <3> QED
        BY <1>1, <2>3, <3>1, <3>2 DEF CarriesFound
    <2>5. ASSUME o.pc = "promote", o.failures = {}, NEW k \in Unresolved(o), NEW j \in Tiers,
                 store[j][k] = None
          PROVE  store'[j][k] = None
      <3>1. k # e[1] /\ k \in Keys
        BY <1>5, <1>6, <2>5
      <3> QED
        BY <1>4, <2>2, <2>5, <3>1 DEF Contents
    <2> QED
      BY <1>1, <2>2, <2>4, <2>5
  <1> QED
    BY <1>8, <1>9

\* Who is alone has no one beside it, and the other clients never call.
LEMMA AloneFacts ==
    ASSUME Base, Alone, NEW c \in config.callers
    PROVE  \A d \in Clients : d = c \/ op[d] = NoOperation
  <1>1. IsFiniteSet(config.callers)
    <2>1. config.callers \in SUBSET Clients /\ IsFiniteSet(Clients)
      BY Types, ConfigFacts, RouterAssumption DEF Base
    <2> QED
      BY <2>1, FS_Subset
  <1>2. PICK a : config.callers = {a}
    BY <1>1, FS_Singleton DEF Alone
  <1>3. \A d \in Clients : d \in config.callers \/ op[d] = NoOperation
    BY DEF Base
  <1> QED
    BY <1>2, <1>3

\* No step but a promotion's puts touches what promotion carries.
LEMMA FoundStep ==
    ASSUME Base, NEW c \in Clients, Moves(c), ToldOf(store, op[c], Tiers), CarriesFound(op[c])
    PROVE  \E r : op' = [op EXCEPT ![c] = r] /\ CarriesFound(r)
  <1>1. CASE Calls(c)
    <2>1. PICK r : op' = [op EXCEPT ![c] = r] /\ Started(op[c], r)
      BY <1>1 DEF Calls
    <2>2. r.pc # "promote"
      BY <2>1 DEF Started
    <2> QED
      BY <2>1, <2>2 DEF CarriesFound
  <1>2. CASE Probes(c)
    <2>1. PICK r : op' = [op EXCEPT ![c] = r] /\ ProbeStep(op[c], r)
      BY <1>2 DEF Probes
    <2>2. r.pc = "promote" => PromotionGoesOn(r, r)
      BY <2>1 DEF ProbeStep, ReadGoesOn
    <2>3. CarriesFound(r)
      BY <2>2, PromotedFound DEF CarriesFound
    <2> QED
      BY <2>1, <2>3
  <1>3. CASE Accepts(c) \/ Rejects(c)
    BY <1>3, PromotionPuts
  <1>4. CASE Removes(c)
    <2>1. PICK ks, r : RemovedBy(c, ks, r)
      BY <1>4 DEF Removes
    <2>2. r.pc # "promote"
      BY <1>4, <2>1 DEF Removes, RemovedBy, RemovalGoesOn
    <2> QED
      BY <2>1, <2>2 DEF CarriesFound, RemovedBy
  <1>5. CASE Drops(c)
    <2>1. PICK r : op' = [op EXCEPT ![c] = r] /\ r.pc = "idle"
      BY <1>5 DEF Drops
    <2>2. r.pc # "promote"
      BY <2>1
    <2> QED
      BY <2>1, <2>2 DEF CarriesFound
  <1> QED
    BY <1>1, <1>2, <1>3, <1>4, <1>5 DEF Moves

LEMMA NextAllTold ==
    ASSUME Base, AllTold, [Next]_vars
    PROVE  AllTold'
  <1>1. CASE Next
    <2>1. PICK c \in config.callers : c \in Clients /\ Moves(c)
      BY <1>1, StepCases
    <2>2. config' = config /\ config \in Configs
      BY <2>1, OriginsUntouched, Types DEF Base
    <2>3. Alone' = Alone
      BY <2>2 DEF Alone
    <2> SUFFICES ASSUME Alone
                 PROVE  \A d \in Clients : ToldOf(store, op[d], Tiers)' /\ CarriesFound(op[d])'
      BY <2>3 DEF AllTold
    <2>4. \A d \in Clients : ToldOf(store, op[d], Tiers) /\ CarriesFound(op[d])
      BY DEF AllTold
    <2>5. PICK q : op' = [op EXCEPT ![c] = q] /\ CarriesFound(q)
      BY <2>1, <2>4, FoundStep
    <2>6. op[c].pc = "promote" /\ op[c].failures = {} =>
             \A k \in Unresolved(op[c]), i \in Tiers : store[i][k] = None => store'[i][k] = None
      <3>1. CASE Accepts(c) \/ Rejects(c)
        BY <2>1, <2>4, <3>1, PromotionPuts
      <3>2. CASE ~(Accepts(c) \/ Rejects(c))
        <4>1. store' = store \/ op[c].pc # "promote"
          BY <2>1, <3>2 DEF Moves, Calls, Probes, Removes, Drops
        <4> QED
          BY <4>1
      <3> QED
        BY <3>1, <3>2
    <2>7. PICK r, st : op' = [op EXCEPT ![c] = r] /\ st = store' /\ ToldOf(st, r, Tiers)
      BY <2>1, <2>4, <2>6, ToldStep
    <2>8. op'[c] = r /\ op'[c] = q /\ \A d \in Clients : d # c => op'[d] = op[d]
      BY <2>1, <2>5, <2>7, OneClient
    <2>9. \A d \in Clients : \E y : y = op'[d] /\ ToldOf(st, y, Tiers) /\ CarriesFound(y)
      <3> SUFFICES ASSUME NEW d \in Clients
                   PROVE  \E y : y = op'[d] /\ ToldOf(st, y, Tiers) /\ CarriesFound(y)
        OBVIOUS
      <3>1. CASE d = c
        BY <2>5, <2>7, <2>8, <3>1
      <3>2. CASE d # c
        <4>1. op'[d] = NoOperation
          BY <2>1, <2>8, <3>2, AloneFacts
        <4>2. ToldOf(st, NoOperation, Tiers)
          BY <2>2, IdleTold
        <4>3. NoOperation.pc # "promote"
          BY <2>2, NoOperationSound
        <4> QED
          BY <4>1, <4>2, <4>3 DEF CarriesFound
      <3> QED
        BY <3>1, <3>2
    <2>10. Tiers' = Tiers /\ NoTier' = NoTier
      BY <2>2, Rigid
    <2> QED
      BY <2>7, <2>9, <2>10 DEF ToldOf, Unresolved, Answered, CarriesFound
  <1>2. CASE UNCHANGED vars
    BY <1>2 DEF vars, AllTold, Alone, ToldOf, Unresolved, Answered, CarriesFound, NoTier, Tiers
  <1> QED
    BY <1>1, <1>2

(***************************************************************************)
(* A single caller's read that calls a key missing is right: the key is in *)
(* no tier, failing ones included, for any stack, policy and history       *)
(* (HonestMiss; Router::read_many returns Inconclusive exactly when a key  *)
(* is unresolved and a tier failed).                                       *)
(***************************************************************************)
THEOREM MissesStayHonest == Spec => []HonestMiss
  <1>1. Init => AllTold
    <2> SUFFICES ASSUME Init, NEW c \in Clients
                 PROVE  ToldOf(store, op[c], Tiers) /\ CarriesFound(op[c])
      BY DEF AllTold
    <2>1. config \in Configs /\ op[c] = NoOperation
      BY DEF Init
    <2> QED
      BY <2>1, IdleTold, NoOperationSound DEF CarriesFound
  <1>2. Base /\ AllTold /\ [Next]_vars => AllTold'
    BY NextAllTold
  <1>3. AllTold => HonestMiss
    BY DEF AllTold, HonestMiss, ToldOf, Answered, Returned
  <1> QED
    BY <1>1, <1>2, <1>3, BaseHolds, PTL DEF Spec

-----------------------------------------------------------------------------
(* Deletes and invalidations                                               *)

\* The tiers of T that a removal has visited and that did not fail hold none of
\* the keys.
Cleared(st, o, T) ==
    \A i \in T, k \in ToSet(Targets(o)) : i \notin o.failures => st[i][k] = None

Ended(o, kind) == o.pc = "idle" /\ o.kind = kind /\ o.outcome \in {"ok", "partial"}

GoneSoFar(st, o) ==
    /\ o.pc \in {"purge", "remove"} => Cleared(st, o, {i \in Visited(o) : i < o.tier})
    /\ Ended(o, "delete") =>
          Cleared(st, o, Writable) /\ (o.outcome = "ok" <=> o.failures = {})
    /\ Ended(o, "put") /\ config.policy.write = "WriteAround" =>
          Cleared(st, o, Above(Bottom)) /\ (o.outcome = "ok" <=> o.failures = {})

LEMMA StartedGone ==
    ASSUME config \in Configs, NEW st, NEW o, NEW r, Started(o, r)
    PROVE  GoneSoFar(st, r)
  <1>1. r.pc # "purge" /\ ~Ended(r, "put")
    BY DEF Started, Ended
  <1>2. r.pc = "remove" => {i \in Visited(r) : i < r.tier} = {}
    <2> SUFFICES ASSUME r.pc = "remove", NEW i \in Visited(r), i < r.tier PROVE FALSE
      OBVIOUS
    <2>1. Visited(r) = Writable /\ Writable # {} /\ r.tier = Min(Writable)
      BY DEF Visited, Started
    <2>2. Writable \in SUBSET Tiers /\ Tiers \in SUBSET Nat
      BY ConfigFacts
    <2>3. Min(Writable) \in Writable /\ \A j \in Writable : Min(Writable) <= j
      BY <2>1, <2>2, TierSets
    <2>4. r.tier <= i /\ r.tier \in Nat /\ i \in Nat
      BY <2>1, <2>2, <2>3
    <2> QED
      BY <2>4
  <1>3. Ended(r, "delete") => Writable = {} /\ r.outcome = "ok" /\ r.failures = {}
    BY DEF Started, Ended
  <1> QED
    BY <1>1, <1>2, <1>3 DEF GoneSoFar, Cleared

\* No removal, no result of one.
LEMMA UntouchedGone ==
    ASSUME NEW st, NEW r, r.pc \notin {"purge", "remove"}, ~Ended(r, "delete"), ~Ended(r, "put")
    PROVE  GoneSoFar(st, r)
  BY DEF GoneSoFar

\* A put goes on to the topmost of the tiers to invalidate, or there are none.
LEMMA PutGone ==
    ASSUME config \in Configs, NEW st, NEW x, NEW r, Active(x), PutStep(x, r)
    PROVE  GoneSoFar(st, r)
  <1>1. CASE x.pc = "promote"
    <2>1. r.kind = "read" /\ r.pc \in {"promote", "idle"}
      BY <1>1 DEF PutStep, Same, Active
    <2> QED
      BY <2>1, UntouchedGone DEF Ended
  <1>2. CASE x.pc = "write"
    <2>1. r.kind = "put"
      BY <1>2 DEF PutStep, Same, Active
    <2>2. CASE r.pc = "write"
      BY <2>2, UntouchedGone DEF Ended
    <2>3. CASE r.pc = "idle" /\ r.outcome = "tier"
      BY <2>3, UntouchedGone DEF Ended
    <2>4. CASE /\ r.pc = "idle" /\ r.outcome = "ok" /\ r.failures = {}
               /\ config.policy.write = "WriteAround" => Above(Bottom) = {}
      BY <2>1, <2>4 DEF GoneSoFar, Cleared, Ended
    <2>5. CASE /\ r.pc = "purge" /\ r.failures = {} /\ Above(Bottom) # {}
               /\ r.tier = Min(Above(Bottom))
      <3>1. Above(Bottom) \in SUBSET Tiers /\ Tiers \in SUBSET Nat
        BY ConfigFacts DEF Above
      <3>2. Min(Above(Bottom)) \in Above(Bottom) /\ \A j \in Above(Bottom) : Min(Above(Bottom)) <= j
        BY <2>5, <3>1, TierSets
      <3>3. {i \in Visited(r) : i < r.tier} = {}
        <4> SUFFICES ASSUME NEW i \in Visited(r), i < r.tier PROVE FALSE
          OBVIOUS
        <4>1. Visited(r) = Above(Bottom)
          BY <2>5 DEF Visited
        <4>2. r.tier <= i /\ r.tier \in Nat /\ i \in Nat
          BY <2>5, <3>1, <3>2, <4>1
        <4> QED
          BY <4>2
      <3> QED
        BY <2>5, <3>3 DEF GoneSoFar, Cleared, Ended
    <2> QED
      BY <1>2, <2>2, <2>3, <2>4, <2>5 DEF PutStep
  <1> QED
    BY <1>1, <1>2 DEF Active

LEMMA RemovedGone ==
    ASSUME Base, NEW c \in Clients, NEW ks, NEW r, RemovedBy(c, ks, r),
           op[c].pc \in {"purge", "remove"}, GoneSoFar(store, op[c]), NEW st, st = store'
    PROVE  GoneSoFar(st, r)
  <1>1. PICK o : o = op[c]
    OBVIOUS
  <1>2. /\ config \in Configs /\ store \in [Tiers -> Contents] /\ Sound(o) /\ o \in Registers
        /\ o.tier \in Tiers /\ o.pc \in {"purge", "remove"}
    BY <1>1, Types DEF Base, Sound, Registers
  <1>3. /\ Same(o, r) /\ RemovalGoesOn(o, r) /\ o.failures \subseteq r.failures
        /\ ks = ToSet(Targets(o)) \/ o.tier \in r.failures
        /\ st = [store EXCEPT ![o.tier] = Without(@, ks)]
    BY <1>1 DEF RemovedBy
  <1>4. ToSet(Targets(o)) \in SUBSET Keys /\ Targets(r) = Targets(o)
    BY <1>2, <1>3, TargetFacts DEF Same, Targets
  <1>5. Tiers \in SUBSET Nat /\ Visited(o) \in SUBSET Tiers
    BY <1>2, ConfigFacts DEF Visited, Above
  <1>6. ASSUME NEW i \in Visited(o), i <= o.tier, NEW k \in ToSet(Targets(r)), i \notin r.failures
        PROVE  st[i][k] = None
    <2>1. i \in Tiers /\ i \in Nat /\ o.tier \in Nat /\ k \in Keys /\ k \in ToSet(Targets(o))
      BY <1>2, <1>4, <1>5
    <2>2. CASE i = o.tier
      <3>1. st[i] = Without(store[i], ToSet(Targets(o)))
        BY <1>2, <1>3, <1>6, <2>1, <2>2
      <3> QED
        BY <2>1, <3>1 DEF Without
    <2>3. CASE i # o.tier
      <3>1. i < o.tier /\ st[i] = store[i] /\ i \notin o.failures
        BY <1>2, <1>3, <1>6, <2>1, <2>3
      <3> QED
        BY <1>1, <1>2, <2>1, <3>1 DEF GoneSoFar, Cleared
    <2> QED
      BY <2>2, <2>3
  <1>7. CASE /\ r.pc = o.pc /\ r.tier \in Visited(o)
             /\ \A j \in Visited(o) : j < r.tier => j <= o.tier
    <2>1. Visited(r) = Visited(o) /\ r.pc # "idle"
      BY <1>2, <1>7 DEF Visited
    <2> QED
      BY <1>6, <1>7, <2>1 DEF GoneSoFar, Cleared, Ended
  <1>8. CASE /\ r.pc = "idle" /\ r.outcome = IF r.failures = {} THEN "ok" ELSE "partial"
             /\ \A j \in Visited(o) : j <= o.tier
    <2>1. Cleared(st, r, Visited(o)) /\ (r.outcome = "ok" <=> r.failures = {})
      BY <1>6, <1>8 DEF Cleared
    <2>2. /\ r.kind = "delete" => Visited(o) = Writable
          /\ r.kind = "put" => Visited(o) = Above(Bottom)
      BY <1>2, <1>3 DEF Same, Visited, Sound, Removing
    <2> QED
      BY <1>8, <2>1, <2>2 DEF GoneSoFar, Ended
  <1> QED
    BY <1>3, <1>7, <1>8 DEF RemovalGoesOn

LEMMA GoneStep ==
    ASSUME Base, NEW c \in Clients, Moves(c), GoneSoFar(store, op[c])
    PROVE  \E r, st : op' = [op EXCEPT ![c] = r] /\ st = store' /\ GoneSoFar(st, r)
  <1>1. PICK st : st = store'
    OBVIOUS
  <1>2. config \in Configs /\ Sound(op[c])
    BY Types DEF Base
  <1>3. CASE Calls(c)
    BY <1>1, <1>2, <1>3, StartedGone DEF Calls
  <1>4. CASE Probes(c)
    <2>1. PICK r : op' = [op EXCEPT ![c] = r] /\ ProbeStep(op[c], r)
      BY <1>4 DEF Probes
    <2>2. r.kind \in {"read", "exists"} /\ Sound(r)
      BY <1>2, <2>1 DEF ProbeStep, Sound, Probing
    <2>3. r.pc \notin {"purge", "remove"}
      BY <2>2 DEF Sound, Removing
    <2> QED
      BY <1>1, <2>1, <2>2, <2>3, UntouchedGone DEF Ended
  <1>5. CASE Accepts(c)
    <2>1. PICK s, x, r : AcceptedBy(c, s, x, r)
      BY <1>5 DEF Accepts
    <2>2. Active(x) /\ PutStep(x, r) /\ op' = [op EXCEPT ![c] = r]
      BY <2>1 DEF AcceptedBy, Advanced
    <2> QED
      BY <1>1, <1>2, <2>2, PutGone
  <1>6. CASE Rejects(c)
    <2>1. PICK w, r : RejectedBy(c, w, r)
      BY <1>6 DEF Rejects
    <2>2. PutStep(op[c], r) /\ op' = [op EXCEPT ![c] = r]
      BY <2>1 DEF RejectedBy
    <2>3. Active(op[c])
      BY <1>2, <1>6 DEF Rejects, Sound, Putting, Active
    <2> QED
      BY <1>1, <1>2, <2>2, <2>3, PutGone
  <1>7. CASE Removes(c)
    <2>1. PICK ks, r : RemovedBy(c, ks, r)
      BY <1>7 DEF Removes
    <2>2. op' = [op EXCEPT ![c] = r] /\ op[c].pc \in {"purge", "remove"}
      BY <1>7, <2>1 DEF Removes, RemovedBy
    <2>3. GoneSoFar(st, r)
      BY <1>1, <2>1, <2>2, RemovedGone
    <2> QED
      BY <1>1, <2>2, <2>3
  <1>8. CASE Drops(c)
    <2>1. PICK r : op' = [op EXCEPT ![c] = r] /\ r.pc = "idle" /\ r.outcome = "dropped"
      BY <1>8 DEF Drops
    <2> QED
      BY <1>1, <2>1, UntouchedGone DEF Ended
  <1> QED
    BY <1>3, <1>4, <1>5, <1>6, <1>7, <1>8 DEF Moves

AllGone == Alone => \A c \in Clients : GoneSoFar(store, op[c])

LEMMA IdleGone ==
    ASSUME config \in Configs, NEW st
    PROVE  GoneSoFar(st, NoOperation)
  <1>1. NoOperation.kind = "none" /\ NoOperation.pc = "idle"
    BY NoOperationSound
  <1> QED
    BY <1>1, UntouchedGone DEF Ended

LEMMA GoneStays ==
    ASSUME NEW CONSTANT d, NEW CONSTANT r, NEW CONSTANT st, op'[d] = r, store' = st,
           config' = config, GoneSoFar(st, r)
    PROVE  GoneSoFar(store, op[d])'
  <1>1. Writable' = Writable /\ Bottom' = Bottom
    BY Rigid
  <1>2. PICK A, B, V : A = Above(Bottom) /\ B = config.policy.write /\ V = Visited(r)
    OBVIOUS
  <1>3. Above(Bottom)' = A /\ (config.policy.write)' = B
    BY <1>1, <1>2 DEF Above
  <1>4. Visited(op[d])' = V
    BY <1>1, <1>2, <1>3 DEF Visited
  <1>5. (op[d].pc \in {"purge", "remove"} =>
            Cleared(store, op[d], {i \in Visited(op[d]) : i < op[d].tier}))'
    BY <1>2, <1>4 DEF GoneSoFar, Cleared, Targets
  <1>6. (Ended(op[d], "delete") =>
            Cleared(store, op[d], Writable) /\ (op[d].outcome = "ok" <=> op[d].failures = {}))'
    BY <1>1 DEF GoneSoFar, Cleared, Targets, Ended
  <1>7. (Ended(op[d], "put") /\ config.policy.write = "WriteAround" =>
            Cleared(store, op[d], Above(Bottom)) /\ (op[d].outcome = "ok" <=> op[d].failures = {}))'
    BY <1>2, <1>3 DEF GoneSoFar, Cleared, Targets, Ended
  <1> QED
    BY <1>5, <1>6, <1>7 DEF GoneSoFar

LEMMA NextAllGone ==
    ASSUME Base, AllGone, [Next]_vars
    PROVE  AllGone'
  <1>1. CASE Next
    <2>1. PICK c \in config.callers : c \in Clients /\ Moves(c)
      BY <1>1, StepCases
    <2>2. config' = config /\ config \in Configs
      BY <2>1, OriginsUntouched, Types DEF Base
    <2>3. Alone' = Alone
      BY <2>2 DEF Alone
    <2> SUFFICES ASSUME Alone
                 PROVE  \A d \in Clients : GoneSoFar(store, op[d])'
      BY <2>3 DEF AllGone
    <2>4. \A d \in Clients : GoneSoFar(store, op[d])
      BY DEF AllGone
    <2>5. PICK r, st : op' = [op EXCEPT ![c] = r] /\ st = store' /\ GoneSoFar(st, r)
      BY <2>1, <2>4, GoneStep
    <2>6. op'[c] = r /\ \A d \in Clients : d # c => op'[d] = op[d]
      BY <2>1, <2>5, OneClient
    <2>7. \A d \in Clients : \E y : y = op'[d] /\ GoneSoFar(st, y)
      <3> SUFFICES ASSUME NEW d \in Clients
                   PROVE  \E y : y = op'[d] /\ GoneSoFar(st, y)
        OBVIOUS
      <3>1. CASE d = c
        BY <2>5, <2>6, <3>1
      <3>2. CASE d # c
        <4>1. op'[d] = NoOperation
          BY <2>1, <2>6, <3>2, AloneFacts
        <4>2. GoneSoFar(st, NoOperation)
          BY <2>2, IdleGone
        <4> QED
          BY <4>1, <4>2
      <3> QED
        BY <3>1, <3>2
    <2> QED
      BY <2>2, <2>5, <2>7, GoneStays
  <1>2. CASE UNCHANGED vars
    <2>1. config' = config /\ store' = store /\ op' = op /\ Alone' = Alone
      BY <1>2 DEF vars, Alone
    <2> SUFFICES ASSUME Alone, NEW d \in Clients PROVE GoneSoFar(store, op[d])'
      BY <2>1 DEF AllGone
    <2>2. PICK r, st : r = op[d] /\ st = store /\ GoneSoFar(st, r)
      BY DEF AllGone
    <2> QED
      BY <2>1, <2>2, GoneStays
  <1> QED
    BY <1>1, <1>2

(***************************************************************************)
(* Of what a single caller deletes, or overwrites around the upper tiers,  *)
(* a copy survives only in tiers reported as failures, and the result is   *)
(* Partial exactly when there are any: SurvivorsReported, for any stack,   *)
(* policy and history (Router::remove_many, the invalidation of put_many). *)
(***************************************************************************)
THEOREM SurvivorsAreReported == Spec => []SurvivorsReported
  <1>1. Init => AllGone
    <2> SUFFICES ASSUME Init, NEW c \in Clients PROVE GoneSoFar(store, op[c])
      BY DEF AllGone
    <2>1. config \in Configs /\ op[c] = NoOperation
      BY DEF Init
    <2> QED
      BY <2>1, IdleGone
  <1>2. Base /\ AllGone /\ [Next]_vars => AllGone'
    BY NextAllGone
  <1>3. AllGone => SurvivorsReported
    <2> SUFFICES ASSUME AllGone, Alone, NEW c \in Clients
                 PROVE  /\ Returned(c, "delete", {"ok", "partial"}) =>
                              /\ Survivors(c, Writable) \subseteq op[c].failures
                              /\ op[c].outcome = "ok" <=> op[c].failures = {}
                        /\ config.policy.write = "WriteAround"
                              /\ Returned(c, "put", {"ok", "partial"}) =>
                              /\ Survivors(c, Above(Bottom)) \subseteq op[c].failures
                              /\ op[c].outcome = "ok" <=> op[c].failures = {}
      BY DEF SurvivorsReported
    <2>1. GoneSoFar(store, op[c])
      BY DEF AllGone
    <2>2. \A T : Cleared(store, op[c], T) => Survivors(c, T) \subseteq op[c].failures
      BY DEF Cleared, Survivors
    <2> QED
      BY <2>1, <2>2 DEF GoneSoFar, Ended, Returned
  <1> QED
    BY <1>1, <1>2, <1>3, BaseHolds, PTL DEF Spec

-----------------------------------------------------------------------------
(* Losses                                                                  *)

Carries(o, k) ==
    o.pc # "idle" /\ \E e \in ToSet(o.todo) \cup ToSet(o.out) \cup o.evicted : e[1] = k

HeldIn(st, k) == \E i \in Writable : st[i][k] # None

\* Reads without promotion, and deletes, carry nothing.
Unladen(o) ==
    /\ o.pc \in {"probe", "remove"} => o.todo = <<>> /\ o.out = <<>> /\ o.evicted = {}
    /\ o.pc # "promote"

\* The router of a store none of whose tiers fails and no caller gives up.
Reliable == config.policy = StorePolicy /\ ~config.drops /\ Fallible = {}

LEMMA UnladenCarriesNothing ==
    ASSUME NEW o, Unladen(o), o.pc \in {"idle", "probe", "remove"}, NEW k
    PROVE  ~Carries(o, k)
  <1>1. CASE o.pc = "idle"
    BY <1>1 DEF Carries
  <1>2. CASE o.pc \in {"probe", "remove"}
    <2>1. ToSet(o.todo) = {} /\ ToSet(o.out) = {} /\ o.evicted = {}
      <3>1. o.todo = <<>> /\ o.out = <<>> /\ o.evicted = {}
        BY <1>2 DEF Unladen
      <3> QED
        BY <3>1 DEF ToSet
    <2> QED
      BY <2>1 DEF Carries
  <1> QED
    BY <1>1, <1>2

LEMMA StoreNeverPromotes ==
    ASSUME Reliable, NEW o, NEW r, PromotionGoesOn(o, r)
    PROVE  r.pc = "idle"
  BY DEF Reliable, StorePolicy, PromotionGoesOn

LEMMA UnladenStep ==
    ASSUME Base, Reliable, NEW c \in Clients, Moves(c), Unladen(op[c])
    PROVE  \E r : op' = [op EXCEPT ![c] = r] /\ Unladen(r)
  <1>1. Sound(op[c])
    BY DEF Base
  <1>2. CASE Calls(c)
    <2>1. PICK r : op' = [op EXCEPT ![c] = r] /\ Started(op[c], r)
      BY <1>2 DEF Calls
    <2>2. r.pc # "promote" /\ Sound(r) /\ (r.pc # "idle" => r.todo = r.entries /\ r.out = <<>>)
          /\ r.evicted = {}
      BY <2>1 DEF Started
    <2>3. r.pc \in {"probe", "remove"} => r.entries = <<>>
      BY <2>2 DEF Sound, Probing, Removing, Requested
    <2> QED
      BY <2>1, <2>2, <2>3 DEF Unladen
  <1>3. CASE Probes(c)
    <2>1. PICK r : op' = [op EXCEPT ![c] = r] /\ ProbeStep(op[c], r)
      BY <1>3 DEF Probes
    <2>2. CASE r.pc = "idle"
      BY <2>1, <2>2 DEF Unladen
    <2>3. CASE r.pc = "probe" /\ r.todo = op[c].todo /\ r.out = op[c].out
               /\ r.evicted = op[c].evicted
      BY <2>1, <2>3 DEF Unladen, ProbeStep
    <2> QED
      BY <2>1, <2>2, <2>3, StoreNeverPromotes DEF ProbeStep, ReadGoesOn
  <1>4. CASE Accepts(c)
    <2>1. PICK s, x, r : AcceptedBy(c, s, x, r)
      BY <1>4 DEF Accepts
    <2>2. PutStep(x, r) /\ x.pc = op[c].pc /\ op' = [op EXCEPT ![c] = r]
      BY <2>1 DEF AcceptedBy, Advanced
    <2>3. op[c].pc = "write"
      BY <1>4 DEF Accepts, Unladen
    <2>4. r.pc \in {"write", "purge", "idle"}
      BY <2>2, <2>3 DEF PutStep
    <2> QED
      BY <2>2, <2>4 DEF Unladen
  <1>5. CASE Rejects(c)
    BY <1>5 DEF Rejects, Reliable
  <1>6. CASE Removes(c)
    <2>1. PICK ks, r : RemovedBy(c, ks, r)
      BY <1>6 DEF Removes
    <2>2. op' = [op EXCEPT ![c] = r] /\ op[c].pc \in {"purge", "remove"}
          /\ r.evicted = op[c].evicted
      BY <1>6, <2>1 DEF Removes, RemovedBy
    <2>3. CASE r.pc = op[c].pc /\ r.todo = op[c].todo /\ r.out = op[c].out
      BY <2>2, <2>3 DEF Unladen
    <2>4. CASE r.pc = "idle"
      BY <2>2, <2>4 DEF Unladen
    <2> QED
      BY <2>1, <2>3, <2>4 DEF RemovedBy, RemovalGoesOn
  <1>7. CASE Drops(c)
    BY <1>7 DEF Drops, Reliable
  <1> QED
    BY <1>2, <1>3, <1>4, <1>5, <1>6, <1>7 DEF Moves

\* What a put displaces is on its way down, in the report, or reported.
LEMMA SettledCarries ==
    ASSUME NEW x, NEW r, Settled(x, r), x.pc = "write", NEW k, Carries(x, k)
    PROVE  Carries(r, k) \/ k \in Reported(r)
  <1>1. CASE x.todo # <<>> /\ r = x
    BY <1>1
  <1>2. PICK e \in ToSet(x.todo) \cup ToSet(x.out) \cup x.evicted : e[1] = k
    BY DEF Carries
  <1>3. x.todo = <<>> => e \in ToSet(x.out) \cup x.evicted
    BY <1>2 DEF ToSet
  <1>4. CASE /\ x.todo = <<>> /\ r.pc = x.pc /\ r.todo = x.out /\ r.evicted = x.evicted
    BY <1>2, <1>3, <1>4 DEF Carries
  <1>5. CASE /\ x.todo = <<>> /\ r.evicted = x.evicted \cup ToSet(x.out) /\ WriteGoesOn(x, r)
    <2>1. e \in r.evicted
      BY <1>3, <1>5
    <2>2. CASE r.pc # "idle"
      BY <1>2, <2>1, <2>2 DEF Carries
    <2>3. CASE r.pc = "idle" /\ r.outcome = "ok"
      BY <1>2, <2>1, <2>3 DEF Reported
    <2> QED
      BY <1>5, <2>2, <2>3 DEF WriteGoesOn
  <1> QED
    BY <1>1, <1>4, <1>5 DEF Settled

\* What a tier held or is given it holds, or hands on.
LEMMA AcceptedCarries ==
    ASSUME Base, NEW c \in Clients, op[c].pc = "write",
           NEW s, NEW x, NEW r, AcceptedBy(c, s, x, r), NEW k \in Keys,
           \/ k = op[c].todo[1][1]
           \/ Carries(op[c], k)
           \/ HeldIn(store, k)
    PROVE  Carries(r, k) \/ k \in Reported(r) \/ HeldIn(store', k)
  <1>1. PICK o, i, e, full : o = op[c] /\ i = o.at /\ e = o.todo[1] /\ full = FullTier(o)
    OBVIOUS
  <1>2. /\ config \in Configs /\ i \in Tiers /\ i \in Writable
        /\ e[1] \in Keys /\ e[2] \in Values /\ store[i] \in Contents /\ full \in Contents
        /\ store \in [Tiers -> Contents] /\ None \notin Values /\ Writable \in SUBSET Tiers
    BY <1>1, EntryFacts, Types, RouterAssumption, ConfigFacts DEF Base
  <1>3. /\ Advanced(o, Displaced(s, full), x) /\ Settled(x, r)
        /\ s \in Victims(i, full)
        /\ store' = [store EXCEPT ![i] = Without(full, ToSet(s))]
    BY <1>1 DEF AcceptedBy
  <1>4. ToSet(Displaced(s, full)) = {<<j, full[j]>> : j \in ToSet(s)}
    BY <1>2, <1>3, VictimsFacts
  <1>5. /\ x.pc = "write" /\ x.evicted = o.evicted /\ ToSet(o.todo) = {e} \cup ToSet(x.todo)
        /\ ToSet(x.out) = ToSet(o.out) \cup ToSet(Displaced(s, full))
    BY <1>1, <1>3 DEF Advanced
  <1>6. full[k] = IF k = e[1] THEN e[2] ELSE store[i][k]
    BY <1>1, <1>2 DEF FullTier, Contents
  <1>7. ASSUME full[k] # None PROVE Carries(x, k) \/ HeldIn(store', k)
    <2>1. CASE k \in ToSet(s)
      <3>1. PICK d : d = <<k, full[k]>>
        OBVIOUS
      <3>2. d \in ToSet(x.out) /\ d[1] = k
        BY <1>4, <1>5, <2>1, <3>1
      <3> QED
        BY <1>5, <3>2 DEF Carries
    <2>2. CASE k \notin ToSet(s)
      <3>1. store'[i] = Without(full, ToSet(s))
        BY <1>2, <1>3
      <3>2. store'[i][k] # None
        BY <1>7, <2>2, <3>1 DEF Without
      <3> QED
        BY <1>2, <3>2 DEF HeldIn
    <2> QED
      BY <2>1, <2>2
  <1>8. Carries(x, k) \/ HeldIn(store', k)
    <2>1. CASE k = e[1]
      BY <1>2, <1>6, <1>7, <2>1
    <2>2. CASE Carries(o, k)
      <3>1. PICK d \in ToSet(o.todo) \cup ToSet(o.out) \cup o.evicted : d[1] = k
        BY <2>2 DEF Carries
      <3>2. d = e \/ d \in ToSet(x.todo) \cup ToSet(x.out) \cup x.evicted
        BY <1>5, <3>1
      <3>3. d = e => k = e[1]
        BY <3>1
      <3>4. d \in ToSet(x.todo) \cup ToSet(x.out) \cup x.evicted => Carries(x, k)
        BY <1>5, <3>1 DEF Carries
      <3> QED
        BY <2>1, <3>2, <3>3, <3>4
    <2>3. CASE HeldIn(store, k)
      <3>1. PICK j \in Writable : store[j][k] # None
        BY <2>3 DEF HeldIn
      <3>2. CASE j = i
        BY <1>2, <1>6, <1>7, <3>1, <3>2
      <3>3. CASE j # i
        <4>1. store'[j] = store[j]
          BY <1>2, <1>3, <3>3
        <4> QED
          BY <3>1, <4>1 DEF HeldIn
      <3> QED
        BY <3>2, <3>3
    <2> QED
      BY <1>1, <2>1, <2>2, <2>3
  <1> QED
    BY <1>3, <1>5, <1>8, SettledCarries

Loud ==
    Reliable =>
        /\ \A c \in Clients : Unladen(op[c])
        /\ \A k \in owed : HeldIn(store, k) \/ \E c \in Clients : Carries(op[c], k)

\* A key that is owed stays held or carried, unless it is deleted or reported.
LEMMA OwedStep ==
    ASSUME Base, Loud, Reliable, NEW c \in Clients, Moves(c), NEW k \in owed'
    PROVE  HeldIn(store', k) \/ \E d \in Clients : Carries(op'[d], k)
  <1>1. /\ config \in Configs /\ store \in [Tiers -> Contents] /\ owed \in SUBSET Keys
        /\ Sound(op[c]) /\ Unladen(op[c])
    BY Types DEF Base, Loud
  <1>2. ASSUME k \in owed, store' = store, op[c].pc \in {"idle", "probe"},
               NEW r, op' = [op EXCEPT ![c] = r]
        PROVE  HeldIn(store', k) \/ \E d \in Clients : Carries(op'[d], k)
    <2>1. CASE HeldIn(store, k)
      BY <1>2, <2>1
    <2>2. CASE \E d \in Clients : Carries(op[d], k)
      <3>1. PICK d \in Clients : Carries(op[d], k)
        BY <2>2
      <3>2. d # c
        BY <1>1, <1>2, <3>1, UnladenCarriesNothing
      <3>3. op'[d] = op[d]
        BY <1>2, <3>2, OneClient
      <3> QED
        BY <3>1, <3>3
    <2> QED
      BY <1>2, <2>1, <2>2 DEF Loud
  <1>3. CASE Calls(c)
    <2>1. PICK r : op' = [op EXCEPT ![c] = r] /\ Started(op[c], r)
      BY <1>3 DEF Calls
    <2> QED
      BY <1>2, <1>3, <2>1 DEF Calls, Started
  <1>4. CASE Probes(c)
    <2>1. PICK r : op' = [op EXCEPT ![c] = r] /\ ProbeStep(op[c], r)
      BY <1>4 DEF Probes
    <2> QED
      BY <1>2, <1>4, <2>1 DEF Probes, ProbeStep
  <1>5. CASE Accepts(c)
    <2>1. PICK s, x, r : AcceptedBy(c, s, x, r)
      BY <1>5 DEF Accepts
    <2>2. op[c].pc = "write"
      BY <1>1, <1>5 DEF Accepts, Unladen
    <2>3. PICK e : e = op[c].todo[1]
      OBVIOUS
    <2>4. /\ op' = [op EXCEPT ![c] = r] /\ k \notin Reported(r)
          /\ k \in owed \/ k = e[1]
      BY <2>1, <2>3 DEF AcceptedBy
    <2>5. e[1] \in Keys
      BY <2>2, <2>3, EntryFacts
    <2>6. k \in Keys
      BY <1>1, <2>4, <2>5
    <2>7. op'[c] = r /\ \A d \in Clients : d # c => op'[d] = op[d]
      <3>1. op' = [op EXCEPT ![c] = r]
        BY <2>4
      <3> QED
        BY <3>1, OneClient
    <2>8. CASE k = e[1] \/ Carries(op[c], k) \/ HeldIn(store, k)
      <3>1. Carries(r, k) \/ k \in Reported(r) \/ HeldIn(store', k)
        BY <2>1, <2>2, <2>3, <2>6, <2>8, AcceptedCarries
      <3> QED
        BY <2>4, <2>7, <3>1
    <2>9. CASE \E d \in Clients : d # c /\ Carries(op[d], k)
      BY <2>7, <2>9
    <2> QED
      BY <2>4, <2>8, <2>9 DEF Loud
  <1>6. CASE Rejects(c)
    BY <1>6 DEF Rejects, Reliable
  <1>7. CASE Removes(c)
    <2>1. PICK ks, r : RemovedBy(c, ks, r)
      BY <1>7 DEF Removes
    <2>2. PICK o : o = op[c]
      OBVIOUS
    <2>3. o.pc = "remove" /\ o \in Registers /\ o.tier \in Tiers
      <3>1. config.policy.write # "WriteAround"
        BY DEF Reliable, StorePolicy
      <3> QED
        BY <1>1, <1>7, <2>2, <3>1 DEF Removes, Sound, Removing, Registers
    <2>4. o.entries = <<>>
      BY <1>1, <2>2, <2>3 DEF Sound, Removing, Requested
    <2>5. ToSet(Targets(o)) = ToSet(o.keys)
      <3>1. ToSet(o.entries) = {}
        BY <2>4 DEF ToSet
      <3> QED
        BY <2>3, <3>1, TargetFacts
    <2>6. k \in owed /\ k \notin ks /\ k \in Keys
      BY <1>1, <2>1, <2>2, <2>3, <2>5 DEF RemovedBy, Forget
    <2>7. op' = [op EXCEPT ![c] = r] /\ store' = [store EXCEPT ![o.tier] = Without(@, ks)]
      BY <2>1, <2>2 DEF RemovedBy
    <2>8. CASE HeldIn(store, k)
      <3>1. PICK i \in Writable : store[i][k] # None
        BY <2>8 DEF HeldIn
      <3>2. i \in Tiers
        BY <1>1, ConfigFacts
      <3>3. store'[i][k] = store[i][k]
        BY <1>1, <2>3, <2>6, <2>7, <3>2 DEF Without
      <3> QED
        BY <3>1, <3>3 DEF HeldIn
    <2>9. CASE \E d \in Clients : Carries(op[d], k)
      <3>1. PICK d \in Clients : Carries(op[d], k)
        BY <2>9
      <3>2. d # c
        BY <1>1, <2>2, <2>3, <3>1, UnladenCarriesNothing
      <3>3. op'[d] = op[d]
        BY <2>7, <3>2, OneClient
      <3> QED
        BY <3>1, <3>3
    <2> QED
      BY <2>6, <2>8, <2>9 DEF Loud
  <1>8. CASE Drops(c)
    BY <1>8 DEF Drops, Reliable
  <1> QED
    BY <1>3, <1>4, <1>5, <1>6, <1>7, <1>8 DEF Moves

LEMMA NextLoud ==
    ASSUME Base, Loud, [Next]_vars
    PROVE  Loud'
  <1>1. CASE Next
    <2>1. PICK c \in config.callers : c \in Clients /\ Moves(c)
      BY <1>1, StepCases
    <2>2. config' = config
      BY <2>1, OriginsUntouched
    <2>3. Reliable' = Reliable /\ Writable' = Writable
      BY <2>2, Rigid DEF Reliable
    <2> SUFFICES ASSUME Reliable
                 PROVE  /\ \A d \in Clients : Unladen(op[d])'
                        /\ \A k \in owed' :
                              HeldIn(store, k)' \/ \E d \in Clients : Carries(op[d], k)'
      BY <2>3 DEF Loud
    <2>4. PICK r : op' = [op EXCEPT ![c] = r] /\ Unladen(r)
      BY <2>1, UnladenStep DEF Loud
    <2>5. op'[c] = r /\ \A d \in Clients : d # c => op'[d] = op[d]
      BY <2>1, <2>4, OneClient
    <2>6. \A d \in Clients : Unladen(op'[d])
      BY <2>4, <2>5 DEF Loud
    <2>7. \A k \in owed' : HeldIn(store', k) \/ \E d \in Clients : Carries(op'[d], k)
      BY <2>1, OwedStep
    <2> QED
      BY <2>3, <2>6, <2>7 DEF Unladen, HeldIn, Carries
  <1>2. CASE UNCHANGED vars
    BY <1>2 DEF vars, Loud, Reliable, Fallible, Writable, Unladen, HeldIn, Carries
  <1> QED
    BY <1>1, <1>2

(***************************************************************************)
(* Under the store's policy nothing is lost silently while tiers do not    *)
(* fail and callers do not give up: for any number of callers, tiers and   *)
(* batches a key that was accepted is in a writable tier, on its way down, *)
(* or reported to a caller, until it is deleted (LossIsLoud, of            *)
(* Router::put_many and demote).  With failing tiers it is false: the run  *)
(* router_silent_abort.                                                    *)
(***************************************************************************)
THEOREM NothingIsLostSilently == Spec => [](Fallible = {} => LossIsLoud)
  <1>1. Init => Loud
    <2> SUFFICES ASSUME Init PROVE Loud
      OBVIOUS
    <2>1. config \in Configs /\ op = [c \in Clients |-> NoOperation] /\ owed = {}
      BY DEF Init
    <2>2. NoOperation.pc = "idle"
      BY <2>1, NoOperationSound
    <2>3. Unladen(NoOperation)
      BY <2>2 DEF Unladen
    <2> QED
      BY <2>1, <2>3 DEF Loud
  <1>2. Base /\ Loud /\ [Next]_vars => Loud'
    BY NextLoud
  <1>3. Loud => (Fallible = {} => LossIsLoud)
    BY DEF Loud, Reliable, LossIsLoud, HeldIn, Carries, InFlight
  <1> QED
    BY <1>1, <1>2, <1>3, BaseHolds, PTL DEF Spec

-----------------------------------------------------------------------------
(* Inclusion                                                               *)

\* The stacks that Inclusive speaks of.
Undisturbed == config.policy = StorePolicy /\ Fallible = {} /\ Unbounded

\* A key of a writable tier is in every writable tier below it.
Nested(st) ==
    \A i \in Writable, j \in Writable, k \in Keys : i < j /\ st[i][k] # None => st[j][k] # None

\* A put has filled the tiers below the one it is at, and that one as far as
\* it has come; a delete has emptied the tiers above.
InOrder(st, o) ==
    /\ o.pc # "promote"
    /\ o.pc = "write" =>
          /\ o.out = <<>> /\ o.at = o.tier /\ ToSet(o.todo) \subseteq ToSet(o.entries)
          /\ \A e \in ToSet(o.entries) :
                /\ \A j \in Writable : j > o.tier => st[j][e[1]] # None
                /\ e \in ToSet(o.todo) \/ st[o.tier][e[1]] # None
    /\ o.pc = "remove" =>
          \A k \in ToSet(Targets(o)), j \in Writable : j < o.tier => st[j][k] = None

\* A tier that never overflows displaces nothing.
LEMMA NothingDisplaced ==
    ASSUME config \in Configs, Unbounded, NEW i \in Tiers, NEW k, NEW m \in Contents,
           NEW s \in Victims(i, m)
    PROVE  ToSet(s) = {} /\ Displaced(s, m) = <<>>
  <1>1. s \in Seq(Keys)
    BY VictimsFacts
  <1>2. PICK b : b = config.bound[i + 1]
    OBVIOUS
  <1>3. b \in ToSet(config.bound)
    <2>1. config.bound \in Seq(Nat) /\ Len(config.bound) = config.n /\ config.n \in Nat
      BY RouterAssumption DEF Config
    <2>2. i + 1 \in 1 .. config.n
      BY <2>1 DEF Tiers
    <2> QED
      BY <1>2, <2>1, <2>2, Elements
  <1>4. \A T : Without(m, T) \in Contents
    BY DEF Without, Contents
  <1>5. \A T : Fits(b, Without(m, T))
    BY <1>3, <1>4 DEF Unbounded
  <1>6. \A n \in 0 .. Len(s) - 1 : ~Fits(b, Without(m, ToSet(SubSeq(s, 1, n))))
    BY <1>2 DEF Victims
  <1>7. Len(s) \in Nat /\ ~(0 \in 0 .. Len(s) - 1)
    <2>1. ~(0 \in 0 .. Len(s) - 1)
      BY <1>5, <1>6, Zenon
    <2> QED
      BY <1>1, <2>1
  <1>8. Len(s) = 0
    BY <1>7
  <1>9. s = <<>>
    BY <1>1, <1>8
  <1> QED
    BY <1>8, <1>9 DEF ToSet, Displaced

\* The tier at which a put is, once it has one of the entries.
LEMMA FilledInOrder ==
    ASSUME NEW st, NEW t, NEW o, NEW i, i = o.tier, o.pc = "write",
           Nested(st), InOrder(st, o), NEW e \in ToSet(o.todo), e[1] \in Keys,
           t[i][e[1]] # None,
           \A k \in Keys : k # e[1] => t[i][k] = st[i][k],
           \A j \in Writable : j # i => t[j] = st[j],
           \A j \in Writable : j \in Nat, i \in Writable,
           \A d \in ToSet(o.entries) : d[1] \in Keys
    PROVE  /\ Nested(t)
           /\ \A d \in ToSet(o.entries), j \in Writable : j > i => t[j][d[1]] # None
           /\ \A d \in ToSet(o.entries) : d = e \/ d \notin ToSet(o.todo) => t[i][d[1]] # None
  <1>1. /\ ToSet(o.todo) \subseteq ToSet(o.entries)
        /\ \A d \in ToSet(o.entries), j \in Writable : j > i => st[j][d[1]] # None
        /\ \A d \in ToSet(o.entries) : d \in ToSet(o.todo) \/ st[i][d[1]] # None
    BY DEF InOrder
  <1>2. \A j \in Writable : j > i => j # i
    <2> SUFFICES ASSUME NEW j \in Writable, j > i, j = i PROVE FALSE
      OBVIOUS
    <2>1. i \in Nat /\ j \in Nat /\ j > i /\ j = i
      OBVIOUS
    <2> QED
      BY <2>1
  <1>3. \A d \in ToSet(o.entries), j \in Writable : j > i => t[j][d[1]] # None
    BY <1>1, <1>2
  <1>4. \A d \in ToSet(o.entries) : d = e \/ d \notin ToSet(o.todo) => t[i][d[1]] # None
    BY <1>1
  <1>5. Nested(t)
    <2> SUFFICES ASSUME NEW a \in Writable, NEW b \in Writable, NEW k \in Keys, a < b,
                        t[a][k] # None
                 PROVE  t[b][k] # None
      BY DEF Nested
    <2>1. a \in Nat /\ b \in Nat /\ a < b
      OBVIOUS
    <2>2. a # b /\ b > a
      BY <2>1
    <2>3. st[a][k] # None => st[b][k] # None
      BY DEF Nested
    <2>4. CASE a = i
      <3>1. t[b] = st[b] /\ b > i
        BY <2>2, <2>4
      <3>2. CASE k = e[1]
        BY <1>1, <3>1, <3>2
      <3>3. CASE k # e[1]
        <4>1. t[a][k] = st[a][k]
          BY <2>4, <3>3
        <4> QED
          BY <2>3, <3>1, <4>1
      <3> QED
        BY <3>2, <3>3
    <2>5. CASE a # i
      <3>1. st[b][k] # None
        BY <2>3, <2>5
      <3>2. CASE b = i
        <4>1. CASE k = e[1]
          BY <3>2, <4>1
        <4>2. CASE k # e[1]
          <5>1. t[b][k] = st[b][k]
            BY <3>2, <4>2
          <5> QED
            BY <3>1, <5>1
        <4> QED
          BY <4>1, <4>2
      <3>3. CASE b # i
        BY <3>1, <3>3
      <3> QED
        BY <3>2, <3>3
    <2> QED
      BY <2>4, <2>5
  <1> QED
    BY <1>3, <1>4, <1>5

LEMMA AcceptedInOrder ==
    ASSUME Base, Undisturbed, NEW c \in Clients, Accepts(c), Nested(store), InOrder(store, op[c])
    PROVE  \E r, st : /\ op' = [op EXCEPT ![c] = r] /\ st = store'
                      /\ Nested(st) /\ InOrder(st, r)
  <1>1. PICK s, x, r : AcceptedBy(c, s, x, r)
    BY DEF Accepts
  <1>2. PICK o, i, e, full, t : o = op[c] /\ i = o.at /\ e = o.todo[1] /\ full = FullTier(o) /\ t = store'
    OBVIOUS
  <1>3. o.pc = "write" /\ i = o.tier /\ o.out = <<>> /\ ToSet(o.todo) \subseteq ToSet(o.entries)
    BY <1>2 DEF Accepts, InOrder
  <1>4. /\ config \in Configs /\ i \in Tiers /\ i \in Writable /\ e \in ToSet(o.todo)
        /\ e[1] \in Keys /\ e[2] \in Values /\ store[i] \in Contents /\ full \in Contents
        /\ store \in [Tiers -> Contents] /\ None \notin Values /\ Writable \in SUBSET Tiers
        /\ Tiers \in SUBSET Nat /\ Sound(o)
    BY <1>2, <1>3, EntryFacts, Types, RouterAssumption, ConfigFacts DEF Base
  <1>5. /\ Advanced(o, Displaced(s, full), x) /\ Settled(x, r)
        /\ s \in Victims(i, full) /\ op' = [op EXCEPT ![c] = r]
        /\ t = [store EXCEPT ![i] = Without(full, ToSet(s))]
    BY <1>1, <1>2 DEF AcceptedBy
  <1>6. ToSet(s) = {} /\ Displaced(s, full) = <<>>
    BY <1>4, <1>5, NothingDisplaced DEF Undisturbed
  <1>7. /\ x.pc = "write" /\ x.tier = o.tier /\ x.at = o.at /\ x.entries = o.entries
        /\ ToSet(o.todo) = {e} \cup ToSet(x.todo) /\ x.out = o.out \o Displaced(s, full)
    BY <1>2, <1>3, <1>5 DEF Advanced, Same
  <1>8. x.out = <<>>
    BY <1>3, <1>6, <1>7
  <1>9. \A k \in Keys : full[k] = IF k = e[1] THEN e[2] ELSE store[i][k]
    BY <1>2, <1>4 DEF FullTier, Contents
  <1>10. /\ \A k \in Keys : t[i][k] = IF k = e[1] THEN e[2] ELSE store[i][k]
         /\ \A j \in Writable : j # i => t[j] = store[j]
    BY <1>4, <1>5, <1>6, <1>9 DEF Without
  <1>11. \A d \in ToSet(o.entries) : d \in Entries /\ d[1] \in Keys
    <2>1. o.entries \in Seq(Entries)
      BY <1>4 DEF Sound, Registers
    <2>2. \A d \in ToSet(o.entries) : d \in Entries
      BY <2>1, Elements
    <2> QED
      BY <2>2 DEF Entries
  <1>12. /\ t[i][e[1]] # None /\ \A j \in Writable : j \in Nat
         /\ \A k \in Keys : k # e[1] => t[i][k] = store[i][k]
    BY <1>4, <1>10
  <1>13. /\ Nested(t)
         /\ \A d \in ToSet(o.entries), j \in Writable : j > i => t[j][d[1]] # None
         /\ \A d \in ToSet(o.entries) : d = e \/ d \notin ToSet(o.todo) => t[i][d[1]] # None
    <2>1. InOrder(store, o)
      BY <1>2
    <2> QED
      BY <1>3, <1>4, <1>10, <1>11, <1>12, <2>1, FilledInOrder
  <1>14. InOrder(t, r)
    <2>1. CASE x.todo # <<>> /\ r = x
      <3>1. ToSet(x.todo) \subseteq ToSet(o.entries)
        BY <1>3, <1>7
      <3>2. \A d \in ToSet(x.entries) :
                 /\ \A j \in Writable : j > x.tier => t[j][d[1]] # None
                 /\ d \in ToSet(x.todo) \/ t[x.tier][d[1]] # None
        BY <1>3, <1>7, <1>13
      <3> QED
        BY <1>2, <1>3, <1>7, <1>8, <2>1, <3>1, <3>2 DEF InOrder
    <2>2. CASE x.todo = <<>> /\ WriteGoesOn(x, r)
      <3>1. ToSet(x.todo) = {}
        BY <2>2 DEF ToSet
      <3>2. \A d \in ToSet(o.entries) : t[o.tier][d[1]] # None
        BY <1>3, <1>7, <1>13, <3>1
      <3>3. CASE r.pc = "idle"
        BY <3>3 DEF InOrder
      <3>4. CASE /\ Above(x.tier) # {} /\ r.pc = "write" /\ r.tier = Max(Above(x.tier))
                 /\ r.at = r.tier /\ r.todo = x.entries /\ r.out = <<>>
        <4>1. r.entries = o.entries
          BY <1>1, <1>7 DEF AcceptedBy, PutStep, Same
        <4>2. Above(x.tier) \in SUBSET Tiers /\ r.tier \in Above(x.tier)
              /\ \A j \in Above(x.tier) : r.tier >= j
          <5>1. Above(x.tier) \in SUBSET Tiers
            BY <1>4 DEF Above
          <5>2. PICK S : S = Above(x.tier)
            OBVIOUS
          <5>3. S \in SUBSET Tiers /\ S # {} /\ r.tier = Max(S)
            BY <3>4, <5>1, <5>2
          <5>4. r.tier \in S /\ \A j \in S : r.tier >= j
            BY <1>4, <5>3, TierSets
          <5> QED
            BY <5>1, <5>2, <5>4
        <4>3. ASSUME NEW j \in Writable, j > r.tier PROVE j = o.tier \/ j > o.tier
          <5>1. j \in Nat /\ r.tier \in Nat /\ o.tier \in Nat
            BY <1>3, <1>4, <1>12, <4>2
          <5>2. j < o.tier => j \in Above(x.tier)
            BY <1>7 DEF Above
          <5>3. ~(j < o.tier)
            BY <4>2, <4>3, <5>1, <5>2
          <5> QED
            BY <5>1, <5>3
        <4>4. \A d \in ToSet(r.entries) :
                 /\ \A j \in Writable : j > r.tier => t[j][d[1]] # None
                 /\ d \in ToSet(r.todo)
          BY <1>3, <1>7, <1>13, <3>2, <3>4, <4>1, <4>3
        <4>5. ToSet(r.todo) = ToSet(r.entries)
          BY <1>7, <3>4, <4>1
        <4> QED
          BY <3>4, <4>4, <4>5 DEF InOrder
      <3>5. config.policy.write # "WriteAround"
        BY DEF Undisturbed, StorePolicy
      <3> QED
        BY <2>2, <3>3, <3>4, <3>5 DEF WriteGoesOn
    <2> QED
      BY <1>5, <1>7, <1>8, <2>1, <2>2 DEF Settled
  <1> QED
    BY <1>2, <1>5, <1>13, <1>14

LEMMA RemovedInOrder ==
    ASSUME Base, Undisturbed, NEW c \in Clients, Removes(c), Nested(store), InOrder(store, op[c])
    PROVE  \E r, st : /\ op' = [op EXCEPT ![c] = r] /\ st = store'
                      /\ Nested(st) /\ InOrder(st, r)
  <1>1. PICK ks, r : RemovedBy(c, ks, r)
    BY DEF Removes
  <1>2. PICK o, i, t : o = op[c] /\ i = o.tier /\ t = store'
    OBVIOUS
  <1>3. /\ config \in Configs /\ store \in [Tiers -> Contents] /\ Writable \in SUBSET Tiers
        /\ Tiers \in SUBSET Nat /\ Sound(o)
    BY <1>2, Types, ConfigFacts DEF Base
  <1>4. o.pc = "remove" /\ i \in Writable /\ i \in Tiers
    <2>1. config.policy.write # "WriteAround"
      BY DEF Undisturbed, StorePolicy
    <2> QED
      BY <1>2, <1>3, <2>1 DEF Removes, Sound, Removing, Registers
  <1>5. /\ ks = ToSet(Targets(o)) /\ Same(o, r) /\ RemovalGoesOn(o, r)
        /\ op' = [op EXCEPT ![c] = r] /\ t = [store EXCEPT ![i] = Without(@, ks)]
    BY <1>1, <1>2 DEF RemovedBy, Undisturbed
  <1>6. /\ \A k \in Keys : t[i][k] = IF k \in ks THEN None ELSE store[i][k]
        /\ \A j \in Writable : j # i => t[j] = store[j]
    BY <1>3, <1>4, <1>5 DEF Without
  <1>7. ks \in SUBSET Keys
    BY <1>3, <1>5, TargetFacts DEF Sound
  <1>8. \A k \in ks, j \in Writable : j < i => store[j][k] = None
    BY <1>2, <1>4, <1>5 DEF InOrder
  <1>9. Nested(t)
    <2> SUFFICES ASSUME NEW a \in Writable, NEW b \in Writable, NEW k \in Keys, a < b,
                        t[a][k] # None
                 PROVE  t[b][k] # None
      BY DEF Nested
    <2>1. a \in Nat /\ b \in Nat /\ i \in Nat /\ a # b
      BY <1>3, <1>4
    <2>2. store[a][k] # None
      BY <1>6
    <2>3. store[b][k] # None
      BY <2>2 DEF Nested
    <2>4. b = i => k \notin ks
      BY <1>8, <2>2
    <2> QED
      BY <1>6, <2>3, <2>4
  <1>10. InOrder(t, r)
    <2>1. CASE r.pc = "idle"
      BY <2>1 DEF InOrder
    <2>2. CASE /\ r.pc = o.pc /\ r.tier \in Visited(o)
               /\ \A j \in Visited(o) : j < r.tier => j <= o.tier
      <3>1. Visited(o) = Writable
        BY <1>4 DEF Visited
      <3>2. ToSet(Targets(r)) = ks
        BY <1>5 DEF Same, Targets
      <3>3. ASSUME NEW k \in ks, NEW j \in Writable, j < r.tier PROVE t[j][k] = None
        <4>1. j <= i /\ j \in Nat /\ i \in Nat
          BY <1>2, <1>3, <1>4, <2>2, <3>1, <3>3
        <4>2. CASE j = i
          BY <1>6, <1>7, <4>2
        <4>3. CASE j < i
          BY <1>6, <1>8, <4>1, <4>3
        <4> QED
          BY <4>1, <4>2, <4>3
      <3> QED
        BY <1>4, <2>2, <3>2, <3>3 DEF InOrder
    <2> QED
      BY <1>5, <2>1, <2>2 DEF RemovalGoesOn
  <1> QED
    BY <1>2, <1>5, <1>9, <1>10

LEMMA InOrderStep ==
    ASSUME Base, Undisturbed, NEW c \in Clients, Moves(c), Nested(store), InOrder(store, op[c])
    PROVE  \E r, st : /\ op' = [op EXCEPT ![c] = r] /\ st = store'
                      /\ Nested(st) /\ InOrder(st, r)
  <1>1. config \in Configs /\ Tiers \in SUBSET Nat /\ Writable \in SUBSET Tiers
    BY Types, ConfigFacts DEF Base
  <1>2. CASE Calls(c)
    <2>1. PICK r : op' = [op EXCEPT ![c] = r] /\ Started(op[c], r)
      BY <1>2 DEF Calls
    <2>2. store' = store /\ Sound(r) /\ (r.pc # "idle" => r.todo = r.entries /\ r.out = <<>>)
      BY <1>2, <2>1 DEF Calls, Started
    <2>3. CASE r.pc \in {"idle", "probe"}
      <3>1. InOrder(store, r)
        BY <2>3 DEF InOrder
      <3> QED
        BY <2>1, <2>2, <3>1
    <2>4. CASE r.pc = "write" /\ r.tier = Bottom /\ r.at = Bottom
      <3>1. r.tier \in Writable
        BY <2>2, <2>4 DEF Sound, Putting
      <3>2. Writable # {}
        BY <3>1
      <3>3. \A j \in Writable : Bottom >= j
        BY <1>1, <3>2, TierSets DEF Bottom
      <3>4. ASSUME NEW j \in Writable PROVE ~(j > r.tier)
        <4>1. j \in Nat /\ r.tier \in Nat /\ r.tier >= j
          BY <1>1, <2>4, <3>1, <3>3
        <4> QED
          BY <4>1
      <3>5. InOrder(store, r)
        BY <2>2, <2>4, <3>4 DEF InOrder
      <3> QED
        BY <2>1, <2>2, <3>5
    <2>5. CASE r.pc = "remove" /\ Writable # {} /\ r.tier = Min(Writable)
      <3>1. Min(Writable) \in Writable /\ \A j \in Writable : Min(Writable) <= j
        BY <1>1, <2>5, TierSets
      <3>2. ASSUME NEW j \in Writable PROVE ~(j < r.tier)
        <4>1. j \in Nat /\ r.tier \in Nat /\ r.tier <= j
          BY <1>1, <2>5, <3>1
        <4> QED
          BY <4>1
      <3>3. InOrder(store, r)
        BY <2>5, <3>2 DEF InOrder
      <3> QED
        BY <2>1, <2>2, <3>3
    <2> QED
      BY <2>1, <2>3, <2>4, <2>5 DEF Started
  <1>3. CASE Probes(c)
    <2>1. PICK r : op' = [op EXCEPT ![c] = r] /\ ProbeStep(op[c], r)
      BY <1>3 DEF Probes
    <2>2. PromotionGoesOn(r, r) => r.pc = "idle"
      BY DEF Undisturbed, StorePolicy, PromotionGoesOn
    <2>3. r.pc \in {"idle", "probe"}
      BY <2>1, <2>2 DEF ProbeStep, ReadGoesOn
    <2>4. InOrder(store, r)
      BY <2>3 DEF InOrder
    <2> QED
      BY <1>3, <2>1, <2>4 DEF Probes
  <1>4. CASE Accepts(c)
    BY <1>4, AcceptedInOrder
  <1>5. CASE Rejects(c)
    BY <1>5 DEF Rejects, Undisturbed
  <1>6. CASE Removes(c)
    BY <1>6, RemovedInOrder
  <1>7. CASE Drops(c)
    <2>1. PICK r : op' = [op EXCEPT ![c] = r] /\ r.pc = "idle"
      BY <1>7 DEF Drops
    <2>2. InOrder(store, r)
      BY <2>1 DEF InOrder
    <2> QED
      BY <1>7, <2>1, <2>2 DEF Drops
  <1> QED
    BY <1>2, <1>3, <1>4, <1>5, <1>6, <1>7 DEF Moves

AllInOrder ==
    Alone /\ Undisturbed => Nested(store) /\ \A c \in Clients : InOrder(store, op[c])

LEMMA InOrderStays ==
    ASSUME NEW CONSTANT d, NEW CONSTANT r, NEW CONSTANT st, op'[d] = r, store' = st,
           config' = config, InOrder(st, r)
    PROVE  InOrder(store, op[d])'
  <1>1. Writable' = Writable
    BY Rigid
  <1> QED
    BY <1>1 DEF InOrder, Targets

LEMMA NextAllInOrder ==
    ASSUME Base, AllInOrder, [Next]_vars
    PROVE  AllInOrder'
  <1>1. ASSUME config' = config PROVE (Alone /\ Undisturbed)' = (Alone /\ Undisturbed)
    BY <1>1 DEF Alone, Undisturbed, Unbounded, Fallible
  <1>2. CASE Next
    <2>1. PICK c \in config.callers : c \in Clients /\ Moves(c)
      BY <1>2, StepCases
    <2>2. config' = config /\ config \in Configs /\ Writable' = Writable
      BY <2>1, OriginsUntouched, Types, Rigid DEF Base
    <2> SUFFICES ASSUME Alone, Undisturbed
                 PROVE  Nested(store)' /\ \A d \in Clients : InOrder(store, op[d])'
      BY <1>1, <2>2 DEF AllInOrder
    <2>3. Nested(store) /\ \A d \in Clients : InOrder(store, op[d])
      BY DEF AllInOrder
    <2>4. PICK r, st : op' = [op EXCEPT ![c] = r] /\ st = store' /\ Nested(st) /\ InOrder(st, r)
      BY <2>1, <2>3, InOrderStep
    <2>5. op'[c] = r /\ \A d \in Clients : d # c => op'[d] = op[d]
      BY <2>1, <2>4, OneClient
    <2>6. \A d \in Clients : \E y : y = op'[d] /\ InOrder(st, y)
      <3> SUFFICES ASSUME NEW d \in Clients
                   PROVE  \E y : y = op'[d] /\ InOrder(st, y)
        OBVIOUS
      <3>1. CASE d = c
        BY <2>4, <2>5, <3>1
      <3>2. CASE d # c
        <4>1. op'[d] = NoOperation /\ NoOperation.pc = "idle"
          BY <2>1, <2>2, <2>5, <3>2, AloneFacts, NoOperationSound
        <4>2. InOrder(st, NoOperation)
          BY <4>1 DEF InOrder
        <4> QED
          BY <4>1, <4>2
      <3> QED
        BY <3>1, <3>2
    <2>7. Nested(store)'
      BY <2>2, <2>4 DEF Nested
    <2> QED
      BY <2>2, <2>4, <2>6, <2>7, InOrderStays
  <1>3. CASE UNCHANGED vars
    <2>1. config' = config /\ store' = store /\ op' = op /\ Writable' = Writable
      BY <1>3, Rigid DEF vars
    <2> SUFFICES ASSUME Alone, Undisturbed
                 PROVE  Nested(store)' /\ \A d \in Clients : InOrder(store, op[d])'
      BY <1>1, <2>1 DEF AllInOrder
    <2>2. Nested(store)'
      BY <2>1 DEF AllInOrder, Nested
    <2>3. ASSUME NEW d \in Clients PROVE InOrder(store, op[d])'
      <3>1. PICK r, st : r = op[d] /\ st = store /\ InOrder(st, r)
        BY DEF AllInOrder
      <3> QED
        BY <2>1, <3>1, InOrderStays
    <2> QED
      BY <2>2, <2>3
  <1> QED
    BY <1>2, <1>3

(***************************************************************************)
(* Bottom-up writes and top-down deletes keep the stack inclusive, at      *)
(* every tier call and wherever the caller gives up: Inclusive, for any    *)
(* number of tiers and read-only tiers between them and for batches of any *)
(* length (Router::put_many, remove_many).                                 *)
(***************************************************************************)
THEOREM StaysInclusive == Spec => []Inclusive
  <1>1. Init => AllInOrder
    <2> SUFFICES ASSUME Init PROVE AllInOrder
      OBVIOUS
    <2>1. config \in Configs /\ op = [c \in Clients |-> NoOperation]
      BY DEF Init
    <2>2. NoOperation.pc = "idle"
      BY <2>1, NoOperationSound
    <2>3. \A c \in Clients : InOrder(store, op[c])
      <3>1. InOrder(store, NoOperation)
        BY <2>2 DEF InOrder
      <3> QED
        BY <2>1, <3>1
    <2>4. Nested(store)
      <3>1. Writable \in SUBSET Tiers
        BY <2>1, ConfigFacts
      <3>2. \A i \in Writable : store[i] = Empty
        BY <3>1 DEF Init
      <3> QED
        BY <3>2 DEF Nested, Empty
    <2> QED
      BY <2>3, <2>4 DEF AllInOrder
  <1>2. Base /\ AllInOrder /\ [Next]_vars => AllInOrder'
    BY NextAllInOrder
  <1>3. Base /\ AllInOrder => Inclusive
    <2> SUFFICES ASSUME Base, AllInOrder, Alone, Undisturbed,
                        NEW i \in Writable, NEW j \in Below(i)
                 PROVE  Present(store[i]) \subseteq Present(store[j])
      BY DEF Inclusive, Undisturbed
    <2>1. Nested(store) /\ Writable \in SUBSET Nat
      BY Types, ConfigFacts DEF Base, AllInOrder
    <2>2. j \in Writable /\ i < j
      BY <2>1 DEF Below
    <2> QED
      BY <2>1, <2>2 DEF Present, Nested
  <1> QED
    BY <1>1, <1>2, <1>3, BaseHolds, PTL DEF Spec

-----------------------------------------------------------------------------
(* Freshness                                                               *)

(***************************************************************************)
(* The routers in which no step leaves an old copy of a key under a new    *)
(* one.  A put_many of several keys may displace the old copy of a key     *)
(* that it has yet to write, and demote it over the new one below; a       *)
(* best-effort write goes on past a tier that keeps the old copy.  Either  *)
(* way the old copy is hidden only until the newer ones above it go.       *)
(***************************************************************************)
Cascading == config.policy.write = "WriteThrough" /\ config.policy.demote_displaced

Orderly ==
    /\ Cascading => config.batch <= 1
    /\ Fallible = {} \/ config.policy.write = "WriteAround"
       \/ config.policy.on_write_error = "FailFast"

Tidy == Alone /\ Writable = Tiers /\ Orderly

\* In the stack st every copy of a key that is not torn (tn) is the last one
\* written (lt).
CurrentIn(st, lt, tn) == \A k \in Keys \ tn, i \in Tiers : st[i][k] \in {None, lt[k]}

\* So are the hits of a read, and what is on its way between tiers.
HasCurrent(lt, tn, o) ==
    o.kind = "read" => \A k \in Keys \ tn : o.from[k] # NoTier => o.got[k] = lt[k]
CarriesCurrent(lt, tn, o) ==
    o.pc \in {"promote", "write"} =>
        \A e \in ToSet(o.todo) \cup ToSet(o.out) : e[1] \notin tn => e[2] = lt[e[1]]

\* Entries that agree with those of the request es on the keys they share.
Agree(q, es) == \A x \in ToSet(q), e \in ToSet(es) : x[1] = e[1] => x[2] = e[2]

\* A write has replaced the copies in the tiers it has done, and nothing older
\* than what it writes comes down from the tiers above.
Written(st, lt, e, o) ==
    \/ o.at = o.tier /\ e \in ToSet(o.todo)
    \/ st[o.tier][e[1]] \in {None, e[2]} /\ lt[e[1]] = e[2]
WritesOver(st, lt, tn, o) ==
    o.pc = "write" =>
        /\ Distinct(o.entries)
        /\ \A e \in ToSet(o.entries) :
              /\ e[1] \in tn /\ Written(st, lt, e, o)
              /\ \A j \in Tiers : j > o.tier => st[j][e[1]] \in {None, e[2]}
        /\ o.at = o.tier => \A e \in ToSet(o.todo) : e \in ToSet(o.entries)
        /\ o.at # o.tier => Cascading /\ o.at > o.tier /\ Agree(o.todo, o.entries)
        /\ Cascading => Agree(o.out, o.entries)

\* A removal: what it leaves over is the last written.
RemovesRest(st, lt, tn, o) ==
    /\ o.pc = "purge" => \A e \in ToSet(o.entries) :
          e[1] \in tn /\ lt[e[1]] = e[2] /\ st[Bottom][e[1]] \in {None, e[2]}
    /\ o.pc = "remove" => \A k \in ToSet(o.keys) : k \in tn /\ lt[k] = None

FreshOp(st, lt, tn, o) ==
    /\ HasCurrent(lt, tn, o) /\ CarriesCurrent(lt, tn, o)
    /\ WritesOver(st, lt, tn, o) /\ RemovesRest(st, lt, tn, o)

\* An operation that has returned, or reads, holds nothing but its hits.
LEMMA RestingFresh ==
    ASSUME NEW st, NEW lt, NEW tn, NEW r, r.pc \in {"idle", "probe"}, HasCurrent(lt, tn, r)
    PROVE  FreshOp(st, lt, tn, r)
  BY DEF FreshOp, CarriesCurrent, WritesOver, RemovesRest

\* Promotion carries hits.
LEMMA PromotedFresh ==
    ASSUME NEW st, NEW lt, NEW tn, NEW o, NEW r, Sound(r), Same(o, r), PromotionGoesOn(o, r),
           o.kind = "read", HasCurrent(lt, tn, o)
    PROVE  FreshOp(st, lt, tn, r) /\ Mended(r) = {}
  <1>1. HasCurrent(lt, tn, r) /\ r.kind = "read"
    BY DEF HasCurrent, Same
  <1>2. Mended(r) = {}
    BY <1>1 DEF Mended
  <1>3. CASE r.pc = "idle"
    BY <1>1, <1>2, <1>3, RestingFresh
  <1>4. CASE r.pc = "promote"
    <2>1. /\ r.out = <<>>
          /\ \A e \in ToSet(r.todo) : o.from[e[1]] # NoTier /\ e[2] = o.got[e[1]]
      BY <1>4 DEF PromotionGoesOn
    <2>2. ToSet(r.out) = {}
      BY <2>1 DEF ToSet
    <2>3. ASSUME NEW e \in ToSet(r.todo) PROVE e[1] \in Keys
      <3>1. e \in Entries
        BY Elements DEF Sound, Registers
      <3> QED
        BY <3>1 DEF Entries
    <2>4. CarriesCurrent(lt, tn, r)
      BY <1>1, <2>1, <2>2, <2>3 DEF CarriesCurrent, HasCurrent, Same
    <2> QED
      BY <1>1, <1>2, <1>4, <2>4 DEF FreshOp, WritesOver, RemovesRest
  <1> QED
    BY <1>3, <1>4 DEF PromotionGoesOn

\* The end of a tier's write.
LEMMA WrittenFresh ==
    ASSUME config \in Configs, Tidy, NEW st, NEW lt, NEW tn, NEW o, NEW r, Active(o), Sound(r),
           Same(o, r), o.pc = "write", o.todo = <<>>, WriteGoesOn(o, r),
           CurrentIn(st, lt, tn), FreshOp(st, lt, tn, o), NEW tm, tm = tn \ Mended(r)
    PROVE  CurrentIn(st, lt, tm) /\ FreshOp(st, lt, tm, r)
  <1>1. /\ r.kind = "put" /\ r.entries = o.entries /\ r.keys = o.keys /\ o.keys = <<>>
        /\ o.tier \in Tiers /\ o.tier \in Writable /\ Writable = Tiers /\ r \in Registers
    BY DEF Same, Active, Requested, Registers, Tidy, Sound
  <1>2. Tiers \in SUBSET Nat /\ o.tier \in Nat
    BY <1>1, ConfigFacts
  <1>3. ToSet(o.todo) = {}
    BY DEF ToSet
  <1>4. ASSUME NEW e \in ToSet(o.entries)
        PROVE  /\ e[1] \in tn /\ lt[e[1]] = e[2]
               /\ \A j \in Tiers : j >= o.tier => st[j][e[1]] \in {None, e[2]}
    <2>1. /\ e[1] \in tn /\ st[o.tier][e[1]] \in {None, e[2]} /\ lt[e[1]] = e[2]
          /\ \A j \in Tiers : j > o.tier => st[j][e[1]] \in {None, e[2]}
      BY <1>3 DEF FreshOp, WritesOver, Written
    <2>2. ASSUME NEW j \in Tiers, j >= o.tier PROVE j = o.tier \/ j > o.tier
      <3>1. j \in Nat /\ o.tier \in Nat
        BY <1>2
      <3> QED
        BY <2>2, <3>1
    <2> QED
      BY <2>1, <2>2
  <1>5. HasCurrent(lt, tm, r)
    BY <1>1 DEF HasCurrent
  <1>6. CASE Above(o.tier) = {} /\ r.pc = "idle" /\ r.outcome = "ok"
    <2>1. \A j \in Tiers : j >= o.tier
      <3> SUFFICES ASSUME NEW j \in Tiers, ~(j >= o.tier) PROVE FALSE
        OBVIOUS
      <3>1. j \in Nat /\ j < o.tier
        BY <1>2
      <3> QED
        BY <1>1, <1>6, <3>1 DEF Above
    <2>2. ToSet(Targets(r)) = {e[1] : e \in ToSet(o.entries)}
      <3>1. ToSet(Targets(r)) = ToSet(r.keys) \cup {e[1] : e \in ToSet(r.entries)}
        BY <1>1, TargetFacts
      <3>2. ToSet(r.keys) = {}
        BY <1>1 DEF ToSet
      <3> QED
        BY <1>1, <3>1, <3>2
    <2>3. tm = tn \ {e[1] : e \in ToSet(o.entries)}
      BY <1>1, <1>6, <2>2 DEF Mended
    <2>4. ASSUME NEW k \in Keys \ tm, NEW i \in Tiers PROVE st[i][k] \in {None, lt[k]}
      <3>1. CASE k \notin tn
        BY <3>1 DEF CurrentIn
      <3>2. CASE k \in tn
        <4>1. PICK e \in ToSet(o.entries) : k = e[1]
          BY <2>3, <2>4, <3>2
        <4> QED
          BY <1>4, <2>1, <4>1
      <3> QED
        BY <3>1, <3>2
    <2> QED
      BY <1>5, <1>6, <2>4, RestingFresh DEF CurrentIn
  <1>7. CASE r.pc # "idle"
    <2>1. tm = tn
      BY <1>7 DEF Mended
    <2>2. CASE /\ Above(o.tier) # {} /\ r.pc = "write" /\ r.tier = Max(Above(o.tier))
               /\ r.at = r.tier /\ r.todo = o.entries /\ r.out = <<>>
      <3>1. PICK S : S = Above(o.tier)
        OBVIOUS
      <3>2. S \in SUBSET Tiers /\ S # {}
        BY <1>1, <2>2, <3>1, AroundTier
      <3>3. r.tier \in S /\ \A j \in S : r.tier >= j
        BY <2>2, <3>1, <3>2, TierSets
      <3>4. ASSUME NEW j \in Tiers, j > r.tier PROVE j >= o.tier
        <4>1. j \in Nat /\ r.tier \in Nat
          BY <1>2, <3>2, <3>3
        <4>2. j \notin S
          BY <3>3, <3>4, <4>1
        <4> QED
          BY <1>1, <1>2, <3>1, <4>1, <4>2 DEF Above
      <3>5. ToSet(r.out) = {}
        BY <2>2 DEF ToSet
      <3>6. CarriesCurrent(lt, tm, r)
        BY <1>4, <2>1, <2>2, <3>5 DEF CarriesCurrent
      <3>7. Distinct(r.entries)
        BY <1>1 DEF FreshOp, WritesOver
      <3>8. \A e \in ToSet(r.entries) :
              /\ e[1] \in tm /\ Written(st, lt, e, r)
              /\ \A j \in Tiers : j > r.tier => st[j][e[1]] \in {None, e[2]}
        BY <1>1, <1>4, <2>1, <2>2, <3>4 DEF Written
      <3>9. WritesOver(st, lt, tm, r)
        BY <1>1, <2>2, <3>5, <3>7, <3>8 DEF WritesOver, Agree
      <3> QED
        BY <1>5, <2>1, <2>2, <3>6, <3>9 DEF FreshOp, RemovesRest
    <2>3. CASE r.pc = "purge" /\ o.tier = Bottom
      <3>1. RemovesRest(st, lt, tm, r)
        BY <1>1, <1>2, <1>4, <2>1, <2>3 DEF RemovesRest
      <3> QED
        BY <1>5, <2>1, <2>3, <3>1 DEF FreshOp, CarriesCurrent, WritesOver
    <2> QED
      BY <1>7, <2>2, <2>3 DEF WriteGoesOn
  <1> QED
    BY <1>6, <1>7 DEF WriteGoesOn

\* After an entry is put or rejected.
LEMMA SettledFresh ==
    ASSUME config \in Configs, Tidy, NEW st, NEW lt, NEW tn, NEW o, NEW r, Active(o), Sound(r),
           Same(o, r), Settled(o, r),
           CurrentIn(st, lt, tn), FreshOp(st, lt, tn, o), NEW tm, tm = tn \ Mended(r)
    PROVE  CurrentIn(st, lt, tm) /\ FreshOp(st, lt, tm, r)
  <1>1. CASE r = o
    <2>1. Mended(r) = {}
      BY <1>1 DEF Mended, Active
    <2> QED
      BY <1>1, <2>1
  <1>2. CASE /\ o.todo = <<>> /\ o.out # <<>>
             /\ config.policy.demote_displaced /\ Below(o.at) # {}
             /\ r.pc = o.pc /\ r.tier = o.tier /\ r.at = Min(Below(o.at))
             /\ r.todo = o.out /\ r.out = <<>>
    <2>1. Mended(r) = {} /\ tm = tn
      BY <1>2 DEF Mended, Active
    <2>2. ToSet(r.out) = {} /\ ToSet(o.todo) = {}
      BY <1>2 DEF ToSet
    <2>3. HasCurrent(lt, tm, r) /\ CarriesCurrent(lt, tm, r)
      BY <1>2, <2>1, <2>2 DEF FreshOp, HasCurrent, CarriesCurrent, Same
    <2>4. /\ o.at \in Tiers /\ o.tier \in Tiers /\ Tiers \in SUBSET Nat
          /\ Below(o.at) \in SUBSET Tiers /\ o.at \in Writable /\ o.at \in Nat /\ o.tier \in Nat
      <3>1. o.at \in Tiers /\ o.tier \in Tiers /\ o.at \in Writable
        BY DEF Active, Registers
      <3> QED
        BY <3>1, AroundTier, ConfigFacts
    <2>5. r.at \in Nat /\ r.at > o.at
      <3>1. PICK S : S = Below(o.at)
        OBVIOUS
      <3>2. Min(S) \in S
        BY <1>2, <2>4, <3>1, TierSets
      <3> QED
        BY <1>2, <2>4, <3>1, <3>2 DEF Below
    <2>6. ASSUME o.pc = "write" PROVE WritesOver(st, lt, tm, r)
      <3>1. o.at = o.tier \/ o.at > o.tier
        BY <2>6 DEF FreshOp, WritesOver
      <3>2. r.at > r.tier /\ r.at # r.tier
        BY <1>2, <2>4, <2>5, <3>1
      <3>3. Cascading
        <4>1. CASE o.at # o.tier
          BY <2>6, <4>1 DEF FreshOp, WritesOver
        <4>2. CASE o.at = o.tier /\ config.policy.write = "WriteAround"
          <5>1. o.at = Bottom /\ Writable \in SUBSET Tiers /\ Writable # {}
            BY <2>4, <2>6, <4>2, ConfigFacts DEF Active, Writing
          <5>2. \A j \in Writable : Bottom >= j
            BY <5>1, TierSets DEF Bottom
          <5>3. PICK j \in Writable : j > o.at
            BY <1>2 DEF Below
          <5>4. j \in Nat /\ o.at \in Nat /\ o.at >= j
            BY <2>4, <5>1, <5>2, <5>3
          <5> QED
            BY <5>3, <5>4
        <4>3. config.policy.write \in {"WriteThrough", "WriteAround"}
          BY ConfigFacts DEF Policy
        <4> QED
          BY <1>2, <4>1, <4>2, <4>3 DEF Cascading
      <3>4. Agree(r.todo, r.entries) /\ Agree(r.out, r.entries) /\ Distinct(r.entries)
        BY <1>2, <2>2, <2>6, <3>3 DEF FreshOp, WritesOver, Agree, Same
      <3>5. \A e \in ToSet(r.entries) :
              /\ e[1] \in tm /\ Written(st, lt, e, r)
              /\ \A j \in Tiers : j > r.tier => st[j][e[1]] \in {None, e[2]}
        BY <1>2, <2>1, <2>2, <2>6 DEF FreshOp, WritesOver, Written, Same
      <3> QED
        BY <3>2, <3>3, <3>4, <3>5 DEF WritesOver
    <2>7. r.pc \in {"promote", "write"} /\ (o.pc # "write" => WritesOver(st, lt, tm, r))
      BY <1>2 DEF WritesOver, Active
    <2>8. FreshOp(st, lt, tm, r)
      BY <2>3, <2>6, <2>7 DEF FreshOp, RemovesRest
    <2> QED
      BY <2>1, <2>8
  <1>3. CASE o.pc = "promote" /\ PromotionGoesOn(o, r)
    <2>1. o.kind = "read" /\ HasCurrent(lt, tn, o)
      BY <1>3 DEF Active, FreshOp
    <2>2. FreshOp(st, lt, tn, r) /\ Mended(r) = {}
      BY <1>3, <2>1, PromotedFresh
    <2> QED
      BY <2>2
  <1>4. CASE o.pc = "write" /\ o.todo = <<>> /\ WriteGoesOn(o, r)
    BY <1>4, WrittenFresh
  <1> QED
    BY <1>1, <1>2, <1>3, <1>4 DEF Settled

\* A put that a tier accepts.
LEMMA AcceptedFresh ==
    ASSUME Base, Tidy, NEW c \in Clients, op[c].pc \in {"promote", "write"},
           NEW s, NEW x, NEW r, AcceptedBy(c, s, x, r),
           CurrentIn(store, latest, torn), FreshOp(store, latest, torn, op[c]),
           NEW st, st = store', NEW lt, lt = latest'
    PROVE  CurrentIn(st, lt, torn) /\ FreshOp(st, lt, torn, x)
  <1>1. PICK o : o = op[c]
    OBVIOUS
  <1>2. PICK i, f, k, v, full : i = o.at /\ f = o.todo[1] /\ k = f[1] /\ v = f[2] /\ full = FullTier(o)
    OBVIOUS
  <1>3. /\ config \in Configs /\ Sound(o) /\ i \in Tiers /\ f \in ToSet(o.todo) /\ f \in Entries
        /\ k \in Keys /\ v \in Values /\ store[i] \in Contents /\ full \in Contents
        /\ store \in [Tiers -> Contents] /\ latest \in Contents
    BY <1>1, <1>2, EntryFacts, Types DEF Base
  <1>4. /\ s \in Victims(i, full) /\ Advanced(o, Displaced(s, full), x)
        /\ st = [store EXCEPT ![i] = Without(full, ToSet(s))]
        /\ lt = [latest EXCEPT ![k] = IF CallersWrite(o) /\ Alone THEN v ELSE @]
    BY <1>1, <1>2 DEF AcceptedBy
  <1>5. /\ ToSet(s) \in SUBSET Present(full)
        /\ ToSet(Displaced(s, full)) = {<<j, full[j]>> : j \in ToSet(s)}
    BY <1>3, <1>4, VictimsFacts
  <1>6. /\ Same(o, x) /\ x.pc = o.pc /\ x.tier = o.tier /\ x.at = i /\ o.at = i
        /\ ToSet(o.todo) = {f} \cup ToSet(x.todo)
        /\ ToSet(x.out) = ToSet(o.out) \cup ToSet(Displaced(s, full))
    BY <1>2, <1>4 DEF Advanced
  <1>7. /\ full[k] = v /\ \A j \in Keys : j # k => full[j] = store[i][j]
    <2>1. full = [store[i] EXCEPT ![k] = v]
      BY <1>2 DEF FullTier
    <2> QED
      BY <1>3, <2>1 DEF Contents
  <1>8. /\ \A j \in Keys : st[i][j] \in {None, full[j]}
        /\ \A h \in Tiers : h # i => st[h] = store[h]
    <2>1. st[i] = Without(full, ToSet(s))
      BY <1>3, <1>4
    <2> QED
      BY <1>3, <1>4, <2>1 DEF Without
  <1>9. o.pc = "write" /\ o.at = o.tier => f \in ToSet(o.entries) /\ k \in torn /\ lt[k] = v
    <2> SUFFICES ASSUME o.pc = "write", o.at = o.tier
                 PROVE  f \in ToSet(o.entries) /\ k \in torn /\ lt[k] = v
      OBVIOUS
    <2>1. f \in ToSet(o.entries) /\ k \in torn
      BY <1>1, <1>2, <1>3 DEF FreshOp, WritesOver
    <2>2. lt[k] = v
      BY <1>3, <1>4 DEF CallersWrite, Tidy, Contents
    <2> QED
      BY <2>1, <2>2
  <1>10. /\ \A j \in Keys : j # k => lt[j] = latest[j]
         /\ ~(o.pc = "write" /\ o.at = o.tier) => lt[k] = latest[k]
    BY <1>3, <1>4 DEF CallersWrite, Contents
  <1>11. \A j \in Keys : j \notin torn => lt[j] = latest[j]
    BY <1>9, <1>10
  <1>12. k \notin torn => v = latest[k]
    BY <1>1, <1>2, <1>3 DEF FreshOp, CarriesCurrent
  <1>13. \A j \in Keys : j \notin torn => full[j] \in {None, latest[j]}
    BY <1>3, <1>7, <1>12 DEF CurrentIn
  <1>14. CurrentIn(st, lt, torn)
    <2> SUFFICES ASSUME NEW j \in Keys \ torn, NEW h \in Tiers PROVE st[h][j] \in {None, lt[j]}
      BY DEF CurrentIn
    <2> QED
      BY <1>8, <1>11, <1>13 DEF CurrentIn
  <1>15. HasCurrent(lt, torn, x)
    BY <1>1, <1>6, <1>11 DEF FreshOp, HasCurrent, Same
  <1>16. CarriesCurrent(lt, torn, x)
    <2> SUFFICES ASSUME NEW e \in ToSet(x.todo) \cup ToSet(x.out), e[1] \notin torn
                 PROVE  e[2] = lt[e[1]]
      BY DEF CarriesCurrent
    <2>1. CASE e \in ToSet(o.todo) \cup ToSet(o.out)
      <3>1. e \in Entries
        BY <1>3, <2>1, Elements DEF Sound, Registers
      <3>2. e[1] \in Keys
        BY <3>1 DEF Entries
      <3>3. e[2] = latest[e[1]]
        BY <1>1, <2>1 DEF FreshOp, CarriesCurrent
      <3> QED
        BY <1>11, <3>2, <3>3
    <2>2. CASE e \in ToSet(Displaced(s, full))
      <3>1. PICK j \in ToSet(s) : e = <<j, full[j]>>
        BY <1>5, <2>2
      <3>2. j \in Keys /\ full[j] # None /\ e[1] = j /\ e[2] = full[j]
        BY <1>5, <3>1 DEF Present
      <3> QED
        BY <1>11, <1>13, <3>2
    <2> QED
      BY <1>6, <2>1, <2>2
  <1>17. ASSUME o.pc = "write" PROVE WritesOver(st, lt, torn, x)
    <2>1. /\ Distinct(o.entries)
          /\ \A e \in ToSet(o.entries) :
                /\ e[1] \in torn /\ Written(store, latest, e, o)
                /\ \A j \in Tiers : j > o.tier => store[j][e[1]] \in {None, e[2]}
          /\ o.at = o.tier => \A e \in ToSet(o.todo) : e \in ToSet(o.entries)
          /\ o.at # o.tier => Cascading /\ o.at > o.tier /\ Agree(o.todo, o.entries)
          /\ Cascading => Agree(o.out, o.entries)
      BY <1>1, <1>17 DEF FreshOp, WritesOver
    <2>2. \A e \in ToSet(o.entries) : e[1] \in Keys
      <3>1. \A e \in ToSet(o.entries) : e \in Entries
        BY <1>3, Elements DEF Sound, Registers
      <3> QED
        BY <3>1 DEF Entries
    <2>3. o.at = o.tier => \A e \in ToSet(o.entries) : e[1] = k => e = f
      BY <1>2, <1>9, <1>17, <2>1 DEF Distinct
    <2>4. ASSUME NEW e \in ToSet(o.entries), o.at # o.tier PROVE full[e[1]] \in {None, e[2]}
      <3>1. store[i][e[1]] \in {None, e[2]}
        BY <1>3, <1>6, <2>1, <2>4
      <3>2. e[1] = k => v = e[2]
        BY <1>2, <1>3, <2>1, <2>4 DEF Agree
      <3> QED
        BY <1>7, <2>2, <3>1, <3>2
    <2>5. ASSUME NEW e \in ToSet(o.entries) PROVE Written(st, lt, e, x)
      <3>1. Written(store, latest, e, o) /\ e[1] \in Keys
        BY <2>1, <2>2
      <3>2. CASE o.at = o.tier /\ e[1] = k
        <4>1. e = f /\ st[o.tier][k] \in {None, v} /\ lt[k] = v
          BY <1>3, <1>6, <1>7, <1>8, <1>9, <1>17, <2>3, <3>2
        <4> QED
          BY <1>2, <1>6, <4>1 DEF Written
      <3>3. CASE o.at = o.tier /\ e[1] # k
        <4>1. st[o.tier][e[1]] \in {None, store[i][e[1]]} /\ lt[e[1]] = latest[e[1]]
          BY <1>6, <1>7, <1>8, <1>10, <3>1, <3>3
        <4>2. e # f
          BY <1>2, <3>3
        <4> QED
          BY <1>6, <3>1, <3>3, <4>1, <4>2 DEF Written
      <3>4. CASE o.at # o.tier
        <4>1. o.tier \in Tiers
          BY <1>3 DEF Sound, Registers
        <4>2. st[o.tier] = store[o.tier] /\ lt[e[1]] = latest[e[1]]
          BY <1>6, <1>8, <1>10, <3>1, <3>4, <4>1
        <4> QED
          BY <1>6, <3>1, <3>4, <4>2 DEF Written
      <3> QED
        BY <3>2, <3>3, <3>4
    <2>6. ASSUME NEW e \in ToSet(o.entries), NEW j \in Tiers, j > o.tier
          PROVE  st[j][e[1]] \in {None, e[2]}
      <3>1. CASE j # i
        BY <1>8, <2>1, <2>6, <3>1
      <3>2. CASE j = i
        <4>1. o.at # o.tier
          <5>1. o.tier \in Tiers /\ Tiers \in SUBSET Nat
            BY <1>3, ConfigFacts DEF Sound, Registers
          <5>2. o.tier \in Nat
            BY <5>1
          <5> QED
            BY <1>6, <2>6, <3>2, <5>2
        <4> QED
          BY <1>8, <2>2, <2>4, <3>2, <4>1
      <3> QED
        BY <3>1, <3>2
    <2>7. Cascading => Agree(x.out, o.entries)
      <3> SUFFICES ASSUME Cascading, NEW d \in ToSet(x.out), NEW e \in ToSet(o.entries),
                          d[1] = e[1]
                   PROVE  d[2] = e[2]
        BY DEF Agree
      <3>1. CASE d \in ToSet(o.out)
        BY <2>1, <3>1 DEF Agree
      <3>2. CASE d \in ToSet(Displaced(s, full))
        <4>1. PICK j \in ToSet(s) : d = <<j, full[j]>>
          BY <1>5, <3>2
        <4>2. j \in Keys /\ full[j] # None /\ d[1] = j /\ d[2] = full[j] /\ j = e[1]
          BY <1>5, <4>1 DEF Present
        <4>3. CASE o.at = o.tier
          <5>1. e = f
            BY <1>9, <1>17, <2>1, <4>3 DEF Distinct, Tidy, Orderly
          <5> QED
            BY <1>2, <1>7, <4>2, <5>1
        <4>4. CASE o.at # o.tier
          BY <2>4, <4>2, <4>4
        <4> QED
          BY <4>3, <4>4
      <3> QED
        BY <1>6, <3>1, <3>2
    <2>8. o.at # o.tier => Agree(x.todo, o.entries)
      BY <1>6, <2>1 DEF Agree
    <2>9. x.entries = o.entries
      BY <1>6 DEF Same
    <2> QED
      BY <1>6, <2>1, <2>5, <2>6, <2>7, <2>8, <2>9 DEF WritesOver
  <1>18. x.pc \in {"promote", "write"} /\ (o.pc # "write" => WritesOver(st, lt, torn, x))
    BY <1>1, <1>6 DEF WritesOver
  <1> QED
    BY <1>14, <1>15, <1>16, <1>17, <1>18 DEF FreshOp, RemovesRest

\* A put that a tier rejects.
LEMMA RejectedFresh ==
    ASSUME Base, Tidy, NEW c \in Clients, Rejects(c), NEW w, NEW r, RejectedBy(c, w, r),
           CurrentIn(store, latest, torn), FreshOp(store, latest, torn, op[c]),
           NEW st, st = store', NEW tm, tm = torn'
    PROVE  CurrentIn(st, latest, tm) /\ FreshOp(st, latest, tm, r)
  <1>1. PICK o : o = op[c]
    OBVIOUS
  <1>2. PICK i, f, k, v : i = o.at /\ f = o.todo[1] /\ k = f[1] /\ v = f[2]
    OBVIOUS
  <1>3. /\ config \in Configs /\ Sound(o) /\ i \in Tiers /\ f \in ToSet(o.todo)
        /\ k \in Keys /\ v \in Values /\ store[i] \in Contents
        /\ store \in [Tiers -> Contents] /\ o.pc \in {"promote", "write"} /\ i \in Fallible
    BY <1>1, <1>2, EntryFacts, Types DEF Base, Rejects
  <1>4. /\ w \in {store[i][k], v, None} /\ PutStep(o, r) /\ PutFails(o, r)
        /\ st = [store EXCEPT ![i][k] = w] /\ tm = torn \ Mended(r)
    BY <1>1, <1>2 DEF RejectedBy
  <1>5. /\ \A j \in Keys : j # k => st[i][j] = store[i][j]
        /\ st[i][k] = w
        /\ \A h \in Tiers : h # i => st[h] = store[h]
    BY <1>3, <1>4 DEF Contents
  <1>6. k \notin torn => v = latest[k]
    BY <1>1, <1>2, <1>3 DEF FreshOp, CarriesCurrent
  <1>7. CurrentIn(st, latest, torn)
    <2> SUFFICES ASSUME NEW j \in Keys \ torn, NEW h \in Tiers PROVE st[h][j] \in {None, latest[j]}
      BY DEF CurrentIn
    <2>1. store[h][j] \in {None, latest[j]}
      BY DEF CurrentIn
    <2> QED
      BY <1>4, <1>5, <1>6, <2>1
  <1>8. HasCurrent(latest, torn, o) /\ Sound(r) /\ Same(o, r)
    BY <1>1, <1>4 DEF FreshOp, PutStep
  <1>9. CASE o.at # o.tier /\ \E x : Advanced(o, <<>>, x) /\ Settled(x, r)
    <2>1. PICK x : Advanced(o, <<>>, x) /\ Settled(x, r)
      BY <1>9
    <2>2. /\ Active(x) /\ Same(o, x) /\ x.pc = o.pc /\ x.tier = o.tier /\ x.at = i /\ o.at = i
          /\ ToSet(o.todo) = {f} \cup ToSet(x.todo) /\ ToSet(x.out) = ToSet(o.out)
      <3>1. ToSet(<<>>) = {}
        BY DEF ToSet
      <3> QED
        BY <1>2, <2>1, <3>1 DEF Advanced
    <2>3. HasCurrent(latest, torn, x) /\ CarriesCurrent(latest, torn, x)
      BY <1>1, <2>2 DEF FreshOp, HasCurrent, CarriesCurrent, Same
    <2>4. ASSUME o.pc = "write" PROVE WritesOver(st, latest, torn, x)
      <3>1. /\ Distinct(o.entries)
            /\ \A e \in ToSet(o.entries) :
                  /\ e[1] \in torn /\ Written(store, latest, e, o)
                  /\ \A j \in Tiers : j > o.tier => store[j][e[1]] \in {None, e[2]}
            /\ o.at # o.tier => Cascading /\ o.at > o.tier /\ Agree(o.todo, o.entries)
            /\ Cascading => Agree(o.out, o.entries)
        BY <1>1, <2>4 DEF FreshOp, WritesOver
      <3>2. \A e \in ToSet(o.entries) : e[1] \in Keys
        <4>1. \A e \in ToSet(o.entries) : e \in Entries
          BY <1>3, Elements DEF Sound, Registers
        <4> QED
          BY <4>1 DEF Entries
      <3>3. ASSUME NEW e \in ToSet(o.entries) PROVE Written(st, latest, e, x)
        <4>1. o.tier \in Tiers
          BY <1>3 DEF Sound, Registers
        <4>2. st[o.tier] = store[o.tier]
          BY <1>5, <1>9, <2>2, <4>1
        <4> QED
          BY <1>9, <2>2, <3>1, <4>2 DEF Written
      <3>4. ASSUME NEW e \in ToSet(o.entries), NEW j \in Tiers, j > o.tier
            PROVE  st[j][e[1]] \in {None, e[2]}
        <4>1. store[j][e[1]] \in {None, e[2]} /\ e[1] \in Keys
          BY <3>1, <3>2, <3>4
        <4>2. e[1] = k => v = e[2]
          BY <1>2, <1>3, <1>9, <3>1 DEF Agree
        <4> QED
          BY <1>4, <1>5, <4>1, <4>2
      <3>5. x.entries = o.entries /\ Agree(x.todo, o.entries) /\ Agree(x.out, o.entries)
        BY <1>9, <2>2, <3>1 DEF Same, Agree
      <3> QED
        BY <1>9, <2>2, <3>1, <3>3, <3>4, <3>5 DEF WritesOver
    <2>5. x.pc \in {"promote", "write"} /\ (o.pc # "write" => WritesOver(st, latest, torn, x))
      BY <1>3, <2>2 DEF WritesOver
    <2>6. FreshOp(st, latest, torn, x)
      BY <2>3, <2>4, <2>5 DEF FreshOp, RemovesRest
    <2>7. Same(x, r)
      BY <1>8, <2>2 DEF Same
    <2> QED
      BY <1>3, <1>4, <1>7, <1>8, <2>1, <2>2, <2>6, <2>7, SettledFresh
  <1>10. CASE o.pc = "promote" /\ PromotionGoesOn(o, r)
    <2>1. o.kind = "read"
      BY <1>3, <1>10 DEF Sound, Putting
    <2>2. FreshOp(st, latest, torn, r) /\ Mended(r) = {}
      BY <1>8, <1>10, <2>1, PromotedFresh
    <2> QED
      BY <1>4, <1>7, <2>2
  <1>11. CASE r.pc = "idle" /\ r.outcome = "tier"
    <2>1. Mended(r) = {} /\ HasCurrent(latest, torn, r)
      BY <1>8, <1>11 DEF Mended, HasCurrent, Same
    <2> QED
      BY <1>4, <1>7, <1>11, <2>1, RestingFresh
  <1>12. ~(config.policy.on_write_error # "FailFast" /\ config.policy.write # "WriteAround")
    BY <1>3 DEF Tidy, Orderly
  <1> QED
    BY <1>4, <1>9, <1>10, <1>11, <1>12 DEF PutFails

\* A removal, when the keys are gone from the tiers it has visited.
LEMMA RemovedFresh ==
    ASSUME Base, Tidy, NEW c \in Clients, op[c].pc \in {"purge", "remove"},
           NEW ks, NEW r, RemovedBy(c, ks, r),
           CurrentIn(store, latest, torn), FreshOp(store, latest, torn, op[c]),
           NEW st, st = store', GoneSoFar(st, r), NEW tm, tm = torn'
    PROVE  CurrentIn(st, latest, tm) /\ FreshOp(st, latest, tm, r)
  <1>1. PICK o : o = op[c]
    OBVIOUS
  <1>2. /\ config \in Configs /\ Sound(o) /\ o.tier \in Tiers /\ store \in [Tiers -> Contents]
        /\ o.pc \in {"purge", "remove"}
    BY <1>1, Types DEF Base, Sound, Registers
  <1>3. /\ Sound(r) /\ Same(o, r) /\ RemovalGoesOn(o, r)
        /\ st = [store EXCEPT ![o.tier] = Without(@, ks)] /\ tm = torn \ Mended(r)
    BY <1>1 DEF RemovedBy
  <1>4. \A j \in Keys, h \in Tiers : st[h][j] \in {None, store[h][j]}
    <2>1. st[o.tier] = Without(store[o.tier], ks) /\ \A h \in Tiers : h # o.tier => st[h] = store[h]
      BY <1>2, <1>3
    <2> QED
      BY <2>1 DEF Without
  <1>5. CurrentIn(st, latest, torn)
    BY <1>4 DEF CurrentIn
  <1>6. r.kind # "read" /\ (o.pc = "purge" <=> r.kind = "put") /\ (o.pc = "remove" <=> r.kind = "delete")
    BY <1>2, <1>3 DEF Same, Sound, Removing
  <1>7. Bottom \in Tiers /\ Writable = Tiers /\ Tiers \in SUBSET Nat
        /\ \A j \in Tiers : j \in Above(Bottom) \/ j = Bottom
    <2>1. Writable = Tiers /\ Tiers # {} /\ Tiers \in SUBSET Nat
      BY <1>2, ConfigFacts DEF Tidy
    <2>2. Bottom \in Tiers /\ \A j \in Tiers : Bottom >= j
      BY <1>2, <2>1, TierSets DEF Bottom
    <2>3. ASSUME NEW j \in Tiers PROVE j \in Above(Bottom) \/ j = Bottom
      <3>1. j \in Nat /\ Bottom \in Nat /\ Bottom >= j /\ j \in Writable
        BY <2>1, <2>2
      <3> QED
        BY <3>1 DEF Above
    <2> QED
      BY <2>1, <2>2, <2>3
  <1>8. /\ o.pc = "purge" => \A e \in ToSet(r.entries) :
              e[1] \in torn /\ latest[e[1]] = e[2] /\ st[Bottom][e[1]] \in {None, e[2]}
        /\ o.pc = "remove" => \A k \in ToSet(r.keys) : k \in torn /\ latest[k] = None
    <2>1. \A e \in ToSet(o.entries) : e[1] \in Keys
      <3>1. \A e \in ToSet(o.entries) : e \in Entries
        BY <1>2, Elements DEF Sound, Registers
      <3> QED
        BY <3>1 DEF Entries
    <2>2. /\ o.pc = "purge" => \A e \in ToSet(o.entries) :
               e[1] \in torn /\ latest[e[1]] = e[2] /\ store[Bottom][e[1]] \in {None, e[2]}
          /\ o.pc = "remove" => \A k \in ToSet(o.keys) : k \in torn /\ latest[k] = None
      BY <1>1 DEF FreshOp, RemovesRest
    <2> QED
      BY <1>3, <1>4, <1>7, <2>1, <2>2 DEF Same
  <1>9. HasCurrent(latest, tm, r)
    BY <1>6 DEF HasCurrent
  <1>10. CASE r.pc = o.pc
    <2>1. Mended(r) = {}
      BY <1>2, <1>10 DEF Mended
    <2>2. RemovesRest(st, latest, tm, r)
      BY <1>3, <1>8, <1>10, <2>1 DEF RemovesRest
    <2> QED
      BY <1>2, <1>3, <1>5, <1>9, <1>10, <2>1, <2>2 DEF FreshOp, CarriesCurrent, WritesOver
  <1>11. CASE r.pc = "idle" /\ r.outcome # "ok"
    <2>1. Mended(r) = {}
      BY <1>11 DEF Mended
    <2> QED
      BY <1>3, <1>5, <1>9, <1>11, <2>1, RestingFresh
  <1>12. CASE r.pc = "idle" /\ r.outcome = "ok"
    <2>1. FreshOp(st, latest, tm, r)
      BY <1>9, <1>12, RestingFresh
    <2>2. tm = torn \ ToSet(Targets(r)) /\ r \in Registers
      BY <1>2, <1>3, <1>6, <1>12 DEF Mended, Sound
    <2>3. /\ ToSet(Targets(r)) = ToSet(r.keys) \cup {e[1] : e \in ToSet(r.entries)}
          /\ r.kind = "put" => r.keys = <<>>
          /\ r.kind # "put" => r.entries = <<>>
      BY <1>3, <2>2, TargetFacts DEF Sound, Requested
    <2>4. ASSUME NEW k \in Keys \ tm, NEW h \in Tiers, k \in torn PROVE st[h][k] \in {None, latest[k]}
      <3>1. k \in ToSet(Targets(r))
        BY <2>2, <2>4
      <3>2. CASE r.kind = "delete"
        <4>1. ToSet(r.entries) = {}
          BY <2>3, <3>2 DEF ToSet
        <4>2. k \in ToSet(r.keys) /\ latest[k] = None
          BY <1>6, <1>8, <2>3, <3>1, <3>2, <4>1
        <4>3. Cleared(st, r, Writable) /\ r.failures = {}
          BY <1>12, <3>2 DEF GoneSoFar, Ended
        <4> QED
          BY <1>7, <3>1, <4>2, <4>3 DEF Cleared
      <3>3. CASE r.kind = "put"
        <4>1. ToSet(r.keys) = {}
          BY <2>3, <3>3 DEF ToSet
        <4>2. PICK e \in ToSet(r.entries) : k = e[1]
          BY <2>3, <3>1, <4>1
        <4>3. latest[k] = e[2] /\ st[Bottom][k] \in {None, e[2]}
          BY <1>6, <1>8, <3>3, <4>2
        <4>4. Cleared(st, r, Above(Bottom)) /\ r.failures = {}
          BY <1>1, <1>2, <1>6, <1>12, <3>3 DEF GoneSoFar, Ended, Sound, Removing
        <4>5. CASE h = Bottom
          BY <4>3, <4>5
        <4>6. CASE h \in Above(Bottom)
          BY <3>1, <4>4, <4>6 DEF Cleared
        <4> QED
          BY <1>7, <4>5, <4>6
      <3> QED
        BY <1>2, <1>6, <3>2, <3>3
    <2> QED
      BY <1>5, <2>1, <2>4 DEF CurrentIn
  <1> QED
    BY <1>3, <1>10, <1>11, <1>12 DEF RemovalGoesOn

\* A call.
LEMMA CalledFresh ==
    ASSUME Base, Tidy, NEW c \in Clients, NEW r, Started(op[c], r), Recorded(r),
           CurrentIn(store, latest, torn), NEW lt, lt = latest', NEW tm, tm = torn'
    PROVE  CurrentIn(store, lt, tm) /\ FreshOp(store, lt, tm, r)
  <1>1. config \in Configs /\ Sound(r) /\ r \in Registers /\ Writable = Tiers /\ Alone
        /\ latest \in Contents
    BY Types DEF Base, Started, Sound, Tidy
  <1>2. HasCurrent(lt, tm, r)
    BY DEF Started, HasCurrent
  <1>3. CASE r.kind \in {"read", "exists"}
    <2>1. lt = latest /\ tm = torn /\ r.pc = "probe"
      BY <1>3 DEF Recorded, Started
    <2> QED
      BY <1>2, <2>1, RestingFresh
  <1>4. CASE r.kind = "put"
    <2>1. lt = latest /\ Distinct(r.entries) /\ tm = torn \cup {e[1] : e \in ToSet(r.entries)}
      BY <1>1, <1>4 DEF Recorded, Followed
    <2>2. CurrentIn(store, lt, tm)
      BY <2>1 DEF CurrentIn
    <2>3. CASE r.pc = "idle"
      BY <1>2, <2>2, <2>3, RestingFresh
    <2>4. CASE r.pc = "write" /\ r.tier = Bottom /\ r.at = Bottom
      <3>1. r.todo = r.entries /\ r.out = <<>>
        BY <2>4 DEF Started
      <3>2. ToSet(r.out) = {}
        BY <3>1 DEF ToSet
      <3>3. CarriesCurrent(lt, tm, r)
        BY <2>1, <3>1, <3>2 DEF CarriesCurrent
      <3>4. ASSUME NEW j \in Tiers, j > r.tier PROVE FALSE
        <4>1. Tiers \in SUBSET Nat /\ Tiers # {}
          BY <1>1, ConfigFacts
        <4>2. Bottom \in Tiers /\ \A h \in Tiers : Bottom >= h
          BY <1>1, <4>1, TierSets DEF Bottom
        <4>3. j \in Nat /\ Bottom \in Nat /\ Bottom >= j
          BY <4>1, <4>2
        <4> QED
          BY <2>4, <3>4, <4>3
      <3>5. WritesOver(store, lt, tm, r)
        BY <2>1, <2>4, <3>1, <3>2, <3>4 DEF WritesOver, Written, Agree
      <3> QED
        BY <1>2, <2>2, <2>4, <3>3, <3>5 DEF FreshOp, RemovesRest
    <2> QED
      BY <1>4, <2>3, <2>4 DEF Started
  <1>5. CASE r.kind = "delete"
    <2>1. lt = Without(latest, ToSet(r.keys)) /\ tm = torn \cup ToSet(r.keys)
      BY <1>1, <1>5 DEF Recorded, Followed
    <2>2. /\ \A k \in ToSet(r.keys) : k \in Keys /\ k \in tm /\ lt[k] = None
          /\ \A k \in Keys \ tm : lt[k] = latest[k] /\ k \notin torn
      <3>1. \A k \in ToSet(r.keys) : k \in Keys
        BY <1>1, Elements DEF Registers
      <3> QED
        BY <2>1, <3>1 DEF Without
    <2>3. CurrentIn(store, lt, tm)
      BY <2>2 DEF CurrentIn
    <2>4. r.pc \in {"idle", "remove"}
      BY <1>5 DEF Started
    <2>5. RemovesRest(store, lt, tm, r)
      BY <2>2, <2>4 DEF RemovesRest
    <2> QED
      BY <1>2, <2>3, <2>4, <2>5 DEF FreshOp, CarriesCurrent, WritesOver
  <1> QED
    BY <1>3, <1>4, <1>5 DEF Started

\* The answer of a tier is the last written.
LEMMA ProbedFresh ==
    ASSUME Base, Tidy, NEW c \in Clients, NEW r, ProbeStep(op[c], r),
           CurrentIn(store, latest, torn), FreshOp(store, latest, torn, op[c])
    PROVE  FreshOp(store, latest, torn, r)
  <1>1. PICK o : o = op[c]
    OBVIOUS
  <1>2. /\ config \in Configs /\ Sound(o) /\ Sound(r) /\ r.kind = o.kind /\ o.tier \in Tiers
        /\ o.pc = "probe" /\ Learned(o, r) /\ r.kind \in {"read", "exists"}
    BY <1>1, Types DEF Base, ProbeStep, Sound, Registers, Probing
  <1>3. HasCurrent(latest, torn, r)
    <2> SUFFICES ASSUME r.kind = "read", NEW k \in Keys \ torn, r.from[k] # NoTier
                 PROVE  r.got[k] = latest[k]
      BY DEF HasCurrent
    <2>1. CASE r.from[k] = o.from[k] /\ r.got[k] = o.got[k]
      BY <1>1, <1>2, <2>1 DEF FreshOp, HasCurrent
    <2>2. CASE store[o.tier][k] # None /\ r.got[k] = store[o.tier][k]
      BY <1>2, <2>2 DEF CurrentIn
    <2> QED
      BY <1>2, <2>1, <2>2 DEF Learned
  <1>4. CASE r.pc \in {"idle", "probe"}
    BY <1>3, <1>4, RestingFresh
  <1>5. CASE r.pc \notin {"idle", "probe"}
    <2>1. PromotionGoesOn(r, r) /\ r.pc = "promote"
      BY <1>1, <1>5 DEF ProbeStep, ReadGoesOn, PromotionGoesOn
    <2>2. r.kind = "read" /\ Same(r, r)
      BY <1>2, <2>1 DEF Sound, Putting, Same
    <2> QED
      BY <1>2, <1>3, <2>1, <2>2, PromotedFresh
  <1> QED
    BY <1>4, <1>5

FreshAfter(st, lt, tm, c) ==
    \E r : op' = [op EXCEPT ![c] = r] /\ CurrentIn(st, lt, tm) /\ FreshOp(st, lt, tm, r)

LEMMA FreshStep ==
    ASSUME Base, Tidy, NEW c \in Clients, Moves(c), GoneSoFar(store, op[c]),
           CurrentIn(store, latest, torn), FreshOp(store, latest, torn, op[c]),
           NEW st, st = store', NEW lt, lt = latest', NEW tm, tm = torn'
    PROVE  FreshAfter(st, lt, tm, c)
  <1>1. CASE Calls(c)
    <2>1. PICK r : op' = [op EXCEPT ![c] = r] /\ Started(op[c], r) /\ Recorded(r)
      BY <1>1 DEF Calls
    <2>2. CurrentIn(store, lt, tm) /\ FreshOp(store, lt, tm, r)
      BY <2>1, CalledFresh
    <2>3. st = store
      BY <1>1 DEF Calls
    <2> QED
      BY <2>1, <2>2, <2>3 DEF FreshAfter
  <1>2. CASE Probes(c)
    <2>1. PICK r : op' = [op EXCEPT ![c] = r] /\ ProbeStep(op[c], r)
      BY <1>2 DEF Probes
    <2>2. st = store /\ lt = latest /\ tm = torn
      BY <1>2 DEF Probes
    <2>3. FreshOp(store, latest, torn, r)
      BY <2>1, ProbedFresh
    <2> QED
      BY <2>1, <2>2, <2>3 DEF FreshAfter
  <1>3. CASE Accepts(c)
    <2>1. PICK s, x, r : AcceptedBy(c, s, x, r)
      BY <1>3 DEF Accepts
    <2>2. op[c].pc \in {"promote", "write"} /\ config \in Configs
      BY <1>3, Types DEF Accepts, Base
    <2>3. CurrentIn(st, lt, torn) /\ FreshOp(st, lt, torn, x)
      BY <2>1, <2>2, AcceptedFresh
    <2>4. /\ Active(x) /\ Sound(r) /\ Same(x, r) /\ Settled(x, r) /\ tm = torn \ Mended(r)
          /\ op' = [op EXCEPT ![c] = r]
      BY <2>1 DEF AcceptedBy, Advanced, PutStep
    <2>5. CurrentIn(st, lt, tm) /\ FreshOp(st, lt, tm, r)
      BY <2>2, <2>3, <2>4, SettledFresh
    <2> QED
      BY <2>4, <2>5 DEF FreshAfter
  <1>4. CASE Rejects(c)
    <2>1. PICK w, r : RejectedBy(c, w, r)
      BY <1>4 DEF Rejects
    <2>2. lt = latest /\ op' = [op EXCEPT ![c] = r]
      BY <1>4, <2>1 DEF Rejects, RejectedBy
    <2>3. CurrentIn(st, latest, tm) /\ FreshOp(st, latest, tm, r)
      BY <1>4, <2>1, RejectedFresh
    <2> QED
      BY <2>2, <2>3 DEF FreshAfter
  <1>5. CASE Removes(c)
    <2>1. PICK ks, r : RemovedBy(c, ks, r)
      BY <1>5 DEF Removes
    <2>2. lt = latest /\ op[c].pc \in {"purge", "remove"} /\ op' = [op EXCEPT ![c] = r]
      BY <1>5, <2>1 DEF Removes, RemovedBy
    <2>3. GoneSoFar(st, r)
      BY <2>1, <2>2, RemovedGone
    <2>4. CurrentIn(st, latest, tm) /\ FreshOp(st, latest, tm, r)
      BY <2>1, <2>2, <2>3, RemovedFresh
    <2> QED
      BY <2>2, <2>4 DEF FreshAfter
  <1>6. CASE Drops(c)
    <2>1. PICK r : op' = [op EXCEPT ![c] = r] /\ Same(op[c], r) /\ r.pc = "idle"
      BY <1>6 DEF Drops
    <2>2. st = store /\ lt = latest /\ tm = torn
      BY <1>6 DEF Drops
    <2>3. HasCurrent(latest, torn, r)
      BY <2>1 DEF FreshOp, HasCurrent, Same
    <2>4. FreshOp(store, latest, torn, r)
      BY <2>1, <2>3, RestingFresh
    <2> QED
      BY <2>1, <2>2, <2>4 DEF FreshAfter
  <1> QED
    BY <1>1, <1>2, <1>3, <1>4, <1>5, <1>6 DEF Moves

AllFresh ==
    Tidy => /\ CurrentIn(store, latest, torn)
            /\ \A c \in Clients : FreshOp(store, latest, torn, op[c])

LEMMA IdleFresh ==
    ASSUME config \in Configs, NEW st, NEW lt, NEW tn
    PROVE  FreshOp(st, lt, tn, NoOperation)
  BY NoOperationSound, RestingFresh DEF HasCurrent

LEMMA FreshStays ==
    ASSUME NEW CONSTANT d, NEW CONSTANT r, NEW CONSTANT st, NEW CONSTANT lt, NEW CONSTANT tn,
           op'[d] = r, store' = st, latest' = lt, torn' = tn, config' = config,
           FreshOp(st, lt, tn, r)
    PROVE  FreshOp(store, latest, torn, op[d])'
  <1>1. Tiers' = Tiers /\ NoTier' = NoTier /\ Bottom' = Bottom
    BY Rigid
  <1>2. Cascading' <=> Cascading
    BY DEF Cascading
  <1>3. HasCurrent(latest, torn, op[d])' /\ CarriesCurrent(latest, torn, op[d])'
    BY <1>1 DEF FreshOp, HasCurrent, CarriesCurrent
  <1>4. WritesOver(store, latest, torn, op[d])'
    BY <1>1, <1>2 DEF FreshOp, WritesOver, Written, Agree, Distinct
  <1>5. RemovesRest(store, latest, torn, op[d])'
    BY <1>1 DEF FreshOp, RemovesRest
  <1> QED
    BY <1>3, <1>4, <1>5 DEF FreshOp

LEMMA NextAllFresh ==
    ASSUME Base, AllGone, AllFresh, [Next]_vars
    PROVE  AllFresh'
  <1>1. config' = config
    <2>1. CASE Next
      <3>1. PICK c \in config.callers : c \in Clients /\ Moves(c)
        BY <2>1, StepCases
      <3> QED
        BY <3>1, OriginsUntouched
    <2> QED
      BY <2>1 DEF vars
  <1>2. (Tidy' <=> Tidy) /\ Tiers' = Tiers
    BY <1>1, Rigid DEF Tidy, Alone, Orderly, Cascading
  <1> SUFFICES ASSUME Tidy
               PROVE  /\ CurrentIn(store, latest, torn)'
                      /\ \A d \in Clients : FreshOp(store, latest, torn, op[d])'
    BY <1>2 DEF AllFresh
  <1>3. Alone /\ config \in Configs /\ CurrentIn(store, latest, torn)
        /\ \A d \in Clients : FreshOp(store, latest, torn, op[d]) /\ GoneSoFar(store, op[d])
    BY Types DEF Tidy, Base, AllFresh, AllGone
  <1>4. PICK st, lt, tm : st = store' /\ lt = latest' /\ tm = torn'
    OBVIOUS
  <1>5. CASE Next
    <2>1. PICK c \in config.callers : c \in Clients /\ Moves(c)
      BY <1>5, StepCases
    <2>2. FreshAfter(st, lt, tm, c)
      BY <1>3, <1>4, <2>1, FreshStep
    <2>3. PICK r : op' = [op EXCEPT ![c] = r] /\ CurrentIn(st, lt, tm) /\ FreshOp(st, lt, tm, r)
      BY <2>2 DEF FreshAfter
    <2>4. op'[c] = r /\ \A d \in Clients : d # c => op'[d] = op[d]
      BY <2>1, <2>3, OneClient
    <2>5. ASSUME NEW d \in Clients PROVE \E y : y = op'[d] /\ FreshOp(st, lt, tm, y)
      <3>1. CASE d = c
        BY <2>3, <2>4, <3>1
      <3>2. CASE d # c
        <4>1. op'[d] = NoOperation
          BY <1>3, <2>1, <2>4, <3>2, AloneFacts
        <4> QED
          BY <1>3, <4>1, IdleFresh
      <3> QED
        BY <3>1, <3>2
    <2>6. \A d \in Clients : FreshOp(store, latest, torn, op[d])'
      BY <1>1, <1>4, <2>5, FreshStays
    <2>7. CurrentIn(store, latest, torn)'
      BY <1>2, <1>4, <2>3 DEF CurrentIn
    <2> QED
      BY <2>6, <2>7
  <1>6. CASE UNCHANGED vars
    <2>1. op' = op /\ store' = store /\ latest' = latest /\ torn' = torn
      BY <1>6 DEF vars
    <2>2. ASSUME NEW d \in Clients PROVE FreshOp(store, latest, torn, op[d])'
      <3>1. PICK y : y = op[d] /\ FreshOp(st, lt, tm, y)
        BY <1>3, <1>4, <2>1
      <3> QED
        BY <1>1, <1>4, <2>1, <3>1, FreshStays
    <2>3. CurrentIn(store, latest, torn)'
      BY <1>2, <1>3, <2>1 DEF CurrentIn
    <2> QED
      BY <2>2, <2>3
  <1> QED
    BY <1>5, <1>6

(***************************************************************************)
(* In an orderly router stale values neither lie on top nor are returned   *)
(* to a single caller: Fresh, for any stack of writable tiers, bounds,     *)
(* promotion and history, whatever tier calls fail and whatever futures    *)
(* are dropped (Router::read_many, put_many, demote, remove_many).  The    *)
(* invariant says more than Fresh: no tier, not only the topmost one with  *)
(* a copy, holds an older copy of a key that is not torn.                  *)
(***************************************************************************)
THEOREM OrderlyStaysFresh == Spec => [](Orderly => Fresh)
  <1>1. Init => AllFresh
    <2> SUFFICES ASSUME Init, Tidy
                 PROVE  /\ CurrentIn(store, latest, torn)
                        /\ \A c \in Clients : FreshOp(store, latest, torn, op[c])
      BY DEF AllFresh
    <2>1. config \in Configs /\ \A c \in Clients : op[c] = NoOperation
      BY DEF Init
    <2>2. \A i \in Tiers : store[i] = Empty
      BY DEF Init, Tidy
    <2>3. CurrentIn(store, latest, torn)
      BY <2>2 DEF CurrentIn, Empty
    <2> QED
      BY <2>1, <2>3, IdleFresh
  <1>2. Init => AllGone
    <2> SUFFICES ASSUME Init, NEW c \in Clients PROVE GoneSoFar(store, op[c])
      BY DEF AllGone
    <2>1. config \in Configs /\ op[c] = NoOperation
      BY DEF Init
    <2> QED
      BY <2>1, IdleGone
  <1>3. Base /\ AllGone /\ [Next]_vars => AllGone'
    BY NextAllGone
  <1>4. Base /\ AllGone /\ AllFresh /\ [Next]_vars => AllFresh'
    BY NextAllFresh
  <1>5. Base /\ AllFresh => (Orderly => Fresh)
    <2> SUFFICES ASSUME Base, AllFresh, Orderly, Alone, Writable = Tiers
                 PROVE  /\ \A k \in Keys \ torn : TopCopy(k) \in {None, latest[k]}
                        /\ \A c \in Clients : op[c].kind = "read" =>
                              \A k \in ToSet(op[c].keys) \ torn :
                                 op[c].from[k] # NoTier => op[c].got[k] = latest[k]
      BY DEF Fresh, FreshTop, FreshRead, Returned
    <2>1. config \in Configs /\ op \in [Clients -> Registers]
      BY Types DEF Base
    <2>2. CurrentIn(store, latest, torn) /\ \A c \in Clients : FreshOp(store, latest, torn, op[c])
      BY DEF AllFresh, Tidy
    <2>3. ASSUME NEW k \in Keys \ torn PROVE TopCopy(k) \in {None, latest[k]}
      <3>1. PICK S : S = {i \in Tiers : store[i][k] # None}
        OBVIOUS
      <3>2. TopCopy(k) = IF S = {} THEN None ELSE store[Min(S)][k]
        BY <3>1 DEF TopCopy
      <3>3. S \in SUBSET Tiers
        BY <3>1
      <3>4. S # {} => Min(S) \in S
        BY <2>1, <3>3, TierSets
      <3> QED
        BY <2>2, <3>2, <3>3, <3>4 DEF CurrentIn
    <2>4. ASSUME NEW c \in Clients, op[c].kind = "read", NEW k \in ToSet(op[c].keys) \ torn,
                 op[c].from[k] # NoTier
          PROVE  op[c].got[k] = latest[k]
      <3>1. op[c].keys \in Seq(Keys)
        BY <2>1 DEF Registers
      <3>2. k \in Keys
        BY <3>1, Elements
      <3> QED
        BY <2>2, <2>4, <3>2 DEF FreshOp, HasCurrent
    <2> QED
      BY <2>3, <2>4
  <1> QED
    BY <1>1, <1>2, <1>3, <1>4, <1>5, BaseHolds, PTL DEF Spec

-----------------------------------------------------------------------------
(* The cache: flows and gates                                              *)

\* The steps that a call takes under its key's gate.
Gated == {"read", "reprobe", "loading", "fill"}

Flow == [at : Steps, key : Keys \cup {None}]

OwnTypes ==
    /\ single_flight \in BOOLEAN
    /\ holders \in SUBSET (Clients \X Keys)
    /\ flow \in [Clients -> Flow]
    /\ loads \in [Keys -> 0 .. MaxCount] /\ cold \in [Keys -> 0 .. MaxCount]
    /\ spoiled \in SUBSET Keys

\* A call has a key of the cache, unless it is forwarded; gates are held by
\* calls that are past them, a key's gate by one call; and with single flight
\* every call that is past a gate holds it.
Keyed(f) == f.at \notin {"idle", "forward"} => f.key \in config.keys
Guarded ==
    \A h \in holders :
        /\ flow[h[1]].at \in Gated /\ flow[h[1]].key = h[2]
        /\ \A g \in holders : h[2] = g[2] => h = g
Closed == single_flight => \A c \in Clients : flow[c].at \in Gated => <<c, flow[c].key>> \in holders

Flowing == (\A c \in Clients : Keyed(flow[c])) /\ Guarded /\ Closed

\* The operation of a call: a read of its key, which a probe has not found yet,
\* or the put of what was loaded.
Reads(o, k) ==
    o.kind = "read" /\ o.keys = <<k>> /\ (o.pc = "probe" => o.from[k] = NoTier)
Puts(o, k) == o.kind = "put" /\ \A e \in ToSet(o.entries) : e[1] = k
Serves(f, o) ==
    /\ f.at \in {"read", "probe", "reprobe"} => Reads(o, f.key)
    /\ f.at = "fill" => Puts(o, f.key)

CacheBase ==
    Base /\ OwnTypes /\ Flowing /\ \A c \in Clients : Serves(flow[c], op[c])

LEMMA CountFacts ==
    ASSUME NEW f \in [Keys -> 0 .. MaxCount], NEW k \in Keys
    PROVE  /\ Count(f, k) \in [Keys -> 0 .. MaxCount]
           /\ f[k] = 0 => Count(f, k)[k] = 1
           /\ \A j \in Keys \ {k} : Count(f, k)[j] = f[j]
  <1>1. PICK S : S = {f[k] + 1, MaxCount}
    OBVIOUS
  <1>2. f[k] \in Nat /\ MaxCount = 2
    BY DEF MaxCount
  <1>3. S \in SUBSET Nat /\ S # {}
    BY <1>1, <1>2
  <1>4. IsFiniteSet({f[k] + 1} \cup {MaxCount})
    BY FS_Singleton, FS_Union
  <1>5. IsFiniteSet(S)
    <2>1. S = {f[k] + 1} \cup {MaxCount}
      BY <1>1
    <2> QED
      BY <1>4, <2>1
  <1>6. Min(S) \in S /\ \A r \in S : Min(S) <= r
    BY <1>3, <1>5, MinExists
  <1>7. PICK m : m = Min(S)
    OBVIOUS
  <1>8. m \in 0 .. MaxCount /\ (f[k] = 0 => m = 1)
    BY <1>1, <1>2, <1>6, <1>7
  <1>9. Count(f, k) = [f EXCEPT ![k] = m]
    BY <1>1, <1>7 DEF Count
  <1> QED
    BY <1>8, <1>9

LEMMA AtFacts ==
    ASSUME NEW step \in Steps, NEW k \in Keys \cup {None}
    PROVE  At(step, k) \in Flow /\ At(step, k).at = step /\ At(step, k).key = k
  BY DEF At, Flow

\* A step of a call on its own: no tier is called.
Turns(c, f, r) ==
    /\ op' = [op EXCEPT ![c] = r] /\ Sound(r)
    /\ flow' = [flow EXCEPT ![c] = f] /\ f \in Flow /\ Keyed(f) /\ Serves(f, r)
    /\ config' = config /\ store' = store /\ owed' = owed
    /\ latest' \in Contents /\ torn' \in SUBSET Keys
    /\ single_flight' = single_flight /\ cold' = cold

\* It returns, or is dropped, and its gate is free.
Leaves(c) ==
    /\ Turns(c, At("idle", None), NoOperation)
    /\ holders' = {h \in holders : h[1] # c} /\ loads' = loads
    /\ spoiled' \in SUBSET Keys /\ spoiled \subseteq spoiled'
    /\ flow[c].at \in {"read", "fill"} /\ op[c].pc # "idle" =>
          ToSet(Targets(op[c])) \subseteq spoiled'

\* It begins outside the gate.
Begins(c) ==
    /\ UNCHANGED <<holders, loads, spoiled>> /\ flow[c].at = "idle"
    /\ \E f, r : /\ Turns(c, f, r)
                 /\ f.at \in {"gate", "probe", "forward"} \/ (f.at = "read" /\ ~single_flight)

\* It takes the gate, and reads.
Enters(c, step) ==
    LET k == flow[c].key
    IN  /\ UNCHANGED <<loads, spoiled>> /\ flow[c].at \in Waiting
        /\ \A h \in holders : h[1] # c /\ h[2] # k
        /\ holders' = holders \cup {<<c, k>>}
        /\ \E r : Turns(c, At(step, k), r) /\ r.pc = "probe" /\ r.tier = 0

\* It has not found its key, and waits for the gate or loads.
Proceeds(c, step) ==
    /\ UNCHANGED <<holders, loads, spoiled>>
    /\ Turns(c, At(step, flow[c].key), NoOperation)
    /\ \/ flow[c].at = "probe" /\ step = IF single_flight THEN "wait" ELSE "loading"
       \/ flow[c].at = "reprobe" /\ op[c].pc = "idle" /\ ~Hit(c) /\ step = "loading"

\* It puts what it has loaded.
Loads(c) ==
    LET k == flow[c].key
    IN  /\ UNCHANGED <<holders, spoiled>> /\ flow[c].at = "loading"
        /\ loads' = Count(loads, k)
        /\ \E r : /\ Turns(c, At("fill", k), r)
                  /\ Writable # {} =>
                        r.pc = "write" /\ r.at \in Writable /\ r.todo[1][1] = k

\* What is known of a client and its call.
LEMMA CallFacts ==
    ASSUME CacheBase, NEW c \in Clients
    PROVE  /\ config \in Configs /\ Sound(op[c]) /\ op[c] \in Registers
           /\ flow[c] \in Flow /\ flow[c].at \in Steps /\ flow[c].key \in Keys \cup {None}
           /\ flow[c].at \notin {"idle", "forward"} => flow[c].key \in config.keys /\ flow[c].key \in Keys
           /\ Serves(flow[c], op[c])
  <1>1. config \in Configs /\ Sound(op[c]) /\ op[c] \in Registers
    BY Types DEF CacheBase, Base, Sound
  <1>2. flow[c] \in Flow
    BY DEF CacheBase, OwnTypes
  <1>3. config.keys \in SUBSET Keys
    BY <1>1, ConfigFacts
  <1> QED
    BY <1>1, <1>2, <1>3 DEF Flow, CacheBase, Flowing, Keyed

LEMMA LeaveFacts ==
    ASSUME CacheBase, NEW c \in Clients, Leave(c),
           \/ UNCHANGED spoiled /\ (flow[c].at \in {"read", "fill"} => op[c].pc = "idle")
           \/ spoiled' = spoiled \cup ToSet(Targets(op[c]))
    PROVE  Leaves(c)
  <1>1. config \in Configs /\ op[c] \in Registers
    BY CallFacts
  <1>2. /\ At("idle", None) \in Flow /\ At("idle", None).at = "idle"
    BY AtFacts DEF Steps
  <1>3. Sound(NoOperation)
    BY <1>1, NoOperationSound
  <1>4. latest \in Contents /\ torn \in SUBSET Keys
    BY Types DEF CacheBase, Base
  <1>5. Turns(c, At("idle", None), NoOperation)
    BY <1>2, <1>3, <1>4 DEF Leave, Turns, Keyed, Serves
  <1>6. holders' = {h \in holders : h[1] # c}
    <2>1. CASE \E k \in Keys : <<c, k>> \in holders
      BY <2>1 DEF Leave, Gates!Release
    <2>2. CASE ~\E k \in Keys : <<c, k>> \in holders
      <3>1. \A h \in holders : h[1] # c
        <4> SUFFICES ASSUME NEW h \in holders, h[1] = c PROVE FALSE
          OBVIOUS
        <4>1. h \in Clients \X Keys
          BY DEF CacheBase, OwnTypes
        <4>2. h[2] \in Keys /\ h = <<c, h[2]>>
          BY <4>1
        <4> QED
          BY <2>2, <4>2
      <3> QED
        BY <2>2, <3>1 DEF Leave
    <2> QED
      BY <2>1, <2>2
  <1>7. spoiled \in SUBSET Keys /\ ToSet(Targets(op[c])) \in SUBSET Keys
    BY <1>1, TargetFacts DEF CacheBase, OwnTypes
  <1>8. loads' = loads
    BY DEF Leave
  <1> QED
    BY <1>5, <1>6, <1>7, <1>8 DEF Leaves

\* The flow of a call that goes to another step.
LEMMA StepTo ==
    ASSUME CacheBase, NEW c \in Clients, NEW step \in Steps, flow' = [flow EXCEPT ![c].at = step]
    PROVE  /\ flow' = [flow EXCEPT ![c] = At(step, flow[c].key)]
           /\ At(step, flow[c].key) \in Flow
           /\ At(step, flow[c].key).at = step /\ At(step, flow[c].key).key = flow[c].key
  <1>1. flow[c] \in Flow /\ flow[c].key \in Keys \cup {None}
    BY CallFacts
  <1>2. [flow[c] EXCEPT !.at = step] = At(step, flow[c].key)
    BY <1>1 DEF Flow, At
  <1>3. flow' = [flow EXCEPT ![c] = [flow[c] EXCEPT !.at = step]]
    OBVIOUS
  <1> QED
    BY <1>1, <1>2, <1>3, AtFacts

LEMMA ProceedFacts ==
    ASSUME CacheBase, NEW c \in Clients, NEW step \in {"wait", "loading"}, GoTo(c, step),
           \/ flow[c].at = "probe" /\ step = IF single_flight THEN "wait" ELSE "loading"
           \/ flow[c].at = "reprobe" /\ op[c].pc = "idle" /\ ~Hit(c) /\ step = "loading"
    PROVE  Proceeds(c, step)
  <1>1. config \in Configs /\ flow[c].key \in config.keys
    BY CallFacts
  <1>2. PICK f : f = At(step, flow[c].key)
    OBVIOUS
  <1>3. flow' = [flow EXCEPT ![c] = f] /\ f \in Flow /\ f.at = step /\ f.key = flow[c].key
    <2>1. step \in Steps
      BY DEF Steps, Waiting
    <2> QED
      BY <1>2, <2>1, StepTo DEF GoTo
  <1>4. Sound(NoOperation)
    BY <1>1, NoOperationSound
  <1>5. latest \in Contents /\ torn \in SUBSET Keys
    BY Types DEF CacheBase, Base
  <1>6. Turns(c, f, NoOperation)
    BY <1>1, <1>3, <1>4, <1>5 DEF GoTo, Turns, Keyed, Serves
  <1> QED
    BY <1>2, <1>6 DEF GoTo, Proceeds

\* The read of a call's key.
LEMMA CallReadOf ==
    ASSUME CacheBase, NEW c \in Clients, NEW k \in Keys, CallRead(c, <<k>>)
    PROVE  \E r : /\ op' = [op EXCEPT ![c] = r] /\ Sound(r) /\ Reads(r, k)
                  /\ r.pc = "probe" /\ r.tier = 0
  <1>1. config \in Configs /\ 0 \in Tiers
    BY CallFacts, ConfigFacts
  <1>2. PICK ks : ks = <<k>>
    OBVIOUS
  <1>3. ks \in Seq(Keys) /\ <<>> \in Seq(Entries) /\ "read" \in Kinds /\ "probe" \in Phases
    BY <1>2 DEF Kinds, Phases
  <1>4. PICK r : r = Start("read", "probe", ks, <<>>, 0)
    OBVIOUS
  <1>5. Blank("read", "probe", ks, <<>>, 0, r)
    BY <1>1, <1>3, <1>4, StartFacts
  <1>6. Sound(r)
    BY <1>5 DEF Blank, Sound, Probing, Putting, Writing, Removing, Requested
  <1>7. Reads(r, k) /\ r.pc = "probe" /\ r.tier = 0
    BY <1>2, <1>5 DEF Blank, Reads
  <1> QED
    BY <1>2, <1>4, <1>6, <1>7 DEF CallRead

LEMMA EnterFacts ==
    ASSUME CacheBase, NEW c \in Clients, NEW waiting \in Waiting, NEW step \in {"read", "reprobe"},
           Enter(c, waiting, step)
    PROVE  Enters(c, step)
  <1>1. PICK k : k = flow[c].key
    OBVIOUS
  <1>2. flow[c].at = waiting /\ flow[c].at \notin {"idle", "forward"}
    BY DEF Enter, Is, Waiting
  <1>3. k \in config.keys /\ k \in Keys
    BY <1>1, <1>2, CallFacts
  <1>4. PICK f : f = At(step, k)
    OBVIOUS
  <1>5. flow' = [flow EXCEPT ![c] = f] /\ f \in Flow /\ f.at = step /\ f.key = k
    <2>1. step \in Steps
      BY DEF Steps
    <2> QED
      BY <1>1, <1>4, <2>1, StepTo DEF Enter
  <1>6. PICK r : op' = [op EXCEPT ![c] = r] /\ Sound(r) /\ Reads(r, k) /\ r.pc = "probe" /\ r.tier = 0
    BY <1>1, <1>3, CallReadOf DEF Enter
  <1>7. latest \in Contents /\ torn \in SUBSET Keys
    BY Types DEF CacheBase, Base
  <1>8. Turns(c, f, r)
    BY <1>3, <1>5, <1>6, <1>7 DEF Enter, CallRead, Turns, Keyed, Serves
  <1>9. /\ \A h \in holders : h[1] # c /\ h[2] # k
        /\ holders' = holders \cup {<<c, k>>}
    BY <1>1 DEF Enter, Gates!Acquire
  <1>10. UNCHANGED <<loads, spoiled>>
    BY DEF Enter
  <1> QED
    BY <1>1, <1>2, <1>4, <1>6, <1>8, <1>9, <1>10 DEF Enters

LEMMA LookupFacts ==
    ASSUME CacheBase, NEW c \in Clients, NEW k \in config.keys, Lookup(c, k)
    PROVE  Begins(c)
  <1>1. config \in Configs /\ Sound(op[c]) /\ k \in Keys
    BY CallFacts, ConfigFacts
  <1>2. PICK f : f = At("gate", k)
    OBVIOUS
  <1>3. f \in Flow /\ f.at = "gate" /\ f.key = k
    BY <1>1, <1>2, AtFacts DEF Steps, Waiting
  <1>4. op' = [op EXCEPT ![c] = op[c]]
    BY Types DEF Lookup, vars, CacheBase, Base
  <1>5. latest \in Contents /\ torn \in SUBSET Keys
    BY Types DEF CacheBase, Base
  <1>6. Turns(c, f, op[c])
    BY <1>1, <1>2, <1>3, <1>4, <1>5 DEF Lookup, Call, vars, Turns, Keyed, Serves
  <1> QED
    BY <1>3, <1>6 DEF Lookup, Call, Is, Begins

LEMMA ReadFacts ==
    ASSUME CacheBase, NEW c \in Clients, NEW k \in config.keys, NEW step \in {"read", "probe"},
           step = "read" => ~single_flight, Call(c, step, k), CallRead(c, <<k>>)
    PROVE  Begins(c)
  <1>1. config \in Configs /\ k \in Keys
    BY CallFacts, ConfigFacts
  <1>2. PICK f : f = At(step, k)
    OBVIOUS
  <1>3. f \in Flow /\ f.at = step /\ f.key = k
    BY <1>1, <1>2, AtFacts DEF Steps
  <1>4. PICK r : op' = [op EXCEPT ![c] = r] /\ Sound(r) /\ Reads(r, k)
    BY <1>1, CallReadOf
  <1>5. latest \in Contents /\ torn \in SUBSET Keys
    BY Types DEF CacheBase, Base
  <1>6. Turns(c, f, r)
    BY <1>2, <1>3, <1>4, <1>5 DEF Call, CallRead, Turns, Keyed, Serves
  <1> QED
    BY <1>3, <1>6 DEF Call, Is, Begins

LEMMA ForwardFacts ==
    ASSUME CacheBase, NEW c \in Clients, Forward(c)
    PROVE  Begins(c)
  <1>1. PICK f : f = At("forward", None)
    OBVIOUS
  <1>2. f \in Flow /\ f.at = "forward" /\ f.key = None
    BY <1>1, AtFacts DEF Steps
  <1>3. Calls(c)
    BY BeginFacts DEF CacheBase, Forward
  <1>4. PICK r : op' = [op EXCEPT ![c] = r] /\ Started(op[c], r)
    BY <1>3 DEF Calls
  <1>5. Turns(c, f, r)
    BY <1>1, <1>2, <1>3, <1>4 DEF Forward, Call, Calls, Started, Turns, Keyed, Serves
  <1> QED
    BY <1>2, <1>5 DEF Forward, Call, Is, Begins

LEMMA OneElement ==
    ASSUME NEW T, NEW q \in Seq(T), Len(q) = 1
    PROVE  ToSet(q) = {q[1]}
  BY Elements

LEMMA LoadFacts ==
    ASSUME CacheBase, NEW c \in Clients, LoadOk(c)
    PROVE  Loads(c)
  <1>1. PICK k : k = flow[c].key
    OBVIOUS
  <1>2. flow[c].at = "loading"
    BY DEF LoadOk, Is
  <1>3. k \in config.keys /\ k \in Keys /\ config \in Configs
    BY <1>1, <1>2, CallFacts
  <1>4. PICK f : f = At("fill", k)
    OBVIOUS
  <1>5. flow' = [flow EXCEPT ![c] = f] /\ f \in Flow /\ f.at = "fill" /\ f.key = k
    BY <1>1, <1>4, StepTo DEF LoadOk, Steps
  <1>6. PICK v \in config.values : CallPut(c, <<<<k, v>>>>)
    BY <1>1 DEF LoadOk
  <1>7. PICK es : es = <<<<k, v>>>>
    OBVIOUS
  <1>8. es \in Seq(Entries) /\ es # <<>> /\ es[1] = <<k, v>> /\ Len(es) = 1
    <2>1. PICK e : e = <<k, v>>
      OBVIOUS
    <2>2. e \in Entries
      BY <1>3, <2>1, ConfigFacts DEF Entries
    <2> QED
      BY <1>7, <2>1, <2>2
  <1>9. \A e \in ToSet(es) : e = <<k, v>>
    BY <1>8, OneElement
  <1>10. Distinct(es)
    BY <1>9 DEF Distinct
  <1>11. CallPut(c, es)
    BY <1>6, <1>7
  <1>12. Calls(c)
    BY <1>8, <1>10, <1>11, CallPutFacts DEF CacheBase
  <1>13. \E r : /\ op' = [op EXCEPT ![c] = r] /\ Sound(r) /\ r.kind = "put" /\ r.entries = es
                /\ Writable # {} => r.pc = "write" /\ r.at \in Writable /\ r.todo = es
    <2>1. "put" \in Kinds /\ "write" \in Phases /\ <<>> \in Seq(Keys) /\ "readonly" \in Outcomes
          /\ 0 \in Tiers /\ Writable \in SUBSET Tiers
      BY <1>3, ConfigFacts DEF Kinds, Phases, Outcomes
    <2>2. CASE Writable = {}
      <3>1. PICK b : b = Start("put", "write", <<>>, es, 0)
        OBVIOUS
      <3>2. Blank("put", "write", <<>>, es, 0, b)
        BY <1>3, <1>8, <2>1, <3>1, StartFacts
      <3>3. b \in Registers /\ Requested(b) /\ Found(b)
        BY <1>8, <3>2 DEF Blank, Requested
      <3>4. PICK r : r = Return(b, "readonly")
        OBVIOUS
      <3>5. Sound(r) /\ Same(b, r)
        BY <1>3, <2>1, <3>3, <3>4, ReturnFacts, ReturnSound
      <3>6. r.kind = "put" /\ r.entries = es
        BY <3>2, <3>5 DEF Blank, Same
      <3> QED
        BY <1>11, <2>2, <3>1, <3>4, <3>5, <3>6 DEF CallPut
    <2>3. CASE Writable # {}
      <3>1. PICK r : r = Start("put", "write", <<>>, es, Bottom)
        OBVIOUS
      <3>2. Bottom \in Writable /\ Bottom \in Tiers
        BY <1>3, <2>1, <2>3, TierSets DEF Bottom
      <3>3. Blank("put", "write", <<>>, es, Bottom, r)
        BY <1>3, <1>8, <2>1, <3>1, <3>2, StartFacts
      <3>4. Sound(r)
        BY <1>8, <3>2, <3>3 DEF Blank, Sound, Probing, Putting, Writing, Removing, Requested
      <3>5. /\ r.kind = "put" /\ r.entries = es /\ r.pc = "write" /\ r.at \in Writable
            /\ r.todo = es
        BY <3>2, <3>3 DEF Blank
      <3> QED
        BY <1>11, <2>3, <3>1, <3>4, <3>5 DEF CallPut
    <2> QED
      BY <2>2, <2>3
  <1>14. PICK r : /\ op' = [op EXCEPT ![c] = r] /\ Sound(r) /\ r.kind = "put" /\ r.entries = es
                  /\ Writable # {} => r.pc = "write" /\ r.at \in Writable /\ r.todo = es
    BY <1>13
  <1>15. Puts(r, k)
    BY <1>9, <1>14 DEF Puts
  <1>16. Turns(c, f, r)
    BY <1>3, <1>5, <1>12, <1>14, <1>15 DEF LoadOk, Calls, Turns, Keyed, Serves
  <1>17. Writable # {} => r.pc = "write" /\ r.at \in Writable /\ r.todo[1][1] = k
    BY <1>8, <1>14
  <1>18. loads' = Count(loads, k) /\ UNCHANGED <<holders, spoiled>>
    BY <1>1 DEF LoadOk
  <1> QED
    BY <1>1, <1>2, <1>4, <1>16, <1>17, <1>18 DEF Loads

\* A call of a tier, which answers or fails.
TierCalled(c) == Probes(c) \/ Accepts(c) \/ Rejects(c) \/ Removes(c)

LEMMA TierCalls ==
    ASSUME CacheBase, NEW c \in Clients, TierOk(c) \/ TierErr(c)
    PROVE  /\ TierCalled(c) /\ spoiled' \in SUBSET Keys /\ spoiled \subseteq spoiled'
           /\ Vanished(c) \subseteq spoiled'
           /\ UNCHANGED <<single_flight, holders, flow, loads>>
           /\ cold' = cold \/ (TierOk(c) /\ ServedCold(c) /\ cold' = Count(cold, flow[c].key))
  <1>1. Base
    BY DEF CacheBase
  <1>2. TierCalled(c)
    BY <1>1, ProbeOkFacts, ProbeErrFacts, PutOkFacts, PutErrFacts, RemoveOkFacts, RemoveErrFacts
    DEF TierOk, TierErr, TierCalled
  <1>3. spoiled \in SUBSET Keys /\ ToSet(Targets(op[c])) \in SUBSET Keys /\ Vanished(c) \in SUBSET Keys
    BY CallFacts, TargetFacts DEF CacheBase, OwnTypes, Vanished
  <1>4. /\ spoiled' \in SUBSET Keys /\ spoiled \subseteq spoiled' /\ Vanished(c) \subseteq spoiled'
    BY <1>3 DEF TierOk, TierErr
  <1>5. /\ UNCHANGED <<single_flight, holders, flow, loads>>
        /\ cold' = cold \/ (TierOk(c) /\ ServedCold(c) /\ cold' = Count(cold, flow[c].key))
    BY DEF TierOk, TierErr
  <1> QED
    BY <1>2, <1>4, <1>5

\* It leaves the operation what it is for the call.
LEMMA ServesOn ==
    ASSUME Base, NEW c \in Clients, NEW f, Serves(f, op[c]), TierCalled(c)
    PROVE  \E r : op' = [op EXCEPT ![c] = r] /\ Sound(r) /\ Serves(f, r)
  <1>1. PICK o, k : o = op[c] /\ k = f.key
    OBVIOUS
  <1>2. Sound(o)
    BY <1>1 DEF Base
  <1>3. CASE Probes(c)
    <2>1. PICK r : op' = [op EXCEPT ![c] = r] /\ ProbeStep(o, r)
      BY <1>1, <1>3 DEF Probes
    <2>2. Sound(r) /\ o.pc = "probe" /\ r.kind = o.kind /\ r.keys = o.keys
      BY <2>1 DEF ProbeStep
    <2>3. ASSUME Reads(o, k) PROVE Reads(r, k)
      <3>1. r.pc = "probe" => Unresolved(r) # {}
        BY <2>1 DEF ProbeStep, ReadGoesOn, PromotionGoesOn
      <3>2. PICK q : q = r.keys
        OBVIOUS
      <3>3. q \in Seq(Keys)
        BY <2>2, <3>2 DEF Sound, Registers
      <3>4. q = <<k>>
        BY <2>2, <2>3, <3>2 DEF Reads
      <3>5. Len(q) = 1 /\ q[1] = k
        BY <3>4
      <3>6. ToSet(r.keys) = {k}
        BY <3>2, <3>3, <3>5, OneElement
      <3> QED
        BY <2>2, <2>3, <3>1, <3>6 DEF Reads, Unresolved
    <2>4. ~Puts(o, k)
      BY <1>2, <2>2 DEF Puts, Sound, Probing
    <2> QED
      BY <1>1, <2>1, <2>2, <2>3, <2>4 DEF Serves
  <1>4. CASE Accepts(c) \/ Rejects(c)
    <2>1. PICK r : op' = [op EXCEPT ![c] = r] /\ Kept(op[c], r)
      <3>1. PICK r : /\ op' = [op EXCEPT ![c] = r]
                     /\ \/ \E s, x : AcceptedBy(c, s, x, r)
                        \/ \E w : RejectedBy(c, w, r)
        BY <1>4 DEF Accepts, Rejects, AcceptedBy, RejectedBy
      <3> QED
        BY <3>1, PutKept
    <2>2. Sound(r) /\ Same(o, r) /\ o.pc \in {"promote", "write"}
      BY <1>1, <1>4, <2>1 DEF Kept, Accepts, Rejects
    <2>3. r.pc # "probe"
      BY <1>1, <1>2, <2>1, <2>2 DEF Kept, Same, Sound, Probing, Putting
    <2> QED
      BY <1>1, <2>1, <2>2, <2>3 DEF Same, Serves, Reads, Puts
  <1>5. CASE Removes(c)
    <2>1. PICK ks, r : RemovedBy(c, ks, r)
      BY <1>5 DEF Removes
    <2>2. Sound(r) /\ Same(o, r) /\ op' = [op EXCEPT ![c] = r] /\ o.pc \in {"purge", "remove"}
      BY <1>1, <1>5, <2>1 DEF Removes, RemovedBy
    <2>3. r.pc # "probe"
      BY <1>2, <2>2 DEF Same, Sound, Probing, Removing
    <2> QED
      BY <1>1, <2>2, <2>3 DEF Same, Serves, Reads, Puts
  <1> QED
    BY <1>3, <1>4, <1>5 DEF TierCalled

\* Every step of the cache is one of these.
CacheMoves(c) ==
    \/ TierOk(c) \/ TierErr(c)
    \/ Leaves(c) \/ Begins(c) \/ Enters(c, "read") \/ Proceeds(c, "wait")
    \/ (flow[c].at = "wait" /\ Enters(c, "reprobe")) \/ Proceeds(c, "loading") \/ Loads(c)

LEMMA CacheCases ==
    ASSUME CacheBase, CacheNext
    PROVE  \E c \in config.callers : c \in Clients /\ CacheMoves(c)
  <1>1. PICK c \in config.callers :
            \/ Step(c) \/ CancelCall(c) \/ Forward(c)
            \/ \E k \in config.keys : Lookup(c, k) \/ LookupUngated(c, k) \/ GetOrLoad(c, k)
    BY DEF CacheNext
  <1>2. c \in Clients /\ config \in Configs
    BY Types, ConfigFacts DEF CacheBase, Base
  <1>3. CASE LookupDone(c) \/ LoadErr(c) \/ Filled(c) \/ Forwarded(c)
    <2>1. /\ Leave(c) /\ UNCHANGED spoiled
          /\ flow[c].at \in {"read", "fill"} => op[c].pc = "idle"
      BY <1>3 DEF LookupDone, LoadErr, Filled, Forwarded, Ready, Is
    <2> QED
      BY <1>2, <2>1, LeaveFacts DEF CacheMoves
  <1>4. CASE CancelCall(c)
    BY <1>2, <1>4, LeaveFacts DEF CancelCall, CacheMoves
  <1>5. CASE Probed(c)
    <2>1. flow[c].at = "probe"
      BY <1>5 DEF Probed, Ready, Is
    <2>2. CASE Hit(c)
      BY <1>2, <1>5, <2>1, <2>2, LeaveFacts DEF Probed, CacheMoves
    <2>3. CASE ~Hit(c) /\ single_flight
      BY <1>2, <1>5, <2>1, <2>3, ProceedFacts DEF Probed, CacheMoves
    <2>4. CASE ~Hit(c) /\ ~single_flight
      BY <1>2, <1>5, <2>1, <2>4, ProceedFacts DEF Probed, CacheMoves
    <2> QED
      BY <2>2, <2>3, <2>4
  <1>6. CASE Reprobed(c)
    <2>1. flow[c].at = "reprobe" /\ op[c].pc = "idle"
      BY <1>6 DEF Reprobed, Ready, Is
    <2>2. CASE Hit(c)
      BY <1>2, <1>6, <2>1, <2>2, LeaveFacts DEF Reprobed, CacheMoves
    <2>3. CASE ~Hit(c)
      BY <1>2, <1>6, <2>1, <2>3, ProceedFacts DEF Reprobed, CacheMoves
    <2> QED
      BY <2>2, <2>3
  <1>7. CASE LookupEnter(c)
    BY <1>2, <1>7, EnterFacts DEF LookupEnter, Waiting, CacheMoves
  <1>8. CASE LoadEnter(c)
    BY <1>2, <1>8, EnterFacts DEF LoadEnter, Enter, Is, Waiting, CacheMoves
  <1>9. CASE LoadOk(c)
    BY <1>2, <1>9, LoadFacts DEF CacheMoves
  <1>10. CASE Forward(c)
    BY <1>2, <1>10, ForwardFacts DEF CacheMoves
  <1>11. ASSUME NEW k \in config.keys, Lookup(c, k) \/ LookupUngated(c, k) \/ GetOrLoad(c, k)
         PROVE  CacheMoves(c)
    <2>1. CASE Lookup(c, k)
      BY <1>2, <2>1, LookupFacts DEF CacheMoves
    <2>2. CASE LookupUngated(c, k)
      BY <1>2, <2>2, ReadFacts DEF LookupUngated, CacheMoves
    <2>3. CASE GetOrLoad(c, k)
      BY <1>2, <2>3, ReadFacts DEF GetOrLoad, CacheMoves
    <2> QED
      BY <1>11, <2>1, <2>2, <2>3
  <1>12. CASE TierOk(c) \/ TierErr(c)
    BY <1>2, <1>12 DEF CacheMoves
  <1> QED
    BY <1>1, <1>2, <1>3, <1>4, <1>5, <1>6, <1>7, <1>8, <1>9, <1>10, <1>11, <1>12 DEF Step

LEMMA ServesStays ==
    ASSUME NEW CONSTANT d, NEW CONSTANT f, NEW CONSTANT r, flow'[d] = f, op'[d] = r,
           config' = config, Serves(f, r)
    PROVE  Serves(flow[d], op[d])'
  BY Rigid DEF Serves, Reads, Puts

\* The other clients are where they were.
LEMMA OneCall ==
    ASSUME CacheBase, NEW c \in Clients, NEW f, NEW r, Turns(c, f, r)
    PROVE  /\ flow'[c] = f /\ op'[c] = r
           /\ \A d \in Clients : d # c => flow'[d] = flow[d] /\ op'[d] = op[d]
           /\ flow' \in [Clients -> Flow]
  <1>1. op'[c] = r /\ \A d \in Clients : d # c => op'[d] = op[d]
    BY OneClient DEF CacheBase, Turns
  <1>2. flow \in [Clients -> Flow]
    BY DEF CacheBase, OwnTypes
  <1> QED
    BY <1>1, <1>2 DEF Turns

\* The gates after a step of client c that changes at most its own.
GatesAfter(c, f, H) ==
    /\ H \in SUBSET (Clients \X Keys)
    /\ \A h \in H : IF h[1] = c THEN f.at \in Gated /\ f.key = h[2] ELSE h \in holders
    /\ \A h, g \in H : h[2] = g[2] => h = g
    /\ \A h \in holders : h[1] # c => h \in H
    /\ single_flight /\ f.at \in Gated => <<c, f.key>> \in H

LEMMA TurnsFlow ==
    ASSUME CacheBase, NEW c \in config.callers, c \in Clients, NEW f, NEW r, Turns(c, f, r),
           GatesAfter(c, f, holders'), loads' \in [Keys -> 0 .. MaxCount], spoiled' \in SUBSET Keys
    PROVE  CacheBase'
  <1>1. /\ flow'[c] = f /\ op'[c] = r /\ flow' \in [Clients -> Flow]
        /\ \A d \in Clients : d # c => flow'[d] = flow[d] /\ op'[d] = op[d]
    BY OneCall
  <1>2. Base'
    <2>1. store \in [Tiers -> Contents] /\ owed \in SUBSET Keys
      BY Types DEF CacheBase, Base
    <2> QED
      BY <2>1, BaseStep DEF CacheBase, Turns
  <1>3. OwnTypes'
    BY <1>1 DEF CacheBase, OwnTypes, Turns, GatesAfter, Flow
  <1>4. \A d \in Clients : Keyed(flow[d])'
    BY <1>1 DEF CacheBase, Flowing, Turns, Keyed
  <1>5. Guarded'
    <2> SUFFICES ASSUME NEW h \in holders'
                 PROVE  /\ flow'[h[1]].at \in Gated /\ flow'[h[1]].key = h[2]
                        /\ \A g \in holders' : h[2] = g[2] => h = g
      BY DEF Guarded, Gated
    <2>1. h[1] \in Clients
      BY DEF GatesAfter
    <2>2. CASE h[1] = c
      BY <1>1, <2>2 DEF GatesAfter
    <2>3. CASE h[1] # c
      BY <1>1, <2>1, <2>3 DEF GatesAfter, CacheBase, Flowing, Guarded
    <2> QED
      BY <2>2, <2>3
  <1>6. Closed'
    <2> SUFFICES ASSUME single_flight, NEW d \in Clients, flow'[d].at \in Gated
                 PROVE  <<d, flow'[d].key>> \in holders'
      BY DEF Closed, Turns, Gated
    <2>1. CASE d = c
      BY <1>1, <2>1 DEF GatesAfter
    <2>2. CASE d # c
      <3>1. <<d, flow[d].key>> \in holders
        BY <1>1, <2>2 DEF CacheBase, Flowing, Closed
      <3> QED
        BY <1>1, <2>2, <3>1 DEF GatesAfter
    <2> QED
      BY <2>1, <2>2
  <1>7. \A d \in Clients : Serves(flow[d], op[d])'
    <2> SUFFICES ASSUME NEW d \in Clients PROVE Serves(flow[d], op[d])'
      OBVIOUS
    <2>1. PICK y, z : y = flow'[d] /\ z = op'[d]
      OBVIOUS
    <2>2. Serves(y, z)
      BY <1>1, <2>1 DEF CacheBase, Turns
    <2>3. config' = config
      BY DEF Turns
    <2> QED
      BY <2>1, <2>2, <2>3, ServesStays
  <1> QED
    BY <1>2, <1>3, <1>4, <1>5, <1>6, <1>7 DEF CacheBase, Flowing

\* The gates in use, while a call keeps or gives up its own.
LEMMA GatesNow ==
    ASSUME CacheBase, NEW c \in Clients
    PROVE  /\ holders \in SUBSET (Clients \X Keys)
           /\ \A h \in holders : h[1] = c => flow[c].at \in Gated /\ flow[c].key = h[2]
           /\ \A h, g \in holders : h[2] = g[2] => h = g
           /\ single_flight /\ flow[c].at \in Gated => <<c, flow[c].key>> \in holders
  BY DEF CacheBase, OwnTypes, Flowing, Guarded, Closed

LEMMA NextCacheBase ==
    ASSUME CacheBase, [CacheNext]_cacheVars
    PROVE  CacheBase'
  <1>1. CASE CacheNext
    <2>1. PICK c \in config.callers : c \in Clients /\ CacheMoves(c)
      BY <1>1, CacheCases
    <2>2. loads \in [Keys -> 0 .. MaxCount] /\ spoiled \in SUBSET Keys
      BY DEF CacheBase, OwnTypes
    <2>3. /\ holders \in SUBSET (Clients \X Keys)
          /\ \A h \in holders : h[1] = c => flow[c].at \in Gated /\ flow[c].key = h[2]
          /\ \A h, g \in holders : h[2] = g[2] => h = g
          /\ single_flight /\ flow[c].at \in Gated => <<c, flow[c].key>> \in holders
      BY <2>1, GatesNow
    <2>4. CASE TierOk(c) \/ TierErr(c)
      <3>1. /\ TierCalled(c) /\ spoiled' \in SUBSET Keys
            /\ UNCHANGED <<single_flight, holders, flow, loads>>
            /\ cold' = cold \/ (ServedCold(c) /\ cold' = Count(cold, flow[c].key))
        BY <2>1, <2>4, TierCalls
      <3>2. Base' /\ config' = config
        BY <2>1, <3>1, MovesBase
        DEF CacheBase, TierCalled, Moves, Probes, Accepts, Rejects, Removes
      <3>3. cold' \in [Keys -> 0 .. MaxCount]
        <4>1. cold \in [Keys -> 0 .. MaxCount]
          BY DEF CacheBase, OwnTypes
        <4>2. ServedCold(c) => flow[c].key \in Keys
          BY <2>1, CallFacts DEF ServedCold, Is
        <4> QED
          BY <3>1, <4>1, <4>2, CountFacts
      <3>4. OwnTypes'
        BY <3>1, <3>3 DEF CacheBase, OwnTypes, Flow
      <3>5. Flowing'
        BY <3>1, <3>2 DEF CacheBase, Flowing, Keyed, Guarded, Closed
      <3>6. \A d \in Clients : Serves(flow[d], op[d])'
        <4>1. PICK r : op' = [op EXCEPT ![c] = r] /\ Serves(flow[c], r)
          BY <2>1, <3>1, ServesOn DEF CacheBase
        <4>2. op'[c] = r /\ \A d \in Clients : d # c => op'[d] = op[d]
          BY <2>1, <4>1, OneClient DEF CacheBase
        <4> SUFFICES ASSUME NEW d \in Clients PROVE Serves(flow[d], op[d])'
          OBVIOUS
        <4>3. PICK y, z : y = flow'[d] /\ z = op'[d]
          OBVIOUS
        <4>4. Serves(y, z)
          BY <3>1, <4>1, <4>2, <4>3 DEF CacheBase
        <4> QED
          BY <3>2, <4>3, <4>4, ServesStays
      <3> QED
        BY <3>2, <3>4, <3>5, <3>6 DEF CacheBase
    <2>5. CASE Leaves(c)
      <3>1. At("idle", None).at = "idle"
        BY DEF At
      <3>2. GatesAfter(c, At("idle", None), holders')
        BY <2>3, <2>5, <3>1 DEF GatesAfter, Leaves, Gated
      <3> QED
        BY <2>1, <2>2, <2>5, <3>2, TurnsFlow DEF Leaves
    <2>6. CASE Begins(c)
      <3>1. PICK f, r :
               /\ Turns(c, f, r)
               /\ f.at \in {"gate", "probe", "forward"} \/ (f.at = "read" /\ ~single_flight)
        BY <2>6 DEF Begins
      <3>2. GatesAfter(c, f, holders')
        BY <2>3, <2>6, <3>1 DEF GatesAfter, Begins, Gated
      <3> QED
        BY <2>1, <2>2, <2>6, <3>1, <3>2, TurnsFlow DEF Begins
    <2>7. ASSUME NEW step \in {"read", "reprobe"}, Enters(c, step) PROVE CacheBase'
      <3>1. PICK f, k : k = flow[c].key /\ f = At(step, k)
        OBVIOUS
      <3>2. f.at = step /\ f.key = k
        BY <3>1 DEF At
      <3>3. /\ UNCHANGED <<loads, spoiled>>
            /\ \A h \in holders : h[1] # c /\ h[2] # k
            /\ holders' = holders \cup {<<c, k>>}
            /\ flow[c].at \in Waiting
        BY <2>7, <3>1 DEF Enters
      <3>4. PICK r : Turns(c, f, r)
        BY <2>7, <3>1 DEF Enters
      <3>5. k \in Keys
        BY <2>1, <3>1, <3>3, CallFacts DEF Waiting
      <3>6. PICK x : x = <<c, k>>
        OBVIOUS
      <3>7. x \in Clients \X Keys /\ x[1] = c /\ x[2] = k
        BY <2>1, <3>5, <3>6
      <3>8. holders' = holders \cup {x}
        BY <3>3, <3>6
      <3>9. GatesAfter(c, f, holders')
        BY <2>3, <3>2, <3>3, <3>6, <3>7, <3>8 DEF GatesAfter, Gated
      <3> QED
        BY <2>1, <2>2, <3>3, <3>4, <3>9, TurnsFlow
    <2>8. ASSUME NEW step \in {"wait", "loading"}, Proceeds(c, step) PROVE CacheBase'
      <3>1. PICK f : f = At(step, flow[c].key)
        OBVIOUS
      <3>2. f.at = step /\ f.key = flow[c].key
        BY <3>1 DEF At
      <3>3. /\ UNCHANGED <<holders, loads, spoiled>> /\ Turns(c, f, NoOperation)
            /\ \/ flow[c].at = "probe" /\ step = IF single_flight THEN "wait" ELSE "loading"
               \/ flow[c].at = "reprobe" /\ step = "loading"
        BY <2>8, <3>1 DEF Proceeds
      <3>4. GatesAfter(c, f, holders')
        BY <2>3, <3>2, <3>3 DEF GatesAfter, Gated
      <3> QED
        BY <2>1, <2>2, <3>3, <3>4, TurnsFlow
    <2>9. CASE Loads(c)
      <3>1. PICK f, k : k = flow[c].key /\ f = At("fill", k)
        OBVIOUS
      <3>2. f.at = "fill" /\ f.key = flow[c].key
        BY <3>1 DEF At
      <3>3. /\ UNCHANGED <<holders, spoiled>> /\ loads' = Count(loads, k)
            /\ flow[c].at = "loading"
        BY <2>9, <3>1 DEF Loads
      <3>4. PICK r : Turns(c, f, r)
        BY <2>9, <3>1 DEF Loads
      <3>5. GatesAfter(c, f, holders')
        BY <2>3, <3>2, <3>3 DEF GatesAfter, Gated
      <3>6. loads' \in [Keys -> 0 .. MaxCount]
        BY <2>1, <2>2, <3>1, <3>3, CallFacts, CountFacts
      <3> QED
        BY <2>1, <2>2, <3>3, <3>4, <3>5, <3>6, TurnsFlow
    <2> QED
      BY <2>1, <2>4, <2>5, <2>6, <2>7, <2>8, <2>9 DEF CacheMoves
  <1>2. CASE UNCHANGED cacheVars
    <2>1. Base'
      BY <1>2, NextBase DEF CacheBase, cacheVars
    <2>2. (OwnTypes /\ Flowing)'
      BY <1>2 DEF CacheBase, cacheVars, vars, own, OwnTypes, Flow, Flowing, Keyed, Guarded, Closed
    <2>3. \A d \in Clients : Serves(flow[d], op[d])'
      BY <1>2 DEF CacheBase, cacheVars, vars, own, Serves, Reads, Puts, NoTier
    <2> QED
      BY <2>1, <2>2, <2>3 DEF CacheBase
  <1> QED
    BY <1>1, <1>2

LEMMA InitCacheBase == CacheInit => CacheBase
  <1> SUFFICES ASSUME CacheInit PROVE CacheBase
    OBVIOUS
  <1>1. Base
    BY InitBase DEF CacheInit
  <1>2. At("idle", None) \in Flow /\ At("idle", None).at = "idle"
    BY AtFacts DEF Steps
  <1>3. OwnTypes
    BY <1>2 DEF CacheInit, OwnTypes, MaxCount
  <1>4. Flowing /\ \A c \in Clients : Serves(flow[c], op[c])
    BY <1>2 DEF CacheInit, Flowing, Keyed, Guarded, Closed, Gated, Serves
  <1> QED
    BY <1>1, <1>3, <1>4 DEF CacheBase

LEMMA CacheBaseHolds == CacheSpec => []CacheBase
  <1>1. CacheInit => CacheBase
    BY InitCacheBase
  <1>2. CacheBase /\ [CacheNext]_cacheVars => CacheBase'
    BY NextCacheBase
  <1> QED
    BY <1>1, <1>2, PTL DEF CacheSpec

(***************************************************************************)
(* The cache's flows, gates and histories stay well-formed, and no call    *)
(* holds a gate that it waits for or one of another key, whatever calls    *)
(* are made and dropped and whichever tiers and loaders fail: CacheTypeOK. *)
(***************************************************************************)
THEOREM CacheTypes == CacheSpec => []CacheTypeOK
  <1>1. CacheBase => CacheTypeOK
    <2> SUFFICES ASSUME CacheBase PROVE CacheTypeOK
      OBVIOUS
    <2>1. TypeOK
      BY DEF CacheBase, Base
    <2>2. \A h \in holders : flow[h[1]].key = h[2] /\ flow[h[1]].at \notin Waiting
      BY DEF CacheBase, Flowing, Guarded, Gated, Waiting
    <2> QED
      BY <2>1, <2>2 DEF CacheBase, OwnTypes, Flow, CacheTypeOK
  <1> QED
    BY <1>1, CacheBaseHolds, PTL

-----------------------------------------------------------------------------
(* The cache: one load                                                     *)

\* The key of a call is one of its operation's.
LEMMA Targeted ==
    ASSUME CacheBase, NEW c \in Clients, flow[c].at \in {"read", "probe", "reprobe", "fill"}
    PROVE  flow[c].key \in ToSet(Targets(op[c])) /\ flow[c].key \in Keys
  <1>1. PICK o, k : o = op[c] /\ k = flow[c].key
    OBVIOUS
  <1>2. o \in Registers /\ Sound(o) /\ k \in Keys /\ Serves(flow[c], o)
    BY <1>1, CallFacts
  <1>3. ToSet(Targets(o)) = ToSet(o.keys) \cup {e[1] : e \in ToSet(o.entries)}
    BY <1>2, TargetFacts
  <1>4. o.keys \in Seq(Keys) /\ o.entries \in Seq(Entries)
    BY <1>2 DEF Registers
  <1>5. CASE flow[c].at = "fill"
    <2>1. Puts(o, k) /\ o.entries # <<>>
      BY <1>1, <1>2, <1>5 DEF Serves, Puts, Sound, Requested
    <2>2. PICK e : e = o.entries[1]
      OBVIOUS
    <2>3. e \in ToSet(o.entries)
      BY <1>4, <2>1, <2>2, Elements
    <2>4. e[1] = k
      BY <2>1, <2>3 DEF Puts
    <2> QED
      BY <1>1, <1>2, <1>3, <2>3, <2>4
  <1>6. CASE flow[c].at # "fill"
    <2>1. o.keys = <<k>>
      BY <1>1, <1>2, <1>6 DEF Serves, Reads
    <2>2. o.keys # <<>> /\ o.keys[1] = k
      BY <2>1
    <2>3. k \in ToSet(o.keys)
      BY <1>4, <2>2, Elements
    <2> QED
      BY <1>1, <1>2, <1>3, <2>3
  <1> QED
    BY <1>5, <1>6

\* A loaded key is in a writable tier, or about to be put in one by the call
\* that loaded it; a re-probe of it will find it, and nobody loads it again.
Fills(f, o, k) == f.at = "fill" /\ f.key = k /\ o.pc = "write" /\ o.todo[1][1] = k

FindsAgain(st, o, k) ==
    /\ o.pc = "probe" => \E i \in Writable : i >= o.tier /\ st[i][k] # None
    /\ o.pc # "probe" => o.from[k] # NoTier
    /\ o.pc = "idle" => o.outcome = "ok"

FollowsUp(st, f, o, n, k) ==
    f.key = k =>
        /\ f.at = "reprobe" /\ n = 1 => FindsAgain(st, o, k)
        /\ f.at = "loading" => n = 0

Loaded(st, os, fl, n, k) ==
    /\ n = 0 \/ n = 1
    /\ n = 1 => HeldIn(st, k) \/ \E c \in Clients : Fills(fl[c], os[c], k)
    /\ \A c \in Clients : FollowsUp(st, fl[c], os[c], n, k)

\* A step that calls no tier.
LEMMA TurnsLoaded ==
    ASSUME CacheBase, NEW c \in Clients, NEW f, NEW r, Turns(c, f, r), NEW k, NEW n,
           Loaded(store, op, flow, n, k), FollowsUp(store, f, r, n, k),
           Fills(flow[c], op[c], k) => HeldIn(store, k)
    PROVE  Loaded(store, op', flow', n, k)
  <1>1. /\ flow'[c] = f /\ op'[c] = r
        /\ \A d \in Clients : d # c => flow'[d] = flow[d] /\ op'[d] = op[d]
    BY OneCall
  <1>2. n = 1 => HeldIn(store, k) \/ \E d \in Clients : Fills(flow'[d], op'[d], k)
    <2> SUFFICES ASSUME n = 1, ~HeldIn(store, k) PROVE \E d \in Clients : Fills(flow'[d], op'[d], k)
      OBVIOUS
    <2>1. PICK d \in Clients : Fills(flow[d], op[d], k)
      BY DEF Loaded
    <2>2. d # c
      BY <2>1
    <2> QED
      BY <1>1, <2>1, <2>2
  <1>3. \A d \in Clients : FollowsUp(store, flow'[d], op'[d], n, k)
    BY <1>1 DEF Loaded
  <1> QED
    BY <1>2, <1>3 DEF Loaded

\* A tier that does not fail, asked for a key that it, or one below, holds.
Answer(c) == Answers(c) \/ Accepts(c) \/ Removes(c)

LEMMA FindsOn ==
    ASSUME Base, NEW c \in Clients, Answer(c), NEW k \in Keys, Reads(op[c], k),
           FindsAgain(store, op[c], k),
           \A i \in Writable : store[i][k] # None => store'[i][k] # None
    PROVE  FindsAgain(store', op'[c], k)
  <1>1. PICK o : o = op[c]
    OBVIOUS
  <1>2. config \in Configs /\ Sound(o) /\ o \in Registers /\ o.tier \in Tiers
    BY <1>1, Types DEF Base, Sound, Registers
  <1>3. o.kind = "read" /\ o.keys = <<k>> /\ (o.pc = "probe" => o.from[k] = NoTier)
    BY <1>1 DEF Reads
  <1>4. ToSet(o.keys) = {k}
    <2>1. PICK q : q = o.keys
      OBVIOUS
    <2>2. q \in Seq(Keys)
      BY <1>2, <2>1 DEF Registers
    <2>3. Len(q) = 1 /\ q[1] = k
      BY <1>3, <2>1
    <2> QED
      BY <2>1, <2>2, <2>3, OneElement
  <1>5. CASE Answers(c)
    <2>1. PICK r : op' = [op EXCEPT ![c] = r] /\ AnswerStep(o, r)
      BY <1>1, <1>5 DEF Answers
    <2>2. op'[c] = r /\ store' = store
      BY <1>5, <2>1, OneClient DEF Answers
    <2>3. /\ o.pc = "probe" /\ r.keys = o.keys /\ ReadGoesOn(o, r)
          /\ Unresolved(r) = {x \in Unresolved(o) : store[o.tier][x] = None}
      BY <2>1 DEF AnswerStep, ProbeStep
    <2>4. Unresolved(o) = {k}
      BY <1>3, <1>4, <2>3 DEF Unresolved
    <2>5. PICK i \in Writable : i >= o.tier /\ store[i][k] # None
      BY <1>1, <2>3 DEF FindsAgain
    <2>6. i \in Nat /\ o.tier \in Nat /\ i < config.n /\ config.n \in Nat
      BY <1>2, ConfigFacts DEF Tiers
    <2>7. CASE store[o.tier][k] # None
      <3>1. Unresolved(r) = {}
        BY <2>3, <2>4, <2>7
      <3>2. r.from[k] # NoTier
        BY <1>4, <2>3, <3>1 DEF Unresolved
      <3>3. r.pc # "probe" /\ (r.pc = "idle" => r.outcome = "ok")
        BY <2>3, <3>1 DEF ReadGoesOn, PromotionGoesOn, ReadOutcome
      <3> QED
        BY <2>2, <3>2, <3>3 DEF FindsAgain
    <2>8. CASE store[o.tier][k] = None
      <3>1. Unresolved(r) # {}
        BY <2>3, <2>4, <2>8
      <3>2. i # o.tier
        BY <2>5, <2>8
      <3>3. o.tier + 1 # config.n /\ i >= o.tier + 1
        BY <2>5, <2>6, <3>2
      <3>4. r.pc = "probe" /\ r.tier = o.tier + 1
        BY <2>3, <3>1, <3>3 DEF ReadGoesOn
      <3> QED
        BY <2>2, <2>5, <3>3, <3>4 DEF FindsAgain
    <2> QED
      BY <2>7, <2>8
  <1>6. CASE Accepts(c)
    <2>1. PICK s, x, r : AcceptedBy(c, s, x, r)
      BY <1>6 DEF Accepts
    <2>2. Kept(o, r) /\ op' = [op EXCEPT ![c] = r]
      BY <1>1, <2>1, PutKept DEF AcceptedBy
    <2>3. o.pc = "promote"
      BY <1>1, <1>2, <1>3, <1>6 DEF Accepts, Sound, Putting
    <2>4. o.from[k] # NoTier /\ Unresolved(o) = {}
      BY <1>1, <1>4, <2>3 DEF FindsAgain, Unresolved
    <2>5. ReadOutcome(o) = "ok"
      BY <2>4 DEF ReadOutcome
    <2>6. op'[c] = r
      BY <2>2, OneClient
    <2> QED
      BY <2>2, <2>3, <2>4, <2>5, <2>6 DEF Kept, Same, FindsAgain
  <1>7. CASE Removes(c)
    BY <1>1, <1>2, <1>3, <1>7 DEF Removes, Sound, Removing
  <1> QED
    BY <1>5, <1>6, <1>7 DEF Answer

\* What a tier call leaves of a key that is not spoiled.
LEMMA TierKeeps ==
    ASSUME CacheBase, NEW c \in Clients, TierOk(c) \/ TierErr(c), NEW k \in Keys \ spoiled'
    PROVE  /\ k \notin spoiled
           /\ \A i \in Writable : store[i][k] # None => store'[i][k] # None
           /\ op[c].pc \in {"promote", "write"} /\ op[c].todo[1][1] = k => store'[op[c].at][k] # None
           /\ flow[c].at \in {"read", "probe", "reprobe", "fill"} /\ flow[c].key = k =>
                 TierOk(c) /\ Answer(c)
  <1>1. k \notin spoiled /\ k \notin Vanished(c)
    BY TierCalls
  <1>2. \A i \in Writable : store[i][k] # None => store'[i][k] # None
    BY <1>1 DEF Vanished
  <1>3. op[c].pc \in {"promote", "write"} => op[c].at \in Writable
    BY CallFacts DEF Sound, Putting
  <1>4. op[c].pc \in {"promote", "write"} /\ op[c].todo[1][1] = k => store'[op[c].at][k] # None
    BY <1>1, <1>3 DEF Vanished
  <1>5. flow[c].at \in {"read", "probe", "reprobe", "fill"} /\ flow[c].key = k => TierOk(c)
    BY Targeted DEF TierErr
  <1>6. TierOk(c) => Answer(c)
    BY ProbeOkFacts, PutOkFacts, RemoveOkFacts DEF TierOk, Answer, CacheBase
  <1> QED
    BY <1>1, <1>2, <1>4, <1>5, <1>6

LEMMA TierLoaded ==
    ASSUME CacheBase, NEW c \in Clients, TierOk(c) \/ TierErr(c), NEW k \in Keys \ spoiled',
           NEW n, Loaded(store, op, flow, n, k)
    PROVE  Loaded(store', op', flow', n, k)
  <1>1. /\ \A i \in Writable : store[i][k] # None => store'[i][k] # None
        /\ op[c].pc \in {"promote", "write"} /\ op[c].todo[1][1] = k => store'[op[c].at][k] # None
        /\ flow[c].at \in {"read", "probe", "reprobe", "fill"} /\ flow[c].key = k =>
                 TierOk(c) /\ Answer(c)
    BY TierKeeps
  <1>2. flow' = flow /\ Base /\ \A d \in Clients : d # c => op'[d] = op[d]
    <2>1. \E r : op' = [op EXCEPT ![c] = r]
      BY TierCalls, ServesOn DEF CacheBase
    <2> QED
      BY <2>1, TierCalls, OneClient DEF CacheBase
  <1>3. n = 1 => HeldIn(store', k) \/ \E d \in Clients : Fills(flow'[d], op'[d], k)
    <2>1. CASE n = 1 /\ HeldIn(store, k)
      BY <1>1, <2>1 DEF HeldIn
    <2>2. ASSUME NEW d \in Clients, Fills(flow[d], op[d], k), d # c
          PROVE  Fills(flow'[d], op'[d], k)
      BY <1>2, <2>2
    <2>3. CASE Fills(flow[c], op[c], k)
      <3>1. op[c].at \in Writable /\ store'[op[c].at][k] # None
        BY <1>1, <2>3, CallFacts DEF Fills, Sound, Putting
      <3> QED
        BY <3>1 DEF HeldIn
    <2> QED
      BY <2>1, <2>2, <2>3 DEF Loaded
  <1>4. ASSUME NEW d \in Clients PROVE FollowsUp(store', flow'[d], op'[d], n, k)
    <2> SUFFICES ASSUME flow[d].key = k, flow[d].at = "reprobe", n = 1
                 PROVE  FindsAgain(store', op'[d], k)
      BY <1>2 DEF FollowsUp, Loaded
    <2>1. FindsAgain(store, op[d], k)
      BY DEF FollowsUp, Loaded
    <2>2. CASE d = c
      <3>1. Answer(c) /\ Reads(op[c], k)
        BY <1>1, <2>2, CallFacts DEF Serves
      <3> QED
        BY <1>1, <1>2, <2>1, <2>2, <3>1, FindsOn
    <2>3. CASE d # c
      BY <1>1, <1>2, <2>1, <2>3 DEF FindsAgain
    <2> QED
      BY <2>2, <2>3
  <1> QED
    BY <1>3, <1>4 DEF Loaded

Sharing == single_flight /\ Writable # {}

AllLoaded == Sharing => \A k \in Keys \ spoiled : Loaded(store, op, flow, loads[k], k)

LEMMA LoadedStays ==
    ASSUME config' = config, single_flight' = single_flight,
           Sharing => \A k \in Keys \ spoiled' : Loaded(store', op', flow', loads'[k], k)
    PROVE  AllLoaded'
  <1>1. Sharing' = Sharing /\ Writable' = Writable /\ NoTier' = NoTier
    BY Rigid DEF Sharing
  <1> QED
    BY <1>1 DEF AllLoaded, Loaded, HeldIn, Fills, FollowsUp, FindsAgain

\* Two calls under the gate of one key are one.
LEMMA OneGated ==
    ASSUME CacheBase, single_flight, NEW c \in Clients, NEW d \in Clients,
           flow[c].at \in Gated, flow[d].at \in Gated, flow[c].key = flow[d].key
    PROVE  c = d
  <1>1. <<c, flow[c].key>> \in holders /\ <<d, flow[d].key>> \in holders
    BY DEF CacheBase, Flowing, Closed
  <1> QED
    BY <1>1 DEF CacheBase, Flowing, Guarded

LEMMA NextAllLoaded ==
    ASSUME CacheBase, AllLoaded, [CacheNext]_cacheVars
    PROVE  AllLoaded'
  <1>1. CASE CacheNext
    <2>1. PICK c \in config.callers : c \in Clients /\ CacheMoves(c)
      BY <1>1, CacheCases
    <2>2. loads \in [Keys -> 0 .. MaxCount]
      BY DEF CacheBase, OwnTypes
    \* A step that changes no load, of a call that is not filling.
    <2>3. ASSUME NEW f, NEW r, Turns(c, f, r), loads' = loads, spoiled \subseteq spoiled',
                 \A k \in Keys \ spoiled' :
                    Sharing /\ Loaded(store, op, flow, loads[k], k) =>
                       /\ FollowsUp(store, f, r, loads[k], k)
                       /\ ~Fills(flow[c], op[c], k)
          PROVE  AllLoaded'
      <3>1. ASSUME Sharing, NEW k \in Keys \ spoiled'
            PROVE  Loaded(store', op', flow', loads'[k], k)
        <4>1. Loaded(store, op, flow, loads[k], k)
          BY <2>3, <3>1 DEF AllLoaded
        <4>2. Loaded(store, op', flow', loads[k], k)
          BY <2>1, <2>3, <3>1, <4>1, TurnsLoaded
        <4> QED
          BY <2>3, <4>2 DEF Turns
      <3> QED
        BY <2>3, <3>1, LoadedStays DEF Turns
    <2>4. CASE TierOk(c) \/ TierErr(c)
      <3>1. /\ UNCHANGED <<single_flight, loads>> /\ spoiled \subseteq spoiled'
            /\ config' = config
        BY <2>1, <2>4, TierCalls DEF TierCalled, Probes, Accepts, Rejects, Removes
      <3>2. ASSUME Sharing, NEW k \in Keys \ spoiled'
            PROVE  Loaded(store', op', flow', loads'[k], k)
        <4>1. Loaded(store, op, flow, loads[k], k)
          BY <3>1, <3>2 DEF AllLoaded
        <4> QED
          BY <2>1, <2>4, <3>1, <4>1, TierLoaded
      <3> QED
        BY <3>1, <3>2, LoadedStays
    <2>5. CASE Leaves(c)
      <3>1. PICK f : f = At("idle", None)
        OBVIOUS
      <3>2. f.at = "idle"
        BY <3>1 DEF At
      <3>3. ASSUME NEW k \in Keys \ spoiled', Fills(flow[c], op[c], k) PROVE FALSE
        <4>1. flow[c].at = "fill" /\ op[c].pc # "idle" /\ flow[c].key = k
          BY <3>3 DEF Fills
        <4>2. k \in ToSet(Targets(op[c]))
          BY <2>1, <4>1, Targeted
        <4> QED
          BY <2>5, <4>1, <4>2 DEF Leaves
      <3> QED
        BY <2>3, <2>5, <3>1, <3>2, <3>3 DEF Leaves, FollowsUp
    <2>6. CASE Begins(c)
      <3>1. PICK f, r :
               /\ Turns(c, f, r)
               /\ f.at \in {"gate", "probe", "forward"} \/ (f.at = "read" /\ ~single_flight)
        BY <2>6 DEF Begins
      <3> QED
        BY <2>3, <2>6, <3>1 DEF Begins, FollowsUp, Fills
    <2>7. CASE Enters(c, "read")
      <3>1. PICK f, r : f = At("read", flow[c].key) /\ Turns(c, f, r)
        BY <2>7 DEF Enters
      <3>2. f.at = "read"
        BY <3>1 DEF At
      <3> QED
        BY <2>3, <2>7, <3>1, <3>2 DEF Enters, FollowsUp, Fills, Waiting
    <2>8. CASE Enters(c, "reprobe")
      <3>1. PICK f, j, r : /\ j = flow[c].key /\ f = At("reprobe", j)
                           /\ Turns(c, f, r) /\ r.pc = "probe" /\ r.tier = 0
        BY <2>8 DEF Enters
      <3>2. f.at = "reprobe" /\ f.key = j
        BY <3>1 DEF At
      <3>3. /\ \A h \in holders : h[2] # j
            /\ flow[c].at \in Waiting /\ loads' = loads /\ spoiled' = spoiled
        BY <2>8, <3>1 DEF Enters
      <3>4. ASSUME Sharing, Loaded(store, op, flow, loads[j], j), loads[j] = 1
            PROVE  FindsAgain(store, r, j)
        <4>1. ~\E d \in Clients : Fills(flow[d], op[d], j)
          <5> SUFFICES ASSUME NEW d \in Clients, Fills(flow[d], op[d], j) PROVE FALSE
            OBVIOUS
          <5>1. <<d, j>> \in holders
            BY <3>4 DEF Fills, Gated, Sharing, CacheBase, Flowing, Closed
          <5> QED
            BY <3>3, <5>1
        <4>2. PICK i \in Writable : store[i][j] # None
          BY <3>4, <4>1 DEF Loaded, HeldIn
        <4>3. i \in Nat
          BY <2>1, CallFacts, ConfigFacts
        <4> QED
          BY <3>1, <4>2, <4>3 DEF FindsAgain
      <3>5. ASSUME NEW k \in Keys \ spoiled', Sharing, Loaded(store, op, flow, loads[k], k)
            PROVE  FollowsUp(store, f, r, loads[k], k) /\ ~Fills(flow[c], op[c], k)
        BY <3>2, <3>3, <3>4, <3>5 DEF FollowsUp, Fills, Waiting
      <3> QED
        BY <2>3, <3>1, <3>3, <3>5
    <2>9. CASE Proceeds(c, "wait")
      <3>1. PICK f : f = At("wait", flow[c].key)
        OBVIOUS
      <3>2. f.at = "wait" /\ Turns(c, f, NoOperation)
        BY <2>9, <3>1 DEF At, Proceeds
      <3> QED
        BY <2>3, <2>9, <3>2 DEF Proceeds, FollowsUp, Fills
    <2>10. CASE Proceeds(c, "loading")
      <3>1. PICK f, j : j = flow[c].key /\ f = At("loading", j)
        OBVIOUS
      <3>2. f.at = "loading" /\ f.key = j
        BY <3>1 DEF At
      <3>3. Turns(c, f, NoOperation) /\ loads' = loads /\ spoiled' = spoiled
        BY <2>10, <3>1 DEF Proceeds
      <3>4. ASSUME NEW k \in Keys \ spoiled', Sharing, Loaded(store, op, flow, loads[k], k)
            PROVE  FollowsUp(store, f, NoOperation, loads[k], k) /\ ~Fills(flow[c], op[c], k)
        <4>1. flow[c].at = "reprobe" /\ op[c].pc = "idle" /\ ~Hit(c)
          BY <2>10, <3>4 DEF Proceeds, Sharing
        <4>2. k = j => ~FindsAgain(store, op[c], k)
          BY <3>1, <4>1 DEF Hit, FindsAgain
        <4>3. k = j => loads[k] = 0
          BY <2>1, <3>1, <3>4, <4>1, <4>2 DEF Loaded, FollowsUp
        <4> QED
          BY <3>2, <4>1, <4>3 DEF FollowsUp, Fills
      <3> QED
        BY <2>3, <3>3, <3>4
    <2>11. CASE Loads(c)
      <3>1. PICK j : j = flow[c].key
        OBVIOUS
      <3>2. PICK f, r :
               /\ f = At("fill", j) /\ Turns(c, f, r)
               /\ Writable # {} => r.pc = "write" /\ r.todo[1][1] = j
        BY <2>11, <3>1 DEF Loads
      <3>3. /\ flow[c].at = "loading" /\ loads' = Count(loads, j) /\ spoiled' = spoiled
        BY <2>11, <3>1 DEF Loads
      <3>4. f.at = "fill" /\ f.key = j
        BY <3>2 DEF At
      <3>5. j \in Keys
        BY <2>1, <3>1, <3>3, CallFacts
      <3>6. /\ flow'[c] = f /\ op'[c] = r
            /\ \A d \in Clients : d # c => flow'[d] = flow[d] /\ op'[d] = op[d]
        BY <2>1, <3>2, OneCall
      <3>7. ASSUME Sharing, NEW k \in Keys \ spoiled'
            PROVE  Loaded(store', op', flow', loads'[k], k)
        <4>1. Loaded(store, op, flow, loads[k], k)
          BY <3>3, <3>7 DEF AllLoaded
        <4>2. CASE k # j
          <5>1. loads'[k] = loads[k]
            BY <2>2, <3>3, <3>5, <4>2, CountFacts
          <5>2. FollowsUp(store, f, r, loads[k], k) /\ ~Fills(flow[c], op[c], k)
            BY <3>3, <3>4, <4>2 DEF FollowsUp, Fills
          <5>3. Loaded(store, op', flow', loads[k], k)
            BY <2>1, <3>2, <4>1, <5>2, TurnsLoaded
          <5> QED
            BY <3>2, <5>1, <5>3 DEF Turns
        <4>3. CASE k = j
          <5>1. loads[k] = 0
            BY <2>1, <3>1, <3>3, <4>1, <4>3 DEF Loaded, FollowsUp
          <5>2. loads'[k] = 1
            BY <2>2, <3>3, <3>5, <4>3, <5>1, CountFacts
          <5>3. Fills(flow'[c], op'[c], k)
            BY <3>2, <3>4, <3>6, <3>7, <4>3 DEF Fills, Sharing
          <5>4. ASSUME NEW d \in Clients PROVE FollowsUp(store', flow'[d], op'[d], 1, k)
            <6>1. CASE d = c
              BY <3>4, <3>6, <6>1 DEF FollowsUp
            <6>2. CASE d # c
              <7>1. ~(flow[d].key = k /\ flow[d].at \in {"reprobe", "loading"})
                BY <2>1, <3>1, <3>3, <3>7, <4>3, <6>2, OneGated DEF Gated, Sharing
              <7> QED
                BY <3>6, <6>2, <7>1 DEF FollowsUp
            <6> QED
              BY <6>1, <6>2
          <5> QED
            BY <2>1, <5>2, <5>3, <5>4 DEF Loaded
        <4> QED
          BY <4>2, <4>3
      <3> QED
        BY <3>2, <3>7, LoadedStays DEF Turns
    <2> QED
      BY <2>1, <2>4, <2>5, <2>6, <2>7, <2>8, <2>9, <2>10, <2>11 DEF CacheMoves
  <1>2. CASE UNCHANGED cacheVars
    BY <1>2, LoadedStays DEF cacheVars, vars, own, AllLoaded
  <1> QED
    BY <1>1, <1>2

(***************************************************************************)
(* get_or_load: callers that miss a key together share one load, in every  *)
(* interleaving of their probes, the leader's load and its fill, and for   *)
(* every stack and policy: LoadOnce.                                       *)
(***************************************************************************)
THEOREM LoadsShared == CacheSpec => []LoadOnce
  <1>1. CacheInit => AllLoaded
    <2> SUFFICES ASSUME CacheInit PROVE AllLoaded
      OBVIOUS
    <2>1. /\ \A k \in Keys : loads[k] = 0
          /\ \A c \in Clients : flow[c].at = "idle"
      BY DEF CacheInit, At
    <2> QED
      BY <2>1 DEF AllLoaded, Loaded, FollowsUp
  <1>2. CacheBase /\ AllLoaded /\ [CacheNext]_cacheVars => AllLoaded'
    BY NextAllLoaded
  <1>3. AllLoaded => LoadOnce
    BY DEF AllLoaded, Sharing, Loaded, LoadOnce
  <1> QED
    BY <1>1, <1>2, <1>3, CacheBaseHolds, PTL DEF CacheSpec

-----------------------------------------------------------------------------
(* The cache: one cold read                                                *)

\* A key that was served by a read-only tier is in the top tier, or about to be
\* put there by the call that read it; so a later read does not get past the
\* top, and one that has got past it is the first.
Warms(f, o, k) ==
    f.at = "read" /\ f.key = k /\ o.pc = "promote" /\ o.at = 0 /\ o.todo[1][1] = k

StopsAtTop(st, f, o, n, k) ==
    f.at = "read" /\ f.key = k /\ o.pc = "probe" =>
        IF o.tier = 0 THEN n = 1 => st[0][k] # None ELSE n = 0

ServedOnce(st, os, fl, n, k) ==
    /\ n = 0 \/ n = 1
    /\ n = 1 => st[0][k] # None \/ \E c \in Clients : Warms(fl[c], os[c], k)
    /\ \A c \in Clients : StopsAtTop(st, fl[c], os[c], n, k)

LEMMA TurnsServed ==
    ASSUME CacheBase, NEW c \in Clients, NEW f, NEW r, Turns(c, f, r), NEW k, NEW n,
           ServedOnce(store, op, flow, n, k), StopsAtTop(store, f, r, n, k),
           ~Warms(flow[c], op[c], k)
    PROVE  ServedOnce(store, op', flow', n, k)
  <1>1. /\ flow'[c] = f /\ op'[c] = r
        /\ \A d \in Clients : d # c => flow'[d] = flow[d] /\ op'[d] = op[d]
    BY OneCall
  <1>2. n = 1 => store[0][k] # None \/ \E d \in Clients : Warms(flow'[d], op'[d], k)
    <2> SUFFICES ASSUME n = 1, store[0][k] = None PROVE \E d \in Clients : Warms(flow'[d], op'[d], k)
      OBVIOUS
    <2>1. PICK d \in Clients : Warms(flow[d], op[d], k)
      BY DEF ServedOnce
    <2>2. d # c
      BY <2>1
    <2> QED
      BY <1>1, <2>1, <2>2
  <1>3. \A d \in Clients : StopsAtTop(store, flow'[d], op'[d], n, k)
    BY <1>1 DEF ServedOnce
  <1> QED
    BY <1>2, <1>3 DEF ServedOnce

\* A read that a lower tier answers promotes its key to the top.
LEMMA WarmsNext ==
    ASSUME Base, NEW c \in Clients, NEW k \in Keys, Reads(op[c], k), Answers(c),
           0 \in Writable, config.policy.promote # "Never",
           op[c].tier # 0, store[op[c].tier][k] # None
    PROVE  op'[c].pc = "promote" /\ op'[c].at = 0 /\ op'[c].todo[1][1] = k
  <1>1. PICK o : o = op[c]
    OBVIOUS
  <1>2. PICK r : op' = [op EXCEPT ![c] = r] /\ AnswerStep(o, r)
    BY <1>1 DEF Answers
  <1>3. op'[c] = r
    BY <1>2, OneClient
  <1>4. /\ o.pc = "probe" /\ Sound(r) /\ r.keys = o.keys /\ r.kind = o.kind /\ Learned(o, r)
        /\ ReadGoesOn(o, r) /\ Unresolved(r) = {x \in Unresolved(o) : store[o.tier][x] = None}
    BY <1>2 DEF AnswerStep, ProbeStep
  <1>5. o.kind = "read" /\ r.keys = <<k>> /\ o.from[k] = NoTier
    BY <1>1, <1>4 DEF Reads
  <1>6. ToSet(r.keys) = {k}
    <2>1. PICK q : q = r.keys
      OBVIOUS
    <2>2. q \in Seq(Keys)
      BY <1>4, <2>1 DEF Sound, Registers
    <2>3. Len(q) = 1 /\ q[1] = k
      BY <1>5, <2>1
    <2> QED
      BY <2>1, <2>2, <2>3, OneElement
  <1>7. k \notin Unresolved(r)
    BY <1>1, <1>4
  <1>8. Unresolved(r) = {} /\ r.from[k] # NoTier
    BY <1>6, <1>7 DEF Unresolved
  <1>9. r.from[k] = o.tier
    BY <1>4, <1>5, <1>8 DEF Learned
  <1>10. o.tier \in Tiers
    BY <1>1, Types DEF Base, Registers
  <1>11. PromotesTop(r, r) /\ PromotionGoesOn(r, r)
    BY <1>4, <1>8 DEF ReadGoesOn
  <1>12. r.pc = "promote" /\ r.at = 0
    BY <1>1, <1>4, <1>5, <1>6, <1>9, <1>10, <1>11 DEF PromotesTop
  <1>13. r.todo \in Seq(Entries) /\ r.todo # <<>>
    BY <1>4, <1>12 DEF Sound, Registers, Putting
  <1>14. PICK e : e = r.todo[1]
    OBVIOUS
  <1>15. e \in ToSet(r.todo)
    BY <1>13, <1>14, Elements
  <1>16. e[1] = k
    BY <1>6, <1>11, <1>12, <1>15 DEF PromotionGoesOn
  <1> QED
    BY <1>3, <1>12, <1>14, <1>16

\* Another probe has not met the key.
LEMMA ProbesPast ==
    ASSUME Base, NEW c \in Clients, NEW k \in Keys, Reads(op[c], k), Answer(c), op'[c].pc = "probe"
    PROVE  /\ op[c].pc = "probe" /\ store[op[c].tier][k] = None
           /\ op'[c].tier # 0
  <1>1. PICK o : o = op[c]
    OBVIOUS
  <1>2. Sound(o) /\ o.kind = "read"
    BY <1>1 DEF Base, Reads
  <1>3. CASE Answers(c)
    <2>1. PICK r : op' = [op EXCEPT ![c] = r] /\ AnswerStep(o, r)
      BY <1>1, <1>3 DEF Answers
    <2>2. op'[c] = r
      BY <2>1, OneClient
    <2>3. /\ o.pc = "probe" /\ r.keys = o.keys /\ ReadGoesOn(o, r)
          /\ Unresolved(r) = {x \in Unresolved(o) : store[o.tier][x] = None}
      BY <2>1 DEF AnswerStep, ProbeStep
    <2>4. r.tier = o.tier + 1 /\ Unresolved(r) # {}
      BY <2>2, <2>3 DEF ReadGoesOn, PromotionGoesOn
    <2>5. o.tier \in Nat
      BY <1>1, Types, ConfigFacts DEF Base, Registers
    <2>6. ToSet(o.keys) = {k}
      <3>1. PICK q : q = o.keys
        OBVIOUS
      <3>2. q \in Seq(Keys)
        BY <1>2, <3>1 DEF Sound, Registers
      <3>3. q = <<k>>
        BY <1>1, <3>1 DEF Reads
      <3>4. Len(q) = 1 /\ q[1] = k
        BY <3>3
      <3> QED
        BY <3>1, <3>2, <3>4, OneElement
    <2>7. store[o.tier][k] = None
      BY <2>3, <2>4, <2>6 DEF Unresolved
    <2> QED
      BY <1>1, <2>2, <2>3, <2>4, <2>5, <2>7
  <1>4. CASE Accepts(c)
    <2>1. PICK s, x, r : AcceptedBy(c, s, x, r)
      BY <1>4 DEF Accepts
    <2>2. Kept(o, r) /\ op' = [op EXCEPT ![c] = r]
      BY <1>1, <2>1, PutKept DEF AcceptedBy
    <2>3. o.pc = "promote" /\ op'[c] = r
      BY <1>1, <1>2, <1>4, <2>2, OneClient DEF Accepts, Sound, Putting
    <2> QED
      BY <2>2, <2>3 DEF Kept
  <1>5. CASE Removes(c)
    BY <1>1, <1>2, <1>5 DEF Removes, Sound, Removing
  <1> QED
    BY <1>3, <1>4, <1>5 DEF Answer

Warming == single_flight /\ 0 \in Writable /\ config.policy.promote # "Never"

LEMMA TierServed ==
    ASSUME CacheBase, Warming, NEW c \in Clients, TierOk(c) \/ TierErr(c), NEW k \in Keys \ spoiled',
           ServedOnce(store, op, flow, cold[k], k)
    PROVE  ServedOnce(store', op', flow', cold'[k], k)
  <1>1. /\ \A i \in Writable : store[i][k] # None => store'[i][k] # None
        /\ op[c].pc \in {"promote", "write"} /\ op[c].todo[1][1] = k => store'[op[c].at][k] # None
        /\ flow[c].at \in {"read", "probe", "reprobe", "fill"} /\ flow[c].key = k =>
                 TierOk(c) /\ Answer(c)
    BY TierKeeps
  <1>2. flow' = flow /\ Base /\ \A d \in Clients : d # c => op'[d] = op[d]
    <2>1. \E r : op' = [op EXCEPT ![c] = r]
      BY TierCalls, ServesOn DEF CacheBase
    <2> QED
      BY <2>1, TierCalls, OneClient DEF CacheBase
  <1>3. /\ cold \in [Keys -> 0 .. MaxCount]
        /\ cold' = cold \/ (TierOk(c) /\ ServedCold(c) /\ cold' = Count(cold, flow[c].key))
    BY TierCalls DEF CacheBase, OwnTypes
  <1>4. store[0][k] # None => store'[0][k] # None
    BY <1>1 DEF Warming
  <1>5. CASE cold'[k] = cold[k]
    <2>1. cold[k] = 1 => store'[0][k] # None \/ \E d \in Clients : Warms(flow'[d], op'[d], k)
      <3>1. ASSUME NEW d \in Clients, Warms(flow[d], op[d], k), d # c
            PROVE  Warms(flow'[d], op'[d], k)
        BY <1>2, <3>1
      <3>2. CASE Warms(flow[c], op[c], k)
        BY <1>1, <3>2 DEF Warms
      <3> QED
        BY <1>4, <3>1, <3>2 DEF ServedOnce
    <2>2. ASSUME NEW d \in Clients PROVE StopsAtTop(store', flow'[d], op'[d], cold[k], k)
      <3>1. StopsAtTop(store, flow[d], op[d], cold[k], k) /\ (cold[k] = 0 \/ cold[k] = 1)
        BY DEF ServedOnce
      <3>2. CASE d # c
        BY <1>2, <1>4, <3>1, <3>2 DEF StopsAtTop
      <3>3. CASE d = c
        <4> SUFFICES ASSUME flow[c].at = "read", flow[c].key = k, op'[c].pc = "probe"
                     PROVE  op'[c].tier # 0 /\ cold[k] = 0
          BY <1>2, <3>3 DEF StopsAtTop
        <4>1. Reads(op[c], k) /\ Answer(c)
          BY <1>1, CallFacts DEF Serves
        <4>2. op[c].pc = "probe" /\ store[op[c].tier][k] = None /\ op'[c].tier # 0
          BY <1>2, <4>1, ProbesPast
        <4> QED
          BY <3>1, <3>3, <4>2 DEF StopsAtTop
      <3> QED
        BY <3>2, <3>3
    <2> QED
      BY <1>5, <2>1, <2>2 DEF ServedOnce
  <1>6. CASE cold'[k] # cold[k]
    <2>1. TierOk(c) /\ ServedCold(c) /\ cold' = Count(cold, flow[c].key)
      BY <1>3, <1>6
    <2>2. /\ flow[c].at = "read" /\ op[c].pc = "probe" /\ op[c].tier \notin Writable
          /\ store[op[c].tier][flow[c].key] # None
      BY <2>1 DEF ServedCold, Is
    <2>3. flow[c].key = k
      <3>1. flow[c].key \in Keys
        BY <2>2, CallFacts
      <3> QED
        BY <1>3, <1>6, <2>1, <3>1, CountFacts
    <2>4. op[c].tier # 0
      BY <2>2 DEF Warming
    <2>5. cold[k] = 0
      BY <2>2, <2>3, <2>4 DEF ServedOnce, StopsAtTop
    <2>6. cold'[k] = 1
      BY <1>3, <2>1, <2>3, <2>5, CountFacts
    <2>7. Answers(c)
      BY <1>1, <2>2, <2>3 DEF Answer, Accepts, Removes
    <2>8. Reads(op[c], k)
      BY <2>2, <2>3, CallFacts DEF Serves
    <2>9. op'[c].pc = "promote" /\ op'[c].at = 0 /\ op'[c].todo[1][1] = k
      BY <1>2, <2>2, <2>3, <2>4, <2>7, <2>8, WarmsNext DEF Warming
    <2>10. Warms(flow'[c], op'[c], k)
      BY <1>2, <2>2, <2>3, <2>9 DEF Warms
    <2>11. ASSUME NEW d \in Clients PROVE StopsAtTop(store', flow'[d], op'[d], 1, k)
      <3>1. CASE d = c
        BY <2>9, <3>1 DEF StopsAtTop
      <3>2. CASE d # c
        <4>1. ~(flow[d].at = "read" /\ flow[d].key = k)
          BY <2>2, <2>3, <3>2, OneGated DEF Warming, Gated
        <4> QED
          BY <1>2, <4>1 DEF StopsAtTop
      <3> QED
        BY <3>1, <3>2
    <2> QED
      BY <2>6, <2>10, <2>11 DEF ServedOnce
  <1> QED
    BY <1>5, <1>6

AllServed == Warming => \A k \in Keys \ spoiled : ServedOnce(store, op, flow, cold[k], k)

LEMMA ServedStays ==
    ASSUME config' = config, single_flight' = single_flight,
           Warming => \A k \in Keys \ spoiled' : ServedOnce(store', op', flow', cold'[k], k)
    PROVE  AllServed'
  <1>1. Warming' = Warming
    BY Rigid DEF Warming
  <1> QED
    BY <1>1 DEF AllServed, ServedOnce, Warms, StopsAtTop

LEMMA NextAllServed ==
    ASSUME CacheBase, AllServed, [CacheNext]_cacheVars
    PROVE  AllServed'
  <1>1. CASE CacheNext
    <2>1. PICK c \in config.callers : c \in Clients /\ CacheMoves(c)
      BY <1>1, CacheCases
    <2>2. CASE TierOk(c) \/ TierErr(c)
      <3>1. /\ UNCHANGED single_flight /\ spoiled \subseteq spoiled' /\ config' = config
        BY <2>1, <2>2, TierCalls DEF TierCalled, Probes, Accepts, Rejects, Removes
      <3>2. ASSUME Warming, NEW k \in Keys \ spoiled'
            PROVE  ServedOnce(store', op', flow', cold'[k], k)
        <4>1. ServedOnce(store, op, flow, cold[k], k)
          BY <3>1, <3>2 DEF AllServed
        <4> QED
          BY <2>1, <2>2, <3>2, <4>1, TierServed
      <3> QED
        BY <3>1, <3>2, ServedStays
    \* A step that calls no tier, of a call that is not promoting.
    <2>3. ASSUME NEW f, NEW r, Turns(c, f, r), spoiled \subseteq spoiled',
                 \A k \in Keys \ spoiled' :
                    Warming /\ ServedOnce(store, op, flow, cold[k], k) =>
                       /\ StopsAtTop(store, f, r, cold[k], k)
                       /\ ~Warms(flow[c], op[c], k)
          PROVE  AllServed'
      <3>1. ASSUME Warming, NEW k \in Keys \ spoiled'
            PROVE  ServedOnce(store', op', flow', cold'[k], k)
        <4>1. ServedOnce(store, op, flow, cold[k], k)
          BY <2>3, <3>1 DEF AllServed
        <4>2. ServedOnce(store, op', flow', cold[k], k)
          BY <2>1, <2>3, <3>1, <4>1, TurnsServed
        <4> QED
          BY <2>3, <4>2 DEF Turns
      <3> QED
        BY <2>3, <3>1, ServedStays DEF Turns
    <2>4. CASE Leaves(c)
      <3>1. PICK f : f = At("idle", None)
        OBVIOUS
      <3>2. f.at = "idle"
        BY <3>1 DEF At
      <3>3. ASSUME NEW k \in Keys \ spoiled', Warms(flow[c], op[c], k) PROVE FALSE
        <4>1. flow[c].at = "read" /\ op[c].pc # "idle" /\ flow[c].key = k
          BY <3>3 DEF Warms
        <4>2. k \in ToSet(Targets(op[c]))
          BY <2>1, <4>1, Targeted
        <4> QED
          BY <2>4, <4>1, <4>2 DEF Leaves
      <3> QED
        BY <2>3, <2>4, <3>1, <3>2, <3>3 DEF Leaves, StopsAtTop
    <2>5. CASE Begins(c)
      <3>1. PICK f, r :
               /\ Turns(c, f, r)
               /\ f.at \in {"gate", "probe", "forward"} \/ (f.at = "read" /\ ~single_flight)
        BY <2>5 DEF Begins
      <3> QED
        BY <2>3, <2>5, <3>1 DEF Begins, StopsAtTop, Warms, Warming
    <2>6. CASE Enters(c, "read")
      <3>1. PICK f, j, r : /\ j = flow[c].key /\ f = At("read", j)
                           /\ Turns(c, f, r) /\ r.pc = "probe" /\ r.tier = 0
        BY <2>6 DEF Enters
      <3>2. f.at = "read" /\ f.key = j
        BY <3>1 DEF At
      <3>3. (\A h \in holders : h[2] # j) /\ flow[c].at \in Waiting /\ spoiled' = spoiled
        BY <2>6, <3>1 DEF Enters
      <3>4. ASSUME NEW k \in Keys \ spoiled', Warming, ServedOnce(store, op, flow, cold[k], k)
            PROVE  StopsAtTop(store, f, r, cold[k], k) /\ ~Warms(flow[c], op[c], k)
        <4>1. k = j => ~\E d \in Clients : Warms(flow[d], op[d], k)
          <5> SUFFICES ASSUME k = j, NEW d \in Clients, Warms(flow[d], op[d], k) PROVE FALSE
            OBVIOUS
          <5>1. <<d, j>> \in holders
            BY <3>4 DEF Warms, Gated, Warming, CacheBase, Flowing, Closed
          <5> QED
            BY <3>3, <5>1
        <4>2. k = j /\ cold[k] = 1 => store[0][k] # None
          BY <3>4, <4>1 DEF ServedOnce
        <4>3. ~Warms(flow[c], op[c], k)
          BY <3>3 DEF Warms, Waiting
        <4> QED
          BY <3>1, <3>2, <4>2, <4>3 DEF StopsAtTop
      <3> QED
        BY <2>3, <3>1, <3>3, <3>4
    <2>7. CASE Enters(c, "reprobe")
      <3>1. PICK f, r : f = At("reprobe", flow[c].key) /\ Turns(c, f, r)
        BY <2>7 DEF Enters
      <3>2. f.at = "reprobe"
        BY <3>1 DEF At
      <3> QED
        BY <2>3, <2>7, <3>1, <3>2 DEF Enters, StopsAtTop, Warms, Waiting
    <2>8. ASSUME NEW step \in {"wait", "loading"}, Proceeds(c, step) PROVE AllServed'
      <3>1. PICK f : f = At(step, flow[c].key)
        OBVIOUS
      <3>2. f.at = step /\ Turns(c, f, NoOperation)
        BY <2>8, <3>1 DEF At, Proceeds
      <3> QED
        BY <2>3, <2>8, <3>2 DEF Proceeds, StopsAtTop, Warms
    <2>9. CASE Loads(c)
      <3>1. PICK f, r : f = At("fill", flow[c].key) /\ Turns(c, f, r)
        BY <2>9 DEF Loads
      <3>2. f.at = "fill"
        BY <3>1 DEF At
      <3> QED
        BY <2>3, <2>9, <3>1, <3>2 DEF Loads, StopsAtTop, Warms
    <2> QED
      BY <2>1, <2>2, <2>4, <2>5, <2>6, <2>7, <2>8, <2>9 DEF CacheMoves
  <1>2. CASE UNCHANGED cacheVars
    BY <1>2, ServedStays DEF cacheVars, vars, own, AllServed
  <1> QED
    BY <1>1, <1>2

(***************************************************************************)
(* get, lookup: of the gated reads of a key one is served by a read-only   *)
(* tier, and those that wait find it promoted, whatever else is read,      *)
(* written and loaded meanwhile: ColdOnce.                                 *)
(***************************************************************************)
THEOREM ColdReadOnce == CacheSpec => []ColdOnce
  <1>1. CacheInit => AllServed
    <2> SUFFICES ASSUME CacheInit PROVE AllServed
      OBVIOUS
    <2>1. /\ \A k \in Keys : cold[k] = 0
          /\ \A c \in Clients : flow[c].at = "idle"
      BY DEF CacheInit, At
    <2> QED
      BY <2>1 DEF AllServed, ServedOnce, StopsAtTop
  <1>2. CacheBase /\ AllServed /\ [CacheNext]_cacheVars => AllServed'
    BY NextAllServed
  <1>3. AllServed => ColdOnce
    BY DEF AllServed, Warming, ServedOnce, ColdOnce
  <1> QED
    BY <1>1, <1>2, <1>3, CacheBaseHolds, PTL DEF CacheSpec
=============================================================================
