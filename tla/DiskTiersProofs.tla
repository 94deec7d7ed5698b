--------------------------- MODULE DiskTiersProofs ---------------------------
(***************************************************************************)
(* The tiers with one file per key keep their memory in sync and their     *)
(* files whole, for any callers, keys, values, limits and failing calls,   *)
(* wherever threads interleave and the process ends.                       *)
(***************************************************************************)
EXTENDS DiskTiers, FiniteSetTheorems, SequenceTheorems, WellFoundedInduction, TLAPS

-----------------------------------------------------------------------------
(* The memory behind the lock                                              *)

MostTickets == Max({2 * Cardinality(Keys), CompactMin})

\* Every accounted key has a stamp and a ticket.
Ticketing(i) == Accounted(i) = i.stamps /\ i.stamps \subseteq ToSet(i.order)
SumOf(i) == MapThenSumSet(LAMBDA k : i.sizes[k], Accounted(i))
NoGhosts(i) == \A k \in Keys : i.maps[k] # None => i.sizes[k] # None
Synced(i) ==
    /\ i \in Inners /\ Ticketing(i) /\ Len(i.order) <= MostTickets
    /\ i.total = SumOf(i) /\ NoGhosts(i)

\* The budget holds after a put, and while a clear holds the lock.
BudgetKept ==
    settled /\ config.budget # None /\ (lock = None \/ \E t \in Threads : th[t].pc = "clear") =>
        inner.total <= config.budget

(***************************************************************************)
(* What a thread's registers hold at each step.                            *)
(***************************************************************************)
Holds(t, r) ==
    /\ r.pc \notin {"idle", "evict", "clear"} => r.key \in Keys
    /\ r.pc \in {"write", "remap", "account"} =>
          r.value \in Values /\ t \in config.writers[r.key]
    /\ r.pc = "write" => r.at <= Size(r.value)
    /\ r.pc \in {"read", "insert", "write"} => r.file # None
Registered == \A t \in Threads : Holds(t, th[t])

(***************************************************************************)
(* Files: names are apart; a temporary file is written and nothing else.   *)
(***************************************************************************)
NamesApart ==
    \A k, j \in Keys :
        /\ dir[k] # None => (dir[k] = dir[j] => k = j) /\ dir[k] # tmp[j]
        /\ tmp[k] # None => (tmp[k] = tmp[j] => k = j)

TmpPrivate ==
    \A k \in Keys : tmp[k] # None =>
        /\ \A j \in Keys : inner.maps[j] # tmp[k]
        /\ \A t \in Threads : th[t].file = tmp[k] => th[t].pc = "write" /\ th[t].key = k

WritesOwnFile ==
    \A t \in Threads, k \in Keys : th[t].pc = "write" /\ dir[k] = th[t].file => k = th[t].key

\* The only writer of a key has its file for itself, and knows its bytes.
Prefix(v, n) == [m \in 1 .. n |-> v]
Exclusive ==
    \A t \in Threads : th[t].pc = "write" /\ OneWriter(th[t].key) =>
        /\ \A k \in Keys : th[t].file \notin {dir[k], inner.maps[k]}
        /\ \A u \in Threads : u # t => th[u].file # th[t].file
        /\ tmp[th[t].key] \in {None, th[t].file}
        /\ body[th[t].file] = Prefix(th[t].value, th[t].at)

FilesSound == NamesApart /\ TmpPrivate /\ WritesOwnFile /\ Exclusive /\ WholeValues

IInv == TypeOK /\ Synced(inner) /\ BudgetKept /\ Registered /\ FilesSound

(***************************************************************************)
(* One caller: what its call has done so far.                              *)
(***************************************************************************)
Quiet == OneCaller /\ config.fails \subseteq {"write"}
Callers == config.readers \cup UNION {config.writers[k] : k \in Keys}
Busy(k, phases) == \E t \in Threads : th[t].pc \in phases /\ th[t].key = k
SizeOnDisk(k) == IF dir[k] = None THEN None ELSE Len(body[dir[k]])

OthersIdle == \A t \in Threads : th[t].pc # "idle" => t \in Callers
MapsCurrent ==
    \A k \in Keys :
        \/ inner.maps[k] \in {None, dir[k]}
        \/ config.kind = "disk"
        \/ Busy(k, {"remap", "account"})
SizesCurrent ==
    \A k \in Keys :
        \/ inner.sizes[k] = SizeOnDisk(k)
        \/ config.kind = "disk"
        \/ Busy(k, {"remap", "account", "delete", "unlink"})
        \/ \E t \in Threads : th[t].pc = "clear"
CallCurrent(t) ==
    /\ th[t].pc \in {"insert", "remap", "account", "evict", "unlink", "clear"} => config.kind = "mmap"
    /\ th[t].pc \in {"insert", "account"} => th[t].file = dir[th[t].key]
    /\ th[t].pc \in {"remap", "account"} =>
          dir[th[t].key] # None /\ body[dir[th[t].key]] = Body(th[t].value)
    /\ th[t].pc \in {"delete", "unlink"} => kept[th[t].key] = None /\ inner.sizes[th[t].key] = None
    /\ th[t].pc = "clear" =>
          th[t].names = Existing /\ \A k \in Keys : inner.sizes[k] = None /\ kept[k] = None

QInv ==
    Quiet => /\ OthersIdle /\ MapsCurrent /\ SizesCurrent /\ PutKept
             /\ \A t \in Threads : CallCurrent(t)

-----------------------------------------------------------------------------
(* Enumerations                                                            *)

\* An element has fewer elements below it than the set has.
LEMMA RankType ==
    ASSUME NEW S \in SUBSET Nat, IsFiniteSet(S), NEW s \in S
    PROVE  Rank(S, s) \in Nat /\ Rank(S, s) + 1 \in 1 .. Cardinality(S)
  <1> DEFINE L == {r \in S : r < s}
  <1>1. L \in SUBSET (S \ {s}) /\ Rank(S, s) = Cardinality(L)
    BY DEF Rank
  <1>2. Cardinality(S) \in Nat /\ Cardinality(S \ {s}) = Cardinality(S) - 1 /\ IsFiniteSet(S \ {s})
    BY FS_RemoveElement, FS_CardinalityType
  <1> HIDE DEF L
  <1>3. IsFiniteSet(L) /\ Cardinality(L) <= Cardinality(S \ {s})
    BY <1>1, <1>2, FS_Subset
  <1>4. Cardinality(L) \in Nat
    BY <1>3, FS_CardinalityType
  <1> QED
    BY <1>1, <1>2, <1>3, <1>4

\* The number of smaller elements tells the elements of a set apart.
LEMMA RankMonotone ==
    ASSUME NEW S \in SUBSET Nat, IsFiniteSet(S), NEW s \in S, NEW t \in S, s < t
    PROVE  Rank(S, s) < Rank(S, t)
  <1> DEFINE L == {r \in S : r < s}
             M == {r \in S : r < t}
  <1>1. L \in SUBSET M /\ L # M /\ M \in SUBSET S
    <2>1. L \in SUBSET M /\ M \in SUBSET S
      <3>1. \A r \in S : r < s => r < t
        OBVIOUS
      <3> QED
        BY <3>1
    <2>2. s \in M /\ s \notin L
      OBVIOUS
    <2> HIDE DEF L, M
    <2> QED
      BY <2>1, <2>2
  <1>2. Rank(S, s) = Cardinality(L) /\ Rank(S, t) = Cardinality(M)
    BY DEF Rank
  <1>3. Rank(S, s) \in Nat /\ Rank(S, t) \in Nat
    BY RankType
  <1> HIDE DEF L, M
  <1>4. IsFiniteSet(M)
    BY <1>1, FS_Subset
  <1>5. Cardinality(L) <= Cardinality(M) /\ (Cardinality(M) = Cardinality(L) => M = L)
    BY <1>1, <1>4, FS_Subset
  <1> QED
    BY <1>1, <1>2, <1>3, <1>5

LEMMA RankInjective ==
    ASSUME NEW S \in SUBSET Nat, IsFiniteSet(S), NEW s \in S, NEW t \in S,
           Rank(S, s) = Rank(S, t)
    PROVE  s = t
  <1>1. s < t \/ t < s \/ s = t
    OBVIOUS
  <1>2. s < t => Rank(S, s) < Rank(S, t)
    BY RankMonotone
  <1>3. t < s => Rank(S, t) < Rank(S, s)
    BY RankMonotone
  <1> QED
    BY <1>1, <1>2, <1>3, RankType

\* Every rank is taken: as many elements as ranks, no two with the same.
LEMMA RankSurjective ==
    ASSUME NEW S \in SUBSET Nat, IsFiniteSet(S), NEW n \in 1 .. Cardinality(S)
    PROVE  \E s \in S : Rank(S, s) = n - 1
  <1> DEFINE rank == [s \in S |-> Rank(S, s) + 1]
             N == 1 .. Cardinality(S)
  <1>1. Cardinality(S) \in Nat
    BY FS_CardinalityType
  <1>2. IsFiniteSet(N) /\ Cardinality(N) = Cardinality(S)
    BY <1>1, FS_Interval
  <1>3. rank \in Injection(S, N)
    <2>1. rank \in [S -> N]
      BY RankType
    <2>2. \A s, t \in S : rank[s] = rank[t] => s = t
      BY RankType, RankInjective
    <2> QED
      BY <2>1, <2>2 DEF Injection, IsInjective
  <1>4. rank \in Surjection(S, N)
    <2> HIDE DEF rank, N
    <2> QED
      BY <1>2, <1>3, FS_Injection
  <1>5. \E s \in S : rank[s] = n
    <2> HIDE DEF rank
    <2> QED
      BY <1>4 DEF Surjection
  <1> QED
    BY <1>1, <1>5, RankType

\* Ascending enumerates the set, each element once.
LEMMA AscendingEnumerates ==
    ASSUME NEW S \in SUBSET Nat, IsFiniteSet(S)
    PROVE  /\ Cardinality(S) \in Nat
           /\ Ascending(S) \in [1 .. Cardinality(S) -> S]
           /\ IsInjective(Ascending(S))
           /\ \A s \in S : \E n \in 1 .. Cardinality(S) : Ascending(S)[n] = s
  <1>1. Cardinality(S) \in Nat
    BY FS_CardinalityType
  <1>2. Ascending(S) = [n \in 1 .. Cardinality(S) |-> CHOOSE s \in S : Rank(S, s) = n - 1]
    BY DEF Ascending
  <1>3. \A n \in 1 .. Cardinality(S) :
            Ascending(S)[n] \in S /\ Rank(S, Ascending(S)[n]) = n - 1
    BY <1>2, RankSurjective
  <1>4. \A s \in S : Rank(S, s) + 1 \in 1 .. Cardinality(S) /\ Ascending(S)[Rank(S, s) + 1] = s
    <2> SUFFICES ASSUME NEW s \in S
                 PROVE  Rank(S, s) + 1 \in 1 .. Cardinality(S) /\ Ascending(S)[Rank(S, s) + 1] = s
      OBVIOUS
    <2>1. Rank(S, s) \in Nat /\ Rank(S, s) + 1 \in 1 .. Cardinality(S)
      BY RankType
    <2> DEFINE t == Ascending(S)[Rank(S, s) + 1]
    <2>2. t \in S /\ Rank(S, t) = Rank(S, s)
      BY <1>3, <2>1
    <2> HIDE DEF t
    <2>3. t = s
      BY <2>2, RankInjective
    <2> QED
      BY <2>1, <2>3 DEF t
  <1>5. IsInjective(Ascending(S))
    <2>1. DOMAIN Ascending(S) = 1 .. Cardinality(S)
      BY <1>2
    <2>2. ASSUME NEW m \in 1 .. Cardinality(S), NEW n \in 1 .. Cardinality(S),
                 Ascending(S)[m] = Ascending(S)[n]
          PROVE  m = n
      <3>1. m - 1 = n - 1
        BY <1>3, <2>2
      <3> QED
        BY <1>1, <3>1
    <2> QED
      BY <2>1, <2>2 DEF IsInjective
  <1> QED
    BY <1>1, <1>2, <1>3, <1>4, <1>5

\* A finite set of numbers has a greatest one: that of the highest rank.
LEMMA MaxExists ==
    ASSUME NEW S \in SUBSET Nat, IsFiniteSet(S), S # {}
    PROVE  Max(S) \in S /\ \A r \in S : Max(S) >= r
  <1>1. Cardinality(S) \in Nat \ {0}
    BY FS_CardinalityType, FS_EmptySet
  <1>2. PICK s \in S : Rank(S, s) = Cardinality(S) - 1
    BY <1>1, RankSurjective
  <1>3. \A r \in S : s >= r
    <2> SUFFICES ASSUME NEW r \in S, s < r PROVE FALSE
      OBVIOUS
    <2> QED
      BY <1>1, <1>2, RankMonotone, RankType
  <1> QED
    BY <1>2, <1>3 DEF Max

LEMMA MinExists ==
    ASSUME NEW S \in SUBSET Nat, IsFiniteSet(S), S # {}
    PROVE  Min(S) \in S /\ \A r \in S : Min(S) <= r
  <1>1. Cardinality(S) \in Nat \ {0}
    BY FS_CardinalityType, FS_EmptySet
  <1>2. PICK s \in S : Rank(S, s) = 1 - 1
    BY <1>1, RankSurjective
  <1>3. \A r \in S : s <= r
    <2> SUFFICES ASSUME NEW r \in S, r < s PROVE FALSE
      OBVIOUS
    <2> QED
      BY <1>2, RankMonotone, RankType
  <1> QED
    BY <1>2, <1>3 DEF Min

\* The elements of a sequence at some of its places.
LEMMA SubsequenceElements ==
    ASSUME NEW T, NEW seq \in Seq(T), NEW S \in SUBSET (DOMAIN seq)
    PROVE  /\ Subsequence(seq, S) \in Seq(T)
           /\ ToSet(Subsequence(seq, S)) = {seq[n] : n \in S}
           /\ Len(Subsequence(seq, S)) = Cardinality(S) /\ IsFiniteSet(S)
  <1> DEFINE a == Ascending(S)
             c == Cardinality(S)
             q == Subsequence(seq, S)
  <1>1. S \in SUBSET Nat /\ IsFiniteSet(S)
    <2>1. DOMAIN seq = 1 .. Len(seq) /\ Len(seq) \in Nat
      OBVIOUS
    <2>2. IsFiniteSet(1 .. Len(seq))
      BY <2>1, FS_Interval
    <2> QED
      BY <2>1, <2>2, FS_Subset
  <1>2. /\ c \in Nat /\ a \in [1 .. c -> S] /\ IsInjective(a)
        /\ \A s \in S : \E n \in 1 .. c : a[n] = s
    BY <1>1, AscendingEnumerates
  <1>3. q = [n \in 1 .. c |-> seq[a[n]]]
    BY DEF Subsequence
  <1> HIDE DEF a, c, q
  <1>4. \A n \in 1 .. c : a[n] \in S /\ seq[a[n]] \in T /\ q[n] = seq[a[n]]
    BY <1>2, <1>3
  <1>5. q \in Seq(T) /\ DOMAIN q = 1 .. c /\ Len(q) = c
    <2>1. q \in [1 .. c -> T]
      BY <1>3, <1>4
    <2>2. q \in UNION {[1 .. n -> T] : n \in Nat}
      BY <1>2, <2>1, Zenon
    <2>3. q \in Seq(T)
      BY <2>2, SeqDef, Zenon
    <2> QED
      BY <1>2, <2>1, <2>3
  <1>6. ToSet(q) = {seq[n] : n \in S}
    <2>1. ASSUME NEW x \in ToSet(q) PROVE x \in {seq[n] : n \in S}
      <3>1. PICK n \in 1 .. c : x = q[n]
        BY <1>5, Zenon DEF ToSet
      <3> QED
        BY <1>4, <3>1
    <2>2. ASSUME NEW s \in S PROVE seq[s] \in ToSet(q)
      <3>1. PICK n \in 1 .. c : a[n] = s
        BY <1>2
      <3>2. n \in DOMAIN q /\ q[n] = seq[s]
        BY <1>4, <1>5, <3>1
      <3> QED
        BY <3>2, Zenon DEF ToSet
    <2> QED
      BY <2>1, <2>2
  <1> QED
    BY <1>1, <1>5, <1>6 DEF q, c

-----------------------------------------------------------------------------
(* Sums                                                                    *)

\* A sum counts: f[x] units for every x.
Units(f, S) == UNION {{x} \X (1 .. f[x]) : x \in S}

\* Finitely many numbers have finitely many units.
LEMMA UnitsFinite ==
    ASSUME NEW f, NEW S, IsFiniteSet(S), \A x \in S : f[x] \in Nat
    PROVE  IsFiniteSet(Units(f, S)) /\ Cardinality(Units(f, S)) \in Nat
  <1> DEFINE U(x) == {x} \X (1 .. f[x])
             us == {U(x) : x \in S}
             g == [x \in S |-> U(x)]
  <1>1. \A x \in S : IsFiniteSet(U(x))
    <2> SUFFICES ASSUME NEW x \in S PROVE IsFiniteSet(U(x))
      OBVIOUS
    <2>1. IsFiniteSet({x}) /\ IsFiniteSet(1 .. f[x])
      <3>1. f[x] \in Int /\ 1 \in Int
        OBVIOUS
      <3>2. IsFiniteSet(1 .. f[x])
        BY <3>1, FS_Interval
      <3>3. IsFiniteSet({x})
        BY FS_Singleton
      <3> QED
        BY <3>2, <3>3
    <2> QED
      BY <2>1, FS_Product
  <1>2. IsFiniteSet(us)
    <2>1. us = {g[x] : x \in S}
      OBVIOUS
    <2>2. g \in Surjection(S, us)
      BY DEF Surjection
    <2> HIDE DEF g, us
    <2> QED
      BY <2>2, FS_Surjection
  <1>3. IsFiniteSet(UNION us)
    <2>1. \A T \in us : IsFiniteSet(T)
      BY <1>1
    <2> HIDE DEF us
    <2> QED
      BY <1>2, <2>1, FS_UNION
  <1>4. Units(f, S) = UNION us
    BY DEF Units
  <1> HIDE DEF us
  <1> QED
    BY <1>3, <1>4, FS_CardinalityType

\* One more element adds its own units.
LEMMA UnitsAdd ==
    ASSUME NEW f, NEW S, IsFiniteSet(S), NEW y, y \notin S, \A x \in S \cup {y} : f[x] \in Nat
    PROVE  Cardinality(Units(f, S \cup {y})) = f[y] + Cardinality(Units(f, S))
  <1> DEFINE A == Units(f, S)
             B == {y} \X (1 .. f[y])
  <1>1. Units(f, S \cup {y}) = A \cup B /\ A \cap B = {}
    BY DEF Units
  <1>2. IsFiniteSet(A) /\ Cardinality(A) \in Nat
    BY UnitsFinite
  <1>3. IsFiniteSet(B) /\ Cardinality(B) = f[y]
    <2>1. IsFiniteSet({y}) /\ Cardinality({y}) = 1
      BY FS_Singleton
    <2>2. IsFiniteSet(1 .. f[y]) /\ Cardinality(1 .. f[y]) = f[y]
      BY FS_Interval
    <2> QED
      BY <2>1, <2>2, FS_Product
  <1>4. Cardinality(A \cap B) = 0
    BY <1>1, FS_EmptySet
  <1> HIDE DEF A, B
  <1>5. Cardinality(A \cup B) = Cardinality(A) + Cardinality(B) - Cardinality(A \cap B)
    BY <1>2, <1>3, FS_Union
  <1>6. Cardinality(A \cup B) = f[y] + Cardinality(A)
    <2>1. f[y] \in Nat
      OBVIOUS
    <2> QED
      BY <1>2, <1>3, <1>4, <1>5, <2>1
  <1> QED
    BY <1>1, <1>6 DEF A

\* MapThenSumSet as a recursion over the subsets.
Pick(s) == CHOOSE x \in s : TRUE
Recursive(f, S, g) ==
    g = [s \in SUBSET S |-> IF s = {} THEN 0 ELSE f[Pick(s)] + g[s \ {Pick(s)}]]

(***************************************************************************)
(* The recursion has one solution, the number of units: it solves it, and  *)
(* a least set where another one differs cannot exist.                     *)
(***************************************************************************)
LEMMA SumCounts ==
    ASSUME NEW f, NEW S, IsFiniteSet(S), \A x \in S : f[x] \in Nat
    PROVE  (CHOOSE h : Recursive(f, S, h))[S] = Cardinality(Units(f, S))
  <1> DEFINE g == [s \in SUBSET S |-> Cardinality(Units(f, s))]
             iter == CHOOSE h : Recursive(f, S, h)
  <1>1. (CHOOSE h : Recursive(f, S, h))[S] = iter[S]
    OBVIOUS
  <1>2. \A s \in SUBSET S : IsFiniteSet(s)
    BY FS_Subset
  <1>3. \A s \in SUBSET S : s # {} => Pick(s) \in s
    BY DEF Pick
  <1>4. ASSUME NEW s \in SUBSET S, s # {}
        PROVE  g[s] = f[Pick(s)] + g[s \ {Pick(s)}]
    <2> DEFINE p == Pick(s)
    <2>1. p \in s /\ s = (s \ {p}) \cup {p} /\ s \ {p} \in SUBSET S
      BY <1>3, <1>4
    <2> HIDE DEF p
    <2>2. IsFiniteSet(s \ {p})
      BY <1>2, <2>1
    <2>3. Cardinality(Units(f, (s \ {p}) \cup {p})) = f[p] + Cardinality(Units(f, s \ {p}))
      BY <2>1, <2>2, UnitsAdd
    <2> QED
      BY <2>1, <2>3 DEF p
  <1>5. g[{}] = 0
    <2>1. Units(f, {}) = {}
      BY DEF Units
    <2> QED
      BY <2>1, FS_EmptySet
  <1>6. Recursive(f, S, g)
    <2> DEFINE r == [s \in SUBSET S |-> IF s = {} THEN 0 ELSE f[Pick(s)] + g[s \ {Pick(s)}]]
    <2>1. \A s \in SUBSET S : g[s] = r[s]
      BY <1>4, <1>5
    <2>2. g = r
      BY <2>1, Zenon
    <2> QED
      BY <2>2 DEF Recursive
  <1>7. Recursive(f, S, iter)
    BY <1>6, Zenon
  <1> HIDE DEF g, iter
  <1>8. \A s \in SUBSET S : iter[s] = g[s]
    <2> DEFINE Bad == {s \in SUBSET S : iter[s] # g[s]}
    <2> SUFFICES ASSUME Bad # {} PROVE FALSE
      OBVIOUS
    <2>1. IsWellFoundedOn(StrictSubsetOrdering(S), SUBSET S)
      BY FS_StrictSubsetOrderingWellFounded, FS_FiniteSubsetsOfFinite
    <2>2. Bad \subseteq SUBSET S
      OBVIOUS
    <2> HIDE DEF Bad
    <2>3. PICK s \in Bad : \A r \in Bad : <<r, s>> \notin StrictSubsetOrdering(S)
      BY <2>1, <2>2, WFMin
    <2> USE DEF Bad
    <2>4. CASE s = {}
      BY <1>5, <1>7, <2>4 DEF Recursive
    <2>5. CASE s # {}
      <3> DEFINE r == s \ {Pick(s)}
      <3>1. r \in SUBSET S /\ r # s /\ r \subseteq s
        BY <1>3, <2>5
      <3>2. r \notin Bad
        BY <2>3, <3>1 DEF StrictSubsetOrdering
      <3>3. iter[r] = g[r]
        BY <3>1, <3>2
      <3>4. iter[s] = f[Pick(s)] + iter[r]
        BY <1>7, <2>5 DEF Recursive
      <3> QED
        BY <1>4, <2>5, <3>3, <3>4
    <2> QED
      BY <2>4, <2>5
  <1> QED
    BY <1>1, <1>8 DEF g

-----------------------------------------------------------------------------
(* The memory behind the lock                                              *)

\* The greater of two numbers.
LEMMA MaxOfTwo ==
    ASSUME NEW a \in Nat, NEW b \in Nat
    PROVE  /\ Max({a, b}) \in Nat /\ Max({a, b}) >= a /\ Max({a, b}) >= b
           /\ Max({a, b}) = a \/ Max({a, b}) = b
  <1> DEFINE S == {a, b}
  <1>1. IsFiniteSet({a}) /\ IsFiniteSet({b})
    BY FS_Singleton
  <1>2. IsFiniteSet({a} \cup {b})
    BY <1>1, FS_Union
  <1>3. S = {a} \cup {b} /\ S \in SUBSET Nat /\ a \in S /\ b \in S
    OBVIOUS
  <1> HIDE DEF S
  <1>4. Max(S) \in S /\ \A r \in S : Max(S) >= r
    BY <1>2, <1>3, MaxExists
  <1> QED
    BY <1>3, <1>4 DEF S

\* Sets of keys are finite, and no larger than Keys.
LEMMA KeySets ==
    ASSUME NEW S \in SUBSET Keys
    PROVE  /\ IsFiniteSet(S) /\ Cardinality(S) \in Nat /\ Cardinality(S) <= Cardinality(Keys)
           /\ Cardinality(Keys) \in Nat
  BY DiskAssumption, FS_Subset, FS_CardinalityType

\* Len(order) stays below this.
LEMMA MostTicketsFacts ==
    /\ MostTickets \in Nat
    /\ \A n \in Nat : n <= Cardinality(Keys) =>
          n <= MostTickets /\ Max({2 * n, CompactMin}) <= MostTickets
  <1>1. Cardinality(Keys) \in Nat /\ CompactMin \in Nat
    BY KeySets, DiskAssumption
  <1>2. MostTickets \in Nat /\ MostTickets >= 2 * Cardinality(Keys) /\ MostTickets >= CompactMin
    BY <1>1, MaxOfTwo DEF MostTickets
  <1>3. ASSUME NEW n \in Nat, n <= Cardinality(Keys)
        PROVE  n <= MostTickets /\ Max({2 * n, CompactMin}) <= MostTickets
    <2> DEFINE S == {2 * n, CompactMin}
    <2>1. S \in SUBSET Nat /\ S # {} /\ \A m \in S : m <= MostTickets
      BY <1>1, <1>2, <1>3
    <2>2. IsFiniteSet(S)
      <3>1. IsFiniteSet({2 * n}) /\ IsFiniteSet({CompactMin})
        BY FS_Singleton
      <3>2. IsFiniteSet({2 * n} \cup {CompactMin})
        BY <3>1, FS_Union
      <3>3. S = {2 * n} \cup {CompactMin}
        OBVIOUS
      <3> HIDE DEF S
      <3> QED
        BY <3>2, <3>3
    <2>3. Max(S) \in S
      <3> HIDE DEF S
      <3> QED
        BY <2>1, <2>2, MaxExists
    <2> QED
      BY <1>1, <1>2, <1>3, <2>1, <2>3
  <1> QED
    BY <1>2, <1>3

\* retain keeps the last ticket of every key that has a stamp, and no other.
LEMMA RetainFacts ==
    ASSUME NEW i \in Inners
    PROVE  /\ Retain(i) \in Seq(Keys)
           /\ ToSet(Retain(i)) = i.stamps \cap ToSet(i.order)
           /\ Len(Retain(i)) \in Nat /\ Len(Retain(i)) <= Cardinality(i.stamps)
           /\ i.stamps \cap ToSet(i.order) = {i.order[n] : n \in LiveAt(i)}
  <1> DEFINE q == i.order
             L == LiveAt(i)
  <1>1. q \in Seq(Keys) /\ i.stamps \in SUBSET Keys /\ DOMAIN q = 1 .. Len(q) /\ Len(q) \in Nat
    BY DEF Inners
  <1>2. L \in SUBSET (DOMAIN q)
    BY DEF LiveAt
  <1>3. \A n \in L : q[n] \in i.stamps /\ \A m \in DOMAIN q : m > n => q[m] # q[n]
    BY <1>1 DEF LiveAt, IsLive
  <1>4. /\ Retain(i) \in Seq(Keys) /\ ToSet(Retain(i)) = {q[n] : n \in L}
        /\ Len(Retain(i)) = Cardinality(L) /\ IsFiniteSet(L)
    <2> HIDE DEF L
    <2> QED
      BY <1>1, <1>2, SubsequenceElements DEF Retain, L
  <1>5. ASSUME NEW k \in i.stamps \cap ToSet(q) PROVE \E n \in L : q[n] = k
    <2> DEFINE P == {n \in DOMAIN q : q[n] = k}
    <2>1. P \in SUBSET Nat /\ P \in SUBSET (1 .. Len(q))
      BY <1>1
    <2>2. P # {}
      <3>1. PICK n \in DOMAIN q : q[n] = k
        BY <1>5, Zenon DEF ToSet
      <3> QED
        BY <3>1
    <2>3. IsFiniteSet(1 .. Len(q))
      BY <1>1, FS_Interval
    <2>4. \A n \in P : n \in DOMAIN q /\ q[n] = k
      OBVIOUS
    <2>5. \A n \in DOMAIN q : q[n] = k => n \in P
      OBVIOUS
    <2> HIDE DEF P
    <2>6. IsFiniteSet(P)
      BY <2>1, <2>3, FS_Subset
    <2>7. Max(P) \in P /\ \A r \in P : Max(P) >= r
      BY <2>1, <2>2, <2>6, MaxExists
    <2>8. \A m \in Max(P) + 1 .. Len(q) : q[m] # q[Max(P)]
      <3> SUFFICES ASSUME NEW m \in Max(P) + 1 .. Len(q), q[m] = q[Max(P)] PROVE FALSE
        OBVIOUS
      <3>1. Max(P) \in 1 .. Len(q) /\ q[Max(P)] = k
        BY <1>1, <2>4, <2>7
      <3>2. m \in DOMAIN q /\ m > Max(P)
        BY <1>1, <3>1
      <3> QED
        BY <2>5, <2>7, <3>1, <3>2
    <2>9. Max(P) \in L /\ q[Max(P)] = k
      BY <1>5, <2>4, <2>7, <2>8 DEF LiveAt, IsLive
    <2> QED
      BY <2>9
  <1>6. i.stamps \cap ToSet(q) = {q[n] : n \in L}
    <2>1. \A n \in L : q[n] \in ToSet(q)
      BY <1>2, Zenon DEF ToSet
    <2> QED
      BY <1>3, <1>5, <2>1
  <1>7. Cardinality(L) <= Cardinality(i.stamps)
    <2> DEFINE f == [n \in L |-> q[n]]
    <2>1. f \in Injection(L, i.stamps)
      <3>1. f \in [L -> i.stamps]
        BY <1>3
      <3>2. ASSUME NEW m \in L, NEW n \in L, f[m] = f[n] PROVE m = n
        <4>1. m \in Nat /\ n \in Nat /\ m \in DOMAIN q /\ n \in DOMAIN q /\ q[m] = q[n]
          BY <1>1, <1>2, <3>2
        <4>2. ~(m > n) /\ ~(n > m)
          BY <1>3, <4>1
        <4> QED
          BY <4>1, <4>2
      <3> QED
        BY <3>1, <3>2 DEF Injection, IsInjective
    <2>2. IsFiniteSet(i.stamps)
      BY <1>1, KeySets
    <2> HIDE DEF f, L
    <2> QED
      BY <2>1, <2>2, FS_Injection
  <1>8. Cardinality(L) \in Nat
    BY <1>4, FS_CardinalityType
  <1> QED
    BY <1>4, <1>6, <1>7, <1>8

\* compact_tickets keeps the tickets of the accounted keys.
LEMMA CompactFacts ==
    ASSUME NEW i \in Inners, Ticketing(i)
    PROVE  LET j == CompactTickets(i)
           IN  /\ j \in Inners /\ Ticketing(j) /\ Len(j.order) <= MostTickets
               /\ j.maps = i.maps /\ j.sizes = i.sizes /\ j.total = i.total /\ j.stamps = i.stamps
  <1> DEFINE j == CompactTickets(i)
             c == Cardinality(Accounted(i))
  <1>1. c \in Nat /\ c <= Cardinality(Keys)
    BY KeySets DEF Accounted
  <1>2. CompactMin \in Nat /\ Len(i.order) \in Nat /\ MostTickets \in Nat
    BY DiskAssumption, MostTicketsFacts DEF Inners
  <1>3. c <= MostTickets /\ Max({2 * c, CompactMin}) <= MostTickets /\ Max({2 * c, CompactMin}) \in Nat
    <2>1. c <= MostTickets /\ Max({2 * c, CompactMin}) <= MostTickets
      BY <1>1, MostTicketsFacts
    <2>2. 2 * c \in Nat
      BY <1>1
    <2>3. Max({2 * c, CompactMin}) \in Nat
      BY <1>2, <2>2, MaxOfTwo
    <2> QED
      BY <2>1, <2>3
  <1>4. CASE Len(i.order) > Max({2 * c, CompactMin})
    <2>1. j = [i EXCEPT !.order = Retain(i)]
      BY <1>4 DEF CompactTickets
    <2>2. /\ Retain(i) \in Seq(Keys) /\ ToSet(Retain(i)) = i.stamps
          /\ Len(Retain(i)) \in Nat /\ Len(Retain(i)) <= c
      BY RetainFacts DEF Ticketing
    <2>3. /\ j \in Inners /\ j.order = Retain(i)
          /\ j.maps = i.maps /\ j.sizes = i.sizes /\ j.total = i.total /\ j.stamps = i.stamps
      BY <2>1, <2>2 DEF Inners
    <2> HIDE DEF j
    <2>4. Accounted(j) = Accounted(i)
      BY <2>3 DEF Accounted
    <2>5. Len(j.order) <= MostTickets
      BY <1>1, <1>2, <1>3, <2>2, <2>3
    <2>6. Ticketing(j)
      BY <2>2, <2>3, <2>4 DEF Ticketing
    <2> QED
      BY <2>3, <2>5, <2>6 DEF j
  <1>5. CASE ~(Len(i.order) > Max({2 * c, CompactMin}))
    <2>1. j = i
      BY <1>5 DEF CompactTickets
    <2>2. Len(i.order) <= MostTickets
      BY <1>2, <1>3, <1>5
    <2> QED
      BY <2>1, <2>2
  <1> QED
    BY <1>4, <1>5

\* insert_ticket gives the key k, accounted already, its ticket.
LEMMA InsertTicketFacts ==
    ASSUME NEW i \in Inners, NEW k \in Keys, Accounted(i) = i.stamps \cup {k},
           i.stamps \subseteq ToSet(i.order)
    PROVE  LET j == InsertTicket(i, k)
           IN  /\ j \in Inners /\ Ticketing(j) /\ Len(j.order) <= MostTickets
               /\ j.maps = i.maps /\ j.sizes = i.sizes /\ j.total = i.total
  <1> DEFINE q == Append(i.order, k)
             i1 == [i EXCEPT !.order = q, !.stamps = i.stamps \cup {k}]
  <1>1. i.order \in Seq(Keys)
    BY DEF Inners
  <1>2. q \in Seq(Keys) /\ i.stamps \cup {k} \subseteq ToSet(q)
    <2>1. /\ q \in Seq(Keys) /\ Len(q) = Len(i.order) + 1 /\ Len(i.order) \in Nat
          /\ \A n \in 1 .. Len(i.order) : q[n] = i.order[n]
          /\ q[Len(i.order) + 1] = k
      BY <1>1, AppendProperties
    <2> HIDE DEF q
    <2>2. /\ \A n \in DOMAIN i.order : n \in DOMAIN q /\ q[n] = i.order[n]
          /\ Len(i.order) + 1 \in DOMAIN q
      BY <1>1, <2>1
    <2>3. k \in ToSet(q)
      BY <2>1, <2>2, Zenon DEF ToSet
    <2>4. \A l \in ToSet(i.order) : l \in ToSet(q)
      BY <2>2, Zenon DEF ToSet
    <2> QED
      BY <2>1, <2>3, <2>4
  <1> HIDE DEF q
  <1>3. /\ i1 \in Inners /\ i1.order = q /\ i1.stamps = i.stamps \cup {k}
        /\ i1.maps = i.maps /\ i1.sizes = i.sizes /\ i1.total = i.total
    BY <1>2 DEF Inners
  <1>4. InsertTicket(i, k) = CompactTickets(i1)
    BY DEF InsertTicket, q
  <1> HIDE DEF i1
  <1>5. Accounted(i1) = Accounted(i)
    BY <1>3 DEF Accounted
  <1>6. Ticketing(i1)
    BY <1>2, <1>3, <1>5 DEF Ticketing
  <1> QED
    BY <1>3, <1>4, <1>6, CompactFacts

\* So does rebuild_tickets and insert_ticket, when the stamps wrap around.
LEMMA TicketedFacts ==
    ASSUME NEW i \in Inners, NEW k \in Keys, Accounted(i) = i.stamps \cup {k},
           i.stamps \subseteq ToSet(i.order), NEW j \in Ticketed(i, k)
    PROVE  /\ j \in Inners /\ Ticketing(j) /\ Len(j.order) <= MostTickets
           /\ j.maps = i.maps /\ j.sizes = i.sizes /\ j.total = i.total
  <1>1. CASE j = InsertTicket(i, k)
    BY <1>1, InsertTicketFacts
  <1>2. CASE j = InsertTicket(RebuildTickets(i), k)
    <2> DEFINE r == RebuildTickets(i)
    <2>1. Retain(i) \in Seq(Keys) /\ ToSet(Retain(i)) = i.stamps
      BY RetainFacts
    <2>2. /\ r \in Inners /\ r.order = Retain(i) /\ r.stamps = i.stamps
          /\ r.maps = i.maps /\ r.sizes = i.sizes /\ r.total = i.total
      BY <2>1 DEF RebuildTickets, Inners
    <2> HIDE DEF r
    <2>3. Accounted(r) = Accounted(i)
      BY <2>2 DEF Accounted
    <2>4. Accounted(r) = r.stamps \cup {k} /\ r.stamps \subseteq ToSet(r.order)
      BY <2>1, <2>2, <2>3
    <2> QED
      BY <1>2, <2>2, <2>4, InsertTicketFacts DEF r
  <1> QED
    BY <1>1, <1>2 DEF Ticketed

\* The accounted sizes are numbers, and so is their sum.
LEMMA SumFacts ==
    ASSUME NEW i \in Inners
    PROVE  /\ SumOf(i) = Cardinality(Units(i.sizes, Accounted(i))) /\ SumOf(i) \in Nat
           /\ \A k \in Accounted(i) : i.sizes[k] \in Nat
  <1>1. Accounted(i) \in SUBSET Keys /\ \A k \in Accounted(i) : i.sizes[k] \in Nat
    BY DEF Accounted, Inners
  <1>2. IsFiniteSet(Accounted(i))
    BY <1>1, KeySets
  <1>3. SumOf(i) = (CHOOSE h : Recursive(i.sizes, Accounted(i), h))[Accounted(i)]
    BY Zenon DEF SumOf, MapThenSumSet, MapThenFoldSet, Recursive, Pick
  <1>4. (CHOOSE h : Recursive(i.sizes, Accounted(i), h))[Accounted(i)]
            = Cardinality(Units(i.sizes, Accounted(i)))
    BY <1>1, <1>2, SumCounts
  <1>5. Cardinality(Units(i.sizes, Accounted(i))) \in Nat
    BY <1>1, <1>2, UnitsFinite
  <1> QED
    BY <1>1, <1>3, <1>4, <1>5

\* The sum without one key.
SizeOf(i, k) == IF i.sizes[k] = None THEN 0 ELSE i.sizes[k]
SumWithout(i, k) == Cardinality(Units(i.sizes, Accounted(i) \ {k}))

LEMMA SumSplit ==
    ASSUME NEW i \in Inners, NEW k \in Keys
    PROVE  SumOf(i) = SizeOf(i, k) + SumWithout(i, k) /\ SumWithout(i, k) \in Nat /\ SizeOf(i, k) \in Nat
  <1> DEFINE S == Accounted(i) \ {k}
  <1>1. SumOf(i) = Cardinality(Units(i.sizes, Accounted(i))) /\ \A l \in Accounted(i) : i.sizes[l] \in Nat
    BY SumFacts
  <1>2. S \in SUBSET Keys /\ k \notin S
    BY DEF Accounted
  <1>3. IsFiniteSet(S) /\ \A l \in S : i.sizes[l] \in Nat
    BY <1>1, <1>2, KeySets
  <1>4. SumWithout(i, k) = Cardinality(Units(i.sizes, S))
    BY DEF SumWithout
  <1>5. CASE i.sizes[k] = None
    <2>1. S = Accounted(i) /\ SizeOf(i, k) = 0
      BY <1>5 DEF Accounted, SizeOf
    <2> QED
      BY <1>1, <1>4, <2>1, SumFacts
  <1>6. CASE i.sizes[k] # None
    <2>1. Accounted(i) = S \cup {k} /\ SizeOf(i, k) = i.sizes[k] /\ i.sizes[k] \in Nat
      BY <1>6 DEF Accounted, SizeOf, Inners
    <2> HIDE DEF S
    <2>2. \A l \in S \cup {k} : i.sizes[l] \in Nat
      BY <1>3, <2>1
    <2>3. Cardinality(Units(i.sizes, S \cup {k})) = i.sizes[k] + Cardinality(Units(i.sizes, S))
      BY <1>2, <1>3, <2>2, UnitsAdd
    <2>4. Cardinality(Units(i.sizes, S)) \in Nat
      BY <1>3, UnitsFinite
    <2> QED
      BY <1>1, <1>4, <2>1, <2>3, <2>4
  <1> QED
    BY <1>5, <1>6

\* It is the same as long as the other keys keep their sizes.
LEMMA SameWithout ==
    ASSUME NEW i \in Inners, NEW j \in Inners, NEW k \in Keys,
           \A l \in Keys : l # k => j.sizes[l] = i.sizes[l]
    PROVE  SumWithout(j, k) = SumWithout(i, k)
  <1>1. Accounted(j) \ {k} = Accounted(i) \ {k}
    BY DEF Accounted
  <1>2. \A l \in Accounted(i) \ {k} : j.sizes[l] = i.sizes[l]
    BY DEF Accounted
  <1>3. Units(j.sizes, Accounted(i) \ {k}) = Units(i.sizes, Accounted(i) \ {k})
    BY <1>2 DEF Units
  <1> QED
    BY <1>1, <1>3 DEF SumWithout

\* Tickets may be shuffled: the rest of the memory stays in sync.
LEMMA SyncedAgain ==
    ASSUME NEW i, Synced(i), NEW j \in Inners, Ticketing(j), Len(j.order) <= MostTickets,
           j.maps = i.maps, j.sizes = i.sizes, j.total = i.total
    PROVE  Synced(j)
  <1>1. Accounted(j) = Accounted(i)
    BY DEF Accounted
  <1>2. SumOf(j) = SumOf(i)
    BY <1>1, SumFacts DEF Synced
  <1> QED
    BY <1>2 DEF Synced, NoGhosts

LEMMA TouchedFacts ==
    ASSUME NEW i, Synced(i), NEW k \in Keys, NEW j \in Touched(i, k)
    PROVE  Synced(j) /\ j.maps = i.maps /\ j.sizes = i.sizes /\ j.total = i.total
  <1>1. CASE config.eviction = "Lru" /\ i.sizes[k] # None
    <2>1. j \in Ticketed(i, k)
      BY <1>1 DEF Touched
    <2>2. /\ i \in Inners /\ Accounted(i) = i.stamps \cup {k} /\ i.stamps \subseteq ToSet(i.order)
      BY <1>1 DEF Synced, Ticketing, Accounted
    <2> QED
      BY <2>1, <2>2, TicketedFacts, SyncedAgain
  <1>2. CASE ~(config.eviction = "Lru" /\ i.sizes[k] # None)
    BY <1>2 DEF Touched
  <1> QED
    BY <1>1, <1>2

\* remove_accounting, with the queue q: the tickets of the other keys are kept.
LEMMA RemoveFacts ==
    ASSUME NEW i, Synced(i), NEW k \in Keys, NEW q \in Seq(Keys), Len(q) <= MostTickets,
           i.stamps \ {k} \subseteq ToSet(q)
    PROVE  LET j == RemoveAccounting([i EXCEPT !.order = q], k)
           IN  /\ Synced(j) /\ j.order = q
               /\ j.maps = [i.maps EXCEPT ![k] = None] /\ j.sizes = [i.sizes EXCEPT ![k] = None]
               /\ j.total <= i.total
  <1> DEFINE i1 == [i EXCEPT !.order = q]
             j == RemoveAccounting(i1, k)
  <1>1. i \in Inners /\ i.total = SumOf(i) /\ i.total \in Nat
    BY DEF Synced, Inners
  <1>2. /\ i1 \in Inners /\ i1.order = q /\ i1.stamps = i.stamps
        /\ i1.maps = i.maps /\ i1.sizes = i.sizes /\ i1.total = i.total
    BY <1>1 DEF Inners
  <1>3. i.total = SizeOf(i, k) + SumWithout(i, k) /\ SumWithout(i, k) \in Nat /\ SizeOf(i, k) \in Nat
    BY <1>1, SumSplit
  <1>4. (IF i.sizes[k] = None THEN i.total ELSE SaturatingSub(i.total, i.sizes[k])) = SumWithout(i, k)
    BY <1>3 DEF SizeOf, SaturatingSub
  <1>5. j = [i1 EXCEPT !.maps[k] = None, !.sizes[k] = None, !.stamps = i.stamps \ {k},
                       !.total = SumWithout(i, k)]
    BY <1>2, <1>4 DEF RemoveAccounting
  <1> HIDE DEF j, i1
  <1>6. /\ j \in Inners /\ j.order = q /\ j.stamps = i.stamps \ {k} /\ j.total = SumWithout(i, k)
        /\ j.maps = [i.maps EXCEPT ![k] = None] /\ j.sizes = [i.sizes EXCEPT ![k] = None]
    BY <1>2, <1>3, <1>5 DEF Inners
  <1>7. /\ j.sizes[k] = None /\ j.maps[k] = None
        /\ \A l \in Keys : l # k => j.sizes[l] = i.sizes[l] /\ j.maps[l] = i.maps[l]
    BY <1>1, <1>6 DEF Inners
  <1>8. SumOf(j) = j.total
    <2>1. SumOf(j) = SizeOf(j, k) + SumWithout(j, k)
      BY <1>6, SumSplit
    <2>2. SumWithout(j, k) = SumWithout(i, k)
      <3>1. \A l \in Keys : l # k => j.sizes[l] = i.sizes[l]
        BY <1>7
      <3> QED
        BY <1>1, <1>6, <3>1, SameWithout
    <2> QED
      BY <1>3, <1>6, <1>7, <2>1, <2>2 DEF SizeOf
  <1>9. Ticketing(j)
    <2>1. Accounted(i) = i.stamps
      BY DEF Synced, Ticketing
    <2>2. Accounted(j) = Accounted(i) \ {k}
      BY <1>7 DEF Accounted
    <2> QED
      BY <1>6, <2>1, <2>2 DEF Ticketing
  <1>10. NoGhosts(j)
    BY <1>7 DEF Synced, NoGhosts
  <1>11. j.total <= i.total
    BY <1>3, <1>6
  <1> QED
    BY <1>6, <1>8, <1>9, <1>10, <1>11 DEF Synced, j, i1

\* delete: the accounting goes, then the queue may be compacted.
LEMMA DeleteFacts ==
    ASSUME NEW i, Synced(i), NEW k \in Keys
    PROVE  LET j == CompactTickets(RemoveAccounting(i, k))
           IN  /\ Synced(j) /\ j.total <= i.total
               /\ j.maps = [i.maps EXCEPT ![k] = None] /\ j.sizes = [i.sizes EXCEPT ![k] = None]
  <1> DEFINE r == RemoveAccounting(i, k)
  <1>1. i \in Inners /\ i.order \in Seq(Keys) /\ Len(i.order) <= MostTickets /\ i.stamps \ {k} \subseteq ToSet(i.order)
    BY DEF Synced, Ticketing, Inners
  <1>2. [i EXCEPT !.order = i.order] = i
    BY <1>1 DEF Inners
  <1>3. /\ Synced(r) /\ r.total <= i.total
        /\ r.maps = [i.maps EXCEPT ![k] = None] /\ r.sizes = [i.sizes EXCEPT ![k] = None]
    <2> DEFINE i0 == [i EXCEPT !.order = i.order]
               r0 == RemoveAccounting(i0, k)
    <2>1. /\ Synced(r0) /\ r0.total <= i.total
          /\ r0.maps = [i.maps EXCEPT ![k] = None] /\ r0.sizes = [i.sizes EXCEPT ![k] = None]
      BY <1>1, RemoveFacts
    <2>2. r0 = r
      BY <1>2
    <2> HIDE DEF r0, r
    <2> QED
      BY <2>1, <2>2
  <1> HIDE DEF r
  <1>4. /\ CompactTickets(r) \in Inners /\ Ticketing(CompactTickets(r))
        /\ Len(CompactTickets(r).order) <= MostTickets
        /\ CompactTickets(r).maps = r.maps /\ CompactTickets(r).sizes = r.sizes
        /\ CompactTickets(r).total = r.total
    BY <1>3, CompactFacts DEF Synced
  <1>5. Synced(CompactTickets(r))
    BY <1>3, <1>4, SyncedAgain
  <1> QED
    BY <1>3, <1>4, <1>5 DEF r

\* put, under the lock.
LEMMA StoredFacts ==
    ASSUME NEW i, Synced(i), NEW k \in Keys, NEW n \in Nat, NEW mapped \in Inodes \cup {None},
           NEW j \in Stored(i, k, n, mapped)
    PROVE  /\ Synced(j) /\ j.sizes[k] = n /\ j.maps[k] \in {i.maps[k], mapped}
           /\ mapped # None => j.maps[k] = mapped
           /\ \A l \in Keys : l # k => j.sizes[l] = i.sizes[l] /\ j.maps[l] = i.maps[l]
  <1> DEFINE m == IF mapped = None THEN i.maps[k] ELSE mapped
             w == (IF i.sizes[k] = None THEN i.total ELSE SaturatingSub(i.total, i.sizes[k])) + n
             i1 == [i EXCEPT !.maps[k] = m, !.sizes[k] = n, !.total = w]
  <1>1. /\ i \in Inners /\ i.total = SumOf(i) /\ i.total \in Nat /\ m \in Inodes \cup {None}
        /\ None \notin Nat /\ Accounted(i) = i.stamps /\ i.stamps \subseteq ToSet(i.order)
        /\ Len(i.order) <= MostTickets
    BY DiskAssumption DEF Synced, Inners, Ticketing
  <1>2. i.total = SizeOf(i, k) + SumWithout(i, k) /\ SumWithout(i, k) \in Nat /\ SizeOf(i, k) \in Nat
    BY <1>1, SumSplit
  <1>3. w = SumWithout(i, k) + n
    BY <1>2 DEF SizeOf, SaturatingSub
  <1>4. IF i.sizes[k] = None \/ config.eviction = "Lru" THEN j \in Ticketed(i1, k) ELSE j = i1
    BY DEF Stored
  <1> HIDE DEF m, w
  <1>5. /\ i1 \in Inners /\ i1.maps = [i.maps EXCEPT ![k] = m] /\ i1.sizes = [i.sizes EXCEPT ![k] = n]
        /\ i1.total = w /\ i1.order = i.order /\ i1.stamps = i.stamps
    <2>1. w \in Nat
      BY <1>2, <1>3
    <2> QED
      BY <1>1, <2>1 DEF Inners
  <1> HIDE DEF i1
  <1>6. /\ i1.sizes[k] = n /\ i1.maps[k] = m
        /\ \A l \in Keys : l # k => i1.sizes[l] = i.sizes[l] /\ i1.maps[l] = i.maps[l]
    BY <1>1, <1>5 DEF Inners
  <1>7. Accounted(i1) = i1.stamps \cup {k}
    BY <1>1, <1>5, <1>6 DEF Accounted
  <1>8. /\ j \in Inners /\ Ticketing(j) /\ Len(j.order) <= MostTickets
        /\ j.maps = i1.maps /\ j.sizes = i1.sizes /\ j.total = i1.total
    <2>1. CASE i.sizes[k] = None \/ config.eviction = "Lru"
      BY <1>1, <1>4, <1>5, <1>7, <2>1, TicketedFacts
    <2>2. CASE ~(i.sizes[k] = None \/ config.eviction = "Lru")
      <3>1. Accounted(i1) = i1.stamps
        BY <1>1, <1>5, <1>7, <2>2 DEF Accounted
      <3> QED
        BY <1>1, <1>4, <1>5, <2>2, <3>1 DEF Ticketing
    <2> QED
      BY <2>1, <2>2
  <1>9. SumOf(j) = j.total
    <2>1. SumOf(j) = SizeOf(j, k) + SumWithout(j, k)
      BY <1>8, SumSplit
    <2>2. SumWithout(j, k) = SumWithout(i, k)
      BY <1>1, <1>6, <1>8, SameWithout
    <2>3. SizeOf(j, k) = n
      BY <1>1, <1>6, <1>8 DEF SizeOf
    <2> QED
      BY <1>2, <1>3, <1>5, <1>8, <2>1, <2>2, <2>3
  <1>10. NoGhosts(j)
    BY <1>1, <1>6, <1>8 DEF Synced, NoGhosts
  <1> QED
    BY <1>6, <1>8, <1>9, <1>10 DEF Synced, m

\* The eviction loop pops the tickets up to the first live one: every other
\* key keeps its ticket.
LEMMA PoppedFacts ==
    ASSUME NEW i, Synced(i), LiveAt(i) # {}
    PROVE  LET n == Min(LiveAt(i))
               q == SubSeq(i.order, n + 1, Len(i.order))
           IN  /\ i.order[n] \in Keys /\ i.order[n] \in i.stamps
               /\ q \in Seq(Keys) /\ Len(q) <= MostTickets
               /\ i.stamps \ {i.order[n]} \subseteq ToSet(q)
  <1> DEFINE o == i.order
             L == LiveAt(i)
             n == Min(L)
             q == SubSeq(o, n + 1, Len(o))
  <1>1. /\ i \in Inners /\ o \in Seq(Keys) /\ Len(o) \in Nat /\ DOMAIN o = 1 .. Len(o)
        /\ i.stamps \in SUBSET Keys /\ i.stamps \subseteq ToSet(o) /\ Len(o) <= MostTickets
    BY DEF Synced, Ticketing, Inners
  <1>2. L \in SUBSET (1 .. Len(o)) /\ \A m \in L : o[m] \in i.stamps
    BY <1>1 DEF LiveAt, IsLive
  <1>3. i.stamps = {o[m] : m \in L}
    BY <1>1, RetainFacts
  <1> HIDE DEF L, o
  <1>4. n \in L /\ \A m \in L : n <= m
    <2>1. IsFiniteSet(1 .. Len(o))
      BY <1>1, FS_Interval
    <2>2. L \in SUBSET Nat
      BY <1>1, <1>2
    <2>3. IsFiniteSet(L)
      BY <1>2, <2>1, FS_Subset
    <2>4. L # {}
      BY DEF L
    <2> QED
      BY <2>2, <2>3, <2>4, MinExists
  <1> HIDE DEF n
  <1>5. n \in 1 .. Len(o) /\ o[n] \in i.stamps
    BY <1>2, <1>4
  <1>6. q \in Seq(Keys) /\ Len(q) = Len(o) - n /\ \A m \in 1 .. Len(o) - n : q[m] = o[n + m]
    <2>1. n + 1 \in Int /\ Len(o) \in Int /\ \A m \in n + 1 .. Len(o) : o[m] \in Keys
      BY <1>1, <1>5
    <2>2. /\ q \in Seq(Keys)
          /\ Len(q) = IF n + 1 <= Len(o) THEN Len(o) - (n + 1) + 1 ELSE 0
          /\ \A m \in 1 .. Len(o) - (n + 1) + 1 : q[m] = o[(n + 1) + m - 1]
      BY <2>1, SubSeqProperties
    <2> HIDE DEF q
    <2>3. Len(o) - (n + 1) + 1 = Len(o) - n /\ \A m \in Nat : (n + 1) + m - 1 = n + m
      BY <1>1, <1>5
    <2>4. Len(q) = Len(o) - n
      <3>1. n \in Nat /\ n <= Len(o) /\ Len(o) \in Nat
        BY <1>1, <1>5
      <3>2. CASE n + 1 <= Len(o)
        BY <2>2, <2>3, <3>2
      <3>3. CASE ~(n + 1 <= Len(o))
        <4>1. n = Len(o) /\ Len(o) - n = 0
          BY <3>1, <3>3
        <4>2. Len(q) = 0
          BY <2>2, <3>3
        <4> QED
          BY <4>1, <4>2
      <3> QED
        BY <3>2, <3>3
    <2>5. \A m \in 1 .. Len(o) - n : m \in Nat /\ q[m] = o[n + m]
      <3> SUFFICES ASSUME NEW m \in 1 .. Len(o) - n PROVE m \in Nat /\ q[m] = o[n + m]
        OBVIOUS
      <3>1. m \in 1 .. Len(o) - (n + 1) + 1 /\ m \in Nat
        BY <1>1, <1>5
      <3> QED
        BY <2>2, <2>3, <3>1
    <2> QED
      BY <2>2, <2>4, <2>5
  <1>7. ASSUME NEW l \in i.stamps, l # o[n] PROVE l \in ToSet(q)
    <2>1. PICK m \in L : o[m] = l
      BY <1>3
    <2>2. m \in 1 .. Len(o) /\ m > n
      BY <1>2, <1>4, <1>5, <1>7, <2>1
    <2>3. m - n \in 1 .. Len(o) - n /\ n + (m - n) = m
      BY <1>1, <1>5, <2>2
    <2> HIDE DEF q
    <2>4. m - n \in DOMAIN q /\ q[m - n] = l
      BY <1>6, <2>1, <2>3
    <2> QED
      BY <2>4, Zenon DEF ToSet
  <1> HIDE DEF q
  <1>8. Len(q) <= MostTickets
    BY <1>1, <1>5, <1>6, MostTicketsFacts
  <1> QED
    BY <1>1, <1>5, <1>6, <1>7, <1>8 DEF q, n, L, o

\* Without a live ticket nothing is accounted.
LEMMA NothingLeft ==
    ASSUME NEW i, Synced(i), LiveAt(i) = {}
    PROVE  i.stamps = {} /\ Accounted(i) = {} /\ i.total = 0
  <1>1. i \in Inners /\ Accounted(i) = i.stamps /\ i.stamps \subseteq ToSet(i.order)
    BY DEF Synced, Ticketing
  <1>2. i.stamps = {}
    BY <1>1, RetainFacts
  <1>3. Units(i.sizes, {}) = {}
    BY DEF Units
  <1>4. SumOf(i) = 0
    BY <1>1, <1>2, <1>3, SumFacts, FS_EmptySet
  <1> QED
    BY <1>1, <1>2, <1>4 DEF Synced

\* A memory without entries.
LEMMA NoInnerSynced == Synced(NoInner)
  <1>1. /\ NoInner \in Inners /\ NoInner.total = 0 /\ NoInner.order = <<>> /\ NoInner.stamps = {}
        /\ \A k \in Keys : NoInner.sizes[k] = None /\ NoInner.maps[k] = None
    BY DEF NoInner, Inners
  <1> HIDE DEF NoInner
  <1>2. Accounted(NoInner) = {}
    BY <1>1 DEF Accounted
  <1>3. Units(NoInner.sizes, {}) = {}
    BY DEF Units
  <1>4. SumOf(NoInner) = 0
    BY <1>1, <1>2, <1>3, SumFacts, FS_EmptySet
  <1>5. Len(NoInner.order) <= MostTickets
    BY <1>1, MostTicketsFacts
  <1> QED
    BY <1>1, <1>2, <1>4, <1>5 DEF Synced, Ticketing, NoGhosts

\* scan accounts for every file that there is, with its length.
LEMMA ScanSynced ==
    ASSUME TypeOK, NEW order \in SetToSeqs({k \in Keys : dir[k] # None})
    PROVE  /\ Synced(Scan(order)) /\ Scan(order).maps = [k \in Keys |-> None]
           /\ Scan(order).sizes
                 = [k \in Keys |-> IF dir[k] = None THEN None ELSE Len(body[dir[k]])]
  <1> DEFINE D == {k \in Keys : dir[k] # None}
             c == Cardinality(D)
             size == [k \in Keys |-> IF dir[k] = None THEN None ELSE Len(body[dir[k]])]
             sum == MapThenSumSet(LAMBDA k : size[k], ToSet(order))
             i == Scan(order)
  <1>1. D \in SUBSET Keys /\ IsFiniteSet(D) /\ c \in Nat /\ c <= Cardinality(Keys)
    <2>1. D \in SUBSET Keys
      OBVIOUS
    <2> HIDE DEF D
    <2> QED
      BY <2>1, KeySets
  <1>2. order \in [1 .. c -> D] /\ \A m, n \in 1 .. c : m # n => order[m] # order[n]
    BY DEF SetToSeqs
  <1>3. size \in [Keys -> Nat \cup {None}] /\ \A k \in Keys : size[k] # None <=> k \in D
    <2>1. \A k \in D : dir[k] \in Inodes
      BY DEF TypeOK
    <2>2. \A x \in Inodes : Len(body[x]) \in Nat
      BY DEF TypeOK, Bodies
    <2> QED
      BY <2>1, <2>2, DiskAssumption
  <1>4. i = [NoInner EXCEPT !.sizes = size, !.order = order, !.stamps = ToSet(order), !.total = sum]
    BY DEF Scan
  <1> HIDE DEF D, c, size, sum, i
  <1>5. order \in Seq(Keys) /\ DOMAIN order = 1 .. c /\ Len(order) = c
    <2>1. order \in [1 .. c -> Keys]
      BY <1>1, <1>2
    <2>2. order \in UNION {[1 .. n -> Keys] : n \in Nat}
      BY <1>1, <2>1, Zenon
    <2>3. order \in Seq(Keys)
      BY <2>2, SeqDef, Zenon
    <2> QED
      BY <1>1, <2>1, <2>3
  <1>6. ToSet(order) = D
    <2>1. order \in Injection(1 .. c, D)
      BY <1>2 DEF Injection, IsInjective
    <2>2. IsFiniteSet(1 .. c) /\ Cardinality(1 .. c) = c
      BY <1>1, FS_Interval
    <2>3. order \in Surjection(1 .. c, D)
      BY <1>1, <2>1, <2>2, FS_Injection DEF c
    <2>4. (\A k \in D : \E n \in 1 .. c : order[n] = k) /\ \A n \in 1 .. c : order[n] \in D
      BY <1>2, <2>3 DEF Surjection
    <2> QED
      BY <1>5, <2>4, Zenon DEF ToSet
  <1>7. sum = Cardinality(Units(size, D)) /\ sum \in Nat
    <2>1. sum = (CHOOSE h : Recursive(size, ToSet(order), h))[ToSet(order)]
      BY Zenon DEF sum, MapThenSumSet, MapThenFoldSet, Recursive, Pick
    <2>2. \A k \in D : size[k] \in Nat
      BY <1>1, <1>3
    <2>3. (CHOOSE h : Recursive(size, D, h))[D] = Cardinality(Units(size, D))
      BY <1>1, <2>2, SumCounts
    <2>4. Cardinality(Units(size, D)) \in Nat
      BY <1>1, <2>2, UnitsFinite
    <2> QED
      BY <1>6, <2>1, <2>3, <2>4
  <1>8. /\ i \in Inners /\ i.sizes = size /\ i.order = order /\ i.stamps = D /\ i.total = sum
        /\ i.maps = [k \in Keys |-> None]
    BY <1>1, <1>3, <1>4, <1>5, <1>6, <1>7 DEF NoInner, Inners
  <1>9. Accounted(i) = D
    BY <1>1, <1>3, <1>8 DEF Accounted
  <1>10. SumOf(i) = sum
    BY <1>7, <1>8, <1>9, SumFacts
  <1>11. Len(i.order) <= MostTickets
    BY <1>1, <1>5, <1>8, MostTicketsFacts
  <1> QED
    BY <1>6, <1>8, <1>9, <1>10, <1>11 DEF Synced, Ticketing, NoGhosts, i, size

-----------------------------------------------------------------------------
(* Files                                                                   *)

\* What is not a temporary file: named, mapped or viewed.
Seen ==
    {None} \cup {dir[k] : k \in Keys} \cup {inner.maps[k] : k \in Keys}
           \cup {th[t].file : t \in {u \in Threads : th[u].pc # "write"}}

\* What is referred to after a step has kept its bytes.
LEMMA Referenced ==
    ASSUME NEW b, Reap(b), NEW i \in Inodes,
           \/ \E k \in Keys : i \in {dir'[k], tmp'[k], inner'.maps[k]}
           \/ \E t \in Threads : th'[t].file = i
    PROVE  body'[i] = b[i]
  BY DEF Reap, Unreferenced

\* The only writer of a key.
LEMMA OnlyWriter ==
    ASSUME TypeOK, NEW k \in Keys, OneWriter(k),
           NEW t \in config.writers[k], NEW u \in config.writers[k]
    PROVE  t = u
  <1> DEFINE W == config.writers[k]
  <1>1. W \in SUBSET Threads
    BY DiskAssumption DEF TypeOK
  <1>2. Cardinality(W) <= 1
    BY DEF OneWriter
  <1> HIDE DEF W
  <1>3. IsFiniteSet(W)
    BY <1>1, FS_Subset, DiskAssumption
  <1>4. IsFiniteSet(W \ {t}) /\ Cardinality(W \ {t}) = Cardinality(W) - 1 /\ Cardinality(W) \in Nat
    BY <1>3, FS_RemoveElement, FS_CardinalityType DEF W
  <1>5. Cardinality(W \ {t}) \in Nat
    BY <1>4, FS_CardinalityType
  <1>6. Cardinality(W \ {t}) = 0
    BY <1>2, <1>4, <1>5
  <1>7. W \ {t} = {}
    BY <1>4, <1>6, FS_EmptySet
  <1> QED
    BY <1>7 DEF W

\* Temporary files and the file of an only writer are not seen.
LEMMA SeenApart ==
    ASSUME IInv, NEW i \in Seen, i # None
    PROVE  /\ \A k \in Keys : tmp[k] # i
           /\ \A t \in Threads : th[t].pc = "write" /\ OneWriter(th[t].key) => th[t].file # i
  BY DEF Seen, IInv, FilesSound, NamesApart, TmpPrivate, Exclusive

\* Every step but those of an unfinished put only forgets names, and maps or
\* views what could be seen before.
LEMMA SeenStep ==
    ASSUME IInv, Reap(body), config' = config,
           \A k \in Keys : dir'[k] \in {dir[k], None} /\ tmp'[k] \in {tmp[k], None},
           \A k \in Keys : inner'.maps[k] \in Seen,
           \A t \in Threads : th'[t] = th[t] \/ (th'[t].pc # "write" /\ th'[t].file \in Seen),
           dir' \in [Keys -> Inodes \cup {None}]
    PROVE  FilesSound'
  <1> USE DEF IInv, FilesSound
  <1>1. NamesApart'
    BY DEF NamesApart
  <1>2. TmpPrivate'
    <2> SUFFICES ASSUME NEW k \in Keys, tmp'[k] # None
                 PROVE  /\ \A j \in Keys : inner'.maps[j] # tmp'[k]
                        /\ \A t \in Threads : th'[t].file = tmp'[k] => th'[t].pc = "write" /\ th'[t].key = k
      BY DEF TmpPrivate
    <2>1. tmp'[k] = tmp[k] /\ tmp[k] \notin Seen
      BY SeenApart
    <2> QED
      BY <2>1 DEF TmpPrivate
  <1>3. WritesOwnFile'
    <2> SUFFICES ASSUME NEW t \in Threads, NEW k \in Keys, th'[t].pc = "write", dir'[k] = th'[t].file
                 PROVE  k = th'[t].key
      BY DEF WritesOwnFile
    <2>1. th'[t] = th[t] /\ th[t].file # None
      BY DEF Registered, Holds
    <2> QED
      BY <2>1 DEF WritesOwnFile
  <1>4. Exclusive'
    <2> SUFFICES ASSUME NEW t \in Threads, th'[t].pc = "write",
                        Cardinality(config'.writers[th'[t].key]) <= 1
                 PROVE  /\ \A k \in Keys : th'[t].file \notin {dir'[k], inner'.maps[k]}
                        /\ \A u \in Threads : u # t => th'[u].file # th'[t].file
                        /\ tmp'[th'[t].key] \in {None, th'[t].file}
                        /\ body'[th'[t].file] = Prefix(th'[t].value, th'[t].at)
      BY DEF Exclusive, Prefix, OneWriter
    <2>1. /\ th'[t] = th[t] /\ th[t].pc = "write" /\ th[t].file # None /\ th[t].key \in Keys
          /\ th[t].file \in Inodes
      BY DEF Registered, Holds, TypeOK, Registers
    <2>2. OneWriter(th[t].key)
      BY <2>1 DEF OneWriter
    <2>3. th[t].file \notin Seen
      BY <2>1, <2>2, SeenApart
    <2>4. /\ \A k \in Keys : th[t].file \notin {dir[k], inner.maps[k]}
          /\ \A u \in Threads : u # t => th[u].file # th[t].file
          /\ tmp[th[t].key] \in {None, th[t].file}
          /\ body[th[t].file] = Prefix(th[t].value, th[t].at)
      BY <2>1, <2>2 DEF Exclusive
    <2>5. body'[th[t].file] = body[th[t].file]
      BY <2>1, Referenced
    <2> QED
      BY <2>1, <2>3, <2>4, <2>5
  <1>5. WholeValues'
    <2> SUFFICES ASSUME NEW k \in Keys, dir'[k] # None, OneWriter(k)'
                 PROVE  \E v \in Values : body'[dir'[k]] = Body(v)
      BY DEF WholeValues, Body
    <2>1. dir'[k] = dir[k] /\ dir[k] \in Inodes /\ OneWriter(k)
      BY DEF OneWriter, TypeOK
    <2>2. body'[dir[k]] = body[dir[k]]
      BY <2>1, Referenced
    <2> QED
      BY <2>1, <2>2 DEF WholeValues
  <1> QED
    BY <1>1, <1>2, <1>3, <1>4, <1>5

\* put opens the temporary file, which nobody sees, and empties it.
LEMMA PutOpenFiles ==
    ASSUME IInv, NEW t \in Threads, PutOpen(t)
    PROVE  FilesSound'
  <1> USE DEF IInv, FilesSound
  <1>1. PICK k \in Keys, v \in Values, i \in Inodes :
            /\ t \in config.writers[k]
            /\ i = tmp[k] \/ (tmp[k] = None /\ Unreferenced(i))
            /\ tmp' = [tmp EXCEPT ![k] = i]
            /\ Go(t, [At("write", k) EXCEPT !.value = v, !.file = i])
            /\ Reap([body EXCEPT ![i] = <<>>])
    BY DEF PutOpen
  <1>2. config' = config /\ dir' = dir /\ inner' = inner
    BY DEF PutOpen
  <1>3. /\ \A u \in Threads : u # t => th'[u] = th[u]
        /\ tmp'[k] = i /\ \A j \in Keys : j # k => tmp'[j] = tmp[j]
    BY <1>1 DEF Go, TypeOK
  <1>4. th'[t].pc = "write" /\ th'[t].key = k /\ th'[t].value = v /\ th'[t].at = 0 /\ th'[t].file = i
    BY <1>1 DEF Go, TypeOK, At
  <1>5. i # None
    BY <1>1, DiskAssumption
  <1>6. /\ \A j \in Keys : dir[j] # i /\ inner.maps[j] # i
        /\ \A j \in Keys : j # k => tmp[j] # i
        /\ \A u \in Threads : th[u].file = i => th[u].pc = "write" /\ th[u].key = k
    BY <1>1, <1>5 DEF NamesApart, TmpPrivate, Unreferenced
  <1>7. NamesApart'
    BY <1>2, <1>3, <1>6 DEF NamesApart
  <1>8. TmpPrivate'
    <2> SUFFICES ASSUME NEW l \in Keys, tmp'[l] # None
                 PROVE  /\ \A j \in Keys : inner'.maps[j] # tmp'[l]
                        /\ \A u \in Threads : th'[u].file = tmp'[l] => th'[u].pc = "write" /\ th'[u].key = l
      BY DEF TmpPrivate
    <2>1. CASE l = k
      BY <1>2, <1>3, <1>4, <1>6, <2>1
    <2>2. CASE l # k
      BY <1>2, <1>3, <1>4, <1>6, <2>2 DEF TmpPrivate
    <2> QED
      BY <2>1, <2>2
  <1>9. WritesOwnFile'
    <2> SUFFICES ASSUME NEW u \in Threads, NEW j \in Keys, th'[u].pc = "write", dir'[j] = th'[u].file
                 PROVE  j = th'[u].key
      BY DEF WritesOwnFile
    <2>1. CASE u = t
      BY <1>2, <1>4, <1>6, <2>1
    <2>2. CASE u # t
      BY <1>2, <1>3, <2>2 DEF WritesOwnFile
    <2> QED
      BY <2>1, <2>2
  <1>10. \A x \in Inodes : x # i /\ (\E j \in Keys : x = dir[j]) => body'[x] = body[x]
    <2> SUFFICES ASSUME NEW x \in Inodes, x # i, \E j \in Keys : x = dir[j] PROVE body'[x] = body[x]
      OBVIOUS
    <2>1. body'[x] = [body EXCEPT ![i] = <<>>][x]
      BY <1>1, <1>2, Referenced
    <2> QED
      BY <2>1 DEF TypeOK
  <1>11. Exclusive'
    <2> SUFFICES ASSUME NEW u \in Threads, th'[u].pc = "write",
                        Cardinality(config'.writers[th'[u].key]) <= 1
                 PROVE  /\ \A j \in Keys : th'[u].file \notin {dir'[j], inner'.maps[j]}
                        /\ \A s \in Threads : s # u => th'[s].file # th'[u].file
                        /\ tmp'[th'[u].key] \in {None, th'[u].file}
                        /\ body'[th'[u].file] = Prefix(th'[u].value, th'[u].at)
      BY DEF Exclusive, Prefix, OneWriter
    <2>1. CASE u = t
      <3>1. OneWriter(k)
        BY <1>2, <1>4, <2>1 DEF OneWriter
      <3>2. ASSUME NEW s \in Threads, s # t, th[s].file = i PROVE FALSE
        <4>1. th[s].pc = "write" /\ th[s].key = k /\ s \in config.writers[k]
          BY <1>6, <3>2 DEF Registered, Holds
        <4> QED
          BY <1>1, <3>1, <3>2, <4>1, OnlyWriter
      <3>3. body'[i] = [body EXCEPT ![i] = <<>>][i]
        BY <1>1, <1>4, Referenced
      <3>4. body'[i] = Prefix(v, 0)
        BY <3>3 DEF TypeOK, Prefix
      <3> QED
        BY <1>2, <1>3, <1>4, <1>6, <2>1, <3>2, <3>4
    <2>2. CASE u # t
      <3>1. /\ th'[u] = th[u] /\ th[u].pc = "write" /\ u \in config.writers[th[u].key]
            /\ th[u].key \in Keys /\ OneWriter(th[u].key) /\ th[u].file \in Inodes
        BY <1>2, <1>3, <2>2, DiskAssumption DEF Registered, Holds, OneWriter, TypeOK, Registers
      <3>2. th[u].key # k
        BY <1>1, <2>2, <3>1, OnlyWriter
      <3>3. th[u].file # i
        BY <1>6, <3>2
      <3>4. /\ \A j \in Keys : th[u].file \notin {dir[j], inner.maps[j]}
            /\ \A s \in Threads : s # u => th[s].file # th[u].file
            /\ tmp[th[u].key] \in {None, th[u].file}
            /\ body[th[u].file] = Prefix(th[u].value, th[u].at)
        BY <3>1 DEF Exclusive
      <3>5. body'[th[u].file] = [body EXCEPT ![i] = <<>>][th[u].file]
        BY <1>1, <3>1, Referenced
      <3>6. body'[th[u].file] = body[th[u].file]
        BY <3>1, <3>3, <3>5 DEF TypeOK
      <3> QED
        BY <1>2, <1>3, <1>4, <3>1, <3>2, <3>3, <3>4, <3>6
    <2> QED
      BY <2>1, <2>2
  <1>12. WholeValues'
    <2> SUFFICES ASSUME NEW j \in Keys, dir'[j] # None, OneWriter(j)'
                 PROVE  \E w \in Values : body'[dir'[j]] = Body(w)
      BY DEF WholeValues, Body
    <2>1. dir'[j] = dir[j] /\ dir[j] \in Inodes /\ OneWriter(j)
      BY <1>2 DEF OneWriter, TypeOK
    <2>2. body'[dir[j]] = body[dir[j]]
      BY <1>6, <1>10, <2>1
    <2> QED
      BY <2>1, <2>2 DEF WholeValues
  <1> QED
    BY <1>7, <1>8, <1>9, <1>11, <1>12

\* A write changes the bytes of the writer's own file only.
LEMMA PutWriteFiles ==
    ASSUME IInv, NEW t \in Threads, PutWrite(t)
    PROVE  FilesSound'
  <1> USE DEF IInv, FilesSound
  <1> DEFINE r == th[t]
             f == th[t].file
             b == [body EXCEPT ![f] = Overwrite(@, r.at + 1, r.value)]
  <1>1. /\ r.pc = "write" /\ r.at < Size(r.value) /\ th' = [th EXCEPT ![t] = [r EXCEPT !.at = @ + 1]]
        /\ Reap(b) /\ config' = config /\ dir' = dir /\ tmp' = tmp /\ inner' = inner
    BY DEF PutWrite, Go
  <1>2. r \in Registers /\ f \in Inodes /\ r.key \in Keys /\ r.at \in Nat /\ t \in config.writers[r.key]
    BY <1>1 DEF TypeOK, Registers, Registered, Holds
  <1>3. /\ \A u \in Threads : u # t => th'[u] = th[u]
        /\ th'[t].pc = "write" /\ th'[t].key = r.key /\ th'[t].value = r.value
        /\ th'[t].file = f /\ th'[t].at = r.at + 1
    BY <1>1, <1>2 DEF TypeOK, Registers
  <1>4. \A u \in Threads : /\ th'[u].pc = th[u].pc /\ th'[u].key = th[u].key
                           /\ th'[u].file = th[u].file /\ th'[u].value = th[u].value
    BY <1>1, <1>3
  <1>5. NamesApart' /\ TmpPrivate' /\ WritesOwnFile'
    BY <1>1, <1>4 DEF NamesApart, TmpPrivate, WritesOwnFile
  <1>6. \A x \in Inodes : x # f => b[x] = body[x]
    BY DEF TypeOK
  <1>7. b[f] = Overwrite(body[f], r.at + 1, r.value)
    BY <1>2 DEF TypeOK
  <1> HIDE DEF b, f
  <1>8. Exclusive'
    <2> SUFFICES ASSUME NEW u \in Threads, th'[u].pc = "write",
                        Cardinality(config'.writers[th'[u].key]) <= 1
                 PROVE  /\ \A j \in Keys : th'[u].file \notin {dir'[j], inner'.maps[j]}
                        /\ \A s \in Threads : s # u => th'[s].file # th'[u].file
                        /\ tmp'[th'[u].key] \in {None, th'[u].file}
                        /\ body'[th'[u].file] = Prefix(th'[u].value, th'[u].at)
      BY DEF Exclusive, Prefix, OneWriter
    <2>1. th[u].pc = "write" /\ OneWriter(th[u].key) /\ th[u].file \in Inodes
      BY <1>1, <1>4 DEF OneWriter, TypeOK, Registers, Registered, Holds
    <2>2. /\ \A j \in Keys : th[u].file \notin {dir[j], inner.maps[j]}
          /\ \A s \in Threads : s # u => th[s].file # th[u].file
          /\ tmp[th[u].key] \in {None, th[u].file}
          /\ body[th[u].file] = Prefix(th[u].value, th[u].at)
      BY <2>1 DEF Exclusive
    <2>3. body'[th[u].file] = b[th[u].file]
      BY <1>1, <1>4, <2>1, Referenced
    <2>4. CASE u = t
      <3>1. body[f] = Prefix(r.value, r.at)
        BY <2>2, <2>4 DEF f
      <3>2. Overwrite(Prefix(r.value, r.at), r.at + 1, r.value) = Prefix(r.value, r.at + 1)
        <4> DEFINE p == Prefix(r.value, r.at)
        <4>1. Len(p) = r.at /\ \A m \in 1 .. r.at : p[m] = r.value
          BY <1>2 DEF Prefix
        <4>2. Max({Len(p), r.at + 1}) = r.at + 1
          <5>1. r.at + 1 \in Nat /\ r.at <= r.at + 1
            BY <1>2
          <5> QED
            BY <1>2, <4>1, <5>1, MaxOfTwo
        <4> HIDE DEF p
        <4>3. Overwrite(p, r.at + 1, r.value)
                = [m \in 1 .. r.at + 1 |-> IF m = r.at + 1 THEN r.value ELSE IF m <= Len(p) THEN p[m] ELSE None]
          BY <4>2 DEF Overwrite
        <4>4. \A m \in 1 .. r.at + 1 :
                  (IF m = r.at + 1 THEN r.value ELSE IF m <= Len(p) THEN p[m] ELSE None) = r.value
          BY <1>2, <4>1
        <4>5. Overwrite(p, r.at + 1, r.value) = [m \in 1 .. r.at + 1 |-> r.value]
          BY <4>3, <4>4
        <4> QED
          BY <4>5 DEF Prefix, p
      <3>3. body'[f] = Prefix(r.value, r.at + 1)
        BY <1>7, <2>3, <2>4, <3>1, <3>2 DEF f
      <3> QED
        BY <1>1, <1>3, <1>4, <2>2, <2>4, <3>3 DEF f
    <2>5. CASE u # t
      <3>1. th[u].file # f
        BY <2>2, <2>5 DEF f
      <3>2. body'[th[u].file] = body[th[u].file]
        BY <1>6, <2>1, <2>3, <3>1
      <3> QED
        BY <1>1, <1>3, <1>4, <2>2, <2>5, <3>2
    <2> QED
      BY <2>4, <2>5
  <1>9. WholeValues'
    <2> SUFFICES ASSUME NEW j \in Keys, dir'[j] # None, OneWriter(j)'
                 PROVE  \E w \in Values : body'[dir'[j]] = Body(w)
      BY DEF WholeValues, Body
    <2>1. dir'[j] = dir[j] /\ dir[j] \in Inodes /\ OneWriter(j)
      BY <1>1 DEF OneWriter, TypeOK
    <2>2. dir[j] # f
      BY <1>1, <2>1 DEF WritesOwnFile, Exclusive, f
    <2>3. body'[dir[j]] = b[dir[j]]
      BY <1>1, <2>1, Referenced
    <2>4. body'[dir[j]] = body[dir[j]]
      BY <1>6, <2>1, <2>2, <2>3
    <2> QED
      BY <2>1, <2>4 DEF WholeValues
  <1> QED
    BY <1>5, <1>8, <1>9

\* What an only writer renames is the whole value.
LEMMA PutRenameFiles ==
    ASSUME IInv, NEW t \in Threads, PutRename(t), tmp[th[t].key] # None
    PROVE  FilesSound'
  <1> USE DEF IInv, FilesSound
  <1> DEFINE r == th[t]
             k == th[t].key
  <1>1. /\ r.pc = "write" /\ r.at = Size(r.value)
        /\ dir' = [dir EXCEPT ![k] = tmp[k]] /\ tmp' = [tmp EXCEPT ![k] = None]
        /\ Idle(t) \/ Go(t, [r EXCEPT !.pc = "remap", !.file = None])
        /\ config' = config /\ inner' = inner /\ Reap(body)
    BY DEF PutRename, Written
  <1>2. r \in Registers /\ k \in Keys /\ r.value \in Values /\ t \in config.writers[k] /\ r.file # None
    BY <1>1 DEF TypeOK, Registered, Holds
  <1>3. /\ \A u \in Threads : u # t => th'[u] = th[u]
        /\ th'[t].pc # "write" /\ th'[t].file = None
        /\ dir'[k] = tmp[k] /\ tmp'[k] = None /\ tmp[k] \in Inodes
        /\ \A j \in Keys : j # k => dir'[j] = dir[j] /\ tmp'[j] = tmp[j]
    <2>1. /\ dir'[k] = tmp[k] /\ tmp'[k] = None /\ tmp[k] \in Inodes
          /\ \A j \in Keys : j # k => dir'[j] = dir[j] /\ tmp'[j] = tmp[j]
      BY <1>1, <1>2 DEF TypeOK
    <2>2. CASE Idle(t)
      BY <2>1, <2>2 DEF TypeOK, Idle, Go, At
    <2>3. CASE Go(t, [r EXCEPT !.pc = "remap", !.file = None])
      BY <1>2, <2>1, <2>3 DEF TypeOK, Registers, Go
    <2> QED
      BY <1>1, <2>2, <2>3
  <1>4. NamesApart'
    BY <1>2, <1>3 DEF NamesApart
  <1>5. TmpPrivate'
    BY <1>1, <1>2, <1>3 DEF TmpPrivate
  <1>6. WritesOwnFile'
    BY <1>1, <1>2, <1>3 DEF WritesOwnFile, TmpPrivate
  <1>7. Exclusive'
    <2> SUFFICES ASSUME NEW u \in Threads, th'[u].pc = "write",
                        Cardinality(config'.writers[th'[u].key]) <= 1
                 PROVE  /\ \A j \in Keys : th'[u].file \notin {dir'[j], inner'.maps[j]}
                        /\ \A s \in Threads : s # u => th'[s].file # th'[u].file
                        /\ tmp'[th'[u].key] \in {None, th'[u].file}
                        /\ body'[th'[u].file] = Prefix(th'[u].value, th'[u].at)
      BY DEF Exclusive, Prefix, OneWriter
    <2>1. /\ u # t /\ th'[u] = th[u] /\ th[u].pc = "write" /\ u \in config.writers[th[u].key]
          /\ th[u].key \in Keys /\ OneWriter(th[u].key) /\ th[u].file \in Inodes /\ th[u].file # None
      BY <1>1, <1>3 DEF Registered, Holds, OneWriter, TypeOK, Registers
    <2>2. th[u].key # k
      BY <1>2, <2>1, OnlyWriter
    <2>3. th[u].file # tmp[k]
      BY <1>2, <2>1, <2>2 DEF TmpPrivate
    <2>4. /\ \A j \in Keys : th[u].file \notin {dir[j], inner.maps[j]}
          /\ \A s \in Threads : s # u => th[s].file # th[u].file
          /\ tmp[th[u].key] \in {None, th[u].file}
          /\ body[th[u].file] = Prefix(th[u].value, th[u].at)
      BY <2>1 DEF Exclusive
    <2>5. body'[th[u].file] = body[th[u].file]
      BY <1>1, <2>1, Referenced
    <2> QED
      BY <1>1, <1>2, <1>3, <2>1, <2>2, <2>3, <2>4, <2>5
  <1>8. WholeValues'
    <2> SUFFICES ASSUME NEW j \in Keys, dir'[j] # None, OneWriter(j)'
                 PROVE  \E w \in Values : body'[dir'[j]] = Body(w)
      BY DEF WholeValues, Body
    <2>1. dir'[j] \in Inodes /\ OneWriter(j)
      BY <1>1, <1>2, <1>3 DEF OneWriter, TypeOK
    <2>2. body'[dir'[j]] = body[dir'[j]]
      BY <1>1, <2>1, Referenced
    <2>3. CASE j = k
      <3>1. tmp[k] = r.file /\ body[r.file] = Prefix(r.value, r.at)
        BY <1>1, <2>1, <2>3 DEF Exclusive
      <3>2. Prefix(r.value, r.at) = Body(r.value)
        BY <1>1 DEF Prefix, Body
      <3> QED
        BY <1>2, <1>3, <2>2, <2>3, <3>1, <3>2
    <2>4. CASE j # k
      BY <1>3, <2>1, <2>2, <2>4 DEF WholeValues
    <2> QED
      BY <2>3, <2>4
  <1> QED
    BY <1>4, <1>5, <1>6, <1>7, <1>8

-----------------------------------------------------------------------------
(* Threads and the lock                                                    *)

HoldsLock == {"evict", "unlink", "clear"}

\* A step of one thread: its registers, and the lock.
LEMMA ThreadStep ==
    ASSUME TypeOK, Registered, config' = config,
           NEW t \in Threads, NEW r \in Registers, Holds(t, r), th' = [th EXCEPT ![t] = r],
           lock' = lock \/ (lock \in {None, t} /\ lock' \in {None, t}),
           r.pc \in HoldsLock <=> lock' = t
    PROVE  /\ th' \in [Threads -> Registers] /\ lock' \in Threads \cup {None} /\ Registered'
           /\ \A u \in Threads : th'[u].pc \in {"read", "insert", "write"} => th'[u].file # None
           /\ \A u \in Threads : th'[u].pc \in {"evict", "unlink", "clear"} <=> lock' = u
  <1>1. /\ th' \in [Threads -> Registers] /\ th'[t] = r
        /\ \A u \in Threads : u # t => th'[u] = th[u]
    BY DEF TypeOK
  <1>2. \A u \in Threads : Holds(u, th'[u])
    BY <1>1 DEF Registered
  <1>3. Registered'
    BY <1>2 DEF Registered, Holds
  <1>4. \A u \in Threads : th'[u].pc \in {"read", "insert", "write"} => th'[u].file # None
    BY <1>2 DEF Holds
  <1>5. \A u \in Threads : th'[u].pc \in {"evict", "unlink", "clear"} <=> lock' = u
    <2> SUFFICES ASSUME NEW u \in Threads PROVE th'[u].pc \in HoldsLock <=> lock' = u
      BY DEF HoldsLock
    <2>1. CASE u = t
      BY <1>1, <2>1
    <2>2. CASE u # t
      <3>1. th[u].pc \in HoldsLock <=> lock = u
        BY DEF TypeOK, HoldsLock
      <3>2. lock' = u <=> lock = u
        BY <2>2, DiskAssumption
      <3> QED
        BY <1>1, <2>2, <3>1, <3>2
    <2> QED
      BY <2>1, <2>2
  <1>6. lock' \in Threads \cup {None}
    BY DEF TypeOK
  <1> QED
    BY <1>1, <1>3, <1>4, <1>5, <1>6

\* The bytes of the files are bytes.
LEMMA ReapType ==
    ASSUME NEW b \in [Inodes -> Bodies], Reap(b)
    PROVE  body' \in [Inodes -> Bodies]
  <1>1. <<>> \in Bodies
    BY DEF Bodies
  <1> QED
    BY <1>1 DEF Reap

\* Nothing is accounted unless a put has the lock, and a put has the last word.
LEMMA BudgetStep ==
    ASSUME TypeOK, BudgetKept, config' = config, settled' = settled,
           inner'.total \in Nat, inner'.total <= inner.total,
           (lock' = None \/ \E u \in Threads : th'[u].pc = "clear") =>
               (lock = None \/ \E u \in Threads : th[u].pc = "clear")
    PROVE  BudgetKept'
  <1> SUFFICES ASSUME settled', config'.budget # None, lock' = None \/ \E u \in Threads : th'[u].pc = "clear"
               PROVE  inner'.total <= config'.budget
    BY DEF BudgetKept
  <1>1. inner.total <= config.budget
    BY DEF BudgetKept
  <1>2. config.budget \in Nat /\ inner.total \in Nat
    BY DiskAssumption DEF TypeOK, Inners
  <1> QED
    BY <1>1, <1>2

\* What a step of one thread has to keep.
LEMMA CallStep ==
    ASSUME IInv, config' = config, Synced(inner'), BudgetKept', FilesSound',
           NEW t \in Threads, NEW r \in Registers, Holds(t, r), th' = [th EXCEPT ![t] = r],
           lock' = lock \/ (lock \in {None, t} /\ lock' \in {None, t}),
           r.pc \in HoldsLock <=> lock' = t,
           body' \in [Inodes -> Bodies],
           dir' \in [Keys -> Inodes \cup {None}], tmp' \in [Keys -> Inodes \cup {None}],
           settled' \in BOOLEAN, kept' \in [Keys -> Values \cup {None}]
    PROVE  IInv'
  <1>1. TypeOK /\ Registered
    BY DEF IInv
  <1>2. /\ th' \in [Threads -> Registers] /\ lock' \in Threads \cup {None} /\ Registered'
        /\ \A u \in Threads : th'[u].pc \in {"read", "insert", "write"} => th'[u].file # None
        /\ \A u \in Threads : th'[u].pc \in {"evict", "unlink", "clear"} <=> lock' = u
    BY <1>1, ThreadStep
  <1>3. inner' \in Inners
    BY DEF Synced
  <1>4. config' \in Configs
    BY <1>1 DEF TypeOK
  <1>5. TypeOK'
    BY <1>2, <1>3, <1>4 DEF TypeOK
  <1>6. Synced(inner)'
    BY Zenon DEF Synced
  <1> QED
    BY <1>2, <1>5, <1>6 DEF IInv

\* And a step that is not one of an unfinished put.
LEMMA QuietStep ==
    ASSUME IInv, config' = config, Synced(inner'), BudgetKept', Reap(body),
           NEW t \in Threads, NEW r \in Registers, Holds(t, r), th' = [th EXCEPT ![t] = r],
           r.pc # "write", r.file \in Seen,
           lock' = lock \/ (lock \in {None, t} /\ lock' \in {None, t}),
           r.pc \in HoldsLock <=> lock' = t,
           \A k \in Keys : dir'[k] \in {dir[k], None} /\ tmp'[k] \in {tmp[k], None},
           \A k \in Keys : inner'.maps[k] \in Seen,
           dir' \in [Keys -> Inodes \cup {None}], tmp' \in [Keys -> Inodes \cup {None}],
           settled' \in BOOLEAN, kept' \in [Keys -> Values \cup {None}]
    PROVE  IInv'
  <1>1. TypeOK
    BY DEF IInv
  <1>2. \A u \in Threads : th'[u] = th[u] \/ (th'[u].pc # "write" /\ th'[u].file \in Seen)
    BY <1>1 DEF TypeOK
  <1>3. FilesSound'
    BY <1>2, SeenStep
  <1>4. body' \in [Inodes -> Bodies]
    BY <1>1, ReapType DEF TypeOK
  <1> QED
    BY <1>3, <1>4, CallStep

LEMMA AtFacts ==
    ASSUME NEW p \in Phases, NEW k \in Keys \cup {None}
    PROVE  At(p, k) \in Registers /\ At(p, k).pc = p /\ At(p, k).key = k /\ At(p, k).file = None
  BY DEF At, Registers

LEMMA SeenFacts ==
    /\ None \in Seen
    /\ \A k \in Keys : dir[k] \in Seen /\ inner.maps[k] \in Seen
    /\ \A t \in Threads : th[t].pc # "write" => th[t].file \in Seen
  BY DEF Seen

\* The lock stays where it is, and nothing is added to the total.
LEMMA PlainStep ==
    ASSUME IInv, config' = config, lock' = lock, settled' = settled, Reap(body),
           NEW t \in Threads, NEW r \in Registers, Holds(t, r), th' = [th EXCEPT ![t] = r],
           r.pc # "write", r.file \in Seen,
           r.pc \in HoldsLock <=> th[t].pc \in HoldsLock, r.pc = "clear" => th[t].pc = "clear",
           Synced(inner'), inner'.total <= inner.total,
           \A k \in Keys : dir'[k] \in {dir[k], None} /\ tmp'[k] \in {tmp[k], None},
           \A k \in Keys : inner'.maps[k] \in Seen,
           dir' \in [Keys -> Inodes \cup {None}], tmp' \in [Keys -> Inodes \cup {None}],
           kept' \in [Keys -> Values \cup {None}]
    PROVE  IInv'
  <1>1. TypeOK /\ BudgetKept
    BY DEF IInv
  <1>2. r.pc \in HoldsLock <=> lock' = t
    BY <1>1 DEF TypeOK, HoldsLock
  <1>3. th'[t] = r /\ \A u \in Threads : u # t => th'[u] = th[u]
    BY <1>1 DEF TypeOK
  <1>4. (\E u \in Threads : th'[u].pc = "clear") => \E u \in Threads : th[u].pc = "clear"
    BY <1>3
  <1>5. inner'.total \in Nat
    BY DEF Synced, Inners
  <1>6. BudgetKept'
    BY <1>1, <1>4, <1>5, BudgetStep
  <1>7. settled' \in BOOLEAN
    BY <1>1 DEF TypeOK
  <1> QED
    BY <1>2, <1>6, <1>7, QuietStep

\* A step that changes the registers of a thread only.
LEMMA LocalStep ==
    ASSUME IInv, Reap(body), UNCHANGED <<config, dir, tmp, inner, lock, settled, kept>>,
           NEW t \in Threads, NEW r \in Registers, Holds(t, r), th' = [th EXCEPT ![t] = r],
           r.pc # "write", r.file \in Seen, r.pc \notin HoldsLock, th[t].pc \notin HoldsLock
    PROVE  IInv'
  <1>1. config' = config /\ lock' = lock /\ settled' = settled /\ inner' = inner /\ dir' = dir /\ tmp' = tmp /\ kept' = kept
    OBVIOUS
  <1>2. TypeOK /\ Synced(inner)
    BY DEF IInv
  <1>3. Synced(inner') /\ inner'.total <= inner.total
    BY <1>1, <1>2 DEF TypeOK, Inners
  <1>4. /\ \A k \in Keys : dir'[k] \in {dir[k], None} /\ tmp'[k] \in {tmp[k], None}
        /\ \A k \in Keys : inner'.maps[k] \in Seen
    BY <1>1, SeenFacts
  <1>5. /\ dir' \in [Keys -> Inodes \cup {None}] /\ tmp' \in [Keys -> Inodes \cup {None}]
        /\ kept' \in [Keys -> Values \cup {None}]
    BY <1>1, <1>2 DEF TypeOK
  <1>6. r.pc \in HoldsLock <=> th[t].pc \in HoldsLock
    OBVIOUS
  <1>7. r.pc = "clear" => th[t].pc = "clear"
    BY DEF HoldsLock
  <1> QED
    BY <1>1, <1>3, <1>4, <1>5, <1>6, <1>7, PlainStep

\* The call returns where it is.
LEMMA ReturnStep ==
    ASSUME IInv, NEW t \in Threads, Idle(t), th[t].pc \notin HoldsLock,
           Reap(body), UNCHANGED <<config, dir, tmp, inner, lock, settled, kept>>
    PROVE  IInv'
  <1> DEFINE r == At("idle", None)
  <1>1. r \in Registers /\ r.pc = "idle" /\ r.file = None
    BY AtFacts DEF Phases
  <1>2. th' = [th EXCEPT ![t] = r]
    BY DEF Idle, Go
  <1> HIDE DEF r
  <1>3. Holds(t, r) /\ r.pc # "write" /\ r.file \in Seen /\ r.pc \notin HoldsLock
    BY <1>1, SeenFacts DEF Holds, HoldsLock
  <1> QED
    BY <1>1, <1>2, <1>3, LocalStep

-----------------------------------------------------------------------------
(* The operations                                                          *)

LEMMA GetHitKeeps ==
    ASSUME IInv, NEW t \in Threads, GetHit(t)
    PROVE  IInv'
  <1>1. PICK k \in Keys : /\ inner.maps[k] # None /\ inner' \in Touched(inner, k)
                          /\ Go(t, [At("idle", None) EXCEPT !.file = inner.maps[k]])
    BY DEF GetHit
  <1>2. /\ th[t].pc = "idle" /\ config' = config /\ dir' = dir /\ tmp' = tmp /\ lock' = lock
        /\ settled' = settled /\ kept' = kept /\ Reap(body)
    BY DEF GetHit
  <1>3. TypeOK /\ Synced(inner)
    BY DEF IInv
  <1> DEFINE r == [At("idle", None) EXCEPT !.file = inner.maps[k]]
  <1>4. inner.maps[k] \in Inodes \cup {None} /\ inner.total \in Nat
    BY <1>3 DEF TypeOK, Inners
  <1>5. r \in Registers /\ r.pc = "idle" /\ r.file = inner.maps[k]
    BY <1>4 DEF At, Registers, Phases
  <1>6. th' = [th EXCEPT ![t] = r]
    BY <1>1 DEF Go
  <1> HIDE DEF r
  <1>7. Synced(inner') /\ inner'.maps = inner.maps /\ inner'.total = inner.total
    BY <1>1, <1>3, TouchedFacts
  <1>8. Holds(t, r) /\ r.pc # "write" /\ r.file \in Seen /\ r.pc \notin HoldsLock /\ th[t].pc \notin HoldsLock
    BY <1>2, <1>5, SeenFacts DEF Holds, HoldsLock
  <1>9. /\ inner'.total <= inner.total
        /\ \A l \in Keys : dir'[l] \in {dir[l], None} /\ tmp'[l] \in {tmp[l], None}
        /\ \A l \in Keys : inner'.maps[l] \in Seen
    BY <1>2, <1>4, <1>7, SeenFacts
  <1>10. /\ dir' \in [Keys -> Inodes \cup {None}] /\ tmp' \in [Keys -> Inodes \cup {None}]
         /\ kept' \in [Keys -> Values \cup {None}]
    BY <1>2, <1>3 DEF TypeOK
  <1>11. (r.pc \in HoldsLock <=> th[t].pc \in HoldsLock) /\ (r.pc = "clear" => th[t].pc = "clear")
    BY <1>8 DEF HoldsLock
  <1> QED
    BY <1>2, <1>5, <1>6, <1>7, <1>8, <1>9, <1>10, <1>11, PlainStep

LEMMA GetMissKeeps ==
    ASSUME IInv, NEW t \in Threads, GetMiss(t)
    PROVE  IInv'
  <1>1. PICK k \in Keys : Go(t, At("map", k))
    BY DEF GetMiss
  <1> DEFINE r == At("map", k)
  <1>2. r \in Registers /\ r.pc = "map" /\ r.key = k /\ r.file = None
    BY AtFacts DEF Phases
  <1>3. th' = [th EXCEPT ![t] = r]
    BY <1>1 DEF Go
  <1> HIDE DEF r
  <1>4. /\ Holds(t, r) /\ r.pc # "write" /\ r.file \in Seen
        /\ r.pc \notin HoldsLock /\ th[t].pc \notin HoldsLock
    BY <1>2, SeenFacts DEF Holds, HoldsLock, GetMiss
  <1>5. Reap(body) /\ UNCHANGED <<config, dir, tmp, inner, lock, settled, kept>>
    BY DEF GetMiss
  <1> QED
    BY <1>2, <1>3, <1>4, <1>5, LocalStep

LEMMA GetMapKeeps ==
    ASSUME IInv, NEW t \in Threads, GetMap(t)
    PROVE  IInv'
  <1> DEFINE k == th[t].key
             p == IF config.kind = "mmap" THEN "insert" ELSE "read"
             r == [At(p, k) EXCEPT !.file = dir[k]]
  <1>1. Reap(body) /\ UNCHANGED <<config, dir, tmp, inner, lock, settled, kept>> /\ th[t].pc = "map"
    BY DEF GetMap
  <1>2. th[t].pc \notin HoldsLock
    BY <1>1 DEF HoldsLock
  <1>3. CASE dir[k] = None
    <2>1. Idle(t)
      BY <1>3 DEF GetMap
    <2> QED
      BY <1>1, <1>2, <2>1, ReturnStep
  <1>4. CASE dir[k] # None
    <2>1. k \in Keys /\ dir[k] \in Inodes \cup {None}
      BY <1>1 DEF IInv, TypeOK, Registered, Holds
    <2>2. r \in Registers /\ r.pc = p /\ r.key = k /\ r.file = dir[k]
      BY <2>1 DEF At, Registers, Phases
    <2>3. th' = [th EXCEPT ![t] = r]
      BY <1>4 DEF GetMap, Go
    <2> HIDE DEF r
    <2>4. Holds(t, r) /\ r.pc # "write" /\ r.file \in Seen /\ r.pc \notin HoldsLock
      BY <1>4, <2>1, <2>2, SeenFacts DEF Holds, HoldsLock
    <2> QED
      BY <1>1, <1>2, <2>2, <2>3, <2>4, LocalStep
  <1> QED
    BY <1>3, <1>4

LEMMA GetReadKeeps ==
    ASSUME IInv, NEW t \in Threads, GetRead(t)
    PROVE  IInv'
  <1>1. /\ Reap(body) /\ UNCHANGED <<config, dir, tmp, inner, lock, settled, kept>>
        /\ Idle(t) /\ th[t].pc = "read"
    BY DEF GetRead
  <1>2. th[t].pc \notin HoldsLock
    BY <1>1 DEF HoldsLock
  <1> QED
    BY <1>1, <1>2, ReturnStep

LEMMA FailKeeps ==
    ASSUME IInv, NEW t \in Threads, Fail(t)
    PROVE  IInv'
  <1>1. /\ Reap(body) /\ UNCHANGED <<config, dir, tmp, inner, lock, settled, kept>>
        /\ Idle(t) /\ th[t].pc \in {"write", "map", "remap", "delete"}
    BY DEF Fail
  <1>2. th[t].pc \notin HoldsLock
    BY <1>1 DEF HoldsLock
  <1> QED
    BY <1>1, <1>2, ReturnStep

\* A mapping is retained for an accounted key.
LEMMA MapSynced ==
    ASSUME NEW i, Synced(i), NEW k \in Keys, NEW f \in Inodes \cup {None}, i.sizes[k] # None
    PROVE  LET j == [i EXCEPT !.maps[k] = f]
           IN  Synced(j) /\ j.maps = [i.maps EXCEPT ![k] = f] /\ j.sizes = i.sizes /\ j.total = i.total
  <1> DEFINE j == [i EXCEPT !.maps[k] = f]
  <1>1. i \in Inners
    BY DEF Synced
  <1>2. /\ j \in Inners /\ j.maps = [i.maps EXCEPT ![k] = f] /\ j.sizes = i.sizes /\ j.total = i.total
        /\ j.order = i.order /\ j.stamps = i.stamps
    BY <1>1 DEF Inners
  <1> HIDE DEF j
  <1>3. Accounted(j) = Accounted(i)
    BY <1>2 DEF Accounted
  <1>4. SumOf(j) = SumOf(i)
    BY <1>1, <1>2, <1>3, SumFacts
  <1>5. NoGhosts(j)
    BY <1>1, <1>2 DEF Synced, NoGhosts, Inners
  <1> QED
    BY <1>2, <1>3, <1>4, <1>5 DEF Synced, Ticketing, j

LEMMA GetInsertKeeps ==
    ASSUME IInv, NEW t \in Threads, GetInsert(t)
    PROVE  IInv'
  <1> DEFINE k == th[t].key
             f == th[t].file
             i1 == [inner EXCEPT !.maps[k] = f]
             r == [At("idle", None) EXCEPT !.file = f]
  <1>1. /\ th[t].pc = "insert" /\ config' = config /\ dir' = dir /\ tmp' = tmp /\ lock' = lock
        /\ settled' = settled /\ kept' = kept /\ Reap(body) /\ th' = [th EXCEPT ![t] = r]
        /\ inner' \in IF inner.sizes[k] = None THEN {inner} ELSE Touched(i1, k)
    BY DEF GetInsert, Go
  <1>2. TypeOK /\ Synced(inner) /\ k \in Keys /\ f \in Inodes \cup {None} /\ f \in Seen
    BY <1>1, SeenFacts DEF IInv, Registered, Holds, TypeOK, Registers
  <1>3. inner.total \in Nat /\ inner.maps \in [Keys -> Inodes \cup {None}]
    BY <1>2 DEF TypeOK, Inners
  <1>4. r \in Registers /\ r.pc = "idle" /\ r.file = f
    BY <1>2 DEF At, Registers, Phases
  <1>5. /\ Synced(inner') /\ inner'.total = inner.total
        /\ inner'.maps = inner.maps \/ inner'.maps = [inner.maps EXCEPT ![k] = f]
    <2>1. CASE inner.sizes[k] = None
      BY <1>1, <1>2, <2>1
    <2>2. CASE inner.sizes[k] # None
      <3>1. Synced(i1) /\ i1.maps = [inner.maps EXCEPT ![k] = f] /\ i1.total = inner.total
        BY <1>2, <2>2, MapSynced
      <3>2. inner' \in Touched(i1, k)
        BY <1>1, <2>2
      <3> HIDE DEF i1, k, f
      <3>3. Synced(inner') /\ inner'.maps = i1.maps /\ inner'.total = i1.total
        BY <1>2, <3>1, <3>2, TouchedFacts
      <3> QED
        BY <3>1, <3>3
    <2> QED
      BY <2>1, <2>2
  <1> HIDE DEF r, k, f
  <1>6. Holds(t, r) /\ r.pc # "write" /\ r.file \in Seen /\ r.pc \notin HoldsLock /\ th[t].pc \notin HoldsLock
    BY <1>1, <1>2, <1>4 DEF Holds, HoldsLock
  <1>7. /\ inner'.total <= inner.total
        /\ \A l \in Keys : dir'[l] \in {dir[l], None} /\ tmp'[l] \in {tmp[l], None}
        /\ \A l \in Keys : inner'.maps[l] \in Seen
    BY <1>1, <1>2, <1>3, <1>5, SeenFacts
  <1>8. /\ dir' \in [Keys -> Inodes \cup {None}] /\ tmp' \in [Keys -> Inodes \cup {None}]
        /\ kept' \in [Keys -> Values \cup {None}]
    BY <1>1, <1>2 DEF TypeOK
  <1>9. (r.pc \in HoldsLock <=> th[t].pc \in HoldsLock) /\ (r.pc = "clear" => th[t].pc = "clear")
    BY <1>6 DEF HoldsLock
  <1> QED
    BY <1>1, <1>4, <1>5, <1>6, <1>7, <1>8, <1>9, PlainStep

\* A step of a put that leaves memory and lock alone.
LEMMA WritingStep ==
    ASSUME IInv, FilesSound', UNCHANGED <<config, inner, lock, settled>>,
           NEW t \in Threads, NEW r \in Registers, Holds(t, r), th' = [th EXCEPT ![t] = r],
           r.pc \notin HoldsLock, th[t].pc \notin HoldsLock,
           body' \in [Inodes -> Bodies],
           dir' \in [Keys -> Inodes \cup {None}], tmp' \in [Keys -> Inodes \cup {None}],
           kept' \in [Keys -> Values \cup {None}]
    PROVE  IInv'
  <1>1. TypeOK /\ Synced(inner) /\ BudgetKept
    BY DEF IInv
  <1>2. config' = config /\ lock' = lock /\ settled' = settled /\ inner' = inner
    OBVIOUS
  <1>3. Synced(inner')
    BY <1>1, <1>2
  <1>4. th'[t] = r /\ \A u \in Threads : u # t => th'[u] = th[u]
    BY <1>1 DEF TypeOK
  <1>5. (\E u \in Threads : th'[u].pc = "clear") => \E u \in Threads : th[u].pc = "clear"
    BY <1>4 DEF HoldsLock
  <1>6. inner'.total \in Nat /\ inner'.total <= inner.total
    BY <1>1, <1>2 DEF Synced, Inners
  <1>7. BudgetKept'
    BY <1>1, <1>2, <1>5, <1>6, BudgetStep
  <1>8. (r.pc \in HoldsLock <=> lock' = t) /\ settled' \in BOOLEAN
    BY <1>1, <1>2 DEF TypeOK, HoldsLock
  <1> QED
    BY <1>2, <1>3, <1>7, <1>8, CallStep

LEMMA PutOpenKeeps ==
    ASSUME IInv, NEW t \in Threads, PutOpen(t)
    PROVE  IInv'
  <1>1. PICK k \in Keys, v \in Values, i \in Inodes :
            /\ t \in config.writers[k]
            /\ tmp' = [tmp EXCEPT ![k] = i]
            /\ Go(t, [At("write", k) EXCEPT !.value = v, !.file = i])
            /\ Reap([body EXCEPT ![i] = <<>>])
    BY DEF PutOpen
  <1>2. UNCHANGED <<config, inner, lock, settled>> /\ dir' = dir /\ kept' = kept /\ th[t].pc = "idle"
    BY DEF PutOpen
  <1> DEFINE r == [At("write", k) EXCEPT !.value = v, !.file = i]
             b == [body EXCEPT ![i] = <<>>]
  <1>3. TypeOK
    BY DEF IInv
  <1>4. FilesSound'
    BY PutOpenFiles
  <1>5. /\ r \in Registers /\ r.pc = "write" /\ r.key = k /\ r.value = v /\ r.file = i /\ r.at = 0
    BY DEF At, Registers, Phases
  <1>6. th' = [th EXCEPT ![t] = r]
    BY <1>1 DEF Go
  <1> HIDE DEF r
  <1>7. Holds(t, r)
    BY <1>1, <1>5, DiskAssumption DEF Holds
  <1>8. r.pc \notin HoldsLock /\ th[t].pc \notin HoldsLock
    BY <1>2, <1>5 DEF HoldsLock
  <1>9. b \in [Inodes -> Bodies]
    <2>1. <<>> \in Bodies
      BY DEF Bodies
    <2> QED
      BY <1>3, <2>1 DEF TypeOK
  <1> HIDE DEF b
  <1>10. body' \in [Inodes -> Bodies]
    BY <1>1, <1>9, ReapType DEF b
  <1>11. /\ dir' \in [Keys -> Inodes \cup {None}] /\ tmp' \in [Keys -> Inodes \cup {None}]
         /\ kept' \in [Keys -> Values \cup {None}]
    BY <1>1, <1>2, <1>3 DEF TypeOK
  <1> QED
    BY <1>2, <1>4, <1>5, <1>6, <1>7, <1>8, <1>10, <1>11, WritingStep

LEMMA PutWriteKeeps ==
    ASSUME IInv, NEW t \in Threads, PutWrite(t)
    PROVE  IInv'
  <1> DEFINE q == th[t]
             r == [th[t] EXCEPT !.at = @ + 1]
             b == [body EXCEPT ![th[t].file] = Overwrite(@, th[t].at + 1, th[t].value)]
  <1>1. /\ q.pc = "write" /\ q.at < Size(q.value) /\ th' = [th EXCEPT ![t] = r] /\ Reap(b)
        /\ UNCHANGED <<config, inner, lock, settled>> /\ dir' = dir /\ tmp' = tmp /\ kept' = kept
    BY DEF PutWrite, Go
  <1>2. TypeOK /\ q \in Registers /\ Holds(t, q)
    BY DEF IInv, Registered, TypeOK
  <1>3. q.key \in Keys /\ q.file \in Inodes /\ q.value \in Values /\ q.at \in Nat /\ Size(q.value) \in Nat
    BY <1>1, <1>2, DiskAssumption DEF Holds, Registers
  <1>4. /\ r \in Registers /\ r.pc = "write" /\ r.key = q.key /\ r.value = q.value
        /\ r.file = q.file /\ r.at = q.at + 1
    BY <1>1, <1>2 DEF Registers
  <1>5. b \in [Inodes -> Bodies]
    <2> DEFINE c == body[q.file]
               n == q.at + 1
               m == Max({Len(c), n})
               o == Overwrite(c, n, q.value)
    <2>1. c \in Seq(Values \cup {None}) /\ Len(c) \in Nat /\ n \in Nat /\ q.value \in Values \cup {None}
      BY <1>2, <1>3 DEF TypeOK, Bodies
    <2>2. \A l \in 1 .. Len(c) : c[l] \in Values \cup {None}
      BY <2>1
    <2>3. o = [l \in 1 .. m |-> IF l = n THEN q.value ELSE IF l <= Len(c) THEN c[l] ELSE None]
      BY DEF Overwrite
    <2> HIDE DEF c, n, o
    <2>4. m \in Nat
      BY <2>1, MaxOfTwo
    <2> HIDE DEF m
    <2>5. o \in [1 .. m -> Values \cup {None}]
      <3>1. \A l \in 1 .. m : (IF l = n THEN q.value ELSE IF l <= Len(c) THEN c[l] ELSE None) \in Values \cup {None}
        BY <2>1, <2>2, <2>4
      <3> QED
        BY <2>3, <3>1
    <2>6. o \in UNION {[1 .. l -> Values \cup {None}] : l \in Nat}
      BY <2>4, <2>5, Zenon
    <2>7. o \in Bodies
      BY <2>6, SeqDef, Zenon DEF Bodies
    <2>8. Overwrite(body[q.file], q.at + 1, q.value) \in Bodies
      BY <2>7 DEF o, c, n
    <2> QED
      BY <1>2, <2>8 DEF TypeOK
  <1> HIDE DEF b, r
  <1>6. Holds(t, r)
    BY <1>1, <1>2, <1>3, <1>4 DEF Holds
  <1>7. r.pc \notin HoldsLock /\ th[t].pc \notin HoldsLock
    BY <1>1, <1>4 DEF HoldsLock
  <1>8. body' \in [Inodes -> Bodies]
    BY <1>1, <1>5, ReapType
  <1>9. /\ dir' \in [Keys -> Inodes \cup {None}] /\ tmp' \in [Keys -> Inodes \cup {None}]
        /\ kept' \in [Keys -> Values \cup {None}]
    BY <1>1, <1>2 DEF TypeOK
  <1>10. FilesSound'
    BY PutWriteFiles
  <1> QED
    BY <1>1, <1>4, <1>6, <1>7, <1>8, <1>9, <1>10, WritingStep

LEMMA PutRenameKeeps ==
    ASSUME IInv, NEW t \in Threads, PutRename(t)
    PROVE  IInv'
  <1> DEFINE q == th[t]
             k == th[t].key
  <1>1. q.pc = "write" /\ UNCHANGED <<config, inner, lock, settled>> /\ Reap(body)
    BY DEF PutRename
  <1>2. TypeOK /\ q \in Registers /\ Holds(t, q) /\ k \in Keys /\ q.value \in Values
    BY <1>1 DEF IInv, Registered, TypeOK, Holds
  <1>3. th[t].pc \notin HoldsLock
    BY <1>1 DEF HoldsLock
  <1>4. CASE tmp[k] = None
    <2>1. Idle(t) /\ UNCHANGED <<dir, tmp, kept>>
      BY <1>4 DEF PutRename
    <2> QED
      BY <1>1, <1>3, <2>1, ReturnStep
  <1>5. CASE tmp[k] # None
    <2> DEFINE r == IF config.kind = "disk" THEN At("idle", None)
                    ELSE [q EXCEPT !.pc = "remap", !.file = None]
    <2>1. /\ dir' = [dir EXCEPT ![k] = tmp[k]] /\ tmp' = [tmp EXCEPT ![k] = None]
          /\ kept' = [kept EXCEPT ![k] = q.value]
          /\ IF config.kind = "disk" THEN Idle(t) ELSE Go(t, [q EXCEPT !.pc = "remap", !.file = None])
      BY <1>5 DEF PutRename
    <2>2. th' = [th EXCEPT ![t] = r]
      <3>1. CASE config.kind = "disk"
        BY <2>1, <3>1 DEF Idle, Go
      <3>2. CASE config.kind # "disk"
        BY <2>1, <3>2 DEF Go
      <3> QED
        BY <3>1, <3>2
    <2>3. r \in Registers /\ Holds(t, r) /\ r.pc \notin HoldsLock
      <3>1. CASE config.kind = "disk"
        <4>1. r = At("idle", None)
          BY <3>1
        <4> HIDE DEF r
        <4>2. r \in Registers /\ r.pc = "idle"
          BY <4>1, AtFacts DEF Phases
        <4> QED
          BY <4>2 DEF Holds, HoldsLock
      <3>2. CASE config.kind # "disk"
        <4>1. r = [q EXCEPT !.pc = "remap", !.file = None]
          BY <3>2
        <4> HIDE DEF r
        <4>2. r \in Registers /\ r.pc = "remap" /\ r.key = q.key /\ r.value = q.value
          BY <1>2, <4>1 DEF Registers, Phases
        <4> QED
          BY <1>1, <1>2, <4>2 DEF Holds, HoldsLock
      <3> QED
        BY <3>1, <3>2
    <2> HIDE DEF r
    <2>4. /\ dir' \in [Keys -> Inodes \cup {None}] /\ tmp' \in [Keys -> Inodes \cup {None}]
          /\ kept' \in [Keys -> Values \cup {None}]
      BY <1>2, <2>1 DEF TypeOK
    <2>5. body' \in [Inodes -> Bodies]
      BY <1>1, <1>2, ReapType DEF TypeOK
    <2>6. FilesSound'
      BY <1>5, PutRenameFiles
    <2> QED
      BY <1>1, <1>3, <2>2, <2>3, <2>4, <2>5, <2>6, WritingStep
  <1> QED
    BY <1>4, <1>5

LEMMA PutRemapKeeps ==
    ASSUME IInv, NEW t \in Threads, PutRemap(t)
    PROVE  IInv'
  <1> DEFINE r == [th[t] EXCEPT !.pc = "account", !.file = dir[th[t].key]]
  <1>1. /\ Reap(body) /\ UNCHANGED <<config, dir, tmp, inner, lock, settled, kept>>
        /\ th[t].pc = "remap" /\ th' = [th EXCEPT ![t] = r]
    BY DEF PutRemap, Go
  <1>2. TypeOK /\ th[t] \in Registers /\ Holds(t, th[t]) /\ th[t].key \in Keys
    BY <1>1 DEF IInv, Registered, TypeOK, Holds
  <1>3. dir[th[t].key] \in Inodes \cup {None} /\ dir[th[t].key] \in Seen
    BY <1>2, SeenFacts DEF TypeOK
  <1>4. /\ r \in Registers /\ r.pc = "account" /\ r.key = th[t].key /\ r.value = th[t].value
        /\ r.file = dir[th[t].key]
    BY <1>2, <1>3 DEF Registers, Phases
  <1> HIDE DEF r
  <1>5. Holds(t, r) /\ r.pc # "write" /\ r.file \in Seen /\ r.pc \notin HoldsLock /\ th[t].pc \notin HoldsLock
    BY <1>1, <1>2, <1>3, <1>4 DEF Holds, HoldsLock
  <1> QED
    BY <1>1, <1>4, <1>5, LocalStep

\* While the lock is free, or held by the thread t, no other thread clears.
LEMMA LockedOut ==
    ASSUME TypeOK, NEW t \in Threads, lock \in {None, t}
    PROVE  \A u \in Threads : u # t => th[u].pc \notin HoldsLock
  BY DiskAssumption DEF TypeOK, HoldsLock

LEMMA PutAccountKeeps ==
    ASSUME IInv, NEW t \in Threads, PutAccount(t)
    PROVE  IInv'
  <1> DEFINE q == th[t]
             r == At("evict", None)
  <1>1. /\ q.pc = "account" /\ lock = None /\ lock' = t /\ th' = [th EXCEPT ![t] = r] /\ Reap(body)
        /\ inner' \in Stored(inner, q.key, Size(q.value), q.file)
        /\ config' = config /\ dir' = dir /\ tmp' = tmp /\ settled' = settled /\ kept' = kept
    BY DEF PutAccount, Go, Locked
  <1>2. /\ TypeOK /\ Synced(inner) /\ q \in Registers /\ Holds(t, q) /\ q.key \in Keys
        /\ q.value \in Values /\ q.file \in Inodes \cup {None} /\ Size(q.value) \in Nat
    BY <1>1, DiskAssumption DEF IInv, Registered, TypeOK, Holds, Registers
  <1>3. r \in Registers /\ r.pc = "evict" /\ r.file = None
    BY AtFacts DEF Phases
  <1> HIDE DEF r
  <1>4. Holds(t, r) /\ r.pc # "write" /\ r.file \in Seen /\ r.pc \in HoldsLock /\ q.file \in Seen
    BY <1>1, <1>3, SeenFacts DEF Holds, HoldsLock
  <1>5. /\ Synced(inner') /\ inner'.maps[q.key] \in {inner.maps[q.key], q.file}
        /\ \A l \in Keys : l # q.key => inner'.maps[l] = inner.maps[l]
    <2> DEFINE k == q.key
               n == Size(q.value)
               f == q.file
    <2>1. inner' \in Stored(inner, k, n, f) /\ k \in Keys /\ n \in Nat /\ f \in Inodes \cup {None}
      BY <1>1, <1>2
    <2> HIDE DEF k, n, f
    <2>2. /\ Synced(inner') /\ inner'.maps[k] \in {inner.maps[k], f}
          /\ \A l \in Keys : l # k => inner'.maps[l] = inner.maps[l]
      BY <1>2, <2>1, StoredFacts
    <2> QED
      BY <2>2 DEF k, f
  <1>6. \A l \in Keys : inner'.maps[l] \in Seen
    BY <1>2, <1>4, <1>5, SeenFacts
  <1>7. BudgetKept'
    <2>1. th'[t].pc = "evict" /\ \A u \in Threads : u # t => th'[u] = th[u]
      BY <1>1, <1>2, <1>3 DEF TypeOK
    <2>2. \A u \in Threads : u # t => th[u].pc \notin HoldsLock
      BY <1>1, <1>2, LockedOut
    <2>3. lock' # None /\ ~\E u \in Threads : th'[u].pc = "clear"
      BY <1>1, <2>1, <2>2, DiskAssumption DEF HoldsLock
    <2> QED
      BY <2>3 DEF BudgetKept
  <1>8. /\ dir' \in [Keys -> Inodes \cup {None}] /\ tmp' \in [Keys -> Inodes \cup {None}]
        /\ kept' \in [Keys -> Values \cup {None}] /\ settled' \in BOOLEAN
    BY <1>1, <1>2 DEF TypeOK
  <1>9. \A l \in Keys : dir'[l] \in {dir[l], None} /\ tmp'[l] \in {tmp[l], None}
    BY <1>1
  <1>10. (lock' = lock \/ (lock \in {None, t} /\ lock' \in {None, t})) /\ (r.pc \in HoldsLock <=> lock' = t)
    BY <1>1, <1>4
  <1> QED
    BY <1>1, <1>3, <1>4, <1>5, <1>6, <1>7, <1>8, <1>9, <1>10, QuietStep

LEMMA EvictKeeps ==
    ASSUME IInv, NEW t \in Threads, Evict(t)
    PROVE  IInv'
  <1> DEFINE n == Min(LiveAt(inner))
             k == inner.order[n]
             o == SubSeq(inner.order, n + 1, Len(inner.order))
             i1 == [inner EXCEPT !.order = o]
             r == At("unlink", k)
  <1>1. /\ th[t].pc = "evict" /\ LiveAt(inner) # {} /\ inner' = RemoveAccounting(i1, k)
        /\ th' = [th EXCEPT ![t] = r] /\ Reap(body)
        /\ config' = config /\ dir' = dir /\ tmp' = tmp /\ lock' = lock /\ settled' = settled
    BY DEF Evict, Go
  <1>2. TypeOK /\ Synced(inner)
    BY DEF IInv
  <1>3. k \in Keys /\ o \in Seq(Keys) /\ Len(o) <= MostTickets /\ inner.stamps \ {k} \subseteq ToSet(o)
    BY <1>1, <1>2, PoppedFacts
  <1>4. kept' \in [Keys -> Values \cup {None}]
    <2>1. kept' = kept \/ kept' = [kept EXCEPT ![k] = None]
      BY DEF Evict
    <2> QED
      BY <1>2, <2>1 DEF TypeOK
  <1>5. r \in Registers /\ r.pc = "unlink" /\ r.key = k /\ r.file = None
    BY <1>3, AtFacts DEF Phases
  <1> HIDE DEF r, k, o
  <1>6. Synced(inner') /\ inner'.maps = [inner.maps EXCEPT ![k] = None] /\ inner'.total <= inner.total
    BY <1>1, <1>2, <1>3, RemoveFacts
  <1>7. Holds(t, r) /\ r.pc # "write" /\ r.file \in Seen /\ r.pc \in HoldsLock /\ th[t].pc \in HoldsLock
    BY <1>1, <1>3, <1>5, SeenFacts DEF Holds, HoldsLock
  <1>8. \A l \in Keys : inner'.maps[l] \in Seen
    <2>1. inner.maps \in [Keys -> Inodes \cup {None}]
      BY <1>2 DEF TypeOK, Inners
    <2> QED
      BY <1>6, <2>1, SeenFacts
  <1>9. dir' \in [Keys -> Inodes \cup {None}] /\ tmp' \in [Keys -> Inodes \cup {None}]
    BY <1>1, <1>2 DEF TypeOK
  <1>10. \A l \in Keys : dir'[l] \in {dir[l], None} /\ tmp'[l] \in {tmp[l], None}
    BY <1>1
  <1>11. (r.pc \in HoldsLock <=> th[t].pc \in HoldsLock) /\ (r.pc = "clear" => th[t].pc = "clear")
    BY <1>5, <1>7
  <1> QED
    BY <1>1, <1>4, <1>5, <1>6, <1>7, <1>8, <1>9, <1>10, <1>11, PlainStep

\* A step that unlinks at most, and leaves the memory alone.
LEMMA UnlinkStep ==
    ASSUME IInv, config' = config, lock' = lock, settled' = settled, inner' = inner, Reap(body),
           NEW t \in Threads, NEW r \in Registers, Holds(t, r), th' = [th EXCEPT ![t] = r],
           r.pc # "write", r.file \in Seen,
           r.pc \in HoldsLock <=> th[t].pc \in HoldsLock, r.pc = "clear" => th[t].pc = "clear",
           dir' = dir \/ \E k \in Keys : dir' = [dir EXCEPT ![k] = None],
           tmp' = tmp \/ \E k \in Keys : tmp' = [tmp EXCEPT ![k] = None],
           kept' = kept \/ \E k \in Keys : kept' = [kept EXCEPT ![k] = None]
    PROVE  IInv'
  <1>1. TypeOK /\ Synced(inner)
    BY DEF IInv
  <1>2. Synced(inner') /\ inner'.total <= inner.total
    BY <1>1 DEF TypeOK, Inners
  <1>3. \A k \in Keys : inner'.maps[k] \in Seen
    BY SeenFacts
  <1>4. /\ dir' \in [Keys -> Inodes \cup {None}] /\ tmp' \in [Keys -> Inodes \cup {None}]
        /\ kept' \in [Keys -> Values \cup {None}]
    BY <1>1 DEF TypeOK
  <1>5. \A k \in Keys : dir'[k] \in {dir[k], None} /\ tmp'[k] \in {tmp[k], None}
    BY <1>1 DEF TypeOK
  <1> QED
    BY <1>2, <1>3, <1>4, <1>5, PlainStep

LEMMA EvictUnlinkKeeps ==
    ASSUME IInv, NEW t \in Threads, EvictUnlink(t)
    PROVE  IInv'
  <1> DEFINE r == At("evict", None)
  <1>1. /\ th[t].pc = "unlink" /\ th' = [th EXCEPT ![t] = r] /\ Reap(body)
        /\ config' = config /\ tmp' = tmp /\ inner' = inner /\ lock' = lock /\ settled' = settled /\ kept' = kept
        /\ dir' = dir \/ dir' = [dir EXCEPT ![th[t].key] = None]
    BY DEF EvictUnlink, Go
  <1>2. th[t].key \in Keys
    BY <1>1 DEF IInv, Registered, Holds
  <1>3. r \in Registers /\ r.pc = "evict" /\ r.file = None
    BY AtFacts DEF Phases
  <1> HIDE DEF r
  <1>4. /\ Holds(t, r) /\ r.pc # "write" /\ r.file \in Seen
        /\ (r.pc \in HoldsLock <=> th[t].pc \in HoldsLock) /\ r.pc # "clear"
    BY <1>1, <1>3, SeenFacts DEF Holds, HoldsLock
  <1> QED
    BY <1>1, <1>2, <1>3, <1>4, UnlinkStep

LEMMA DeleteUnlinkKeeps ==
    ASSUME IInv, NEW t \in Threads, DeleteUnlink(t)
    PROVE  IInv'
  <1> DEFINE r == At("idle", None)
  <1>1. /\ th[t].pc = "delete" /\ th' = [th EXCEPT ![t] = r] /\ Reap(body)
        /\ config' = config /\ tmp' = tmp /\ inner' = inner /\ lock' = lock /\ settled' = settled /\ kept' = kept
        /\ dir' = [dir EXCEPT ![th[t].key] = None]
    BY DEF DeleteUnlink, Idle, Go
  <1>2. th[t].key \in Keys
    BY <1>1 DEF IInv, Registered, Holds
  <1>3. r \in Registers /\ r.pc = "idle" /\ r.file = None
    BY AtFacts DEF Phases
  <1> HIDE DEF r
  <1>4. /\ Holds(t, r) /\ r.pc # "write" /\ r.file \in Seen
        /\ (r.pc \in HoldsLock <=> th[t].pc \in HoldsLock) /\ r.pc # "clear"
    BY <1>1, <1>3, SeenFacts DEF Holds, HoldsLock
  <1> QED
    BY <1>1, <1>2, <1>3, <1>4, UnlinkStep

LEMMA ClearUnlinkKeeps ==
    ASSUME IInv, NEW t \in Threads, ClearUnlink(t)
    PROVE  IInv'
  <1>1. PICK n \in Existing :
            /\ \/ n[1] = "file" /\ dir' = [dir EXCEPT ![n[2]] = None] /\ UNCHANGED tmp
               \/ n[1] = "tmp" /\ tmp' = [tmp EXCEPT ![n[2]] = None] /\ UNCHANGED dir
               \/ "unlink" \in config.fails /\ UNCHANGED <<dir, tmp>>
            /\ kept' = IF n[1] = "file" THEN [kept EXCEPT ![n[2]] = None] ELSE kept
            /\ Go(t, [th[t] EXCEPT !.names = @ \ {n}])
    BY DEF ClearUnlink
  <1> DEFINE r == [th[t] EXCEPT !.names = @ \ {n}]
  <1>2. /\ th[t].pc = "clear" /\ Reap(body) /\ th' = [th EXCEPT ![t] = r]
        /\ config' = config /\ inner' = inner /\ lock' = lock /\ settled' = settled
    BY <1>1 DEF ClearUnlink, Go
  <1>3. n[2] \in Keys
    BY DEF Existing, Names
  <1>4. th[t] \in Registers /\ Holds(t, th[t])
    BY DEF IInv, TypeOK, Registered
  <1>5. r \in Registers /\ r.pc = "clear" /\ r.file = th[t].file
    BY <1>2, <1>4 DEF Registers
  <1> HIDE DEF r
  <1>6. Holds(t, r) /\ r.pc # "write" /\ r.file \in Seen /\ (r.pc \in HoldsLock <=> th[t].pc \in HoldsLock)
    BY <1>2, <1>5, SeenFacts DEF Holds, HoldsLock
  <1>7. /\ dir' = dir \/ \E k \in Keys : dir' = [dir EXCEPT ![k] = None]
        /\ tmp' = tmp \/ \E k \in Keys : tmp' = [tmp EXCEPT ![k] = None]
        /\ kept' = kept \/ \E k \in Keys : kept' = [kept EXCEPT ![k] = None]
    BY <1>1, <1>3
  <1> QED
    BY <1>2, <1>5, <1>6, <1>7, UnlinkStep

LEMMA PutDoneKeeps ==
    ASSUME IInv, NEW t \in Threads, PutDone(t)
    PROVE  IInv'
  <1> DEFINE r == At("idle", None)
  <1>1. /\ th[t].pc = "evict" /\ Done(inner) /\ lock' = None /\ settled' = TRUE
        /\ inner' = (IF Over(inner) THEN [inner EXCEPT !.order = <<>>] ELSE inner)
        /\ th' = [th EXCEPT ![t] = r] /\ Reap(body)
        /\ config' = config /\ dir' = dir /\ tmp' = tmp /\ kept' = kept
    BY DEF PutDone, Idle, Go
  <1>2. TypeOK /\ Synced(inner) /\ lock = t
    BY <1>1 DEF IInv, TypeOK
  <1>3. r \in Registers /\ r.pc = "idle" /\ r.file = None
    BY AtFacts DEF Phases
  <1> HIDE DEF r
  <1>4. Holds(t, r) /\ r.pc # "write" /\ r.file \in Seen /\ r.pc \notin HoldsLock
    BY <1>3, SeenFacts DEF Holds, HoldsLock
  <1>5. config.budget \in Nat \cup {None} /\ inner.total \in Nat
    BY <1>2, DiskAssumption DEF TypeOK, Inners
  <1>6. /\ Synced(inner') /\ inner'.maps = inner.maps
        /\ config.budget # None => inner'.total <= config.budget
    <2>1. CASE Over(inner)
      <3>1. LiveAt(inner) = {}
        BY <1>1, <2>1 DEF Done
      <3>2. inner.stamps = {} /\ inner.total = 0 /\ Accounted(inner) = {}
        BY <1>2, <3>1, NothingLeft
      <3>3. inner' = [inner EXCEPT !.order = <<>>]
        BY <1>1, <2>1
      <3>4. /\ inner' \in Inners /\ inner'.order = <<>> /\ inner'.stamps = {}
            /\ inner'.maps = inner.maps /\ inner'.sizes = inner.sizes /\ inner'.total = inner.total
        <4>1. inner \in Inners /\ <<>> \in Seq(Keys)
          BY <1>2 DEF Synced
        <4> QED
          BY <3>2, <3>3, <4>1 DEF Inners
      <3>5. Accounted(inner') = {}
        BY <3>2, <3>4 DEF Accounted
      <3>6. Ticketing(inner') /\ Len(inner'.order) <= MostTickets
        BY <3>4, <3>5, MostTicketsFacts DEF Ticketing
      <3>7. Synced(inner')
        BY <1>2, <3>4, <3>6, SyncedAgain
      <3> QED
        BY <1>5, <3>2, <3>4, <3>7
    <2>2. CASE ~Over(inner)
      <3>1. inner' = inner
        BY <1>1, <2>2
      <3>2. config.budget # None => ~(inner.total > config.budget)
        BY <2>2 DEF Over
      <3> QED
        BY <1>2, <1>5, <3>1, <3>2
    <2> QED
      BY <2>1, <2>2
  <1>7. BudgetKept'
    BY <1>1, <1>6 DEF BudgetKept
  <1>8. /\ dir' \in [Keys -> Inodes \cup {None}] /\ tmp' \in [Keys -> Inodes \cup {None}]
        /\ kept' \in [Keys -> Values \cup {None}] /\ settled' \in BOOLEAN
    BY <1>1, <1>2 DEF TypeOK
  <1>9. \A l \in Keys : dir'[l] \in {dir[l], None} /\ tmp'[l] \in {tmp[l], None} /\ inner'.maps[l] \in Seen
    BY <1>1, <1>6, SeenFacts
  <1>10. (lock' = lock \/ (lock \in {None, t} /\ lock' \in {None, t})) /\ (r.pc \in HoldsLock <=> lock' = t)
    BY <1>1, <1>2, <1>4, DiskAssumption
  <1> QED
    BY <1>1, <1>3, <1>4, <1>6, <1>7, <1>8, <1>9, <1>10, QuietStep

LEMMA DeleteKeeps ==
    ASSUME IInv, NEW t \in Threads, Delete(t)
    PROVE  IInv'
  <1>1. PICK k \in Keys : /\ inner' = CompactTickets(RemoveAccounting(inner, k))
                          /\ Go(t, At("delete", k)) /\ kept' = [kept EXCEPT ![k] = None]
    BY DEF Delete
  <1> DEFINE r == At("delete", k)
  <1>2. /\ th[t].pc = "idle" /\ Reap(body) /\ th' = [th EXCEPT ![t] = r]
        /\ config' = config /\ dir' = dir /\ tmp' = tmp /\ lock' = lock /\ settled' = settled
    BY <1>1 DEF Delete, Go
  <1>3. TypeOK /\ Synced(inner)
    BY DEF IInv
  <1>4. Synced(inner') /\ inner'.total <= inner.total /\ inner'.maps = [inner.maps EXCEPT ![k] = None]
    BY <1>1, <1>3, DeleteFacts
  <1>5. r \in Registers /\ r.pc = "delete" /\ r.key = k /\ r.file = None
    BY AtFacts DEF Phases
  <1> HIDE DEF r
  <1>6. Holds(t, r) /\ r.pc # "write" /\ r.file \in Seen /\ r.pc \notin HoldsLock /\ th[t].pc \notin HoldsLock
    BY <1>2, <1>5, SeenFacts DEF Holds, HoldsLock
  <1>7. \A l \in Keys : inner'.maps[l] \in Seen
    <2>1. inner.maps \in [Keys -> Inodes \cup {None}]
      BY <1>3 DEF TypeOK, Inners
    <2> QED
      BY <1>4, <2>1, SeenFacts
  <1>8. /\ dir' \in [Keys -> Inodes \cup {None}] /\ tmp' \in [Keys -> Inodes \cup {None}]
        /\ kept' \in [Keys -> Values \cup {None}]
    BY <1>1, <1>2, <1>3 DEF TypeOK
  <1>9. \A l \in Keys : dir'[l] \in {dir[l], None} /\ tmp'[l] \in {tmp[l], None}
    BY <1>2
  <1>10. (r.pc \in HoldsLock <=> th[t].pc \in HoldsLock) /\ (r.pc = "clear" => th[t].pc = "clear")
    BY <1>6 DEF HoldsLock
  <1> QED
    BY <1>2, <1>4, <1>5, <1>6, <1>7, <1>8, <1>9, <1>10, PlainStep

LEMMA ClearKeeps ==
    ASSUME IInv, NEW t \in Threads, Clear(t)
    PROVE  IInv'
  <1> DEFINE r == [At("clear", None) EXCEPT !.names = Existing]
  <1>1. /\ th[t].pc = "idle" /\ lock = None /\ lock' = t /\ inner' = NoInner
        /\ kept' = [k \in Keys |-> None] /\ th' = [th EXCEPT ![t] = r] /\ Reap(body)
        /\ config' = config /\ dir' = dir /\ tmp' = tmp /\ settled' = settled
    BY DEF Clear, Go, Locked
  <1>2. TypeOK
    BY DEF IInv
  <1>3. r \in Registers /\ r.pc = "clear" /\ r.file = None
    <2>1. Existing \in SUBSET Names
      BY DEF Existing
    <2> QED
      BY <2>1 DEF At, Registers, Phases
  <1> HIDE DEF r
  <1>4. Holds(t, r) /\ r.pc # "write" /\ r.file \in Seen /\ r.pc \in HoldsLock
    BY <1>3, SeenFacts DEF Holds, HoldsLock
  <1>5. Synced(inner') /\ inner'.total = 0 /\ \A k \in Keys : inner'.maps[k] = None
    <2>1. NoInner.total = 0 /\ \A k \in Keys : NoInner.maps[k] = None
      BY DEF NoInner
    <2> QED
      BY <1>1, <2>1, NoInnerSynced
  <1>6. BudgetKept'
    <2>1. config.budget \in Nat \cup {None}
      BY <1>2, DiskAssumption DEF TypeOK
    <2> QED
      BY <1>1, <1>5, <2>1 DEF BudgetKept
  <1>7. /\ dir' \in [Keys -> Inodes \cup {None}] /\ tmp' \in [Keys -> Inodes \cup {None}]
        /\ kept' \in [Keys -> Values \cup {None}] /\ settled' \in BOOLEAN
    BY <1>1, <1>2 DEF TypeOK
  <1>8. \A l \in Keys : dir'[l] \in {dir[l], None} /\ tmp'[l] \in {tmp[l], None} /\ inner'.maps[l] \in Seen
    BY <1>1, <1>5, SeenFacts
  <1>9. (lock' = lock \/ (lock \in {None, t} /\ lock' \in {None, t})) /\ (r.pc \in HoldsLock <=> lock' = t)
    BY <1>1, <1>4
  <1> QED
    BY <1>1, <1>3, <1>4, <1>5, <1>6, <1>7, <1>8, <1>9, QuietStep

LEMMA ClearEndKeeps ==
    ASSUME IInv, NEW t \in Threads, ClearEnd(t)
    PROVE  IInv'
  <1> DEFINE r == At("idle", None)
  <1>1. /\ th[t].pc = "clear" /\ lock' = None /\ th' = [th EXCEPT ![t] = r] /\ Reap(body)
        /\ config' = config /\ dir' = dir /\ tmp' = tmp /\ inner' = inner
        /\ settled' = settled /\ kept' = kept
    BY DEF ClearEnd, Idle, Go
  <1>2. TypeOK /\ Synced(inner) /\ BudgetKept /\ lock = t
    BY <1>1 DEF IInv, TypeOK
  <1>3. r \in Registers /\ r.pc = "idle" /\ r.file = None
    BY AtFacts DEF Phases
  <1> HIDE DEF r
  <1>4. Holds(t, r) /\ r.pc # "write" /\ r.file \in Seen /\ r.pc \notin HoldsLock
    BY <1>3, SeenFacts DEF Holds, HoldsLock
  <1>5. Synced(inner')
    BY <1>1, <1>2
  <1>6. BudgetKept'
    BY <1>1, <1>2 DEF BudgetKept
  <1>7. /\ dir' \in [Keys -> Inodes \cup {None}] /\ tmp' \in [Keys -> Inodes \cup {None}]
        /\ kept' \in [Keys -> Values \cup {None}] /\ settled' \in BOOLEAN
    BY <1>1, <1>2 DEF TypeOK
  <1>8. \A l \in Keys : dir'[l] \in {dir[l], None} /\ tmp'[l] \in {tmp[l], None} /\ inner'.maps[l] \in Seen
    BY <1>1, SeenFacts
  <1>9. (lock' = lock \/ (lock \in {None, t} /\ lock' \in {None, t})) /\ (r.pc \in HoldsLock <=> lock' = t)
    BY <1>1, <1>2, <1>4, DiskAssumption
  <1> QED
    BY <1>1, <1>3, <1>4, <1>5, <1>6, <1>7, <1>8, <1>9, QuietStep

\* The process ends, and the tier is opened again.
LEMMA RestartKeeps ==
    ASSUME IInv, Restart
    PROVE  IInv'
  <1>1. PICK order \in SetToSeqs({k \in Keys : dir[k] # None}) :
            inner' = IF config.kind = "mmap" THEN Scan(order) ELSE NoInner
    BY DEF Restart
  <1>2. /\ lock' = None /\ th' = [t \in Threads |-> At("idle", None)] /\ settled' = FALSE
        /\ config' = config /\ dir' = dir /\ tmp' = tmp /\ kept' = kept /\ Reap(body)
    BY DEF Restart
  <1>3. TypeOK
    BY DEF IInv
  <1>4. Synced(inner') /\ \A k \in Keys : inner'.maps[k] = None
    <2>1. CASE config.kind = "mmap"
      BY <1>1, <1>3, <2>1, ScanSynced
    <2>2. CASE config.kind # "mmap"
      <3>1. inner' = NoInner /\ \A k \in Keys : NoInner.maps[k] = None
        BY <1>1, <2>2 DEF NoInner
      <3> QED
        BY <3>1, NoInnerSynced
    <2> QED
      BY <2>1, <2>2
  <1> DEFINE r == At("idle", None)
  <1>5. r \in Registers /\ r.pc = "idle" /\ r.file = None
    BY AtFacts DEF Phases
  <1>6. \A t \in Threads : th'[t] = r
    BY <1>2
  <1> HIDE DEF r
  <1>7. TypeOK' /\ Registered'
    <2>1. th' \in [Threads -> Registers]
      BY <1>2, <1>5 DEF r
    <2>2. \A t \in Threads : /\ th'[t].pc \in {"read", "insert", "write"} => th'[t].file # None
                             /\ th'[t].pc \in {"evict", "unlink", "clear"} <=> lock' = t
      BY <1>2, <1>5, <1>6, DiskAssumption
    <2>3. body' \in [Inodes -> Bodies]
      BY <1>2, <1>3, ReapType DEF TypeOK
    <2>4. inner' \in Inners
      BY <1>4 DEF Synced
    <2>5. TypeOK'
      BY <1>2, <1>3, <2>1, <2>2, <2>3, <2>4 DEF TypeOK
    <2>6. Registered'
      BY <1>5, <1>6 DEF Registered, Holds
    <2> QED
      BY <2>5, <2>6
  <1>8. Synced(inner)'
    BY <1>4, Zenon DEF Synced
  <1>9. BudgetKept'
    BY <1>2 DEF BudgetKept
  <1>10. FilesSound'
    <2>1. /\ \A k \in Keys : dir'[k] \in {dir[k], None} /\ tmp'[k] \in {tmp[k], None}
          /\ \A k \in Keys : inner'.maps[k] \in Seen
          /\ \A t \in Threads : th'[t].pc # "write" /\ th'[t].file \in Seen
          /\ dir' \in [Keys -> Inodes \cup {None}]
      BY <1>2, <1>3, <1>4, <1>5, <1>6, SeenFacts DEF TypeOK
    <2> QED
      BY <1>2, <2>1, SeenStep
  <1> QED
    BY <1>7, <1>8, <1>9, <1>10 DEF IInv

-----------------------------------------------------------------------------
(* The invariant                                                           *)

LEMMA IInvInit == Init => IInv
  <1> SUFFICES ASSUME Init PROVE IInv
    OBVIOUS
  <1> DEFINE r == At("idle", None)
  <1>1. r \in Registers /\ r.pc = "idle" /\ r.file = None
    BY AtFacts DEF Phases
  <1>2. /\ config \in Configs /\ body = [i \in Inodes |-> <<>>]
        /\ dir = [k \in Keys |-> None] /\ tmp = [k \in Keys |-> None]
        /\ inner = NoInner /\ lock = None /\ th = [t \in Threads |-> r]
        /\ settled = FALSE /\ kept = [k \in Keys |-> None]
    BY DEF Init
  <1> HIDE DEF r
  <1>3. Synced(inner) /\ \A k \in Keys : inner.maps[k] = None
    <2>1. \A k \in Keys : NoInner.maps[k] = None
      BY DEF NoInner
    <2> QED
      BY <1>2, <2>1, NoInnerSynced
  <1>4. TypeOK
    <2>1. body \in [Inodes -> Bodies]
      <3>1. <<>> \in Bodies
        BY DEF Bodies
      <3> QED
        BY <1>2, <3>1
    <2>2. inner \in Inners
      BY <1>3 DEF Synced
    <2>3. th \in [Threads -> Registers] /\ \A t \in Threads : th[t].pc = "idle"
      BY <1>1, <1>2
    <2>4. dir \in [Keys -> Inodes \cup {None}] /\ tmp \in [Keys -> Inodes \cup {None}]
          /\ kept \in [Keys -> Values \cup {None}]
      BY <1>2
    <2> QED
      BY <1>2, <2>1, <2>2, <2>3, <2>4, DiskAssumption DEF TypeOK
  <1>5. Registered
    BY <1>1, <1>2 DEF Registered, Holds
  <1>6. BudgetKept
    BY <1>2 DEF BudgetKept
  <1>7. FilesSound
    BY <1>1, <1>2
       DEF FilesSound, NamesApart, TmpPrivate, WritesOwnFile, Exclusive, WholeValues
  <1> QED
    BY <1>3, <1>4, <1>5, <1>6, <1>7 DEF IInv

LEMMA IInvStep == IInv /\ [Next]_vars => IInv'
  <1> SUFFICES ASSUME IInv, [Next]_vars PROVE IInv'
    OBVIOUS
  <1>1. CASE Restart
    BY <1>1, RestartKeeps
  <1>2. ASSUME NEW t \in Threads, Begin(t)
        PROVE  IInv'
    BY <1>2, GetHitKeeps, GetMissKeeps, PutOpenKeeps, DeleteKeeps, ClearKeeps, Zenon DEF Begin
  <1>3. ASSUME NEW t \in Threads, Continue(t)
        PROVE  IInv'
    BY <1>3, GetMapKeeps, GetReadKeeps, GetInsertKeeps, PutWriteKeeps, PutRenameKeeps, PutRemapKeeps,
       PutAccountKeeps, EvictKeeps, EvictUnlinkKeeps, PutDoneKeeps, DeleteUnlinkKeeps,
       ClearUnlinkKeeps, ClearEndKeeps, Zenon DEF Continue
  <1>4. ASSUME NEW t \in Threads, Fail(t)
        PROVE  IInv'
    BY <1>4, FailKeeps
  <1>5. CASE UNCHANGED vars
    <2>1. /\ config' = config /\ body' = body /\ dir' = dir /\ tmp' = tmp /\ inner' = inner
          /\ lock' = lock /\ th' = th /\ settled' = settled /\ kept' = kept
      BY <1>5 DEF vars
    <2>2. TypeOK' /\ Registered' /\ BudgetKept'
      BY <2>1 DEF IInv, TypeOK, Registered, Holds, BudgetKept
    <2>3. Synced(inner)'
      BY <2>1, Zenon DEF IInv, Synced
    <2>4. FilesSound'
      BY <2>1 DEF IInv, FilesSound, NamesApart, TmpPrivate, WritesOwnFile, Exclusive, WholeValues,
                  OneWriter, Prefix, Body
    <2> QED
      BY <2>2, <2>3, <2>4 DEF IInv
  <1> QED
    BY <1>1, <1>2, <1>3, <1>4, <1>5 DEF Next

(***************************************************************************)
(* The inductive invariant of the tiers: what the memory behind the lock   *)
(* holds, who has the lock, what a thread's registers hold, and which      *)
(* inodes names, mappings and threads share (tier.rs, disk.rs).            *)
(***************************************************************************)
THEOREM IInvAlways == Spec => []IInv
  BY IInvInit, IInvStep, PTL DEF Spec

(***************************************************************************)
(* Whatever callers interleave, fail and crash, the memory of MmapDiskTier *)
(* is consistent: a key has a size iff it has a live ticket, disk_usage is *)
(* the sum of the sizes, the queue is bounded and no mapping of a key that *)
(* is not accounted is retained.                                           *)
(***************************************************************************)
THEOREM MemoryStaysInSync == Spec => []InnerInSync
  <1>1. IInv => InnerInSync
    <2> SUFFICES ASSUME IInv PROVE InnerInSync
      OBVIOUS
    <2>1. TypeOK /\ Synced(inner)
      BY DEF IInv
    <2>2. TicketsInSync
      BY <2>1, RetainFacts DEF Synced, Ticketing, TicketsInSync
    <2>3. TotalInSync
      BY <2>1, Zenon DEF Synced, SumOf, TotalInSync
    <2>4. QueueBounded /\ NoGhostMapping
      BY <2>1 DEF Synced, MostTickets, NoGhosts, QueueBounded, NoGhostMapping
    <2> QED
      BY <2>1, <2>2, <2>3, <2>4 DEF InnerInSync
  <1> QED
    BY <1>1, IInvAlways, PTL

(***************************************************************************)
(* Once a put has completed, the accounted bytes are within the budget     *)
(* whenever the lock is free: the eviction loop ends within it, or with an *)
(* empty index.                                                            *)
(***************************************************************************)
THEOREM BudgetIsKept == Spec => []WithinBudget
  <1>1. IInv => WithinBudget
    BY DEF IInv, BudgetKept, WithinBudget, Locked
  <1> QED
    BY <1>1, IInvAlways, PTL

(***************************************************************************)
(* Where a key has one writer, its file is a whole value, wherever a write *)
(* failed or the process ended: write to <key>.tmp, then rename.           *)
(***************************************************************************)
THEOREM NeverTorn == Spec => []WholeValues
  <1>1. IInv => WholeValues
    BY DEF IInv, FilesSound
  <1> QED
    BY <1>1, IInvAlways, PTL

\* The bytes of an inode that a step leaves referred to.
LEMMA ViewedReferenced ==
    ASSUME NEW b, Reap(b), NEW i \in Viewed'
    PROVE  i \in Inodes /\ body'[i] = b[i]
  BY Referenced DEF Viewed

\* Only an open and a write change bytes, of files that nobody views.
LEMMA ViewsKept ==
    ASSUME IInv, Next, \A k \in Keys : OneWriter(k), NEW i \in Viewed, i \in Viewed'
    PROVE  body'[i] = body[i]
  <1>1. i \in Inodes /\ TypeOK
    BY DEF Viewed, IInv
  <1>2. CASE Reap(body)
    BY <1>2, ViewedReferenced
  <1>3. ASSUME NEW t \in Threads, PutOpen(t) PROVE body'[i] = body[i]
    <2>1. PICK k \in Keys, j \in Inodes :
              /\ j = tmp[k] \/ (tmp[k] = None /\ Unreferenced(j))
              /\ Reap([body EXCEPT ![j] = <<>>])
      BY <1>3 DEF PutOpen
    <2>2. i # j
      <3>1. j # None
        BY DiskAssumption
      <3>2. CASE j = tmp[k]
        BY <3>1, <3>2 DEF IInv, FilesSound, NamesApart, TmpPrivate, Viewed
      <3>3. CASE Unreferenced(j)
        BY <3>3 DEF Unreferenced, Viewed
      <3> QED
        BY <2>1, <3>2, <3>3
    <2>3. body'[i] = [body EXCEPT ![j] = <<>>][i]
      BY <2>1, ViewedReferenced
    <2> QED
      BY <1>1, <2>2, <2>3 DEF TypeOK
  <1>4. ASSUME NEW t \in Threads, PutWrite(t) PROVE body'[i] = body[i]
    <2> DEFINE f == th[t].file
               o == Overwrite(body[f], th[t].at + 1, th[t].value)
    <2>1. th[t].pc = "write" /\ Reap([body EXCEPT ![f] = o])
      BY <1>4 DEF PutWrite
    <2>2. th[t].key \in Keys
      BY <2>1 DEF IInv, Registered, Holds
    <2>3. i # f
      BY <2>1, <2>2 DEF IInv, FilesSound, Exclusive, Viewed
    <2> HIDE DEF o, f
    <2>4. body'[i] = [body EXCEPT ![f] = o][i]
      BY <2>1, ViewedReferenced
    <2> QED
      BY <1>1, <2>3, <2>4 DEF TypeOK
  <1>5. Reap(body) \/ \E t \in Threads : PutOpen(t) \/ PutWrite(t)
    BY Zenon DEF Next, Begin, Continue, Fail, Restart, GetHit, GetMiss, Delete, Clear, GetMap, GetRead,
        GetInsert, PutRename, PutRemap, PutAccount, Evict, EvictUnlink, PutDone, DeleteUnlink,
        ClearUnlink, ClearEnd
  <1> QED
    BY <1>2, <1>3, <1>4, <1>5

(***************************************************************************)
(* Where every key has one writer, the bytes of a file, of a retained      *)
(* mapping and of a view never change: "never truncated or mutated in      *)
(* place" (the SAFETY comment of map_file in tier.rs).                     *)
(***************************************************************************)
THEOREM ViewsStayImmutable == Spec => ViewsImmutable
  <1>1. IInv /\ [Next]_vars =>
            [(\A k \in Keys : OneWriter(k)) =>
                \A i \in Viewed \cap Viewed' : body'[i] = body[i]]_vars
    BY ViewsKept
  <1> QED
    BY <1>1, IInvAlways, PTL DEF Spec, ViewsImmutable

-----------------------------------------------------------------------------
(* One caller                                                              *)

\* The set of callers has one element.
LEMMA OneOfCallers ==
    ASSUME TypeOK, OneCaller, NEW t \in Callers, NEW u \in Callers
    PROVE  t = u
  <1> DEFINE C == Callers
  <1>1. C \in SUBSET Threads
    BY DiskAssumption DEF TypeOK, Callers
  <1>2. Cardinality(C) = 1
    BY DEF OneCaller, Callers
  <1> HIDE DEF C
  <1>3. IsFiniteSet(C)
    BY <1>1, FS_Subset, DiskAssumption
  <1>4. IsFiniteSet(C \ {t}) /\ Cardinality(C \ {t}) = Cardinality(C) - 1
    BY <1>3, FS_RemoveElement DEF C
  <1>5. C \ {t} = {}
    BY <1>2, <1>4, FS_EmptySet
  <1> QED
    BY <1>5 DEF C

\* So every key has one writer at most.
LEMMA AllOneWriter ==
    ASSUME TypeOK, OneCaller
    PROVE  \A k \in Keys : OneWriter(k)
  <1> SUFFICES ASSUME NEW k \in Keys PROVE OneWriter(k)
    OBVIOUS
  <1> DEFINE C == Callers
             W == config.writers[k]
  <1>1. C \in SUBSET Threads /\ W \in SUBSET C
    BY DiskAssumption DEF TypeOK, Callers
  <1>2. Cardinality(C) = 1
    BY DEF OneCaller, Callers
  <1> HIDE DEF C, W
  <1>3. IsFiniteSet(C)
    BY <1>1, FS_Subset, DiskAssumption
  <1>4. Cardinality(W) <= 1
    BY <1>1, <1>2, <1>3, FS_Subset
  <1> QED
    BY <1>4 DEF OneWriter, W

\* Nobody else is doing anything.
LEMMA Alone ==
    ASSUME IInv, QInv, Quiet, NEW t \in Threads, Begin(t) \/ Continue(t) \/ Fail(t)
    PROVE  t \in Callers /\ \A u \in Threads : u # t => th[u].pc = "idle"
  <1>1. TypeOK /\ OneCaller /\ OthersIdle
    BY DEF IInv, QInv, Quiet
  <1>2. t \in Callers
    <2>1. CASE th[t].pc # "idle"
      BY <1>1, <2>1 DEF OthersIdle
    <2>2. CASE th[t].pc = "idle"
      <3>1. Begin(t)
        BY <2>2 DEF Continue, Fail, GetMap, GetRead, GetInsert, PutWrite, PutRename, PutRemap, PutAccount,
                    Evict, EvictUnlink, PutDone, DeleteUnlink, ClearUnlink, ClearEnd
      <3>2. t \in config.readers \/ \E k \in Keys : t \in config.writers[k]
        BY <3>1 DEF Begin, GetHit, GetMiss, PutOpen, Delete, Clear
      <3> QED
        BY <3>2 DEF Callers
    <2> QED
      BY <2>1, <2>2
  <1> QED
    BY <1>1, <1>2, OneOfCallers DEF OthersIdle

\* No step changes the bytes of the files that have a name.
LEMMA FilesKept ==
    ASSUME IInv, Next, OneCaller, NEW k \in Keys, dir'[k] # None, dir' \in [Keys -> Inodes \cup {None}]
    PROVE  body'[dir'[k]] = body[dir'[k]]
  <1> DEFINE i == dir'[k]
  <1>1. TypeOK /\ i \in Inodes
    BY DEF IInv
  <1>2. i \in Viewed'
    BY <1>1 DEF Viewed
  <1>3. CASE Reap(body)
    BY <1>1, <1>3, Referenced
  <1>4. CASE dir' = dir
    <2>1. i \in Viewed
      BY <1>1, <1>4 DEF Viewed
    <2> HIDE DEF i
    <2>2. body'[i] = body[i]
      BY <1>1, <1>2, <2>1, AllOneWriter, ViewsKept
    <2> QED
      BY <2>2 DEF i
  <1>5. Reap(body) \/ \E t \in Threads : PutOpen(t) \/ PutWrite(t)
    BY Zenon DEF Next, Begin, Continue, Fail, Restart, GetHit, GetMiss, Delete, Clear, GetMap, GetRead,
        GetInsert, PutRename, PutRemap, PutAccount, Evict, EvictUnlink, PutDone, DeleteUnlink,
        ClearUnlink, ClearEnd
  <1>6. (\E t \in Threads : PutOpen(t) \/ PutWrite(t)) => dir' = dir
    BY DEF PutOpen, PutWrite
  <1> QED
    BY <1>3, <1>4, <1>5, <1>6

\* What the caller has to show of its step, and what it may use.
QuietCall(t) ==
    /\ IInv /\ IInv' /\ QInv /\ Quiet /\ config' = config
    /\ \A u \in Threads : u # t => th[u].pc = "idle" /\ th'[u] = th[u]
    /\ t \in Callers
    /\ \A k \in Keys : dir'[k] # None => body'[dir'[k]] = body[dir'[k]]

LEMMA QuietCallFacts ==
    ASSUME IInv, QInv, Quiet, NEW t \in Threads, Begin(t) \/ Continue(t) \/ Fail(t)
    PROVE  QuietCall(t)
  <1>1. Next
    BY DEF Next
  <1>2. IInv'
    BY <1>1, IInvStep
  <1>3. config' = config
    BY DEF Begin, Continue, Fail, GetHit, GetMiss, PutOpen, Delete, Clear, GetMap, GetRead,
        GetInsert, PutWrite, PutRename, PutRemap, PutAccount, Evict, EvictUnlink, PutDone, DeleteUnlink,
        ClearUnlink, ClearEnd
  <1>4. \E r : th' = [th EXCEPT ![t] = r]
    BY DEF Begin, Continue, Fail, GetHit, GetMiss, PutOpen, Delete, Clear, GetMap, GetRead,
        GetInsert, PutWrite, PutRename, PutRemap, PutAccount, Evict, EvictUnlink, PutDone, DeleteUnlink,
        ClearUnlink, ClearEnd, Go, Idle
  <1>5. \A u \in Threads : u # t => th'[u] = th[u]
    BY <1>4 DEF IInv, TypeOK
  <1>6. \A k \in Keys : dir'[k] # None => body'[dir'[k]] = body[dir'[k]]
    <2>1. dir' \in [Keys -> Inodes \cup {None}]
      BY <1>2 DEF IInv, TypeOK
    <2> QED
      BY <1>1, <2>1, FilesKept DEF Quiet
  <1> QED
    BY <1>2, <1>3, <1>5, <1>6, Alone DEF QuietCall

LEMMA QuietBefore ==
    ASSUME NEW t \in Threads, QuietCall(t)
    PROVE  /\ \A k \in Keys : \/ inner.maps[k] \in {None, dir[k]} \/ config.kind = "disk"
                              \/ th[t].pc \in {"remap", "account"} /\ th[t].key = k
           /\ \A k \in Keys : \/ inner.sizes[k] = SizeOnDisk(k) \/ config.kind = "disk"
                              \/ th[t].pc \in {"remap", "account", "delete", "unlink"} /\ th[t].key = k
                              \/ th[t].pc = "clear"
           /\ \A k \in Keys : kept[k] # None => dir[k] # None /\ body[dir[k]] = Body(kept[k])
           /\ \A k \in Keys : inner.maps[k] # None => inner.sizes[k] # None
           /\ CallCurrent(t) /\ config.fails \subseteq {"write"}
  <1>1. \A u \in Threads : u # t => th[u].pc = "idle"
    BY DEF QuietCall
  <1>2. MapsCurrent /\ SizesCurrent /\ PutKept /\ CallCurrent(t) /\ OneCaller /\ config.fails \subseteq {"write"}
    BY DEF QuietCall, QInv, Quiet
  <1>3. \A k \in Keys : \/ inner.maps[k] \in {None, dir[k]} \/ config.kind = "disk"
                        \/ th[t].pc \in {"remap", "account"} /\ th[t].key = k
    BY <1>1, <1>2 DEF MapsCurrent, Busy
  <1>4. \A k \in Keys : \/ inner.sizes[k] = SizeOnDisk(k) \/ config.kind = "disk"
                        \/ th[t].pc \in {"remap", "account", "delete", "unlink"} /\ th[t].key = k
                        \/ th[t].pc = "clear"
    BY <1>1, <1>2 DEF SizesCurrent, Busy
  <1>5. \A k \in Keys : kept[k] # None => dir[k] # None /\ body[dir[k]] = Body(kept[k])
    BY <1>2 DEF PutKept
  <1>6. \A k \in Keys : inner.maps[k] # None => inner.sizes[k] # None
    BY DEF QuietCall, IInv, Synced, NoGhosts
  <1> QED
    BY <1>2, <1>3, <1>4, <1>5, <1>6

LEMMA QuietAfter ==
    ASSUME NEW t \in Threads, QuietCall(t), NEW r, th'[t] = r,
           \A k \in Keys : \/ inner'.maps[k] \in {None, dir'[k]} \/ config.kind = "disk"
                           \/ r.pc \in {"remap", "account"} /\ r.key = k,
           \A k \in Keys : \/ inner'.sizes[k] = IF dir'[k] = None THEN None ELSE Len(body[dir'[k]])
                           \/ config.kind = "disk"
                           \/ r.pc \in {"remap", "account", "delete", "unlink"} /\ r.key = k
                           \/ r.pc = "clear",
           \A k \in Keys : kept'[k] # None => dir'[k] # None /\ body[dir'[k]] = Body(kept'[k]),
           r.pc \in {"insert", "remap", "account", "evict", "unlink", "clear"} => config.kind = "mmap",
           r.pc \in {"insert", "account"} => r.file = dir'[r.key],
           r.pc \in {"remap", "account"} => dir'[r.key] # None /\ body[dir'[r.key]] = Body(r.value),
           r.pc \in {"delete", "unlink"} => kept'[r.key] = None /\ inner'.sizes[r.key] = None,
           r.pc = "clear" =>
               r.names = Existing' /\ \A k \in Keys : inner'.sizes[k] = None /\ kept'[k] = None
    PROVE  QInv'
  <1>1. /\ \A u \in Threads : u # t => th'[u].pc = "idle"
        /\ \A k \in Keys : dir'[k] # None => body'[dir'[k]] = body[dir'[k]]
        /\ config' = config /\ t \in Callers /\ IInv'
    BY DEF QuietCall
  <1>2. OthersIdle'
    BY <1>1 DEF OthersIdle, Callers
  <1>3. MapsCurrent'
    BY <1>1 DEF MapsCurrent, Busy
  <1>4. SizesCurrent'
    <2>1. \A k \in Keys : SizeOnDisk(k)' = IF dir'[k] = None THEN None ELSE Len(body[dir'[k]])
      BY <1>1 DEF SizeOnDisk
    <2>2. \A k \in Keys : (r.pc \in {"remap", "account", "delete", "unlink"} /\ r.key = k)
                             => Busy(k, {"remap", "account", "delete", "unlink"})'
      BY DEF Busy
    <2>3. r.pc = "clear" => \E u \in Threads : th'[u].pc = "clear"
      OBVIOUS
    <2> QED
      BY <1>1, <2>1, <2>2, <2>3 DEF SizesCurrent
  <1>5. PutKept'
    <2> SUFFICES ASSUME NEW k \in Keys, kept'[k] # None
                 PROVE  dir'[k] # None /\ body'[dir'[k]] = Body(kept'[k])
      BY DEF PutKept, Body
    <2> QED
      BY <1>1
  <1>6. ASSUME NEW u \in Threads PROVE CallCurrent(u)'
    <2>1. CASE u # t
      BY <1>1, <2>1 DEF CallCurrent
    <2>2. CASE u = t
      <3>1. r.pc \in {"remap", "account"} => r.key \in Keys
        BY <1>1 DEF IInv, Registered, Holds
      <3>2. r.pc \in {"remap", "account"} => dir'[r.key] # None /\ body'[dir'[r.key]] = Body(r.value)
        BY <1>1, <3>1
      <3>3. /\ th'[t].pc \in {"remap", "account"} =>
                  dir'[th'[t].key] # None /\ body'[dir'[th'[t].key]] = Body(th'[t].value)
            /\ th'[t].pc \in {"insert", "account"} => th'[t].file = dir'[th'[t].key]
            /\ th'[t].pc \in {"insert", "remap", "account", "evict", "unlink", "clear"} => config'.kind = "mmap"
        BY <1>1, <3>2
      <3>4. /\ th'[t].pc \in {"delete", "unlink"} => kept'[th'[t].key] = None /\ inner'.sizes[th'[t].key] = None
            /\ th'[t].pc = "clear" =>
                  th'[t].names = Existing' /\ \A k \in Keys : inner'.sizes[k] = None /\ kept'[k] = None
        OBVIOUS
      <3> QED
        BY <2>2, <3>3, <3>4 DEF CallCurrent, Body
    <2> QED
      BY <2>1, <2>2
  <1> QED
    BY <1>2, <1>3, <1>4, <1>5, <1>6 DEF QInv

\* Steps that neither name nor account for anything.
Reading == {"idle", "map", "read", "insert", "write", "evict"}

LEMMA QuietLocal ==
    ASSUME NEW t \in Threads, QuietCall(t), NEW r, th'[t] = r,
           dir' = dir, kept' = kept, inner'.sizes = inner.sizes,
           \A k \in Keys : inner'.maps[k] \in {inner.maps[k], dir[k]},
           th[t].pc \in Reading, r.pc \in Reading \ {"evict"},
           r.pc = "insert" => config.kind = "mmap" /\ r.file = dir[r.key]
    PROVE  QInv'
  <1>1. /\ \A k \in Keys : inner.maps[k] \in {None, dir[k]} \/ config.kind = "disk"
        /\ \A k \in Keys : inner.sizes[k] = SizeOnDisk(k) \/ config.kind = "disk"
        /\ \A k \in Keys : kept[k] # None => dir[k] # None /\ body[dir[k]] = Body(kept[k])
    BY QuietBefore DEF Reading
  <1>2. \A k \in Keys : inner'.maps[k] \in {None, dir'[k]} \/ config.kind = "disk"
    BY <1>1
  <1>3. \A k \in Keys : \/ inner'.sizes[k] = IF dir'[k] = None THEN None ELSE Len(body[dir'[k]])
                        \/ config.kind = "disk"
    BY <1>1 DEF SizeOnDisk
  <1>4. \A k \in Keys : kept'[k] # None => dir'[k] # None /\ body[dir'[k]] = Body(kept'[k])
    BY <1>1
  <1>5. r.pc \notin {"remap", "account", "delete", "unlink", "evict", "clear"}
    BY DEF Reading
  <1>6. /\ r.pc \in {"insert", "remap", "account", "evict", "unlink", "clear"} => config.kind = "mmap"
        /\ r.pc \in {"insert", "account"} => r.file = dir'[r.key]
    BY <1>5
  <1> QED
    BY <1>2, <1>3, <1>4, <1>5, <1>6, QuietAfter

LEMMA QuietGets ==
    ASSUME NEW t \in Threads, QuietCall(t),
           GetHit(t) \/ GetMiss(t) \/ GetMap(t) \/ GetRead(t) \/ GetInsert(t)
    PROVE  QInv'
  <1> DEFINE r == th'[t]
  <1>1. IInv /\ TypeOK /\ Synced(inner) /\ CallCurrent(t)
    BY QuietBefore DEF QuietCall, IInv
  <1>2. CASE GetHit(t)
    <2>1. PICK k \in Keys : /\ inner.maps[k] # None /\ inner' \in Touched(inner, k)
                            /\ Go(t, [At("idle", None) EXCEPT !.file = inner.maps[k]])
      BY <1>2 DEF GetHit
    <2>2. r.pc = "idle" /\ th[t].pc = "idle" /\ dir' = dir /\ kept' = kept
      BY <1>1, <1>2, <2>1 DEF GetHit, Go, At, TypeOK
    <2>3. inner'.maps = inner.maps /\ inner'.sizes = inner.sizes
      BY <1>1, <2>1, TouchedFacts
    <2> HIDE DEF r
    <2>4. th[t].pc \in Reading /\ r.pc \in Reading \ {"evict"} /\ r.pc # "insert"
      BY <2>2 DEF Reading
    <2> QED
      BY <2>2, <2>3, <2>4, QuietLocal DEF r
  <1>3. CASE GetMiss(t) \/ GetRead(t)
    <2>1. /\ r.pc \in {"idle", "map"} /\ th[t].pc \in {"idle", "read"}
          /\ dir' = dir /\ kept' = kept /\ inner' = inner
      BY <1>1, <1>3 DEF GetMiss, GetRead, Go, Idle, At, TypeOK
    <2> HIDE DEF r
    <2>2. th[t].pc \in Reading /\ r.pc \in Reading \ {"evict"} /\ r.pc # "insert"
      BY <2>1 DEF Reading
    <2> QED
      BY <2>1, <2>2, QuietLocal DEF r
  <1>4. CASE GetMap(t)
    <2>1. th[t].pc = "map" /\ dir' = dir /\ kept' = kept /\ inner' = inner
      BY <1>4 DEF GetMap
    <2>2. /\ r.pc \in {"idle", "read", "insert"}
          /\ r.pc = "insert" => config.kind = "mmap" /\ r.file = dir[r.key]
      <3>1. CASE dir[th[t].key] = None
        BY <1>1, <1>4, <3>1 DEF GetMap, Go, Idle, At, TypeOK
      <3>2. CASE dir[th[t].key] # None
        BY <1>1, <1>4, <3>2 DEF GetMap, Go, At, TypeOK
      <3> QED
        BY <3>1, <3>2
    <2> HIDE DEF r
    <2>3. th[t].pc \in Reading /\ r.pc \in Reading \ {"evict"}
      BY <2>1, <2>2 DEF Reading
    <2> QED
      BY <2>1, <2>2, <2>3, QuietLocal DEF r
  <1>5. CASE GetInsert(t)
    <2> DEFINE k == th[t].key
               f == th[t].file
               i1 == [inner EXCEPT !.maps[k] = f]
    <2>1. /\ th[t].pc = "insert" /\ dir' = dir /\ kept' = kept
          /\ inner' \in IF inner.sizes[k] = None THEN {inner} ELSE Touched(i1, k)
      BY <1>5 DEF GetInsert
    <2>2. r.pc = "idle"
      BY <1>1, <1>5 DEF GetInsert, Go, At, TypeOK
    <2>3. k \in Keys /\ f = dir[k] /\ f \in Inodes \cup {None}
      BY <1>1, <2>1 DEF CallCurrent, IInv, Registered, Holds, TypeOK
    <2>4. inner'.sizes = inner.sizes /\ \A l \in Keys : inner'.maps[l] \in {inner.maps[l], dir[l]}
      <3>1. CASE inner.sizes[k] = None
        BY <2>1, <3>1
      <3>2. CASE inner.sizes[k] # None
        <4>1. Synced(i1) /\ i1.maps = [inner.maps EXCEPT ![k] = f] /\ i1.sizes = inner.sizes
          BY <1>1, <2>3, <3>2, MapSynced
        <4>2. inner' \in Touched(i1, k)
          BY <2>1, <3>2
        <4> HIDE DEF i1, k, f
        <4>3. inner'.maps = i1.maps /\ inner'.sizes = i1.sizes
          BY <2>3, <4>1, <4>2, TouchedFacts
        <4>4. inner.maps \in [Keys -> Inodes \cup {None}]
          BY <1>1 DEF TypeOK, Inners
        <4> QED
          BY <2>3, <4>1, <4>3, <4>4
      <3> QED
        BY <3>1, <3>2
    <2> HIDE DEF r
    <2>5. th[t].pc \in Reading /\ r.pc \in Reading \ {"evict"} /\ r.pc # "insert"
      BY <2>1, <2>2 DEF Reading
    <2> QED
      BY <2>1, <2>4, <2>5, QuietLocal DEF r
  <1> QED
    BY <1>2, <1>3, <1>4, <1>5

LEMMA QuietWrites ==
    ASSUME NEW t \in Threads, QuietCall(t), PutOpen(t) \/ PutWrite(t) \/ PutDone(t) \/ Fail(t)
    PROVE  QInv'
  <1> DEFINE r == th'[t]
  <1>1. TypeOK /\ Synced(inner) /\ config.fails \subseteq {"write"} /\ th[t] \in Registers
    BY QuietBefore DEF QuietCall, IInv, TypeOK
  <1>2. dir' = dir /\ kept' = kept
    BY DEF PutOpen, PutWrite, PutDone, Fail
  <1>3. inner'.sizes = inner.sizes /\ inner'.maps = inner.maps
    <2>1. inner' = inner \/ inner' = [inner EXCEPT !.order = <<>>]
      BY DEF PutOpen, PutWrite, PutDone, Fail
    <2> QED
      BY <1>1, <2>1 DEF TypeOK, Inners
  <1>4. r.pc \in {"idle", "write"} /\ th[t].pc \in {"idle", "write", "evict"}
    <2>1. CASE PutOpen(t)
      <3>1. PICK k \in Keys, v \in Values, i \in Inodes : Go(t, [At("write", k) EXCEPT !.value = v, !.file = i])
        BY <2>1 DEF PutOpen
      <3>2. th[t].pc = "idle"
        BY <2>1 DEF PutOpen
      <3> QED
        BY <1>1, <3>1, <3>2 DEF Go, At, TypeOK
    <2>2. CASE PutWrite(t)
      BY <1>1, <2>2 DEF PutWrite, Go, TypeOK, Registers
    <2>3. CASE PutDone(t)
      BY <1>1, <2>3 DEF PutDone, Go, Idle, At, TypeOK
    <2>4. CASE Fail(t)
      BY <1>1, <2>4 DEF Fail, Go, Idle, At, TypeOK
    <2> QED
      BY <2>1, <2>2, <2>3, <2>4
  <1> HIDE DEF r
  <1>5. th[t].pc \in Reading /\ r.pc \in Reading \ {"evict"} /\ r.pc # "insert"
    BY <1>4 DEF Reading
  <1> QED
    BY <1>2, <1>3, <1>5, QuietLocal DEF r

LEMMA QuietRename ==
    ASSUME NEW t \in Threads, QuietCall(t), PutRename(t)
    PROVE  QInv'
  <1> DEFINE q == th[t]
             k == th[t].key
             r == th'[t]
  <1>1. /\ IInv /\ TypeOK /\ OneCaller
        /\ \A l \in Keys : inner.maps[l] # None => inner.sizes[l] # None
    BY QuietBefore DEF QuietCall, IInv, Quiet
  <1>2. q.pc = "write" /\ inner' = inner /\ q.at = Size(q.value)
    BY DEF PutRename, Written
  <1>3. q \in Registers /\ k \in Keys /\ q.value \in Values
    BY <1>1, <1>2 DEF IInv, TypeOK, Registered, Holds
  <1>4. CASE tmp[k] = None
    <2>1. r.pc = "idle" /\ dir' = dir /\ kept' = kept
      BY <1>1, <1>4 DEF PutRename, Idle, Go, At, TypeOK
    <2> HIDE DEF r
    <2>2. q.pc \in Reading /\ r.pc \in Reading \ {"evict"} /\ r.pc # "insert"
      BY <1>2, <2>1 DEF Reading
    <2> QED
      BY <1>2, <2>1, <2>2, QuietLocal DEF r
  <1>5. CASE tmp[k] # None
    <2>1. /\ dir' = [dir EXCEPT ![k] = tmp[k]] /\ kept' = [kept EXCEPT ![k] = q.value]
          /\ IF config.kind = "disk" THEN Idle(t) ELSE Go(t, [q EXCEPT !.pc = "remap", !.file = None])
      BY <1>5 DEF PutRename
    <2>2. /\ dir'[k] = tmp[k] /\ kept'[k] = q.value
          /\ \A l \in Keys : l # k => dir'[l] = dir[l] /\ kept'[l] = kept[l]
      BY <1>1, <1>3, <2>1 DEF TypeOK
    <2>3. body[tmp[k]] = Body(q.value)
      <3>1. OneWriter(k)
        BY <1>1, <1>3, AllOneWriter
      <3>2. tmp[k] = q.file /\ body[q.file] = Prefix(q.value, q.at)
        BY <1>1, <1>2, <1>5, <3>1 DEF IInv, FilesSound, Exclusive
      <3> QED
        BY <1>2, <3>2 DEF Prefix, Body
    <2>4. /\ config.kind = "disk" => r.pc = "idle"
          /\ config.kind # "disk" => r.pc = "remap" /\ r.key = k /\ r.value = q.value
      <3>1. CASE config.kind = "disk"
        BY <1>1, <2>1, <3>1 DEF Idle, Go, At, TypeOK
      <3>2. CASE config.kind # "disk"
        <4>1. Go(t, [q EXCEPT !.pc = "remap", !.file = None])
          BY <2>1, <3>2
        <4>2. r = [q EXCEPT !.pc = "remap", !.file = None]
          BY <1>1, <4>1 DEF Go, TypeOK
        <4> HIDE DEF r, q
        <4>3. r.pc = "remap" /\ r.key = q.key /\ r.value = q.value
          BY <1>3, <4>2 DEF Registers
        <4> QED
          BY <3>2, <4>3 DEF q
      <3> QED
        BY <3>1, <3>2
    <2>5. config.kind # "disk" => config.kind = "mmap"
      BY <1>1, DiskAssumption DEF TypeOK
    <2>6. /\ \A l \in Keys : inner.maps[l] \in {None, dir[l]} \/ config.kind = "disk"
          /\ \A l \in Keys : inner.sizes[l] = SizeOnDisk(l) \/ config.kind = "disk"
          /\ \A l \in Keys : kept[l] # None => dir[l] # None /\ body[dir[l]] = Body(kept[l])
      BY <1>2, QuietBefore
    <2> HIDE DEF r, k, q
    <2>7. \A l \in Keys : \/ inner'.maps[l] \in {None, dir'[l]} \/ config.kind = "disk"
                          \/ r.pc \in {"remap", "account"} /\ r.key = l
      BY <1>2, <2>2, <2>4, <2>6
    <2>8. \A l \in Keys : \/ inner'.sizes[l] = IF dir'[l] = None THEN None ELSE Len(body[dir'[l]])
                          \/ config.kind = "disk"
                          \/ r.pc \in {"remap", "account", "delete", "unlink"} /\ r.key = l
      BY <1>2, <2>2, <2>4, <2>6 DEF SizeOnDisk
    <2>9. \A l \in Keys : kept'[l] # None => dir'[l] # None /\ body[dir'[l]] = Body(kept'[l])
      BY <1>5, <2>2, <2>3, <2>6
    <2>10. /\ r.pc \in {"insert", "remap", "account", "evict", "unlink", "clear"} => config.kind = "mmap"
           /\ r.pc \notin {"insert", "account", "delete", "unlink", "clear"}
           /\ r.pc \in {"remap", "account"} => dir'[r.key] # None /\ body[dir'[r.key]] = Body(r.value)
      BY <1>5, <2>2, <2>3, <2>4, <2>5
    <2> QED
      BY <2>7, <2>8, <2>9, <2>10, QuietAfter DEF r
  <1> QED
    BY <1>4, <1>5

LEMMA QuietRemap ==
    ASSUME NEW t \in Threads, QuietCall(t), PutRemap(t)
    PROVE  QInv'
  <1> DEFINE q == th[t]
             r == th'[t]
  <1>1. TypeOK /\ CallCurrent(t) /\ q \in Registers
    BY QuietBefore DEF QuietCall, IInv, TypeOK
  <1>2. q.pc = "remap" /\ dir' = dir /\ kept' = kept /\ inner' = inner
    BY DEF PutRemap
  <1>3. r.pc = "account" /\ r.key = q.key /\ r.value = q.value /\ r.file = dir[q.key]
    BY <1>1 DEF PutRemap, Go, TypeOK, Registers
  <1>4. config.kind = "mmap" /\ dir[q.key] # None /\ body[dir[q.key]] = Body(q.value)
    BY <1>1, <1>2 DEF CallCurrent
  <1>5. /\ \A l \in Keys : \/ inner.maps[l] \in {None, dir[l]} \/ config.kind = "disk" \/ q.key = l
        /\ \A l \in Keys : \/ inner.sizes[l] = SizeOnDisk(l) \/ config.kind = "disk" \/ q.key = l
        /\ \A l \in Keys : kept[l] # None => dir[l] # None /\ body[dir[l]] = Body(kept[l])
    BY <1>2, QuietBefore
  <1> HIDE DEF r, q
  <1>6. /\ \A l \in Keys : \/ inner'.maps[l] \in {None, dir'[l]} \/ config.kind = "disk"
                           \/ r.pc \in {"remap", "account"} /\ r.key = l
        /\ \A l \in Keys : kept'[l] # None => dir'[l] # None /\ body[dir'[l]] = Body(kept'[l])
    BY <1>2, <1>3, <1>5
  <1>7. \A l \in Keys : \/ inner'.sizes[l] = IF dir'[l] = None THEN None ELSE Len(body[dir'[l]])
                        \/ config.kind = "disk"
                        \/ r.pc \in {"remap", "account", "delete", "unlink"} /\ r.key = l
    BY <1>2, <1>3, <1>5 DEF SizeOnDisk
  <1>8. /\ r.file = dir'[r.key] /\ r.pc \notin {"delete", "unlink", "clear"}
        /\ dir'[r.key] # None /\ body[dir'[r.key]] = Body(r.value)
    BY <1>2, <1>3, <1>4
  <1> QED
    BY <1>4, <1>6, <1>7, <1>8, QuietAfter DEF r

LEMMA QuietAccount ==
    ASSUME NEW t \in Threads, QuietCall(t), PutAccount(t)
    PROVE  QInv'
  <1> DEFINE q == th[t]
             k == th[t].key
             r == th'[t]
  <1>1. IInv /\ TypeOK /\ Synced(inner) /\ CallCurrent(t) /\ q \in Registers
    BY QuietBefore DEF QuietCall, IInv, TypeOK
  <1>2. q.pc = "account" /\ dir' = dir /\ kept' = kept
    BY DEF PutAccount
  <1>3. r.pc = "evict"
    BY <1>1 DEF PutAccount, Go, TypeOK, At
  <1>4. /\ config.kind = "mmap" /\ dir[k] # None /\ body[dir[k]] = Body(q.value) /\ q.file = dir[k]
        /\ k \in Keys /\ q.file \in Inodes \cup {None} /\ Size(q.value) \in Nat
    BY <1>1, <1>2, DiskAssumption DEF CallCurrent, IInv, Registered, Holds, Registers
  <1>5. /\ \A l \in Keys : \/ inner.maps[l] \in {None, dir[l]} \/ config.kind = "disk" \/ k = l
        /\ \A l \in Keys : \/ inner.sizes[l] = SizeOnDisk(l) \/ config.kind = "disk" \/ k = l
        /\ \A l \in Keys : kept[l] # None => dir[l] # None /\ body[dir[l]] = Body(kept[l])
    BY <1>2, QuietBefore
  <1>6. /\ inner'.sizes[k] = Size(q.value) /\ inner'.maps[k] = q.file
        /\ \A l \in Keys : l # k => inner'.sizes[l] = inner.sizes[l] /\ inner'.maps[l] = inner.maps[l]
    <2> DEFINE n == Size(q.value)
               f == q.file
    <2>1. inner' \in Stored(inner, k, n, f) /\ n \in Nat /\ f \in Inodes \cup {None} /\ f # None
      BY <1>4 DEF PutAccount
    <2> HIDE DEF k, n, f
    <2>2. /\ inner'.sizes[k] = n /\ inner'.maps[k] = f
          /\ \A l \in Keys : l # k => inner'.sizes[l] = inner.sizes[l] /\ inner'.maps[l] = inner.maps[l]
      BY <1>1, <1>4, <2>1, StoredFacts
    <2> QED
      BY <2>2 DEF n, f
  <1>7. Len(body[dir[k]]) = Size(q.value)
    <2>1. Len(Body(q.value)) = Size(q.value)
      BY <1>4 DEF Body
    <2> QED
      BY <1>4, <2>1
  <1> HIDE DEF r, q, k
  <1>8. \A l \in Keys : inner'.maps[l] \in {None, dir'[l]} \/ config.kind = "disk"
    BY <1>2, <1>4, <1>5, <1>6
  <1>9. \A l \in Keys : \/ inner'.sizes[l] = IF dir'[l] = None THEN None ELSE Len(body[dir'[l]])
                        \/ config.kind = "disk"
    BY <1>2, <1>4, <1>5, <1>6, <1>7 DEF SizeOnDisk
  <1>10. \A l \in Keys : kept'[l] # None => dir'[l] # None /\ body[dir'[l]] = Body(kept'[l])
    BY <1>2, <1>5
  <1>11. r.pc \notin {"insert", "remap", "account", "delete", "unlink", "clear"}
    BY <1>3
  <1> QED
    BY <1>4, <1>8, <1>9, <1>10, <1>11, QuietAfter DEF r

LEMMA QuietEvict ==
    ASSUME NEW t \in Threads, QuietCall(t), Evict(t)
    PROVE  QInv'
  <1> DEFINE n == Min(LiveAt(inner))
             k == inner.order[n]
             o == SubSeq(inner.order, n + 1, Len(inner.order))
             i1 == [inner EXCEPT !.order = o]
             r == th'[t]
  <1>1. IInv /\ TypeOK /\ Synced(inner) /\ CallCurrent(t) /\ config.fails \subseteq {"write"}
    BY QuietBefore DEF QuietCall, IInv
  <1>2. /\ th[t].pc = "evict" /\ LiveAt(inner) # {} /\ inner' = RemoveAccounting(i1, k) /\ dir' = dir
        /\ th' = [th EXCEPT ![t] = At("unlink", k)]
    BY DEF Evict, Go
  <1>3. PICK bytes \in Displaced(k) :
            kept' = IF bytes # None /\ kept[k] # None /\ body[bytes] = Body(kept[k])
                    THEN [kept EXCEPT ![k] = None] ELSE kept
    BY DEF Evict
  <1>4. k \in Keys /\ o \in Seq(Keys) /\ Len(o) <= MostTickets /\ inner.stamps \ {k} \subseteq ToSet(o)
    BY <1>1, <1>2, PoppedFacts
  <1>5. r.pc = "unlink" /\ r.key = k
    BY <1>1, <1>2 DEF At, TypeOK
  <1>6. config.kind = "mmap"
    BY <1>1, <1>2 DEF CallCurrent
  <1>7. /\ \A l \in Keys : inner.maps[l] \in {None, dir[l]} \/ config.kind = "disk"
        /\ \A l \in Keys : inner.sizes[l] = SizeOnDisk(l) \/ config.kind = "disk"
        /\ \A l \in Keys : kept[l] # None => dir[l] # None /\ body[dir[l]] = Body(kept[l])
    BY <1>2, QuietBefore
  <1> HIDE DEF r, k, o
  <1>8. inner'.maps = [inner.maps EXCEPT ![k] = None] /\ inner'.sizes = [inner.sizes EXCEPT ![k] = None]
    BY <1>1, <1>2, <1>4, RemoveFacts
  <1>9. /\ inner'.maps[k] = None /\ inner'.sizes[k] = None
        /\ \A l \in Keys : l # k => inner'.sizes[l] = inner.sizes[l] /\ inner'.maps[l] = inner.maps[l]
    <2>1. inner.maps \in [Keys -> Inodes \cup {None}] /\ inner.sizes \in [Keys -> Nat \cup {None}]
      BY <1>1 DEF TypeOK, Inners
    <2> QED
      BY <1>4, <1>8, <2>1
  <1>10. bytes = dir[k]
    BY <1>1, <1>4, <1>6, <1>7 DEF Displaced
  <1>11. kept'[k] = None /\ \A l \in Keys : l # k => kept'[l] = kept[l]
    BY <1>1, <1>3, <1>4, <1>7, <1>10 DEF TypeOK
  <1>12. /\ \A l \in Keys : inner'.maps[l] \in {None, dir'[l]} \/ config.kind = "disk"
         /\ \A l \in Keys : kept'[l] # None => dir'[l] # None /\ body[dir'[l]] = Body(kept'[l])
    BY <1>2, <1>7, <1>9, <1>11
  <1>13. \A l \in Keys : \/ inner'.sizes[l] = IF dir'[l] = None THEN None ELSE Len(body[dir'[l]])
                         \/ config.kind = "disk"
                         \/ r.pc \in {"remap", "account", "delete", "unlink"} /\ r.key = l
    BY <1>2, <1>5, <1>7, <1>9 DEF SizeOnDisk
  <1>14. /\ r.pc \notin {"insert", "remap", "account", "clear"}
         /\ kept'[r.key] = None /\ inner'.sizes[r.key] = None
    BY <1>5, <1>9, <1>11
  <1> QED
    BY <1>6, <1>12, <1>13, <1>14, QuietAfter DEF r

\* The file of an entry that is accounted for no more.
LEMMA QuietUnlink ==
    ASSUME NEW t \in Threads, QuietCall(t), NEW k \in Keys, th[t].pc \in {"unlink", "delete"}, th[t].key = k,
           dir' = [dir EXCEPT ![k] = None], inner' = inner, kept' = kept,
           NEW r, th'[t] = r, r.pc = "idle" \/ (r.pc = "evict" /\ th[t].pc = "unlink")
    PROVE  QInv'
  <1>1. TypeOK /\ CallCurrent(t) /\ \A l \in Keys : inner.maps[l] # None => inner.sizes[l] # None
    BY QuietBefore DEF QuietCall, IInv
  <1>2. kept[k] = None /\ inner.sizes[k] = None /\ (th[t].pc = "unlink" => config.kind = "mmap")
    BY <1>1 DEF CallCurrent
  <1>3. dir'[k] = None /\ \A l \in Keys : l # k => dir'[l] = dir[l]
    BY <1>1 DEF TypeOK
  <1>4. /\ \A l \in Keys : inner.maps[l] \in {None, dir[l]} \/ config.kind = "disk"
        /\ \A l \in Keys : l # k => inner.sizes[l] = SizeOnDisk(l) \/ config.kind = "disk"
        /\ \A l \in Keys : kept[l] # None => dir[l] # None /\ body[dir[l]] = Body(kept[l])
    BY QuietBefore
  <1>5. \A l \in Keys : inner'.maps[l] \in {None, dir'[l]} \/ config.kind = "disk"
    BY <1>1, <1>2, <1>3, <1>4
  <1>6. \A l \in Keys : \/ inner'.sizes[l] = IF dir'[l] = None THEN None ELSE Len(body[dir'[l]])
                        \/ config.kind = "disk"
    BY <1>2, <1>3, <1>4 DEF SizeOnDisk
  <1>7. \A l \in Keys : kept'[l] # None => dir'[l] # None /\ body[dir'[l]] = Body(kept'[l])
    BY <1>2, <1>3, <1>4
  <1>8. /\ r.pc \notin {"insert", "remap", "account", "delete", "unlink", "clear"}
        /\ r.pc = "evict" => config.kind = "mmap"
    BY <1>2
  <1> QED
    BY <1>5, <1>6, <1>7, <1>8, QuietAfter

LEMMA QuietUnlinks ==
    ASSUME NEW t \in Threads, QuietCall(t), EvictUnlink(t) \/ DeleteUnlink(t)
    PROVE  QInv'
  <1> DEFINE k == th[t].key
             r == th'[t]
  <1>1. IInv /\ TypeOK /\ config.fails \subseteq {"write"}
    BY QuietBefore DEF QuietCall, IInv
  <1>2. CASE EvictUnlink(t)
    <2>1. th[t].pc = "unlink" /\ dir' = [dir EXCEPT ![k] = None] /\ inner' = inner /\ kept' = kept
      BY <1>1, <1>2 DEF EvictUnlink
    <2>2. k \in Keys /\ r.pc = "evict"
      BY <1>1, <1>2, <2>1 DEF EvictUnlink, Go, At, IInv, TypeOK, Registered, Holds
    <2> HIDE DEF r, k
    <2> QED
      BY <2>1, <2>2, QuietUnlink DEF r, k
  <1>3. CASE DeleteUnlink(t)
    <2>1. th[t].pc = "delete" /\ dir' = [dir EXCEPT ![k] = None] /\ inner' = inner /\ kept' = kept
      BY <1>3 DEF DeleteUnlink
    <2>2. k \in Keys /\ r.pc = "idle"
      BY <1>1, <1>3, <2>1 DEF DeleteUnlink, Idle, Go, At, IInv, TypeOK, Registered, Holds
    <2> HIDE DEF r, k
    <2> QED
      BY <2>1, <2>2, QuietUnlink DEF r, k
  <1> QED
    BY <1>2, <1>3

LEMMA QuietDelete ==
    ASSUME NEW t \in Threads, QuietCall(t), Delete(t)
    PROVE  QInv'
  <1>1. PICK k \in Keys : /\ inner' = CompactTickets(RemoveAccounting(inner, k))
                          /\ Go(t, At("delete", k)) /\ kept' = [kept EXCEPT ![k] = None]
    BY DEF Delete
  <1> DEFINE r == th'[t]
  <1>2. TypeOK /\ Synced(inner)
    BY DEF QuietCall, IInv
  <1>3. th[t].pc = "idle" /\ dir' = dir /\ r.pc = "delete" /\ r.key = k
    BY <1>1, <1>2 DEF Delete, Go, At, TypeOK
  <1>4. inner'.maps = [inner.maps EXCEPT ![k] = None] /\ inner'.sizes = [inner.sizes EXCEPT ![k] = None]
    BY <1>1, <1>2, DeleteFacts
  <1>5. /\ inner'.maps[k] = None /\ inner'.sizes[k] = None /\ kept'[k] = None
        /\ \A l \in Keys : l # k => /\ inner'.sizes[l] = inner.sizes[l] /\ inner'.maps[l] = inner.maps[l]
                                    /\ kept'[l] = kept[l]
    <2>1. inner.maps \in [Keys -> Inodes \cup {None}] /\ inner.sizes \in [Keys -> Nat \cup {None}]
      BY <1>2 DEF TypeOK, Inners
    <2> QED
      BY <1>1, <1>2, <1>4, <2>1 DEF TypeOK
  <1>6. /\ \A l \in Keys : inner.maps[l] \in {None, dir[l]} \/ config.kind = "disk"
        /\ \A l \in Keys : inner.sizes[l] = SizeOnDisk(l) \/ config.kind = "disk"
        /\ \A l \in Keys : kept[l] # None => dir[l] # None /\ body[dir[l]] = Body(kept[l])
    BY <1>3, QuietBefore
  <1> HIDE DEF r
  <1>7. /\ \A l \in Keys : inner'.maps[l] \in {None, dir'[l]} \/ config.kind = "disk"
        /\ \A l \in Keys : kept'[l] # None => dir'[l] # None /\ body[dir'[l]] = Body(kept'[l])
    BY <1>3, <1>5, <1>6
  <1>8. \A l \in Keys : \/ inner'.sizes[l] = IF dir'[l] = None THEN None ELSE Len(body[dir'[l]])
                        \/ config.kind = "disk"
                        \/ r.pc \in {"remap", "account", "delete", "unlink"} /\ r.key = l
    BY <1>3, <1>5, <1>6 DEF SizeOnDisk
  <1>9. /\ r.pc \notin {"insert", "remap", "account", "evict", "unlink", "clear"}
        /\ kept'[r.key] = None /\ inner'.sizes[r.key] = None
    BY <1>3, <1>5
  <1> QED
    BY <1>7, <1>8, <1>9, QuietAfter DEF r

\* While a clear runs, nothing is accounted for and nothing is promised.
LEMMA QuietClearing ==
    ASSUME NEW t \in Threads, QuietCall(t), NEW r, th'[t] = r, r.pc = "clear", config.kind = "mmap",
           r.names = Existing', \A k \in Keys : inner'.sizes[k] = None /\ kept'[k] = None
    PROVE  QInv'
  <1>1. \A k \in Keys : inner'.maps[k] = None
    BY DEF QuietCall, IInv, Synced, NoGhosts
  <1> QED
    BY <1>1, QuietAfter

LEMMA QuietClears ==
    ASSUME NEW t \in Threads, QuietCall(t), Clear(t) \/ ClearUnlink(t) \/ ClearEnd(t)
    PROVE  QInv'
  <1> DEFINE r == th'[t]
  <1>1. IInv /\ TypeOK /\ CallCurrent(t) /\ config.fails \subseteq {"write"} /\ th[t] \in Registers
    BY QuietBefore DEF QuietCall, IInv, TypeOK
  <1>2. CASE Clear(t)
    <2>1. /\ dir' = dir /\ tmp' = tmp /\ inner' = NoInner /\ kept' = [k \in Keys |-> None]
          /\ config.kind = "mmap" /\ th' = [th EXCEPT ![t] = [At("clear", None) EXCEPT !.names = Existing]]
      BY <1>2 DEF Clear, Go
    <2>2. r.pc = "clear" /\ r.names = Existing
      BY <1>1, <2>1 DEF At, TypeOK
    <2>3. Existing' = Existing
      BY <2>1 DEF Existing
    <2>4. \A k \in Keys : inner'.sizes[k] = None /\ kept'[k] = None
      BY <2>1 DEF NoInner
    <2> HIDE DEF r
    <2> QED
      BY <2>1, <2>2, <2>3, <2>4, QuietClearing DEF r
  <1>3. CASE ClearUnlink(t)
    <2>1. PICK n \in Existing :
              /\ \/ n[1] = "file" /\ dir' = [dir EXCEPT ![n[2]] = None] /\ tmp' = tmp
                 \/ n[1] = "tmp" /\ tmp' = [tmp EXCEPT ![n[2]] = None] /\ dir' = dir
              /\ kept' = IF n[1] = "file" THEN [kept EXCEPT ![n[2]] = None] ELSE kept
              /\ Go(t, [th[t] EXCEPT !.names = @ \ {n}])
      BY <1>1, <1>3 DEF ClearUnlink
    <2>2. th[t].pc = "clear" /\ inner' = inner
      BY <1>3 DEF ClearUnlink
    <2>3. /\ config.kind = "mmap" /\ th[t].names = Existing
          /\ \A k \in Keys : inner.sizes[k] = None /\ kept[k] = None
      BY <1>1, <2>2 DEF CallCurrent
    <2>4. r.pc = "clear" /\ r.names = Existing \ {n}
      BY <1>1, <2>1, <2>2, <2>3 DEF Go, TypeOK, Registers
    <2>5. n[2] \in Keys /\ n[1] \in {"file", "tmp"} /\ n = <<n[1], n[2]>>
      BY DEF Existing, Names
    <2>6. Existing' = Existing \ {n}
      <3>1. ASSUME NEW m \in Names PROVE m \in Existing' <=> m \in Existing /\ m # n
        <4>1. m[1] \in {"file", "tmp"} /\ m[2] \in Keys /\ m = <<m[1], m[2]>>
          BY DEF Names
        <4>2. m = n <=> m[1] = n[1] /\ m[2] = n[2]
          BY <2>5, <4>1
        <4>3. m \in Existing <=> IF m[1] = "file" THEN dir[m[2]] # None ELSE tmp[m[2]] # None
          BY DEF Existing
        <4>4. m \in Existing' <=> IF m[1] = "file" THEN dir'[m[2]] # None ELSE tmp'[m[2]] # None
          BY DEF Existing
        <4>5. CASE n[1] = "file"
          <5>1. dir'[m[2]] = (IF m[2] = n[2] THEN None ELSE dir[m[2]]) /\ tmp' = tmp
            BY <1>1, <2>1, <4>1, <4>5 DEF TypeOK
          <5> QED
            BY <4>1, <4>2, <4>3, <4>4, <4>5, <5>1
        <4>6. CASE n[1] = "tmp"
          <5>1. tmp'[m[2]] = (IF m[2] = n[2] THEN None ELSE tmp[m[2]]) /\ dir' = dir
            BY <1>1, <2>1, <4>1, <4>6 DEF TypeOK
          <5> QED
            BY <4>1, <4>2, <4>3, <4>4, <4>6, <5>1
        <4> QED
          BY <2>5, <4>5, <4>6
      <3>2. Existing \subseteq Names /\ Existing' \subseteq Names
        BY DEF Existing
      <3> QED
        BY <3>1, <3>2
    <2>7. \A k \in Keys : inner'.sizes[k] = None /\ kept'[k] = None
      BY <1>1, <2>1, <2>2, <2>3, <2>5 DEF TypeOK
    <2> HIDE DEF r
    <2> QED
      BY <2>3, <2>4, <2>6, <2>7, QuietClearing DEF r
  <1>4. CASE ClearEnd(t)
    <2>1. /\ th[t].pc = "clear" /\ dir' = dir /\ inner' = inner /\ kept' = kept
          /\ th[t].names = {} \/ th[t].names \ Existing # {}
      BY <1>1, <1>4 DEF ClearEnd
    <2>2. /\ config.kind = "mmap" /\ th[t].names = Existing
          /\ \A k \in Keys : inner.sizes[k] = None /\ kept[k] = None
      BY <1>1, <2>1 DEF CallCurrent
    <2>3. Existing = {}
      BY <2>1, <2>2
    <2>4. \A k \in Keys : dir[k] = None
      <3> SUFFICES ASSUME NEW k \in Keys, dir[k] # None PROVE FALSE
        OBVIOUS
      <3>1. <<"file", k>> \in Names
        BY DEF Names
      <3> QED
        BY <2>3, <3>1 DEF Existing
    <2>5. \A k \in Keys : inner.maps[k] # None => inner.sizes[k] # None
      BY QuietBefore
    <2>6. r.pc = "idle"
      BY <1>1, <1>4 DEF ClearEnd, Idle, Go, At, TypeOK
    <2> HIDE DEF r
    <2> QED
      BY <2>1, <2>2, <2>4, <2>5, <2>6, QuietAfter DEF r
  <1> QED
    BY <1>2, <1>3, <1>4

\* What is found when the tier is opened again.
LEMMA QuietRestart ==
    ASSUME IInv, QInv, Quiet, Restart
    PROVE  QInv'
  <1>1. PICK order \in SetToSeqs({k \in Keys : dir[k] # None}) :
            inner' = IF config.kind = "mmap" THEN Scan(order) ELSE NoInner
    BY DEF Restart
  <1>2. /\ th' = [t \in Threads |-> At("idle", None)]
        /\ config' = config /\ dir' = dir /\ kept' = kept /\ Reap(body)
    BY DEF Restart
  <1>3. TypeOK /\ PutKept /\ OneCaller
    BY DEF IInv, QInv, Quiet
  <1>4. \A t \in Threads : th'[t].pc = "idle"
    BY <1>2 DEF At
  <1>5. ASSUME NEW k \in Keys, dir[k] # None PROVE body'[dir[k]] = body[dir[k]]
    BY <1>2, <1>3, <1>5, Referenced DEF TypeOK
  <1>6. OthersIdle'
    BY <1>4 DEF OthersIdle
  <1>7. MapsCurrent' /\ SizesCurrent'
    <2>1. CASE config.kind = "mmap"
      <3>1. /\ inner'.maps = [k \in Keys |-> None]
            /\ inner'.sizes = [k \in Keys |-> IF dir[k] = None THEN None ELSE Len(body[dir[k]])]
        BY <1>1, <1>3, <2>1, ScanSynced
      <3>2. \A k \in Keys : inner'.maps[k] = None /\ inner'.sizes[k] = SizeOnDisk(k)'
        BY <1>2, <1>5, <3>1 DEF SizeOnDisk
      <3> QED
        BY <3>2 DEF MapsCurrent, SizesCurrent
    <2>2. CASE config.kind # "mmap"
      <3>1. config'.kind = "disk"
        BY <1>2, <1>3, <2>2, DiskAssumption DEF TypeOK
      <3> QED
        BY <3>1 DEF MapsCurrent, SizesCurrent
    <2> QED
      BY <2>1, <2>2
  <1>8. PutKept'
    <2> SUFFICES ASSUME NEW k \in Keys, kept'[k] # None
                 PROVE  dir'[k] # None /\ body'[dir'[k]] = Body(kept'[k])
      BY DEF PutKept, Body
    <2>1. dir[k] # None /\ body[dir[k]] = Body(kept[k])
      BY <1>2, <1>3 DEF PutKept, QInv, Quiet
    <2> QED
      BY <1>2, <1>5, <2>1
  <1>9. \A t \in Threads : CallCurrent(t)'
    BY <1>4 DEF CallCurrent
  <1> QED
    BY <1>6, <1>7, <1>8, <1>9 DEF QInv

LEMMA QInvInit == Init => QInv
  <1> SUFFICES ASSUME Init PROVE QInv
    OBVIOUS
  <1>1. /\ \A t \in Threads : th[t].pc = "idle"
        /\ \A k \in Keys : dir[k] = None /\ kept[k] = None /\ inner.maps[k] = None /\ inner.sizes[k] = None
    BY DEF Init, At, NoInner
  <1> QED
    BY <1>1 DEF QInv, OthersIdle, MapsCurrent, SizesCurrent, SizeOnDisk, PutKept, CallCurrent

LEMMA QInvStep == IInv /\ QInv /\ [Next]_vars => QInv'
  <1> SUFFICES ASSUME IInv, QInv, [Next]_vars PROVE QInv'
    OBVIOUS
  <1>1. CASE UNCHANGED vars
    <2>1. /\ config' = config /\ body' = body /\ dir' = dir /\ tmp' = tmp /\ inner' = inner
          /\ lock' = lock /\ th' = th /\ settled' = settled /\ kept' = kept
      BY <1>1 DEF vars
    <2> QED
      BY <2>1 DEF QInv, Quiet, OneCaller, OthersIdle, Callers, MapsCurrent, SizesCurrent, SizeOnDisk,
                  Busy, PutKept, CallCurrent, Existing, Body
  <1>2. CASE Next /\ ~Quiet
    <2>1. config' = config
      BY <1>2 DEF Next, Begin, Continue, Fail, Restart, GetHit, GetMiss, PutOpen, Delete, Clear, GetMap,
          GetRead, GetInsert, PutWrite, PutRename, PutRemap, PutAccount, Evict, EvictUnlink, PutDone,
          DeleteUnlink, ClearUnlink, ClearEnd
    <2> QED
      BY <1>2, <2>1 DEF QInv, Quiet, OneCaller
  <1>3. CASE Restart /\ Quiet
    BY <1>3, QuietRestart
  <1>4. ASSUME NEW t \in Threads, Quiet, Begin(t) \/ Continue(t) \/ Fail(t)
        PROVE  QInv'
    <2>1. QuietCall(t)
      BY <1>4, QuietCallFacts
    <2> QED
      BY <1>4, <2>1, QuietGets, QuietWrites, QuietRename, QuietRemap, QuietAccount, QuietEvict, QuietUnlinks,
         QuietDelete, QuietClears, Zenon DEF Begin, Continue
  <1> QED
    BY <1>1, <1>2, <1>3, <1>4 DEF Next

\* What one caller can rely on at every step.
THEOREM QInvAlways == Spec => []QInv
  BY IInvAlways, QInvInit, QInvStep, PTL DEF Spec

(***************************************************************************)
(* One caller, no error but of a write: a value that has been put is the   *)
(* file of its key, across failed overwrites, evictions of other keys and  *)
(* restarts anywhere, until it is deleted, cleared or handed out as        *)
(* displaced (put, delete, clear and scan of tier.rs; put of disk.rs).     *)
(***************************************************************************)
THEOREM PutsAreKept == Spec => []PutKept
  <1>1. QInv => PutKept
    BY DEF QInv, PutKept, Quiet
  <1> QED
    BY <1>1, QInvAlways, PTL

(***************************************************************************)
(* One caller, no error but of a write: at rest the index accounts for     *)
(* exactly the files there are, with their lengths, and maps no other ones *)
(* (put, the eviction loop, delete, clear and scan of tier.rs).            *)
(***************************************************************************)
THEOREM IndexStaysCurrent == Spec => []IndexMatchesDisk
  <1>1. QInv => IndexMatchesDisk
    <2> SUFFICES ASSUME QInv, OneCaller, config.kind = "mmap", config.fails \subseteq {"write"}, Resting,
                        NEW k \in Keys
                 PROVE  /\ inner.sizes[k] = IF dir[k] = None THEN None ELSE Len(body[dir[k]])
                        /\ inner.maps[k] \in {None, dir[k]}
      BY DEF IndexMatchesDisk
    <2>1. MapsCurrent /\ SizesCurrent
      BY DEF QInv, Quiet
    <2>2. /\ ~Busy(k, {"remap", "account"}) /\ ~Busy(k, {"remap", "account", "delete", "unlink"})
          /\ ~\E t \in Threads : th[t].pc = "clear"
      BY DEF Resting, Busy
    <2> QED
      BY <2>1, <2>2 DEF MapsCurrent, SizesCurrent, SizeOnDisk
  <1> QED
    BY <1>1, QInvAlways, PTL
=============================================================================
