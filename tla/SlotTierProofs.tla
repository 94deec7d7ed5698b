--------------------------- MODULE SlotTierProofs ---------------------------
(***************************************************************************)
(* The slot tier keeps its memory and its file in sync and serves what it  *)
(* holds, for any keys, values and number of slots, wherever the process   *)
(* ends and however often.                                                 *)
(***************************************************************************)
EXTENDS SlotTier, FiniteSetTheorems, SequenceTheorems, TLAPS

Busy == put.step # "none"
Elsewhere(s) == Busy => s # put.slot    \* s is not the slot that is written

(***************************************************************************)
(* The insert in progress: its slot is not free and indexed under its own  *)
(* key at most, nobody has a view, and the stores made so far are there.   *)
(***************************************************************************)
InsertSound ==
    Busy =>
        /\ put.slot \in Slots /\ put.key \in Keys /\ put.value \in Values
        /\ view = None
        /\ put.slot \notin ToSet(free)
        /\ index[put.key] \in {None, put.slot}
        /\ \A n \in Names : index[n] = put.slot => n = put.key
        /\ put.step # "used" => file[put.slot].used
        /\ put.step \in {"value", "index"} => file[put.slot].key = put.key
        /\ put.step = "index" => file[put.slot].value = <<put.key, put.value>>

\* What the index says of a slot that is not being written.
IndexHome ==
    \A n \in Names : index[n] # None /\ Elsewhere(index[n]) => KeyAt(file, index[n]) = n
IndexListed ==
    \A n \in Names : index[n] # None => index[n] \notin ToSet(free) /\ n \in ToSet(order)
FreeOnce == IsInjective(free)

\* Before a crash has cut an insert short, no slot is lost and no record stale.
Untorn ==
    ~torn =>
        /\ IsInjective(order)
        /\ \A n \in ToSet(order) : index[n] # None
        /\ \A s \in Slots : Elsewhere(s) =>
              /\ s \in ToSet(free) \/ \E n \in Names : index[n] = s
              /\ file[s].used => \E n \in Names : index[n] = s

(***************************************************************************)
(* A key that is not in doubt has one record, apart from what the slot     *)
(* being written shows, so the scan of open finds the right one.           *)
(***************************************************************************)
OneRecord ==
    \A k \in Keys \ doubt, s \in Slots :
        Elsewhere(s) /\ KeyAt(file, s) = k => index[k] = s

KeptServed ==
    \A k \in Keys \ doubt : (Busy => k # put.key) =>
        /\ kept[k] # None => index[k] # None /\ file[index[k]].value = kept[k]
        /\ kept[k] = None /\ ~torn => index[k] = None

IInv ==
    /\ TypeOK /\ InsertSound /\ IndexHome /\ IndexListed /\ FreeOnce
    /\ Untorn /\ OneRecord /\ KeptServed

-----------------------------------------------------------------------------
(* Enumerations                                                            *)

\* An element has fewer elements below it than the set has.
LEMMA RankType ==
    ASSUME NEW S \in SUBSET Nat, IsFiniteSet(S), NEW s \in S
    PROVE  Rank(S, s) \in Nat /\ Rank(S, s) + 1 \in 1 .. Cardinality(S)
  <1> DEFINE L == {r \in S : r < s}
  <1>1. L \in SUBSET (S \ {s}) /\ Rank(S, s) = Cardinality(L)
    BY DEF Rank
  <1>2. Cardinality(S) \in Nat /\ Cardinality(S \ {s}) = Cardinality(S) - 1 /\ IsFiniteSet(S \ {s})
    BY FS_RemoveElement, FS_CardinalityType
  <1> HIDE DEF L
  <1>3. IsFiniteSet(L) /\ Cardinality(L) <= Cardinality(S \ {s})
    BY <1>1, <1>2, FS_Subset
  <1>4. Cardinality(L) \in Nat
    BY <1>3, FS_CardinalityType
  <1> QED
    BY <1>1, <1>2, <1>3, <1>4

\* The number of smaller elements tells the elements of a set apart.
LEMMA RankMonotone ==
    ASSUME NEW S \in SUBSET Nat, IsFiniteSet(S), NEW s \in S, NEW t \in S, s < t
    PROVE  Rank(S, s) < Rank(S, t)
  <1> DEFINE L == {r \in S : r < s}
             M == {r \in S : r < t}
  <1>1. L \in SUBSET M /\ L # M /\ M \in SUBSET S
    <2>1. L \in SUBSET M /\ M \in SUBSET S
      <3>1. \A r \in S : r < s => r < t
        OBVIOUS
      <3> QED
        BY <3>1
    <2>2. s \in M /\ s \notin L
      OBVIOUS
    <2> HIDE DEF L, M
    <2> QED
      BY <2>1, <2>2
  <1>2. Rank(S, s) = Cardinality(L) /\ Rank(S, t) = Cardinality(M)
    BY DEF Rank
  <1>3. Rank(S, s) \in Nat /\ Rank(S, t) \in Nat
    BY RankType
  <1> HIDE DEF L, M
  <1>4. IsFiniteSet(M)
    BY <1>1, FS_Subset
  <1>5. Cardinality(L) <= Cardinality(M) /\ (Cardinality(M) = Cardinality(L) => M = L)
    BY <1>1, <1>4, FS_Subset
  <1> QED
    BY <1>1, <1>2, <1>3, <1>5

LEMMA RankInjective ==
    ASSUME NEW S \in SUBSET Nat, IsFiniteSet(S), NEW s \in S, NEW t \in S,
           Rank(S, s) = Rank(S, t)
    PROVE  s = t
  <1>1. s < t \/ t < s \/ s = t
    OBVIOUS
  <1>2. s < t => Rank(S, s) < Rank(S, t)
    BY RankMonotone
  <1>3. t < s => Rank(S, t) < Rank(S, s)
    BY RankMonotone
  <1> QED
    BY <1>1, <1>2, <1>3, RankType

\* Every rank is taken: as many elements as ranks, no two with the same.
LEMMA RankSurjective ==
    ASSUME NEW S \in SUBSET Nat, IsFiniteSet(S), NEW n \in 1 .. Cardinality(S)
    PROVE  \E s \in S : Rank(S, s) = n - 1
  <1> DEFINE rank == [s \in S |-> Rank(S, s) + 1]
             N == 1 .. Cardinality(S)
  <1>1. Cardinality(S) \in Nat
    BY FS_CardinalityType
  <1>2. IsFiniteSet(N) /\ Cardinality(N) = Cardinality(S)
    BY <1>1, FS_Interval
  <1>3. rank \in Injection(S, N)
    <2>1. rank \in [S -> N]
      BY RankType
    <2>2. \A s, t \in S : rank[s] = rank[t] => s = t
      BY RankType, RankInjective
    <2> QED
      BY <2>1, <2>2 DEF Injection, IsInjective
  <1>4. rank \in Surjection(S, N)
    <2> HIDE DEF rank, N
    <2> QED
      BY <1>2, <1>3, FS_Injection
  <1>5. \E s \in S : rank[s] = n
    <2> HIDE DEF rank
    <2> QED
      BY <1>4 DEF Surjection
  <1> QED
    BY <1>1, <1>5, RankType

\* Ascending enumerates the set, each element once.
LEMMA AscendingEnumerates ==
    ASSUME NEW S \in SUBSET Nat, IsFiniteSet(S)
    PROVE  /\ Cardinality(S) \in Nat
           /\ Ascending(S) \in [1 .. Cardinality(S) -> S]
           /\ IsInjective(Ascending(S))
           /\ \A s \in S : \E n \in 1 .. Cardinality(S) : Ascending(S)[n] = s
  <1>1. Cardinality(S) \in Nat
    BY FS_CardinalityType
  <1>2. Ascending(S) = [n \in 1 .. Cardinality(S) |-> CHOOSE s \in S : Rank(S, s) = n - 1]
    BY DEF Ascending
  <1>3. \A n \in 1 .. Cardinality(S) :
            Ascending(S)[n] \in S /\ Rank(S, Ascending(S)[n]) = n - 1
    BY <1>2, RankSurjective
  <1>4. \A s \in S : Rank(S, s) + 1 \in 1 .. Cardinality(S) /\ Ascending(S)[Rank(S, s) + 1] = s
    <2> SUFFICES ASSUME NEW s \in S
                 PROVE  Rank(S, s) + 1 \in 1 .. Cardinality(S) /\ Ascending(S)[Rank(S, s) + 1] = s
      OBVIOUS
    <2>1. Rank(S, s) \in Nat /\ Rank(S, s) + 1 \in 1 .. Cardinality(S)
      BY RankType
    <2> DEFINE t == Ascending(S)[Rank(S, s) + 1]
    <2>2. t \in S /\ Rank(S, t) = Rank(S, s)
      BY <1>3, <2>1
    <2> HIDE DEF t
    <2>3. t = s
      BY <2>2, RankInjective
    <2> QED
      BY <2>1, <2>3 DEF t
  <1>5. IsInjective(Ascending(S))
    <2>1. DOMAIN Ascending(S) = 1 .. Cardinality(S)
      BY <1>2
    <2>2. ASSUME NEW m \in 1 .. Cardinality(S), NEW n \in 1 .. Cardinality(S),
                 Ascending(S)[m] = Ascending(S)[n]
          PROVE  m = n
      <3>1. m - 1 = n - 1
        BY <1>3, <2>2
      <3> QED
        BY <1>1, <3>1
    <2> QED
      BY <2>1, <2>2 DEF IsInjective
  <1> QED
    BY <1>1, <1>2, <1>3, <1>4, <1>5

\* A finite set of numbers has a greatest one: that of the highest rank.
LEMMA MaxExists ==
    ASSUME NEW S \in SUBSET Nat, IsFiniteSet(S), S # {}
    PROVE  Max(S) \in S
  <1>1. Cardinality(S) \in Nat \ {0}
    BY FS_CardinalityType, FS_EmptySet
  <1>2. PICK s \in S : Rank(S, s) = Cardinality(S) - 1
    BY <1>1, RankSurjective
  <1>3. \A r \in S : s >= r
    <2> SUFFICES ASSUME NEW r \in S, s < r PROVE FALSE
      OBVIOUS
    <2> QED
      BY <1>1, <1>2, RankMonotone, RankType
  <1> QED
    BY <1>2, <1>3 DEF Max

\* The elements of a sequence at some of its places.
LEMMA SubsequenceElements ==
    ASSUME NEW T, NEW seq \in Seq(T), NEW S \in SUBSET (DOMAIN seq)
    PROVE  /\ Subsequence(seq, S) \in Seq(T)
           /\ ToSet(Subsequence(seq, S)) = {seq[n] : n \in S}
           /\ IsInjective(seq) => IsInjective(Subsequence(seq, S))
  <1> DEFINE a == Ascending(S)
             c == Cardinality(S)
             q == Subsequence(seq, S)
  <1>1. S \in SUBSET Nat /\ IsFiniteSet(S)
    <2>1. DOMAIN seq = 1 .. Len(seq) /\ Len(seq) \in Nat
      OBVIOUS
    <2>2. IsFiniteSet(1 .. Len(seq))
      BY <2>1, FS_Interval
    <2> QED
      BY <2>1, <2>2, FS_Subset
  <1>2. /\ c \in Nat /\ a \in [1 .. c -> S] /\ IsInjective(a)
        /\ \A s \in S : \E n \in 1 .. c : a[n] = s
    BY <1>1, AscendingEnumerates
  <1>3. q = [n \in 1 .. c |-> seq[a[n]]]
    BY DEF Subsequence
  <1> HIDE DEF a, c, q
  <1>4. \A n \in 1 .. c : a[n] \in S /\ seq[a[n]] \in T /\ q[n] = seq[a[n]]
    BY <1>2, <1>3
  <1>5. q \in Seq(T) /\ DOMAIN q = 1 .. c
    <2>1. q \in [1 .. c -> T]
      BY <1>3, <1>4
    <2>2. q \in UNION {[1 .. n -> T] : n \in Nat}
      BY <1>2, <2>1, Zenon
    <2>3. q \in Seq(T)
      BY <2>2, SeqDef, Zenon
    <2> QED
      BY <2>1, <2>3
  <1>6. ToSet(q) = {seq[n] : n \in S}
    <2>1. ASSUME NEW x \in ToSet(q) PROVE x \in {seq[n] : n \in S}
      <3>1. PICK n \in 1 .. c : x = q[n]
        BY <1>5, Zenon DEF ToSet
      <3> QED
        BY <1>4, <3>1
    <2>2. ASSUME NEW s \in S PROVE seq[s] \in ToSet(q)
      <3>1. PICK n \in 1 .. c : a[n] = s
        BY <1>2
      <3>2. n \in DOMAIN q /\ q[n] = seq[s]
        BY <1>4, <1>5, <3>1
      <3> QED
        BY <3>2, Zenon DEF ToSet
    <2> QED
      BY <2>1, <2>2
  <1>7. IsInjective(seq) => IsInjective(q)
    BY <1>2, <1>4, <1>5 DEF IsInjective
  <1> QED
    BY <1>5, <1>6, <1>7 DEF q

\* A push, a pop at the end and a pop at the front.
LEMMA AppendElements ==
    ASSUME NEW T, NEW q \in Seq(T), NEW x \in T
    PROVE  /\ Append(q, x) \in Seq(T) /\ ToSet(Append(q, x)) = ToSet(q) \cup {x}
           /\ IsInjective(q) /\ x \notin ToSet(q) => IsInjective(Append(q, x))
  <1> DEFINE r == Append(q, x)
  <1>1. /\ r \in Seq(T) /\ Len(r) = Len(q) + 1 /\ Len(q) \in Nat
        /\ \A i \in 1 .. Len(q) : r[i] = q[i]
        /\ r[Len(q) + 1] = x
    BY AppendProperties
  <1>2. DOMAIN q = 1 .. Len(q) /\ DOMAIN r = 1 .. Len(q) + 1
    BY <1>1
  <1> HIDE DEF r
  <1>3. \A i \in DOMAIN r : (i \in DOMAIN q /\ r[i] = q[i]) \/ (i = Len(q) + 1 /\ r[i] = x)
    BY <1>1, <1>2
  <1>4. (\A i \in DOMAIN q : i \in DOMAIN r /\ r[i] = q[i])
        /\ Len(q) + 1 \in DOMAIN r /\ Len(q) + 1 \notin DOMAIN q
    BY <1>1, <1>2
  <1>5. ToSet(r) = ToSet(q) \cup {x}
    BY <1>1, <1>3, <1>4 DEF ToSet
  <1>6. ASSUME IsInjective(q), x \notin ToSet(q) PROVE IsInjective(r)
    <2>1. \A i \in DOMAIN q : q[i] # x
      BY <1>6, Zenon DEF ToSet
    <2> QED
      BY <1>3, <1>6, <2>1 DEF IsInjective
  <1> QED
    BY <1>1, <1>5, <1>6 DEF r

LEMMA FrontElements ==
    ASSUME NEW T, NEW q \in Seq(T), q # <<>>, IsInjective(q)
    PROVE  /\ Front(q) \in Seq(T) /\ IsInjective(Front(q))
           /\ Last(q) \in T /\ Last(q) \in ToSet(q)
           /\ ToSet(Front(q)) = ToSet(q) \ {Last(q)}
  <1> DEFINE r == Front(q)
             l == Len(q)
  <1>1. l \in Nat /\ l >= 1 /\ DOMAIN q = 1 .. l /\ l \in DOMAIN q
    OBVIOUS
  <1>2. r \in Seq(T) /\ DOMAIN r = 1 .. l - 1 /\ \A i \in 1 .. l - 1 : r[i] = q[i]
    BY <1>1 DEF Front
  <1>3. Last(q) = q[l]
    BY DEF Last
  <1> HIDE DEF r, l
  <1>4. /\ \A i \in DOMAIN r : i \in DOMAIN q /\ r[i] = q[i] /\ i # l
        /\ \A i \in DOMAIN q : i = l \/ i \in DOMAIN r
    BY <1>1, <1>2
  <1>5. ToSet(r) = ToSet(q) \ {q[l]}
    BY <1>1, <1>4 DEF ToSet, IsInjective
  <1>6. IsInjective(r)
    BY <1>4 DEF IsInjective
  <1>7. Last(q) \in ToSet(q)
    BY <1>1, <1>3, Zenon DEF ToSet
  <1>8. Last(q) \in T
    BY <1>1, <1>3
  <1> QED
    BY <1>2, <1>3, <1>5, <1>6, <1>7, <1>8 DEF r

LEMMA TailElements ==
    ASSUME NEW T, NEW q \in Seq(T), q # <<>>
    PROVE  /\ Head(q) \in T /\ Tail(q) \in Seq(T)
           /\ \A x \in ToSet(Tail(q)) : x \in ToSet(q)
           /\ \A x \in ToSet(q) : x = Head(q) \/ x \in ToSet(Tail(q))
           /\ IsInjective(q) => IsInjective(Tail(q)) /\ Head(q) \notin ToSet(Tail(q))
  <1> DEFINE r == Tail(q)
             l == Len(q)
  <1>1. l \in Nat /\ l >= 1 /\ DOMAIN q = 1 .. l /\ Head(q) = q[1] /\ q[1] \in T
    OBVIOUS
  <1>2. r \in Seq(T) /\ DOMAIN r = 1 .. l - 1 /\ \A i \in 1 .. l - 1 : r[i] = q[i + 1]
    OBVIOUS
  <1> HIDE DEF r, l
  <1>3. /\ \A i \in DOMAIN r : i \in Int /\ i + 1 \in DOMAIN q /\ r[i] = q[i + 1] /\ i + 1 # 1
        /\ \A i \in DOMAIN q : i = 1 \/ (i - 1 \in DOMAIN r /\ r[i - 1] = q[i])
        /\ 1 \in DOMAIN q
    BY <1>1, <1>2
  <1>4. ASSUME NEW x \in ToSet(r) PROVE x \in ToSet(q)
    <2>1. PICK i \in DOMAIN r : x = r[i]
      BY Zenon DEF ToSet
    <2>2. i + 1 \in DOMAIN q /\ x = q[i + 1]
      BY <1>3, <2>1
    <2> QED
      BY <2>2, Zenon DEF ToSet
  <1>5. ASSUME NEW x \in ToSet(q), x # q[1] PROVE x \in ToSet(r)
    <2>1. PICK i \in DOMAIN q : x = q[i]
      BY Zenon DEF ToSet
    <2>2. i - 1 \in DOMAIN r /\ x = r[i - 1]
      BY <1>3, <1>5, <2>1
    <2> QED
      BY <2>2, Zenon DEF ToSet
  <1>6. ASSUME IsInjective(q) PROVE IsInjective(r) /\ q[1] \notin ToSet(r)
    <2>1. IsInjective(r)
      BY <1>3, <1>6 DEF IsInjective
    <2>2. ASSUME NEW i \in DOMAIN r PROVE q[1] # r[i]
      BY <1>3, <1>6 DEF IsInjective
    <2>3. q[1] \notin ToSet(r)
      BY <2>2, Zenon DEF ToSet
    <2> QED
      BY <2>1, <2>3
  <1> QED
    BY <1>1, <1>2, <1>4, <1>5, <1>6 DEF r

-----------------------------------------------------------------------------
(* open                                                                    *)

\* Slots are numbers, and nothing else is None.
LEMMA SlotFacts ==
    /\ Slots \subseteq Nat /\ IsFiniteSet(Slots) /\ None \notin Slots
    /\ None \notin Names /\ None \notin Keys /\ Keys \subseteq Names /\ Slots \subseteq Names
  <1>1. NSlots - 1 \in Int /\ 0 \in Int
    BY SlotAssumption
  <1>2. IsFiniteSet(Slots)
    BY <1>1, FS_Interval DEF Slots
  <1> QED
    BY <1>2, SlotAssumption DEF Slots, Names

\* What the scan finds in any file: a slot of every key that some slot shows.
LEMMA ScanFacts ==
    ASSUME NEW f \in [Slots -> Record]
    PROVE  /\ \A s \in Slots : KeyAt(f, s) \in Names \cup {None}
           /\ ScanIndex(f) \in [Names -> Slots \cup {None}]
           /\ \A n \in Names : ScanIndex(f)[n] # None => KeyAt(f, ScanIndex(f)[n]) = n
           /\ \A s \in Slots : KeyAt(f, s) # None => ScanIndex(f)[KeyAt(f, s)] # None
           /\ ScanOrder(f) \in Seq(Names)
           /\ \A n \in Names : n \in ToSet(ScanOrder(f)) <=> ScanIndex(f)[n] # None
           /\ (\A s, r \in Slots : KeyAt(f, s) = KeyAt(f, r) /\ KeyAt(f, s) # None => s = r)
                 => IsInjective(ScanOrder(f))
           /\ ScanFree(f) \in Seq(Slots) /\ IsInjective(ScanFree(f))
           /\ ToSet(ScanFree(f)) = {s \in Slots : KeyAt(f, s) = None}
  <1>1. ASSUME NEW s \in Slots PROVE KeyAt(f, s) \in Names \cup {None}
    BY DEF KeyAt, Record
  <1> DEFINE At(n) == {s \in Slots : KeyAt(f, s) = n}
             ix == ScanIndex(f)
  <1>2. \A n \in Names : ix[n] = IF At(n) = {} THEN None ELSE Max(At(n))
    BY DEF ScanIndex
  <1>3. \A n \in Names : At(n) # {} => Max(At(n)) \in At(n)
    <2> SUFFICES ASSUME NEW n \in Names, At(n) # {} PROVE Max(At(n)) \in At(n)
      OBVIOUS
    <2>1. At(n) \in SUBSET Nat /\ At(n) \in SUBSET Slots
      BY SlotFacts
    <2> HIDE DEF At
    <2>2. IsFiniteSet(At(n))
      BY <2>1, SlotFacts, FS_Subset
    <2> QED
      BY <2>1, <2>2, MaxExists
  <1>4. ix \in [Names -> Slots \cup {None}]
    <2>1. DOMAIN ix = Names /\ ix = [n \in Names |-> ix[n]]
      BY DEF ScanIndex
    <2> HIDE DEF ix
    <2> QED
      BY <1>2, <1>3, <2>1
  <1>5. \A n \in Names : ix[n] # None => KeyAt(f, ix[n]) = n
    BY <1>2, <1>3
  <1>6. \A n \in Names : At(n) # {} => ix[n] # None
    BY <1>2, <1>3, SlotFacts
  <1>7. \A s \in Slots : KeyAt(f, s) # None => ix[KeyAt(f, s)] # None
    BY <1>1, <1>6
  <1> DEFINE U == {s \in Slots : KeyAt(f, s) # None}
             F == {s \in Slots : KeyAt(f, s) = None}
             c == Cardinality(U)
             a == Ascending(U)
             o == ScanOrder(f)
  <1>8. U \in SUBSET Nat /\ IsFiniteSet(U) /\ F \in SUBSET Nat /\ IsFiniteSet(F)
    <2>1. U \in SUBSET Slots /\ F \in SUBSET Slots
      OBVIOUS
    <2> HIDE DEF U, F
    <2> QED
      BY <2>1, SlotFacts, FS_Subset
  <1>9. /\ c \in Nat /\ a \in [1 .. c -> U] /\ IsInjective(a)
        /\ \A s \in U : \E n \in 1 .. c : a[n] = s
    <2> HIDE DEF U
    <2> QED
      BY <1>8, AscendingEnumerates
  <1>10. o = [n \in 1 .. c |-> KeyAt(f, a[n])]
    BY DEF ScanOrder
  <1>11. \A s \in U : s \in Slots /\ KeyAt(f, s) \in Names /\ KeyAt(f, s) # None
    BY <1>1
  <1>12. \A n \in Names : ix[n] # None => \E s \in U : KeyAt(f, s) = n
    BY <1>4, <1>5, SlotFacts
  <1>13. \A s \in U : ix[KeyAt(f, s)] # None
    BY <1>7
  <1>14. (\A s, r \in Slots : KeyAt(f, s) = KeyAt(f, r) /\ KeyAt(f, s) # None => s = r)
            => \A s, r \in U : KeyAt(f, s) = KeyAt(f, r) => s = r
    OBVIOUS
  <1> HIDE DEF U, c, a, o, ix
  <1>15. \A n \in 1 .. c : a[n] \in U /\ o[n] = KeyAt(f, a[n]) /\ o[n] \in Names
    BY <1>9, <1>10, <1>11
  <1>16. o \in Seq(Names) /\ DOMAIN o = 1 .. c
    <2>1. o \in [1 .. c -> Names]
      BY <1>10, <1>15
    <2>2. o \in UNION {[1 .. n -> Names] : n \in Nat}
      BY <1>9, <2>1, Zenon
    <2>3. o \in Seq(Names)
      BY <2>2, SeqDef, Zenon
    <2> QED
      BY <2>1, <2>3
  <1>17. \A n \in Names : n \in ToSet(o) <=> ix[n] # None
    <2>1. ASSUME NEW n \in ToSet(o) PROVE ix[n] # None
      <3>1. PICK m \in 1 .. c : n = o[m]
        BY <1>16, Zenon DEF ToSet
      <3> QED
        BY <1>13, <1>15, <3>1
    <2>2. ASSUME NEW n \in Names, ix[n] # None PROVE n \in ToSet(o)
      <3>1. PICK s \in U : KeyAt(f, s) = n
        BY <1>12, <2>2
      <3>2. PICK m \in 1 .. c : a[m] = s
        BY <1>9
      <3>3. m \in DOMAIN o /\ o[m] = n
        BY <1>15, <1>16, <3>1, <3>2
      <3> QED
        BY <3>3, Zenon DEF ToSet
    <2> QED
      BY <2>1, <2>2
  <1>18. (\A s, r \in U : KeyAt(f, s) = KeyAt(f, r) => s = r) => IsInjective(o)
    BY <1>9, <1>15, <1>16 DEF IsInjective
  <1>19. ScanFree(f) \in Seq(Slots) /\ IsInjective(ScanFree(f)) /\ ToSet(ScanFree(f)) = F
    <2> DEFINE b == Ascending(F)
               d == Cardinality(F)
    <2>1. b = ScanFree(f)
      BY DEF ScanFree
    <2>2. F \in SUBSET Slots
      OBVIOUS
    <2> HIDE DEF F, b, d
    <2>3. /\ d \in Nat /\ b \in [1 .. d -> F] /\ IsInjective(b)
          /\ \A s \in F : \E n \in 1 .. d : b[n] = s
      BY <1>8, AscendingEnumerates DEF b, d
    <2>4. b \in UNION {[1 .. n -> Slots] : n \in Nat}
      <3>1. b \in [1 .. d -> Slots]
        BY <2>2, <2>3
      <3> QED
        BY <2>3, <3>1, Zenon
    <2>5. b \in Seq(Slots)
      BY <2>4, SeqDef, Zenon
    <2>6. ToSet(b) = F
      BY <2>3 DEF ToSet
    <2> QED
      BY <2>1, <2>3, <2>5, <2>6
  <1> QED
    BY <1>1, <1>4, <1>5, <1>7, <1>14, <1>16, <1>17, <1>18, <1>19 DEF o, ix, F

\* A new file.
LEMMA InitIInv == Init => IInv
  <1> SUFFICES ASSUME Init PROVE IInv
    OBVIOUS
  <1>1. file \in [Slots -> Record] /\ \A s \in Slots : ~file[s].used
    <2> DEFINE blank == [used |-> FALSE, key |-> 0, value |-> None]
    <2>1. \A s \in Slots : 0 \in Names
      BY SlotAssumption DEF Slots, Names
    <2>2. \A s \in Slots : blank \in Record /\ ~blank.used
      BY <2>1 DEF Record
    <2>3. file = [s \in Slots |-> blank]
      BY DEF Init
    <2> HIDE DEF blank
    <2> QED
      BY <2>2, <2>3
  <1>2. \A s \in Slots : KeyAt(file, s) = None
    BY <1>1 DEF KeyAt
  <1>3. /\ index \in [Names -> Slots \cup {None}] /\ \A n \in Names : index[n] = None
        /\ order \in Seq(Names) /\ IsInjective(order) /\ \A n \in Names : n \notin ToSet(order)
        /\ free \in Seq(Slots) /\ IsInjective(free) /\ ToSet(free) = Slots
    <2>1. index = ScanIndex(file) /\ order = ScanOrder(file) /\ free = ScanFree(file)
      BY DEF Init
    <2>2. /\ index \in [Names -> Slots \cup {None}] /\ order \in Seq(Names) /\ free \in Seq(Slots)
          /\ \A n \in Names : index[n] # None => KeyAt(file, index[n]) = n
          /\ \A n \in Names : n \in ToSet(order) <=> index[n] # None
          /\ IsInjective(order) /\ IsInjective(free)
          /\ ToSet(free) = {s \in Slots : KeyAt(file, s) = None}
      BY <1>1, <1>2, <2>1, ScanFacts
    <2>3. ASSUME NEW n \in Names PROVE index[n] = None
      <3>1. index[n] \in Slots \/ index[n] = None
        BY <2>2
      <3>2. index[n] \in Slots => KeyAt(file, index[n]) = None
        BY <1>2
      <3>3. n # None
        BY SlotFacts
      <3> QED
        BY <2>2, <3>1, <3>2, <3>3
    <2> QED
      BY <1>2, <2>2, <2>3
  <1>4. put = NoPut /\ view = None /\ kept = [k \in Keys |-> None] /\ doubt = {} /\ torn = FALSE
    BY DEF Init
  <1>5. ~Busy
    BY <1>4 DEF Busy, NoPut
  <1>6. TypeOK
    BY <1>1, <1>3, <1>4 DEF TypeOK, NoPut
  <1>7. \A n \in ToSet(order) : n \in Names
    BY <1>3 DEF ToSet
  <1>8. InsertSound /\ IndexHome /\ IndexListed /\ FreeOnce /\ Untorn
    BY <1>1, <1>3, <1>5, <1>7 DEF InsertSound, IndexHome, IndexListed, FreeOnce, Untorn
  <1>9. OneRecord /\ KeptServed
    BY <1>2, <1>3, <1>4, SlotFacts DEF OneRecord, KeptServed
  <1> QED
    BY <1>6, <1>8, <1>9 DEF IInv

\* Different keys are indexed in different slots.
LEMMA IndexInjective ==
    ASSUME IInv, NEW m \in Names, NEW n \in Names, index[m] # None, index[m] = index[n]
    PROVE  m = n
  <1>1. CASE Elsewhere(index[m])
    BY <1>1 DEF IInv, IndexHome
  <1>2. CASE ~Elsewhere(index[m])
    BY <1>2 DEF IInv, InsertSound, Elsewhere
  <1> QED
    BY <1>1, <1>2

\* The process ends, and the file is scanned.
LEMMA ReopenStep == ASSUME IInv, Reopen PROVE IInv'
  <1>1. /\ TypeOK /\ file \in [Slots -> Record] /\ file' = file /\ put' = NoPut /\ view' = None
        /\ index' = ScanIndex(file) /\ order' = ScanOrder(file) /\ free' = ScanFree(file)
        /\ torn' = (torn \/ Writing)
        /\ doubt' = doubt \cup
               IF Writing THEN {put.key, put.victim, KeyAt(file, put.slot)} \cap Keys ELSE {}
        /\ kept' = IF put.step = "index" THEN [kept EXCEPT ![put.key] = <<put.key, put.value>>]
                   ELSE kept
    BY DEF IInv, Reopen, TypeOK
  <1>2. ~Busy' /\ \A s \in Slots : Elsewhere(s)' /\ KeyAt(file, s)' = KeyAt(file, s)
    BY <1>1 DEF Busy, Elsewhere, NoPut, KeyAt
  <1>3. Busy <=> Writing \/ put.step = "index"
    BY <1>1 DEF Busy, Writing, TypeOK
  <1>4. ~(Writing /\ put.step = "index")
    BY DEF Writing
  <1>5. put.step = "index" =>
            /\ put.slot \in Slots /\ put.key \in Keys /\ put.value \in Values
            /\ KeyAt(file, put.slot) = put.key /\ file[put.slot].value = <<put.key, put.value>>
    BY <1>3 DEF IInv, InsertSound, KeyAt
  <1>6. /\ \A s \in Slots : KeyAt(file, s) \in Names \cup {None}
        /\ index' \in [Names -> Slots \cup {None}]
        /\ \A n \in Names : index'[n] # None => KeyAt(file, index'[n]) = n
        /\ \A s \in Slots : KeyAt(file, s) # None => index'[KeyAt(file, s)] # None
        /\ order' \in Seq(Names)
        /\ \A n \in Names : n \in ToSet(order') <=> index'[n] # None
        /\ (\A s, r \in Slots : KeyAt(file, s) = KeyAt(file, r) /\ KeyAt(file, s) # None => s = r)
              => IsInjective(order')
        /\ free' \in Seq(Slots) /\ IsInjective(free')
        /\ ToSet(free') = {s \in Slots : KeyAt(file, s) = None}
    BY <1>1, ScanFacts
  <1>7. TypeOK'
    <2>1. kept' \in [Keys -> (Keys \X Values) \cup {None}]
      BY <1>1, <1>5 DEF TypeOK
    <2>2. torn' \in BOOLEAN /\ doubt' \subseteq Keys
      BY <1>1 DEF TypeOK
    <2>3. put' \in [step : {"none", "used", "lengths", "key", "value", "index"}, slot : Slots \cup {0},
                    key : Keys \cup {None}, value : Values \cup {None}, victim : Names \cup {None}]
      BY <1>1 DEF NoPut
    <2> QED
      BY <1>1, <1>6, <2>1, <2>2, <2>3 DEF TypeOK
  <1>8. InsertSound' /\ FreeOnce'
    BY <1>2, <1>6 DEF InsertSound, FreeOnce
  <1>9. IndexHome' /\ IndexListed'
    BY <1>1, <1>2, <1>6, SlotFacts DEF IndexHome, IndexListed, KeyAt
  <1>10. ASSUME NEW k \in Keys \ doubt', NEW s \in Slots, KeyAt(file, s) = k
         PROVE  index[k] = s \/ (put.step = "index" /\ k = put.key /\ s = put.slot)
    <2>1. CASE Elsewhere(s)
      BY <1>1, <1>10, <2>1 DEF IInv, OneRecord
    <2>2. CASE ~Elsewhere(s) /\ Writing
      <3>1. s = put.slot /\ k \in doubt'
        BY <1>1, <1>10, <2>2 DEF Elsewhere
      <3> QED
        BY <3>1
    <2>3. CASE ~Elsewhere(s) /\ put.step = "index"
      BY <1>5, <1>10, <2>3 DEF Elsewhere
    <2> QED
      BY <1>3, <2>1, <2>2, <2>3 DEF Elsewhere
  <1>11. ASSUME NEW k \in Keys \ doubt', NEW s \in Slots, KeyAt(file, s) = k,
                put.step = "index", k = put.key
         PROVE  s = put.slot
    <2>1. CASE index[k] = s
      BY <1>3, <1>11, <2>1, SlotFacts DEF IInv, InsertSound
    <2> QED
      BY <1>10, <1>11, <2>1
  <1>12. ASSUME NEW k \in Keys \ doubt', NEW s \in Slots, KeyAt(file, s) = k
         PROVE  index'[k] = s
    <2>1. k \in Names /\ index'[k] # None /\ index'[k] \in Slots /\ KeyAt(file, index'[k]) = k
      BY <1>6, <1>12, SlotFacts
    <2>2. CASE put.step = "index" /\ k = put.key
      BY <1>11, <1>12, <2>1, <2>2
    <2>3. CASE ~(put.step = "index" /\ k = put.key)
      BY <1>10, <1>12, <2>1, <2>3
    <2> QED
      BY <2>2, <2>3
  <1>13. OneRecord'
    BY <1>2, <1>12 DEF OneRecord
  <1>14. KeptServed'
    <2> SUFFICES ASSUME NEW k \in Keys \ doubt'
                 PROVE  /\ kept'[k] # None => index'[k] # None /\ file[index'[k]].value = kept'[k]
                        /\ kept'[k] = None /\ ~torn' => index'[k] = None
      BY <1>1, <1>2 DEF KeptServed
    <2>1. k \in Keys \ doubt /\ k \in Names
      BY <1>1, SlotFacts
    <2>2. CASE put.step = "index" /\ k = put.key
      <3>1. kept'[k] = <<put.key, put.value>> /\ kept'[k] # None
        BY <1>1, <1>5, <2>2, SlotAssumption DEF TypeOK
      <3>2. index'[k] = put.slot
        BY <1>5, <1>12, <2>2
      <3> QED
        BY <1>5, <3>1, <3>2, <2>2, SlotFacts
    <2>3. CASE ~(put.step = "index" /\ k = put.key)
      <3>1. kept'[k] = kept[k] /\ (Busy => k # put.key)
        BY <1>1, <1>3, <2>3 DEF TypeOK
      <3>2. CASE kept[k] # None
        <4>1. index[k] \in Slots /\ file[index[k]].value = kept[k] /\ index[k] # None
          BY <1>1, <2>1, <3>1, <3>2 DEF IInv, KeptServed, TypeOK
        <4>2. KeyAt(file, index[k]) = k
          BY <2>1, <3>1, <4>1 DEF IInv, IndexHome, InsertSound, Elsewhere
        <4> QED
          BY <1>12, <3>1, <3>2, <4>1, <4>2
      <3>3. CASE kept[k] = None /\ ~torn'
        <4>1. ~torn /\ index[k] = None
          BY <1>1, <2>1, <3>1, <3>3 DEF IInv, KeptServed
        <4>2. \A s \in Slots : KeyAt(file, s) # k
          BY <1>10, <2>3, <4>1, SlotFacts
        <4>3. index'[k] # None => index'[k] \in Slots /\ KeyAt(file, index'[k]) = k
          BY <1>6, <2>1
        <4> QED
          BY <3>1, <3>3, <4>2, <4>3
      <3> QED
        BY <3>1, <3>2, <3>3
    <2> QED
      BY <2>2, <2>3
  <1>15. Untorn'
    <2> SUFFICES ASSUME ~torn' PROVE
                    /\ IsInjective(order')
                    /\ \A n \in ToSet(order') : index'[n] # None
                    /\ \A s \in Slots :
                          /\ s \in ToSet(free') \/ \E n \in Names : index'[n] = s
                          /\ file[s].used => \E n \in Names : index'[n] = s
      BY <1>1, <1>2 DEF Untorn
    <2>1. ~torn /\ ~Writing
      BY <1>1
    <2>2. ASSUME NEW s \in Slots, file[s].used
          PROVE  /\ KeyAt(file, s) \in Names
                 /\ index[KeyAt(file, s)] = s
                       \/ (put.step = "index" /\ KeyAt(file, s) = put.key /\ s = put.slot)
      <3>1. CASE Elsewhere(s)
        <4>1. PICK n \in Names : index[n] = s
          BY <2>1, <2>2, <3>1 DEF IInv, Untorn
        <4>2. KeyAt(file, s) = n
          BY <3>1, <4>1, SlotFacts DEF IInv, IndexHome
        <4> QED
          BY <4>1, <4>2
      <3>2. CASE ~Elsewhere(s)
        BY <1>3, <1>5, <2>1, <3>2, SlotFacts DEF Elsewhere
      <3> QED
        BY <3>1, <3>2
    <2>3. \A s \in Slots : KeyAt(file, s) # None => file[s].used
      BY DEF KeyAt
    <2>4. ASSUME NEW s \in Slots, NEW r \in Slots, KeyAt(file, s) = KeyAt(file, r),
                 KeyAt(file, s) # None
          PROVE  s = r
      <3>1. put.step = "index" => index[put.key] \in {None, put.slot}
        BY <1>3 DEF IInv, InsertSound
      <3> QED
        BY <2>2, <2>3, <2>4, <3>1, SlotFacts
    <2>5. IsInjective(order')
      BY <1>6, <2>4
    <2>6. \A n \in ToSet(order') : n \in Names
      BY <1>6 DEF ToSet
    <2>7. ASSUME NEW s \in Slots, KeyAt(file, s) # None PROVE \E n \in Names : index'[n] = s
      <3>1. KeyAt(file, s) \in Names /\ index'[KeyAt(file, s)] # None
        BY <1>6, <2>7
      <3>2. index'[KeyAt(file, s)] \in Slots
            /\ KeyAt(file, index'[KeyAt(file, s)]) = KeyAt(file, s)
        BY <1>6, <3>1
      <3>3. index'[KeyAt(file, s)] = s
        BY <2>4, <2>7, <3>2
      <3> QED
        BY <3>1, <3>3
    <2>8. \A s \in Slots : file[s].used => KeyAt(file, s) # None
      BY <2>2, SlotFacts
    <2> QED
      BY <1>6, <2>5, <2>6, <2>7, <2>8
  <1> QED
    BY <1>7, <1>8, <1>9, <1>13, <1>14, <1>15 DEF IInv

(***************************************************************************)
(* A store into the slot of the insert.                                    *)
(***************************************************************************)
LEMMA StoreStep ==
    ASSUME IInv, Busy,
           NEW step \in {"lengths", "key", "value", "index"}, NEW rec \in Record, rec.used,
           step \in {"value", "index"} => rec.key = put.key,
           step = "index" => rec.value = <<put.key, put.value>>,
           put' = [put EXCEPT !.step = step],
           file' = [file EXCEPT ![put.slot] = rec],
           UNCHANGED <<index, order, free, view, kept, doubt, torn>>
    PROVE  IInv'
  <1>1. TypeOK /\ put.slot \in Slots /\ put.key \in Keys /\ put.key \in Names /\ file' \in [Slots -> Record]
    BY SlotFacts DEF IInv, InsertSound, TypeOK
  <1>2. /\ put'.step = step /\ put'.slot = put.slot /\ put'.key = put.key /\ put'.value = put.value
        /\ Busy' /\ put' \in [step : {"none", "used", "lengths", "key", "value", "index"},
                              slot : Slots \cup {0}, key : Keys \cup {None},
                              value : Values \cup {None}, victim : Names \cup {None}]
    BY <1>1 DEF Busy, TypeOK
  <1>3. \A s \in Slots : s # put.slot => file'[s] = file[s] /\ KeyAt(file', s) = KeyAt(file, s)
    BY <1>1 DEF KeyAt, TypeOK
  <1>4. file'[put.slot] = rec
    BY <1>1 DEF TypeOK
  <1>5. \A s : Elsewhere(s)' <=> s # put.slot
    BY <1>2 DEF Elsewhere
  <1>6. \A s : Elsewhere(s) <=> s # put.slot
    BY DEF Elsewhere
  <1>7. index \in [Names -> Slots \cup {None}]
    BY <1>1 DEF TypeOK
  <1>8. TypeOK'
    BY <1>1, <1>2 DEF TypeOK
  <1>9. InsertSound'
    BY <1>1, <1>2, <1>4 DEF IInv, InsertSound
  <1>10. IndexHome'
    BY <1>3, <1>5, <1>6, <1>7 DEF IInv, IndexHome
  <1>11. IndexListed' /\ FreeOnce'
    BY DEF IInv, IndexListed, FreeOnce
  <1>12. Untorn'
    BY <1>3, <1>5, <1>6 DEF IInv, Untorn
  <1>13. OneRecord'
    BY <1>3, <1>5, <1>6 DEF IInv, OneRecord
  <1>14. KeptServed'
    <2> SUFFICES ASSUME NEW k \in Keys \ doubt, k # put.key
                 PROVE  /\ kept[k] # None => index[k] # None /\ file'[index[k]].value = kept[k]
                        /\ kept[k] = None /\ ~torn => index[k] = None
      BY <1>2 DEF KeptServed
    <2>1. index[k] # put.slot
      BY <1>1, SlotFacts DEF IInv, InsertSound
    <2> QED
      BY <1>3, <1>7, <2>1, SlotFacts DEF IInv, KeptServed
  <1> QED
    BY <1>8, <1>9, <1>10, <1>11, <1>12, <1>13, <1>14 DEF IInv

\* The four stores of write_slot.
LEMMA WriteSteps ==
    ASSUME IInv, WriteUsed \/ WriteLengths \/ WriteKey \/ WriteValue
    PROVE  IInv'
  <1>1. Busy /\ TypeOK
    BY DEF IInv, WriteUsed, WriteLengths, WriteKey, WriteValue, Busy
  <1>2. put.slot \in Slots /\ put.key \in Keys /\ put.value \in Values
    BY <1>1 DEF IInv, InsertSound
  <1> DEFINE old == file[put.slot]
  <1>3. /\ old \in Record /\ file \in [Slots -> Record]
        /\ put.step # "used" => old.used
        /\ put.step \in {"value", "index"} => old.key = put.key
    BY <1>1, <1>2 DEF IInv, InsertSound, TypeOK
  <1>4. CASE WriteUsed
    <2> DEFINE rec == [old EXCEPT !.used = TRUE]
    <2>1. rec \in Record /\ rec.used
      BY <1>3 DEF Record
    <2>2. file' = [file EXCEPT ![put.slot] = rec] /\ put' = [put EXCEPT !.step = "lengths"]
      BY <1>4 DEF WriteUsed
    <2> HIDE DEF rec
    <2> QED
      BY <1>1, <1>4, <2>1, <2>2, StoreStep DEF WriteUsed
  <1>5. CASE WriteLengths
    <2>1. PICK n \in {file[put.slot].key} \cup
                       IF file[put.slot].key = put.key THEN {} ELSE Slots \cup {None},
               v \in {file[put.slot].value, Torn} :
               file' = [file EXCEPT ![put.slot].key = n, ![put.slot].value = v]
      BY <1>5 DEF WriteLengths
    <2> DEFINE rec == [old EXCEPT !.key = n, !.value = v]
    <2>2. n \in Names \cup {None} /\ v \in (Keys \X Values) \cup {None, Torn}
      BY <1>3, SlotFacts DEF Record
    <2>3. rec \in Record /\ rec.used
      BY <1>3, <1>5, <2>2 DEF Record, WriteLengths
    <2>4. file' = [file EXCEPT ![put.slot] = rec] /\ put' = [put EXCEPT !.step = "key"]
      BY <1>2, <1>3, <1>5, <2>1 DEF WriteLengths
    <2> HIDE DEF rec
    <2> QED
      BY <1>1, <1>5, <2>3, <2>4, StoreStep DEF WriteLengths
  <1>6. CASE WriteKey
    <2> DEFINE rec == [old EXCEPT !.key = put.key]
    <2>1. rec \in Record /\ rec.used /\ rec.key = put.key
      BY <1>2, <1>3, <1>6, SlotFacts DEF Record, WriteKey
    <2>2. file' = [file EXCEPT ![put.slot] = rec] /\ put' = [put EXCEPT !.step = "value"]
      BY <1>6 DEF WriteKey
    <2> HIDE DEF rec
    <2> QED
      BY <1>1, <1>6, <2>1, <2>2, StoreStep DEF WriteKey
  <1>7. CASE WriteValue
    <2> DEFINE rec == [old EXCEPT !.value = <<put.key, put.value>>]
    <2>1. rec \in Record /\ rec.used /\ rec.key = put.key /\ rec.value = <<put.key, put.value>>
      BY <1>2, <1>3, <1>7 DEF Record, WriteValue
    <2>2. file' = [file EXCEPT ![put.slot] = rec] /\ put' = [put EXCEPT !.step = "index"]
      BY <1>7 DEF WriteValue
    <2> HIDE DEF rec
    <2> QED
      BY <1>1, <1>7, <2>1, <2>2, StoreStep DEF WriteValue
  <1> QED
    BY <1>4, <1>5, <1>6, <1>7

\* Views come and go.
LEMMA ViewSteps ==
    ASSUME IInv, DropRef \/ \E k \in Keys : GetRef(k)
    PROVE  IInv'
  <1>1. TypeOK' /\ UNCHANGED <<file, index, order, free, put, kept, doubt, torn>>
    BY SlotFacts DEF IInv, TypeOK, DropRef, GetRef
  <1>2. UNCHANGED <<Busy, Writing>> /\ \A s : Elsewhere(s)' <=> Elsewhere(s)
    BY <1>1 DEF Busy, Writing, Elsewhere
  <1>3. InsertSound'
    BY <1>1, <1>2 DEF IInv, InsertSound, DropRef, GetRef, Unlocked, Busy
  <1>4. IndexHome' /\ IndexListed' /\ FreeOnce' /\ Untorn' /\ OneRecord' /\ KeptServed'
    BY <1>1, <1>2 DEF IInv, IndexHome, IndexListed, FreeOnce, Untorn, OneRecord, KeptServed, KeyAt
  <1> QED
    BY <1>1, <1>3, <1>4 DEF IInv

(***************************************************************************)
(* An insert begins: nothing of the file changes, and one slot is set      *)
(* aside.                                                                  *)
(***************************************************************************)
LEMMA BeginFacts ==
    ASSUME IInv, Unlocked, NEW k \in Keys, NEW v \in Values, NEW s \in Slots,
           NEW victim \in Names \cup {None}, Begin(k, v, s, victim)
    PROVE  /\ put'.step = "used" /\ put'.slot = s /\ put'.key = k /\ put'.value = v
           /\ put' \in [step : {"none", "used", "lengths", "key", "value", "index"},
                        slot : Slots \cup {0}, key : Keys \cup {None},
                        value : Values \cup {None}, victim : Names \cup {None}]
           /\ ~Busy /\ Busy' /\ view = None
           /\ \A r : Elsewhere(r) /\ (Elsewhere(r)' <=> r # s)
  BY DEF Begin, Unlocked, Busy, Elsewhere

LEMMA PutReplaceStep ==
    ASSUME IInv, NEW k \in Keys, NEW v \in Values, PutReplace(k, v)
    PROVE  IInv'
  <1> DEFINE s == index[k]
  <1>1. /\ Unlocked /\ s # None /\ Begin(k, v, s, None) /\ TypeOK
        /\ UNCHANGED <<file, index, order, free, view, kept, doubt, torn>>
    BY DEF PutReplace, IInv
  <1>2. s \in Slots /\ k \in Names
    BY <1>1, SlotFacts DEF TypeOK
  <1>3. \A n \in Names : index[n] = s => n = k
    BY <1>1, <1>2, IndexInjective
  <1>4. s \notin ToSet(free)
    BY <1>1, <1>2 DEF IInv, IndexListed
  <1> HIDE DEF s
  <1>5. /\ put'.step = "used" /\ put'.slot = s /\ put'.key = k /\ put'.value = v
        /\ put' \in [step : {"none", "used", "lengths", "key", "value", "index"},
                     slot : Slots \cup {0}, key : Keys \cup {None},
                     value : Values \cup {None}, victim : Names \cup {None}]
        /\ ~Busy /\ Busy' /\ view = None
        /\ \A r : Elsewhere(r) /\ (Elsewhere(r)' <=> r # s)
    BY <1>1, <1>2, BeginFacts
  <1>6. TypeOK'
    BY <1>1, <1>5 DEF TypeOK
  <1>7. InsertSound'
    BY <1>1, <1>2, <1>3, <1>4, <1>5 DEF InsertSound, s
  <1>8. IndexHome' /\ IndexListed' /\ FreeOnce'
    BY <1>1, <1>5 DEF IInv, IndexHome, IndexListed, FreeOnce, KeyAt
  <1>9. Untorn'
    BY <1>1, <1>5 DEF IInv, Untorn
  <1>10. OneRecord' /\ KeptServed'
    BY <1>1, <1>5 DEF IInv, OneRecord, KeptServed, KeyAt
  <1> QED
    BY <1>6, <1>7, <1>8, <1>9, <1>10 DEF IInv

LEMMA PutFreeStep ==
    ASSUME IInv, NEW k \in Keys, NEW v \in Values, PutFree(k, v)
    PROVE  IInv'
  <1> DEFINE s == Last(free)
  <1>1. /\ Unlocked /\ index[k] = None /\ Begin(k, v, s, None) /\ TypeOK /\ free # <<>>
        /\ free' = Front(free) /\ IsInjective(free) /\ free \in Seq(Slots)
        /\ UNCHANGED <<file, index, order, view, kept, doubt, torn>>
    BY DEF PutFree, IInv, FreeOnce, TypeOK
  <1>2. /\ free' \in Seq(Slots) /\ IsInjective(free') /\ s \in Slots /\ s \in ToSet(free)
        /\ ToSet(free') = ToSet(free) \ {s}
    BY <1>1, FrontElements
  <1>3. \A n \in Names : index[n] # s
    BY <1>2, SlotFacts DEF IInv, IndexListed
  <1> HIDE DEF s
  <1>5. /\ put'.step = "used" /\ put'.slot = s /\ put'.key = k /\ put'.value = v
        /\ put' \in [step : {"none", "used", "lengths", "key", "value", "index"},
                     slot : Slots \cup {0}, key : Keys \cup {None},
                     value : Values \cup {None}, victim : Names \cup {None}]
        /\ ~Busy /\ Busy' /\ view = None
        /\ \A r : Elsewhere(r) /\ (Elsewhere(r)' <=> r # s)
    BY <1>1, <1>2, BeginFacts
  <1>6. TypeOK'
    BY <1>1, <1>2, <1>5 DEF TypeOK
  <1>7. InsertSound'
    BY <1>1, <1>2, <1>3, <1>5 DEF InsertSound
  <1>8. IndexHome' /\ IndexListed' /\ FreeOnce'
    BY <1>1, <1>2, <1>5 DEF IInv, IndexHome, IndexListed, FreeOnce, KeyAt
  <1>9. Untorn'
    BY <1>1, <1>2, <1>5 DEF IInv, Untorn
  <1>10. OneRecord' /\ KeptServed'
    BY <1>1, <1>5 DEF IInv, OneRecord, KeptServed, KeyAt
  <1> QED
    BY <1>6, <1>7, <1>8, <1>9, <1>10 DEF IInv

\* Before a crash has cut an insert short the oldest entry is always indexed.
LEMMA PutEvictStep ==
    ASSUME IInv, NEW k \in Keys, NEW v \in Values, PutEvict(k, v)
    PROVE  IInv'
  <1> DEFINE oldest == Head(order)
             s == index[oldest]
  <1>1. /\ Unlocked /\ index[k] = None /\ TypeOK /\ order # <<>> /\ order \in Seq(Names)
        /\ order' = Tail(order) /\ UNCHANGED <<file, free, view, doubt, torn>>
        /\ index \in [Names -> Slots \cup {None}]
    BY DEF PutEvict, IInv, TypeOK
  <1>2. /\ oldest \in Names /\ order' \in Seq(Names)
        /\ \A n \in ToSet(order') : n \in ToSet(order)
        /\ \A n \in ToSet(order) : n = oldest \/ n \in ToSet(order')
        /\ IsInjective(order) => IsInjective(order') /\ oldest \notin ToSet(order')
    BY <1>1, TailElements
  <1>3. CASE s = None
    <2>1. UNCHANGED <<index, put, kept>>
      BY <1>3 DEF PutEvict
    <2>2. oldest \in ToSet(order)
      <3>1. 1 \in DOMAIN order /\ oldest = order[1]
        BY <1>1
      <3> QED
        BY <3>1, Zenon DEF ToSet
    <2>3. torn
      BY <1>3, <2>2 DEF IInv, Untorn
    <2>4. UNCHANGED Busy /\ \A r : Elsewhere(r)' <=> Elsewhere(r)
      BY <2>1 DEF Busy, Elsewhere
    <2>5. TypeOK'
      BY <1>1, <1>2, <2>1 DEF TypeOK
    <2>6. InsertSound' /\ IndexHome' /\ FreeOnce' /\ OneRecord' /\ KeptServed'
      BY <1>1, <2>1, <2>4 DEF IInv, InsertSound, IndexHome, FreeOnce, OneRecord, KeptServed, KeyAt
    <2>7. IndexListed'
      BY <1>1, <1>2, <1>3, <2>1 DEF IInv, IndexListed
    <2>8. Untorn'
      BY <1>1, <2>3 DEF Untorn
    <2> QED
      BY <2>5, <2>6, <2>7, <2>8 DEF IInv
  <1>4. CASE s # None
    <2>1. index' = [index EXCEPT ![oldest] = None] /\ Begin(k, v, s, oldest) /\ Displace(oldest)
      BY <1>4 DEF PutEvict
    <2>2. s \in Slots
      BY <1>1, <1>2, <1>4
    <2>3. \A n \in Names : index[n] = s => n = oldest
      BY <1>2, <1>4, IndexInjective
    <2>4. s \notin ToSet(free)
      BY <1>2, <1>4 DEF IInv, IndexListed
    <2>5. /\ index' \in [Names -> Slots \cup {None}] /\ index'[oldest] = None
          /\ \A n \in Names : n # oldest => index'[n] = index[n] /\ index[n] # s
      BY <1>1, <1>2, <2>1, <2>3
    <2>6. /\ kept' \in [Keys -> (Keys \X Values) \cup {None}]
          /\ \A j \in Keys : kept'[j] = IF j = oldest THEN None ELSE kept[j]
      BY <1>1, <2>1 DEF Displace, TypeOK
    <2> HIDE DEF s, oldest
    <2>7. /\ put'.step = "used" /\ put'.slot = s /\ put'.key = k /\ put'.value = v
          /\ put' \in [step : {"none", "used", "lengths", "key", "value", "index"},
                       slot : Slots \cup {0}, key : Keys \cup {None},
                       value : Values \cup {None}, victim : Names \cup {None}]
          /\ ~Busy /\ Busy' /\ view = None
          /\ \A r : Elsewhere(r) /\ (Elsewhere(r)' <=> r # s)
      BY <1>1, <1>2, <2>1, <2>2, BeginFacts
    <2>8. TypeOK'
      BY <1>1, <1>2, <2>5, <2>6, <2>7 DEF TypeOK
    <2>9. k \in Names /\ index'[k] = None
      BY <1>1, <2>5, SlotFacts
    <2>10. InsertSound'
      BY <1>1, <2>2, <2>4, <2>5, <2>7, <2>9, SlotFacts DEF InsertSound
    <2>11. IndexHome' /\ IndexListed' /\ FreeOnce'
      BY <1>1, <1>2, <2>5, <2>7 DEF IInv, IndexHome, IndexListed, FreeOnce, KeyAt
    <2>12. Untorn'
      <3> SUFFICES ASSUME ~torn PROVE
                     /\ IsInjective(order')
                     /\ \A n \in ToSet(order') : index'[n] # None
                     /\ \A r \in Slots : r # s =>
                           /\ r \in ToSet(free) \/ \E n \in Names : index'[n] = r
                           /\ file[r].used => \E n \in Names : index'[n] = r
        BY <1>1, <2>7 DEF Untorn
      <3>1. /\ IsInjective(order)
            /\ \A n \in ToSet(order) : index[n] # None
            /\ \A r \in Slots :
                  /\ r \in ToSet(free) \/ \E n \in Names : index[n] = r
                  /\ file[r].used => \E n \in Names : index[n] = r
        BY <2>7 DEF IInv, Untorn
      <3>2. \A n \in ToSet(order') : n \in Names /\ n # oldest
        <4>1. \A n \in ToSet(order') : n \in Names
          BY <1>2 DEF ToSet
        <4> QED
          BY <1>2, <3>1, <4>1
      <3>3. \A r \in Slots : r # s /\ (\E n \in Names : index[n] = r) => \E n \in Names : index'[n] = r
        BY <2>5 DEF s
      <3> QED
        BY <1>2, <2>5, <3>1, <3>2, <3>3
    <2>13. OneRecord'
      <3>1. \A j \in Keys \ doubt : index[j] # s => index'[j] = index[j]
        BY <2>5, SlotFacts DEF s
      <3> QED
        BY <1>1, <2>7, <3>1 DEF IInv, OneRecord, KeyAt
    <2>14. KeptServed'
      BY <1>1, <2>5, <2>6, <2>7, SlotFacts DEF IInv, KeptServed
    <2> QED
      BY <2>8, <2>10, <2>11, <2>12, <2>13, <2>14 DEF IInv
  <1> QED
    BY <1>3, <1>4

\* The index learns of the record that write_slot has written.
LEMMA IndexStep == ASSUME IInv, Index PROVE IInv'
  <1> DEFINE k == put.key
             s == put.slot
  <1>1. /\ Busy /\ TypeOK /\ put.step = "index"
        /\ index' = [index EXCEPT ![k] = s]
        /\ order' = IF index[k] = None THEN Append(order, k) ELSE order
        /\ put' = NoPut /\ kept' = [kept EXCEPT ![k] = <<k, put.value>>]
        /\ doubt' = IF Settled(k) THEN doubt \ {k} ELSE doubt
        /\ UNCHANGED <<file, free, view, torn>>
    BY DEF IInv, Index, Busy
  <1>2. /\ s \in Slots /\ k \in Keys /\ k \in Names /\ put.value \in Values
        /\ s \notin ToSet(free) /\ index[k] \in {None, s}
        /\ \A n \in Names : index[n] = s => n = k
        /\ KeyAt(file, s) = k /\ file[s].value = <<k, put.value>>
    BY <1>1, SlotFacts DEF IInv, InsertSound, KeyAt
  <1>3. ~Busy' /\ (\A r : Elsewhere(r)') /\ \A r : Elsewhere(r) <=> r # s
    BY <1>1 DEF Busy, NoPut, Elsewhere
  <1>4. \A j \in Keys \ doubt' : j # k => j \in Keys \ doubt
    BY <1>1
  <1>5. ASSUME k \notin doubt', NEW r \in Slots, KeyAt(file, r) = k PROVE r = s
    <2>1. CASE k \in doubt
      BY <1>1, <1>5, <2>1 DEF Settled
    <2>2. CASE k \notin doubt /\ r # s
      BY <1>2, <1>3, <1>5, <2>2, SlotFacts DEF IInv, OneRecord
    <2> QED
      BY <2>1, <2>2
  <1>6. put' \in [step : {"none", "used", "lengths", "key", "value", "index"}, slot : Slots \cup {0},
                  key : Keys \cup {None}, value : Values \cup {None}, victim : Names \cup {None}]
    BY <1>1 DEF NoPut
  <1>7. UNCHANGED file /\ UNCHANGED free /\ UNCHANGED view /\ UNCHANGED torn
    BY <1>1
  <1>8. /\ index' \in [Names -> Slots \cup {None}] /\ index'[k] = s
        /\ \A n \in Names : n # k => index'[n] = index[n] /\ index[n] # s
        /\ kept' \in [Keys -> (Keys \X Values) \cup {None}] /\ kept'[k] = <<k, put.value>>
        /\ kept'[k] # None
        /\ \A j \in Keys : j # k => kept'[j] = kept[j]
    BY <1>1, <1>2, SlotAssumption DEF TypeOK
  <1>9. order \in Seq(Names)
    BY <1>1 DEF TypeOK
  <1>10. /\ order' \in Seq(Names) /\ k \in ToSet(order')
         /\ \A n \in ToSet(order) : n \in ToSet(order')
         /\ \A n \in ToSet(order') : n \in ToSet(order) \/ n = k
         /\ ~torn /\ IsInjective(order) => IsInjective(order')
    <2>1. CASE index[k] = None
      <3>1. /\ Append(order, k) \in Seq(Names) /\ ToSet(Append(order, k)) = ToSet(order) \cup {k}
            /\ IsInjective(order) /\ k \notin ToSet(order) => IsInjective(Append(order, k))
        BY <1>2, <1>9, AppendElements
      <3>2. ~torn => k \notin ToSet(order)
        BY <2>1 DEF IInv, Untorn
      <3>3. order' = Append(order, k)
        BY <1>1, <2>1
      <3> QED
        BY <3>1, <3>2, <3>3
    <2>2. CASE index[k] # None
      BY <1>1, <1>2, <1>9, <2>2 DEF IInv, IndexListed
    <2> QED
      BY <2>1, <2>2
  <1>11. doubt' \subseteq Keys
    BY <1>1 DEF TypeOK
  <1>12. TypeOK'
    BY <1>1, <1>6, <1>7, <1>8, <1>10, <1>11 DEF TypeOK
  <1> HIDE DEF k, s
  <1>13. InsertSound' /\ FreeOnce'
    BY <1>3, <1>7 DEF IInv, InsertSound, FreeOnce
  <1>14. IndexHome'
    BY <1>2, <1>3, <1>7, <1>8 DEF IInv, IndexHome
  <1>15. IndexListed'
    BY <1>2, <1>7, <1>8, <1>10 DEF IInv, IndexListed
  <1>16. Untorn'
    <2> SUFFICES ASSUME ~torn PROVE
                   /\ IsInjective(order')
                   /\ \A n \in ToSet(order') : index'[n] # None
                   /\ \A r \in Slots :
                         /\ r \in ToSet(free) \/ \E n \in Names : index'[n] = r
                         /\ file[r].used => \E n \in Names : index'[n] = r
      BY <1>3, <1>7 DEF Untorn
    <2>1. /\ IsInjective(order)
          /\ \A n \in ToSet(order) : index[n] # None
          /\ \A r \in Slots : r # s =>
                /\ r \in ToSet(free) \/ \E n \in Names : index[n] = r
                /\ file[r].used => \E n \in Names : index[n] = r
      BY <1>3 DEF IInv, Untorn
    <2>2. \A n \in ToSet(order) : n \in Names
      BY <1>9 DEF ToSet
    <2>3. \A r \in Slots : r # s /\ (\E n \in Names : index[n] = r) => \E n \in Names : index'[n] = r
      BY <1>2, <1>8, SlotFacts
    <2>4. \E n \in Names : index'[n] = s
      BY <1>2, <1>8
    <2>5. \A n \in ToSet(order') : index'[n] # None
      BY <1>2, <1>8, <1>10, <2>1, <2>2, SlotFacts
    <2> QED
      BY <1>10, <2>1, <2>3, <2>4, <2>5
  <1>17. OneRecord'
    <2> SUFFICES ASSUME NEW j \in Keys \ doubt', NEW r \in Slots, KeyAt(file, r) = j
                 PROVE  index'[j] = r
      BY <1>7 DEF OneRecord, KeyAt
    <2>1. CASE j = k
      BY <1>5, <1>8, <2>1
    <2>2. CASE j # k
      <3>1. r # s
        BY <1>2, <2>2
      <3> QED
        BY <1>3, <1>4, <1>8, <2>2, <3>1, SlotFacts DEF IInv, OneRecord
    <2> QED
      BY <2>1, <2>2
  <1>18. KeptServed'
    <2> SUFFICES ASSUME NEW j \in Keys \ doubt'
                 PROVE  /\ kept'[j] # None => index'[j] # None /\ file[index'[j]].value = kept'[j]
                        /\ kept'[j] = None /\ ~torn => index'[j] = None
      BY <1>7 DEF KeptServed
    <2>1. CASE j = k
      BY <1>2, <1>8, <2>1, SlotFacts
    <2>2. CASE j # k
      BY <1>4, <1>8, <2>2, SlotFacts DEF IInv, KeptServed, k
    <2> QED
      BY <2>1, <2>2
  <1> QED
    BY <1>12, <1>13, <1>14, <1>15, <1>16, <1>17, <1>18 DEF IInv

\* A removed record keeps its bytes, but shows no key.
LEMMA DeleteStep == ASSUME IInv, NEW k \in Keys, Delete(k) PROVE IInv'
  <1> DEFINE s == index[k]
             P == {n \in DOMAIN order : order[n] # k}
  <1>1. /\ Unlocked /\ TypeOK /\ s # None /\ k \in Names
        /\ index' = [index EXCEPT ![k] = None]
        /\ file' = [file EXCEPT ![s].used = FALSE]
        /\ free' = Append(free, s)
        /\ order' = Subsequence(order, P)
        /\ kept' = [kept EXCEPT ![k] = None]
        /\ UNCHANGED put /\ UNCHANGED view /\ UNCHANGED doubt /\ UNCHANGED torn
    BY SlotFacts DEF IInv, Delete
  <1>2. /\ file \in [Slots -> Record] /\ index \in [Names -> Slots \cup {None}] /\ order \in Seq(Names)
        /\ free \in Seq(Slots) /\ kept \in [Keys -> (Keys \X Values) \cup {None}] /\ s \in Slots
    BY <1>1 DEF TypeOK
  <1>3. s \notin ToSet(free) /\ IsInjective(free)
    BY <1>1 DEF IInv, IndexListed, FreeOnce
  <1>4. free' \in Seq(Slots) /\ IsInjective(free') /\ ToSet(free') = ToSet(free) \cup {s}
    BY <1>1, <1>2, <1>3, AppendElements
  <1>5. /\ order' \in Seq(Names)
        /\ \A n : n \in ToSet(order') <=> n \in ToSet(order) /\ n # k
        /\ IsInjective(order) => IsInjective(order')
    <2>1. P \in SUBSET (DOMAIN order)
      OBVIOUS
    <2>2. {order[n] : n \in P} = {x \in ToSet(order) : x # k}
      BY DEF ToSet
    <2> HIDE DEF P
    <2>3. /\ order' \in Seq(Names) /\ ToSet(order') = {order[n] : n \in P}
          /\ IsInjective(order) => IsInjective(order')
      BY <1>1, <1>2, <2>1, SubsequenceElements
    <2> QED
      BY <2>2, <2>3
  <1>6. \A n \in Names : index[n] = s => n = k
    BY <1>1, IndexInjective
  <1>7. /\ index' \in [Names -> Slots \cup {None}] /\ index'[k] = None
        /\ \A n \in Names : n # k => index'[n] = index[n] /\ index[n] # s
        /\ kept' \in [Keys -> (Keys \X Values) \cup {None}] /\ kept'[k] = None
        /\ \A j \in Keys : j # k => kept'[j] = kept[j]
    BY <1>1, <1>2, <1>6
  <1>8. file' \in [Slots -> Record] /\ ~file'[s].used /\ \A r \in Slots : r # s => file'[r] = file[r]
    <2> DEFINE rec == [file[s] EXCEPT !.used = FALSE]
    <2>1. rec \in Record /\ ~rec.used
      BY <1>2 DEF Record
    <2>2. file' = [file EXCEPT ![s] = rec]
      BY <1>1
    <2> HIDE DEF rec, s
    <2> QED
      BY <1>2, <2>1, <2>2
  <1> HIDE DEF s, P
  <1>9. /\ KeyAt(file', s) = None
        /\ \A r \in Slots : r # s => KeyAt(file', r) = KeyAt(file, r)
    BY <1>2, <1>8 DEF KeyAt
  <1>10. ~Busy /\ ~Busy' /\ \A r : Elsewhere(r) /\ Elsewhere(r)'
    BY <1>1 DEF Unlocked, Busy, Elsewhere
  <1>11. TypeOK'
    BY <1>1, <1>4, <1>5, <1>7, <1>8 DEF TypeOK
  <1>12. InsertSound' /\ FreeOnce'
    BY <1>4, <1>10 DEF InsertSound, FreeOnce
  <1>13. IndexHome'
    BY <1>2, <1>7, <1>9, <1>10 DEF IInv, IndexHome
  <1>14. IndexListed'
    BY <1>4, <1>5, <1>7 DEF IInv, IndexListed
  <1>15. Untorn'
    <2> SUFFICES ASSUME ~torn PROVE
                   /\ IsInjective(order')
                   /\ \A n \in ToSet(order') : index'[n] # None
                   /\ \A r \in Slots :
                         /\ r \in ToSet(free') \/ \E n \in Names : index'[n] = r
                         /\ file'[r].used => \E n \in Names : index'[n] = r
      BY <1>1 DEF Untorn
    <2>1. /\ IsInjective(order)
          /\ \A n \in ToSet(order) : index[n] # None
          /\ \A r \in Slots :
                /\ r \in ToSet(free) \/ \E n \in Names : index[n] = r
                /\ file[r].used => \E n \in Names : index[n] = r
      BY <1>10 DEF IInv, Untorn
    <2>2. \A n \in ToSet(order) : n \in Names
      BY <1>2 DEF ToSet
    <2>3. \A r \in Slots : r # s /\ (\E n \in Names : index[n] = r) => \E n \in Names : index'[n] = r
      BY <1>7 DEF s
    <2> QED
      BY <1>4, <1>5, <1>7, <1>8, <2>1, <2>2, <2>3
  <1>16. OneRecord'
    <2> SUFFICES ASSUME NEW j \in Keys \ doubt, NEW r \in Slots, KeyAt(file', r) = j
                 PROVE  index'[j] = r
      BY <1>1 DEF OneRecord
    <2>1. j \in Names /\ r # s /\ KeyAt(file, r) = j
      BY <1>9, SlotFacts
    <2>2. index[j] = r
      BY <1>10, <2>1 DEF IInv, OneRecord
    <2> QED
      BY <1>7, <2>1, <2>2 DEF s
  <1>17. KeptServed'
    <2> SUFFICES ASSUME NEW j \in Keys \ doubt
                 PROVE  /\ kept'[j] # None => index'[j] # None /\ file'[index'[j]].value = kept'[j]
                        /\ kept'[j] = None /\ ~torn => index'[j] = None
      BY <1>1 DEF KeptServed
    <2>1. CASE j = k
      BY <1>7, <2>1
    <2>2. CASE j # k
      <3>1. /\ kept[j] # None => index[j] # None /\ file[index[j]].value = kept[j]
            /\ kept[j] = None /\ ~torn => index[j] = None
        BY <1>10 DEF IInv, KeptServed
      <3> QED
        BY <1>2, <1>7, <1>8, <2>2, <3>1, SlotFacts
    <2> QED
      BY <2>1, <2>2
  <1> QED
    BY <1>11, <1>12, <1>13, <1>14, <1>15, <1>16, <1>17 DEF IInv

-----------------------------------------------------------------------------
(* The results                                                             *)

LEMMA NextIInv == ASSUME IInv, [Next]_vars PROVE IInv'
  <1>1. ASSUME NEW k \in Keys, NEW v \in Values, PutReplace(k, v) \/ PutFree(k, v) \/ PutEvict(k, v)
        PROVE  IInv'
    BY <1>1, PutReplaceStep, PutFreeStep, PutEvictStep
  <1>2. CASE WriteUsed \/ WriteLengths \/ WriteKey \/ WriteValue
    BY <1>2, WriteSteps
  <1>3. CASE Index
    BY <1>3, IndexStep
  <1>4. ASSUME NEW k \in Keys, Delete(k) PROVE IInv'
    BY <1>4, DeleteStep
  <1>5. CASE DropRef \/ \E k \in Keys : GetRef(k)
    BY <1>5, ViewSteps
  <1>6. CASE Reopen
    BY <1>6, ReopenStep
  <1>7. CASE UNCHANGED vars
    <2>1. /\ UNCHANGED file /\ UNCHANGED index /\ UNCHANGED order /\ UNCHANGED free /\ UNCHANGED put
          /\ UNCHANGED view /\ UNCHANGED kept /\ UNCHANGED doubt /\ UNCHANGED torn
      BY <1>7 DEF vars
    <2>2. UNCHANGED Busy /\ \A s : Elsewhere(s)' <=> Elsewhere(s)
      BY <2>1 DEF Busy, Elsewhere
    <2>3. TypeOK' /\ InsertSound'
      BY <2>1, <2>2 DEF IInv, TypeOK, InsertSound
    <2>4. IndexHome' /\ IndexListed' /\ FreeOnce' /\ Untorn' /\ OneRecord' /\ KeptServed'
      BY <2>1, <2>2 DEF IInv, IndexHome, IndexListed, FreeOnce, Untorn, OneRecord, KeptServed, KeyAt
    <2> QED
      BY <2>3, <2>4 DEF IInv
  <1> QED
    BY <1>1, <1>2, <1>3, <1>4, <1>5, <1>6, <1>7 DEF Next

\* The inductive invariant: what holds between the stores of an insert.
THEOREM IInvAlways == Spec => []IInv
  BY InitIInv, NextIInv, PTL DEF Spec

(***************************************************************************)
(* Index, order, free list and file agree between the operations of the    *)
(* tier, before and after any crash: an insert never takes a free slot     *)
(* that is in use and never finds the tier "full" without a victim.        *)
(***************************************************************************)
THEOREM SlotsStayInSync == Spec => []SlotsInSync
  <1>1. IInv => SlotsInSync
    <2> SUFFICES ASSUME IInv PROVE SlotsInSync
      OBVIOUS
    <2>1. TypeOK
      BY DEF IInv
    <2>2. Partition
      <3> SUFFICES ASSUME ~Busy, ~torn
                   PROVE  /\ IsInjective(free) /\ IsInjective(order)
                          /\ ToSet(order) = {n \in Names : index[n] # None}
                          /\ ToSet(free) = Slots \ {index[n] : n \in Names}
        BY DEF Partition, Busy
      <3>1. /\ IsInjective(order)
            /\ \A n \in ToSet(order) : index[n] # None
            /\ \A s \in Slots : s \in ToSet(free) \/ \E n \in Names : index[n] = s
        BY DEF IInv, Untorn, Elsewhere
      <3>2. (\A n \in ToSet(order) : n \in Names) /\ \A s \in ToSet(free) : s \in Slots
        BY <2>1 DEF ToSet, TypeOK
      <3>3. \A n \in Names : index[n] # None => index[n] \notin ToSet(free) /\ n \in ToSet(order)
        BY DEF IInv, IndexListed
      <3>4. ToSet(order) = {n \in Names : index[n] # None}
        BY <3>1, <3>2, <3>3
      <3>5. ToSet(free) = Slots \ {index[n] : n \in Names}
        BY <3>1, <3>2, <3>3, SlotFacts
      <3> QED
        BY <3>1, <3>4, <3>5 DEF IInv, FreeOnce
    <2>3. IndexPointsHome
      BY DEF IInv, IndexHome, IndexListed, Elsewhere, Busy, IndexPointsHome
    <2> QED
      BY <2>1, <2>2, <2>3 DEF SlotsInSync
  <1> QED
    BY <1>1, IInvAlways, PTL

(***************************************************************************)
(* "a reopened tier still serves everything it held": a key that was put   *)
(* is served with its last value wherever the process ends, unless the     *)
(* insert that was cut short was writing, writing over or bringing back    *)
(* that very key.                                                          *)
(***************************************************************************)
THEOREM HeldIsServed == Spec => []ServesHeld
  <1>1. IInv => ServesHeld
    <2> SUFFICES ASSUME IInv, ~Busy, NEW k \in Keys \ doubt, kept[k] # None \/ ~torn
                 PROVE  Fetch(k) = kept[k]
      BY DEF ServesHeld, Busy
    <2>1. /\ kept[k] # None => index[k] # None /\ file[index[k]].value = kept[k]
          /\ kept[k] = None /\ ~torn => index[k] = None
      BY DEF IInv, KeptServed
    <2> QED
      BY <2>1 DEF Fetch
  <1> QED
    BY <1>1, IInvAlways, PTL

(***************************************************************************)
(* "the slot cannot be evicted or overwritten while the view exists": a    *)
(* store into the mapping needs the lock that the view holds.              *)
(***************************************************************************)
THEOREM ViewsStayStable == Spec => ViewStable
  <1>1. ASSUME IInv, [Next]_vars
        PROVE  [view # None /\ view' = view => file'[view] = file[view]]_vars
    <2> SUFFICES ASSUME view # None PROVE file' = file
      OBVIOUS
    <2>1. ~Busy /\ ~Unlocked
      BY <1>1 DEF IInv, InsertSound, Unlocked
    <2> QED
      BY <1>1, <2>1 DEF Next, vars, PutReplace, PutFree, PutEvict, WriteUsed, WriteLengths, WriteKey,
         WriteValue, Index, Delete, GetRef, DropRef, Reopen, Busy
  <1> QED
    BY <1>1, IInvAlways, PTL DEF Spec, ViewStable
=============================================================================
