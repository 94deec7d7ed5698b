---------------------------- MODULE MCMemoryTier ----------------------------
(***************************************************************************)
(* MemoryTier for TLC.                                                     *)
(***************************************************************************)
EXTENDS MemoryTier, TLC

\* Values are their weights; the third is heavier than the whole budget.
ValueWeight(k, v) == v

FewEntries == [eviction : {"Fifo", "Lru"}, entries : {1, 2}, bytes : {None}]
ThreeBytes == [eviction : {"Fifo", "Lru"}, entries : {None}, bytes : {3}]
AllConfigs == FewEntries \cup ThreeBytes

\* Single operations, and puts of two keys with the first value.
SingleCalls == [op : {"put"}, key : Keys, value : Values]
              \cup [op : {"get", "delete"}, key : Keys, value : {1}]
SinglesAndPairs ==
    {<<c>> : c \in SingleCalls}
    \cup {<<c, d>> : c, d \in {e \in SingleCalls : e.op = "put" /\ e.value = 1}}

Symmetry == Permutations(Keys)
=============================================================================
