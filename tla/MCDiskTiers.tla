---------------------------- MODULE MCDiskTiers -----------------------------
(***************************************************************************)
(* DiskTiers for TLC: who writes which key, and the tiers.                 *)
(***************************************************************************)
EXTENDS DiskTiers, TLC

CONSTANTS t1, t2, long

\* Two short values fit where one long one does.
ValueSize(v) == IF v = long THEN 2 ELSE 1

Config(kind, eviction, budget, writers, readers, clears, fails) ==
    [kind |-> kind, eviction |-> eviction, budget |-> budget, writers |-> writers,
     readers |-> readers, clears |-> clears, fails |-> fails]

Alone == [k \in Keys |-> {t1}]
OneKey(threads) == {[k \in Keys |-> IF k = l THEN threads ELSE {}] : l \in Keys}
KeyEach == {w \in [Keys -> {{t1}, {t2}}] : \E k, l \in Keys : w[k] # w[l]}
AnyError == {"write", "map", "remap", "delete", "unlink", "scan"}

\* One caller, whose writes may fail.
OneCallerConfigs ==
    {Config("mmap", "Fifo", 2, Alone, {t1}, TRUE, {"write"}),
     Config("mmap", "Lru", 2, Alone, {t1}, TRUE, {"write"}),
     Config("disk", "Fifo", None, Alone, {t1}, FALSE, {"write"})}

\* Two callers: one writer and two readers of a key, with all errors; a key for
\* each writer; two writers of a key.
TwoCallersConfigs ==
    {Config("mmap", "Lru", 1, w, {t1, t2}, TRUE, AnyError) : w \in OneKey({t1})}
    \cup {Config("disk", "Fifo", None, w, {t1, t2}, FALSE, {"write"}) : w \in OneKey({t1})}
    \cup {Config("mmap", "Fifo", 2, w, {}, FALSE, {}) : w \in KeyEach}
    \cup {Config("mmap", "Fifo", 1, w, {}, TRUE, {}) : w \in OneKey({t1, t2})}
    \cup {Config("disk", "Fifo", None, w, {t1}, FALSE, {"write"}) : w \in OneKey({t1, t2})}

AllConfigs == OneCallerConfigs \cup TwoCallersConfigs

\* One writer and one reader of a key, no budget, no errors.
OverwriteConfigs ==
    {Config("mmap", "Fifo", None, w, {t2}, FALSE, {}) : w \in OneKey({t1})}

Symmetry == Permutations(Inodes) \cup Permutations(Keys)
=============================================================================
