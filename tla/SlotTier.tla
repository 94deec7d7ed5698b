------------------------------ MODULE SlotTier ------------------------------
(***************************************************************************)
(* The fixed-capacity tier of the demo: slots in a memory-mapped file      *)
(* (crates/rollover-demo/src/slot_mmap.rs).                                *)
(*                                                                         *)
(* One lock covers every operation, so between callers an operation is     *)
(* atomic; what is not is the record of a slot: write_slot stores the used *)
(* byte, the lengths, the key and the value one after the other into a     *)
(* shared mapping, and the process may end between any two of them.  Each  *)
(* of these stores is an action.  The mapping survives the process, the    *)
(* index, the order and the free list are rebuilt by the scan of open.     *)
(*                                                                         *)
(* Under the lengths of another record, the bytes of a slot still read as  *)
(* its old key, if that is as long as the new one, or as a key that nobody *)
(* asks for (a number stands for it; two slots may show the same), or as   *)
(* no record at all, and the bytes of its value as the old value or as     *)
(* Torn.  A slot that was never written shows the empty key, 0.  The bytes *)
(* of a value tell the key they were put for, so that a foreign one shows. *)
(***************************************************************************)
EXTENDS Integers, FiniteSetsExt, SequencesExt, Enumeration

CONSTANTS
    Keys, Values,
    None,           \* no slot, no value, no key
    Torn,           \* bytes that were never put as a value
    NSlots,         \* the slots of the file
    Oversized       \* the values that no slot can hold

Slots == 0 .. NSlots - 1

ASSUME SlotAssumption ==
    /\ NSlots \in Nat
    /\ None \notin Keys \cup Values \cup Slots /\ Torn # None /\ {None, Torn} \cap (Keys \X Values) = {}
    /\ Keys \cap Slots = {}
    /\ Oversized \subseteq Values

VARIABLES
    file,       \* the mapping: the record of each slot
    index,      \* Inner.index
    order,      \* Inner.order: insertion order
    free,       \* Inner.free: a stack
    put,        \* the insert in progress
    view,       \* the slot of the MmapRef that holds the lock
    kept,       \* history: the value put last, until deleted or displaced
    doubt,      \* history: keys that an insert cut short may have harmed
    torn        \* history: a crash has cut an insert short

vars == <<file, index, order, free, put, view, kept, doubt, torn>>

Names == Keys \cup Slots    \* what a slot may hold as its key
Record == [used : BOOLEAN, key : Names \cup {None}, value : (Keys \X Values) \cup {None, Torn}]
NoPut == [step |-> "none", slot |-> 0, key |-> None, value |-> None, victim |-> None]

TypeOK ==
    /\ file \in [Slots -> Record]
    /\ index \in [Names -> Slots \cup {None}]
    /\ order \in Seq(Names)
    /\ free \in Seq(Slots)
    /\ put \in [step : {"none", "used", "lengths", "key", "value", "index"}, slot : Slots \cup {0},
                key : Keys \cup {None}, value : Values \cup {None}, victim : Names \cup {None}]
    /\ view \in Slots \cup {None}
    /\ kept \in [Keys -> (Keys \X Values) \cup {None}]
    /\ doubt \subseteq Keys
    /\ torn \in BOOLEAN

-----------------------------------------------------------------------------
(* open: the scan                                                          *)

\* read_slot: the key of a used slot whose lengths fit.
KeyAt(f, s) == IF f[s].used THEN f[s].key ELSE None

\* Mutant: the scan ends at a corrupt slot.
ScanIndexUntilCorrupt(f) ==
    [n \in Names |->
        LET at == {s \in Slots :
                      KeyAt(f, s) = n /\ \A r \in 0 .. s : ~f[r].used \/ f[r].key # None}
        IN  IF at = {} THEN None ELSE Max(at)]

\* A later slot with the same key replaces an earlier one in the index; the
\* order then holds the key twice.
ScanIndex(f) ==
    [n \in Names |->
        LET at == {s \in Slots : KeyAt(f, s) = n}
        IN  IF at = {} THEN None ELSE Max(at)]

ScanOrder(f) ==
    LET at == {s \in Slots : KeyAt(f, s) # None}
    IN  [n \in 1 .. Cardinality(at) |-> KeyAt(f, Ascending(at)[n])]

\* Mutant: a slot with torn bytes is free, too.
ScanFreeTorn(f) == Ascending({s \in Slots : KeyAt(f, s) = None \/ f[s].value = Torn})

ScanFree(f) == Ascending({s \in Slots : KeyAt(f, s) = None})

\* A new file is all zeroes.
Init ==
    /\ file = [s \in Slots |-> [used |-> FALSE, key |-> 0, value |-> None]]
    /\ index = ScanIndex(file)
    /\ order = ScanOrder(file)
    /\ free = ScanFree(file)
    /\ put = NoPut
    /\ view = None
    /\ kept = [k \in Keys |-> None]
    /\ doubt = {}
    /\ torn = FALSE

(***************************************************************************)
(* The process ends and the file is opened again.  A crash in write_slot   *)
(* casts doubt on the key it writes, on the one it writes over, and on the *)
(* one that its slot shows meanwhile: the used byte, set first, revives    *)
(* the record of a key that was removed and may now be in another slot.    *)
(***************************************************************************)
Writing == put.step \in {"used", "lengths", "key", "value"}

Reopen ==
    /\ index' = ScanIndex(file)
    /\ order' = ScanOrder(file)
    /\ free' = ScanFree(file)
    /\ put' = NoPut
    /\ view' = None
    /\ torn' = (torn \/ Writing)
    /\ doubt' = doubt \cup
           IF Writing THEN {put.key, put.victim, KeyAt(file, put.slot)} \cap Keys ELSE {}
    /\ kept' = IF put.step = "index" THEN [kept EXCEPT ![put.key] = <<put.key, put.value>>] ELSE kept
    /\ UNCHANGED file

-----------------------------------------------------------------------------
(* insert                                                                  *)

\* Mutant: a view does not hold the lock.
UnlockedButViewed == put.step = "none"

Unlocked == put.step = "none" /\ view = None

Begin(k, v, s, victim) ==
    put' = [step |-> "used", slot |-> s, key |-> k, value |-> v, victim |-> victim]

\* History: a displaced entry is its caller's from now on.
Displace(n) ==
    IF n \in Keys THEN kept' = [kept EXCEPT ![n] = None] ELSE UNCHANGED kept

Fits(v) == v \notin Oversized

PutReplace(k, v) ==
    /\ Unlocked /\ Fits(v)
    /\ index[k] # None
    /\ Begin(k, v, index[k], None)
    /\ UNCHANGED <<file, index, order, free, view, kept, doubt, torn>>

PutFree(k, v) ==
    /\ Unlocked /\ Fits(v)
    /\ index[k] = None /\ free # <<>>
    /\ Begin(k, v, Last(free), None)
    /\ free' = Front(free)
    /\ UNCHANGED <<file, index, order, view, kept, doubt, torn>>

\* Full: the oldest entry makes room.  If the order is empty, or names a key
\* that is not in the index, the insert fails after the pop.
PutEvict(k, v) ==
    /\ Unlocked /\ Fits(v)
    /\ index[k] = None /\ free = <<>> /\ order # <<>>
    /\ order' = Tail(order)
    /\ LET oldest == Head(order)
       IN  IF index[oldest] = None
           THEN UNCHANGED <<index, put, kept>>
           ELSE /\ index' = [index EXCEPT ![oldest] = None]
                /\ Begin(k, v, index[oldest], oldest)
                /\ Displace(oldest)
    /\ UNCHANGED <<file, free, view, doubt, torn>>

WriteUsed ==
    /\ put.step = "used"
    /\ put' = [put EXCEPT !.step = "lengths"]
    /\ file' = [file EXCEPT ![put.slot].used = TRUE]
    /\ UNCHANGED <<index, order, free, view, kept, doubt, torn>>

WriteLengths ==
    /\ put.step = "lengths"
    /\ put' = [put EXCEPT !.step = "key"]
    /\ \E n \in {file[put.slot].key} \cup
                  IF file[put.slot].key = put.key THEN {} ELSE Slots \cup {None},
          v \in {file[put.slot].value, Torn} :
          file' = [file EXCEPT ![put.slot].key = n, ![put.slot].value = v]
    /\ UNCHANGED <<index, order, free, view, kept, doubt, torn>>

WriteKey ==
    /\ put.step = "key"
    /\ put' = [put EXCEPT !.step = "value"]
    /\ file' = [file EXCEPT ![put.slot].key = put.key]
    /\ UNCHANGED <<index, order, free, view, kept, doubt, torn>>

WriteValue ==
    /\ put.step = "value"
    /\ put' = [put EXCEPT !.step = "index"]
    /\ file' = [file EXCEPT ![put.slot].value = <<put.key, put.value>>]
    /\ UNCHANGED <<index, order, free, view, kept, doubt, torn>>

\* History: once it is put again a key is out of doubt, unless a revived
\* record of it is in another slot.
Settled(k) == \A s \in Slots \ {put.slot} : KeyAt(file, s) # k

Index ==
    /\ put.step = "index"
    /\ index' = [index EXCEPT ![put.key] = put.slot]
    /\ order' = IF index[put.key] = None THEN Append(order, put.key) ELSE order
    /\ put' = NoPut
    /\ kept' = [kept EXCEPT ![put.key] = <<put.key, put.value>>]
    /\ doubt' = IF Settled(put.key) THEN doubt \ {put.key} ELSE doubt
    /\ UNCHANGED <<file, free, view, torn>>

-----------------------------------------------------------------------------
(* delete, and views                                                       *)

\* The bytes of a removed record stay, only its used byte is cleared.
Delete(k) ==
    /\ Unlocked
    /\ index[k] # None
    /\ index' = [index EXCEPT ![k] = None]
    /\ file' = [file EXCEPT ![index[k]].used = FALSE]
    /\ free' = Append(free, index[k])
    /\ order' = Subsequence(order, {n \in DOMAIN order : order[n] # k})
    /\ kept' = [kept EXCEPT ![k] = None]
    /\ UNCHANGED <<put, view, doubt, torn>>

\* get_ref: the guard lives in the view.
GetRef(k) ==
    /\ Unlocked
    /\ index[k] # None /\ KeyAt(file, index[k]) # None
    /\ view' = index[k]
    /\ UNCHANGED <<file, index, order, free, put, kept, doubt, torn>>

DropRef ==
    /\ view # None
    /\ view' = None
    /\ UNCHANGED <<file, index, order, free, put, kept, doubt, torn>>

Next ==
    \/ \E k \in Keys, v \in Values : PutReplace(k, v) \/ PutFree(k, v) \/ PutEvict(k, v)
    \/ WriteUsed \/ WriteLengths \/ WriteKey \/ WriteValue \/ Index
    \/ \E k \in Keys : Delete(k) \/ GetRef(k)
    \/ DropRef \/ Reopen

Spec == Init /\ [][Next]_vars

-----------------------------------------------------------------------------

\* What a get returns: fetch.
Fetch(k) == IF index[k] = None THEN None ELSE file[index[k]].value

(***************************************************************************)
(* "a reopened tier still serves everything it held": every entry that was *)
(* put and not removed or displaced is served with its last value, across  *)
(* reopens and any number of crashes in the middle of inserts, whatever    *)
(* corrupt slots, stale records and leftover names these have left to the  *)
(* scan; only the keys that such an insert was writing, was writing over   *)
(* or brought back are in doubt.  Without such a crash nothing else is     *)
(* served either.                                                          *)
(***************************************************************************)
ServesHeld ==
    put.step = "none" =>
        \A k \in Keys \ doubt : kept[k] # None \/ ~torn => Fetch(k) = kept[k]

(***************************************************************************)
(* Free slots and indexed slots are the slots, without overlap, and the    *)
(* order is the indexed keys: an insert never finds them out of sync.      *)
(***************************************************************************)
Partition ==
    put.step = "none" /\ ~torn =>
        /\ IsInjective(free) /\ IsInjective(order)
        /\ ToSet(order) = {n \in Names : index[n] # None}
        /\ ToSet(free) = Slots \ {index[n] : n \in Names}

(***************************************************************************)
(* Whatever crashes have done, an indexed slot is in use, holds the key it *)
(* is indexed under, is not free, and eviction can find it.                *)
(***************************************************************************)
IndexPointsHome ==
    put.step = "none" =>
        \A n \in Names : index[n] # None =>
            /\ KeyAt(file, index[n]) = n
            /\ index[n] \notin ToSet(free)
            /\ n \in ToSet(order)

(***************************************************************************)
(* The memory and the slots agree: an insert finds a free slot or a victim *)
(* that is there, and overwrites nothing else.                             *)
(***************************************************************************)
SlotsInSync == TypeOK /\ Partition /\ IndexPointsHome

(***************************************************************************)
(* "the slot cannot be evicted or overwritten while the view exists".      *)
(***************************************************************************)
ViewStable == [][view # None /\ view' = view => file'[view] = file[view]]_vars
=============================================================================
