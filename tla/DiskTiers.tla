----------------------------- MODULE DiskTiers ------------------------------
(***************************************************************************)
(* The tiers that keep one file per key under a root directory: the memory *)
(* mapped MmapDiskTier (crates/tierstore-mmap/src/tier.rs) and DiskTier    *)
(* (crates/tierstore/src/disk.rs).                                         *)
(*                                                                         *)
(* Both write a value to <key>.tmp and rename it over <key>.  DiskTier is  *)
(* nothing but the directory; MmapDiskTier keeps, behind a Mutex, its      *)
(* mappings, the accounted sizes and the eviction queue.  The lock guards  *)
(* that memory only: opens, writes, renames and mappings happen outside of *)
(* it, so every file system call and every critical section is an action   *)
(* of its own, and the eviction loop, which makes calls under the lock, is *)
(* one action per call.                                                    *)
(*                                                                         *)
(* A file is an inode with a body; names, descriptors and mappings refer   *)
(* to inodes.  A body is a short sequence of the values its bytes were     *)
(* written for, so that a torn one can be told from a whole one.  The file *)
(* system itself (open, write, rename, unlink) is external.  exists and    *)
(* list change nothing; read_range is a get of a part.                     *)
(***************************************************************************)
EXTENDS Integers, FiniteSets, FiniteSetsExt, SequencesExt, Enumeration

CONSTANTS
    Threads,        \* the callers
    Keys, Values,
    None,           \* no value, no inode, no entry, no limit, a zero byte
    Inodes,         \* the files that can be referred to at the same time
    Size(_),        \* the length of a value
    Configs,        \* the tiers, and who uses them
    CompactMin      \* 16 in the code

(***************************************************************************)
(* writers[k] are the threads that put and delete k, readers those that    *)
(* get; clears says whether the writers also clear the tier; fails are the *)
(* calls of the file system that may return an error.                      *)
(***************************************************************************)
ASSUME DiskAssumption ==
    /\ IsFiniteSet(Threads) /\ IsFiniteSet(Keys)
    /\ \A v \in Values : Size(v) \in Nat
    /\ None \notin Threads \cup Keys \cup Values \cup Inodes \cup Nat
    /\ CompactMin \in Nat
    /\ Configs \subseteq
          [kind : {"mmap", "disk"}, eviction : {"Fifo", "Lru"},
           budget : (Nat \ {0}) \cup {None}, writers : [Keys -> SUBSET Threads],
           readers : SUBSET Threads, clears : BOOLEAN,
           fails : SUBSET {"write", "map", "remap", "delete", "unlink", "scan"}]

VARIABLES
    config,     \* fixed when the tier is opened
    body,       \* the bytes of each inode
    dir,        \* the inode of the file named after each key
    tmp,        \* the inode of its temporary file
    inner,      \* MmapDiskTier.inner: the memory behind the lock
    lock,       \* the thread that holds the lock between two actions
    th,         \* the registers of the threads
    settled,    \* history: a put has completed since the tier was opened
    kept        \* history: the value put last, until it is deleted or displaced

vars == <<config, body, dir, tmp, inner, lock, th, settled, kept>>

Bodies == Seq(Values \cup {None})
Body(v) == [n \in 1 .. Size(v) |-> v]

Names == {"file", "tmp"} \X Keys

\* Inner.  Every ticket gets a fresh stamp, so a ticket is live iff its key
\* has a stamp and it is the last one of its key.
Inners ==
    [maps : [Keys -> Inodes \cup {None}], sizes : [Keys -> Nat \cup {None}],
     order : Seq(Keys), stamps : SUBSET Keys, total : Nat]

NoInner ==
    [maps |-> [k \in Keys |-> None], sizes |-> [k \in Keys |-> None],
     order |-> <<>>, stamps |-> {}, total |-> 0]

Phases == {"idle", "map", "read", "insert", "write", "remap", "account", "evict",
           "unlink", "delete", "clear"}

\* file is the inode that a thread writes or has mapped; an idle thread keeps
\* the view that its last get returned.
Registers ==
    [pc : Phases, key : Keys \cup {None}, value : Values \cup {None}, at : Nat,
     file : Inodes \cup {None}, names : SUBSET Names]

At(pc, k) ==
    [pc |-> pc, key |-> k, value |-> None, at |-> 0, file |-> None, names |-> {}]

TypeOK ==
    /\ config \in Configs
    /\ body \in [Inodes -> Bodies]
    /\ dir \in [Keys -> Inodes \cup {None}]
    /\ tmp \in [Keys -> Inodes \cup {None}]
    /\ inner \in Inners
    /\ lock \in Threads \cup {None}
    /\ th \in [Threads -> Registers]
    /\ \A t \in Threads :
          /\ th[t].pc \in {"read", "insert", "write"} => th[t].file # None
          /\ th[t].pc \in {"evict", "unlink", "clear"} <=> lock = t
    /\ settled \in BOOLEAN
    /\ kept \in [Keys -> Values \cup {None}]

Init ==
    /\ config \in Configs
    /\ body = [i \in Inodes |-> <<>>]
    /\ dir = [k \in Keys |-> None]
    /\ tmp = [k \in Keys |-> None]
    /\ inner = NoInner
    /\ lock = None
    /\ th = [t \in Threads |-> At("idle", None)]
    /\ settled = FALSE
    /\ kept = [k \in Keys |-> None]

-----------------------------------------------------------------------------
(* Inner: what the critical sections do to the memory                      *)

SaturatingSub(a, b) == IF a >= b THEN a - b ELSE 0

Accounted(i) == {k \in Keys : i.sizes[k] # None}

IsLive(i, n) ==
    /\ i.order[n] \in i.stamps
    /\ \A m \in n + 1 .. Len(i.order) : i.order[m] # i.order[n]
LiveAt(i) == {n \in DOMAIN i.order : IsLive(i, n)}

Retain(i) == Subsequence(i.order, LiveAt(i))

CompactTickets(i) ==
    IF Len(i.order) > Max({2 * Cardinality(Accounted(i)), CompactMin})
    THEN [i EXCEPT !.order = Retain(i)] ELSE i

\* rebuild_tickets, when the stamps wrap around: live tickets keep their order.
RebuildTickets(i) == [i EXCEPT !.order = Retain(i), !.stamps = ToSet(Retain(i))]

InsertTicket(i, k) ==
    CompactTickets([i EXCEPT !.order = Append(@, k), !.stamps = @ \cup {k}])

\* The stamp counter may wrap at any ticket.
Ticketed(i, k) == {InsertTicket(i, k), InsertTicket(RebuildTickets(i), k)}

\* touch, where the code calls it: under LRU only.
Touched(i, k) ==
    IF config.eviction = "Lru" /\ i.sizes[k] # None THEN Ticketed(i, k) ELSE {i}

RemoveAccounting(i, k) ==
    [i EXCEPT !.maps[k] = None, !.sizes[k] = None, !.stamps = @ \ {k},
              !.total = IF i.sizes[k] = None THEN @ ELSE SaturatingSub(@, i.sizes[k])]

\* What put does under the lock before it evicts: mapped is None when the file
\* was gone again.
Stored(i, k, n, mapped) ==
    LET old == i.sizes[k]
        i1 == [i EXCEPT !.maps[k] = IF mapped = None THEN @ ELSE mapped,
                        !.sizes[k] = n,
                        !.total = (IF old = None THEN @ ELSE SaturatingSub(@, old)) + n]
    IN  IF old = None \/ config.eviction = "Lru" THEN Ticketed(i1, k) ELSE {i1}

\* Mutant: the budget is exceeded by one byte.
OverByOne(i) == config.budget # None /\ i.total > config.budget + 1

Over(i) == config.budget # None /\ i.total > config.budget

-----------------------------------------------------------------------------
(* Files and threads                                                       *)

Locked == lock # None
Go(t, r) == th' = [th EXCEPT ![t] = r]
Idle(t) == Go(t, At("idle", None))

Unreferenced(i) ==
    /\ \A k \in Keys : i \notin {dir[k], tmp[k], inner.maps[k]}
    /\ \A t \in Threads : th[t].file # i

\* The bytes of the files after a step: what nobody refers to is gone.
Reap(b) == body' = [i \in Inodes |-> IF Unreferenced(i)' THEN <<>> ELSE b[i]]

\* A byte written at offset n; what a truncation has left out reads as zero.
Overwrite(b, n, v) ==
    [m \in 1 .. Max({Len(b), n}) |->
        IF m = n THEN v ELSE IF m <= Len(b) THEN b[m] ELSE None]

(***************************************************************************)
(* get: probe the mappings under the lock; map the file without it; keep   *)
(* the mapping, under the lock again, if the key is accounted.  DiskTier   *)
(* opens the file and reads it.                                            *)
(***************************************************************************)
GetHit(t) ==
    /\ config.kind = "mmap" /\ ~Locked
    /\ th[t].pc = "idle" /\ t \in config.readers
    /\ \E k \in Keys :
          /\ inner.maps[k] # None
          /\ inner' \in Touched(inner, k)
          /\ Go(t, [At("idle", None) EXCEPT !.file = inner.maps[k]])
    /\ UNCHANGED <<config, dir, tmp, lock, settled, kept>>
    /\ Reap(body)

GetMiss(t) ==
    /\ config.kind = "mmap" => ~Locked
    /\ th[t].pc = "idle" /\ t \in config.readers
    /\ \E k \in Keys : inner.maps[k] = None /\ Go(t, At("map", k))
    /\ UNCHANGED <<config, dir, tmp, inner, lock, settled, kept>>
    /\ Reap(body)

\* map_file, or the open of fs::read.
GetMap(t) ==
    LET k == th[t].key
    IN  /\ th[t].pc = "map"
        /\ IF dir[k] = None THEN Idle(t)
           ELSE Go(t, [At(IF config.kind = "mmap" THEN "insert" ELSE "read", k)
                           EXCEPT !.file = dir[k]])
        /\ UNCHANGED <<config, dir, tmp, inner, lock, settled, kept>>
        /\ Reap(body)

GetRead(t) ==
    /\ th[t].pc = "read"
    /\ Idle(t)
    /\ UNCHANGED <<config, dir, tmp, inner, lock, settled, kept>>
    /\ Reap(body)

\* Mutant: the mapping of a deleted file is kept.
GetInsertUnchecked(t) ==
    LET k == th[t].key
    IN  /\ th[t].pc = "insert" /\ ~Locked
        /\ inner' \in Touched([inner EXCEPT !.maps[k] = th[t].file], k)
        /\ Go(t, [At("idle", None) EXCEPT !.file = th[t].file])
        /\ UNCHANGED <<config, dir, tmp, lock, settled, kept>>
        /\ Reap(body)

GetInsert(t) ==
    LET k == th[t].key
    IN  /\ th[t].pc = "insert" /\ ~Locked
        /\ inner' \in IF inner.sizes[k] = None THEN {inner}
                      ELSE Touched([inner EXCEPT !.maps[k] = th[t].file], k)
        /\ Go(t, [At("idle", None) EXCEPT !.file = th[t].file])
        /\ UNCHANGED <<config, dir, tmp, lock, settled, kept>>
        /\ Reap(body)

(***************************************************************************)
(* put: fs::write opens (or creates) and truncates the temporary file and  *)
(* writes the value; rename; then MmapDiskTier maps the file of the key,   *)
(* accounts for it and evicts, one call of the file system after another,  *)
(* until the total is within the budget.                                   *)
(***************************************************************************)
PutOpen(t) ==
    /\ th[t].pc = "idle"
    /\ UNCHANGED <<config, dir, inner, lock, settled, kept>>
    /\ \E k \in Keys, v \in Values, i \in Inodes :
          /\ t \in config.writers[k]
          /\ i = tmp[k] \/ (tmp[k] = None /\ Unreferenced(i))
          /\ tmp' = [tmp EXCEPT ![k] = i]
          /\ Go(t, [At("write", k) EXCEPT !.value = v, !.file = i])
          /\ Reap([body EXCEPT ![i] = <<>>])

PutWrite(t) ==
    LET r == th[t]
    IN  /\ r.pc = "write" /\ r.at < Size(r.value)
        /\ Go(t, [r EXCEPT !.at = @ + 1])
        /\ UNCHANGED <<config, dir, tmp, inner, lock, settled, kept>>
        /\ Reap([body EXCEPT ![r.file] = Overwrite(@, r.at + 1, r.value)])

\* Mutant: the file is renamed before its last byte is written.
WrittenAllButOne(r) == r.at + 1 >= Size(r.value)

Written(r) == r.at = Size(r.value)

\* Mutant: the temporary file is copied over the file of the key.
PutRenameCopies(t) ==
    LET r == th[t]
        k == r.key
    IN  /\ r.pc = "write" /\ Written(r) /\ tmp[k] # None
        /\ dir' = [dir EXCEPT ![k] = IF @ = None THEN tmp[k] ELSE @]
        /\ tmp' = [tmp EXCEPT ![k] = None]
        /\ kept' = [kept EXCEPT ![k] = r.value]
        /\ Go(t, [r EXCEPT !.pc = "remap", !.file = None])
        /\ UNCHANGED <<config, inner, lock, settled>>
        /\ Reap([body EXCEPT ![dir'[k]] = body[tmp[k]]])

\* The temporary file may have been renamed, or cleared, by somebody else.
PutRename(t) ==
    LET r == th[t]
        k == r.key
    IN  /\ r.pc = "write" /\ Written(r)
        /\ IF tmp[k] = None
           THEN Idle(t) /\ UNCHANGED <<dir, tmp, kept>>
           ELSE /\ dir' = [dir EXCEPT ![k] = tmp[k]]
                /\ tmp' = [tmp EXCEPT ![k] = None]
                /\ kept' = [kept EXCEPT ![k] = r.value]
                /\ IF config.kind = "disk" THEN Idle(t)
                   ELSE Go(t, [r EXCEPT !.pc = "remap", !.file = None])
        /\ UNCHANGED <<config, inner, lock, settled>>
        /\ Reap(body)

PutRemap(t) ==
    /\ th[t].pc = "remap"
    /\ Go(t, [th[t] EXCEPT !.pc = "account", !.file = dir[th[t].key]])
    /\ UNCHANGED <<config, dir, tmp, inner, lock, settled, kept>>
    /\ Reap(body)

PutAccount(t) ==
    LET r == th[t]
    IN  /\ r.pc = "account" /\ ~Locked
        /\ lock' = t
        /\ inner' \in Stored(inner, r.key, Size(r.value), r.file)
        /\ Go(t, At("evict", None))
        /\ UNCHANGED <<config, dir, tmp, settled, kept>>
        /\ Reap(body)

\* Mutant: only retained mappings are handed out.
DisplacedIfMapped(k) == {inner.maps[k]}

\* The bytes handed out for a victim, None if its file cannot be mapped.
Displaced(k) ==
    IF inner.maps[k] # None THEN {inner.maps[k]}
    ELSE {dir[k]} \cup IF "map" \in config.fails THEN {None} ELSE {}

\* One turn of the loop: pop the oldest entry, map its file unless it is
\* mapped, drop its accounting.  The history forgets the value of the key if
\* that value is what the caller is to be given when the put returns.
Evict(t) ==
    LET n == Min(LiveAt(inner))
        k == inner.order[n]
    IN  /\ th[t].pc = "evict" /\ Over(inner) /\ LiveAt(inner) # {}
        /\ inner' = RemoveAccounting(
               [inner EXCEPT !.order = SubSeq(@, n + 1, Len(@))], k)
        /\ Go(t, At("unlink", k))
        /\ \E bytes \in Displaced(k) :
              kept' = IF bytes # None /\ kept[k] # None /\ body[bytes] = Body(kept[k])
                      THEN [kept EXCEPT ![k] = None] ELSE kept
        /\ UNCHANGED <<config, dir, tmp, lock, settled>>
        /\ Reap(body)

\* An error of the unlink is ignored.
EvictUnlink(t) ==
    /\ th[t].pc = "unlink"
    /\ \/ dir' = [dir EXCEPT ![th[t].key] = None]
       \/ "unlink" \in config.fails /\ UNCHANGED dir
    /\ Go(t, At("evict", None))
    /\ UNCHANGED <<config, tmp, inner, lock, settled, kept>>
    /\ Reap(body)

Done(i) == ~Over(i) \/ LiveAt(i) = {}

PutDone(t) ==
    /\ th[t].pc = "evict" /\ Done(inner)
    /\ inner' = IF Over(inner) THEN [inner EXCEPT !.order = <<>>] ELSE inner
    /\ lock' = None
    /\ settled' = TRUE
    /\ Idle(t)
    /\ UNCHANGED <<config, dir, tmp, kept>>
    /\ Reap(body)

(***************************************************************************)
(* delete: the accounting under the lock, then the unlink without it.      *)
(***************************************************************************)
Delete(t) ==
    /\ th[t].pc = "idle"
    /\ config.kind = "mmap" => ~Locked
    /\ \E k \in Keys :
          /\ t \in config.writers[k]
          /\ inner' = CompactTickets(RemoveAccounting(inner, k))
          /\ Go(t, At("delete", k))
          /\ kept' = [kept EXCEPT ![k] = None]
    /\ UNCHANGED <<config, dir, tmp, lock, settled>>
    /\ Reap(body)

\* Mutant: only the accounting goes.
DeleteKeepsFile(t) ==
    /\ th[t].pc = "delete"
    /\ Idle(t)
    /\ UNCHANGED <<config, dir, tmp, inner, lock, settled, kept>>
    /\ Reap(body)

DeleteUnlink(t) ==
    /\ th[t].pc = "delete"
    /\ dir' = [dir EXCEPT ![th[t].key] = None]
    /\ Idle(t)
    /\ UNCHANGED <<config, tmp, inner, lock, settled, kept>>
    /\ Reap(body)

(***************************************************************************)
(* clear: the memory is reset, then every file of the directory, temporary *)
(* ones too, is unlinked under the lock.  A file that comes up meanwhile   *)
(* may be listed or not; one that has vanished is skipped or ends the loop *)
(* (the error of entry.metadata), and so does an error of the directory    *)
(* scan, anywhere in it.  Errors of an unlink are ignored.                 *)
(***************************************************************************)
Existing ==
    {n \in Names : IF n[1] = "file" THEN dir[n[2]] # None ELSE tmp[n[2]] # None}

Clear(t) ==
    /\ config.kind = "mmap" /\ config.clears /\ ~Locked
    /\ th[t].pc = "idle" /\ \E k \in Keys : t \in config.writers[k]
    /\ lock' = t
    /\ inner' = NoInner
    /\ kept' = [k \in Keys |-> None]
    /\ Go(t, [At("clear", None) EXCEPT !.names = Existing])
    /\ UNCHANGED <<config, dir, tmp, settled>>
    /\ Reap(body)

ClearUnlink(t) ==
    /\ th[t].pc = "clear"
    /\ \E n \in Existing :
          /\ \/ n[1] = "file" /\ dir' = [dir EXCEPT ![n[2]] = None] /\ UNCHANGED tmp
             \/ n[1] = "tmp" /\ tmp' = [tmp EXCEPT ![n[2]] = None] /\ UNCHANGED dir
             \/ "unlink" \in config.fails /\ UNCHANGED <<dir, tmp>>
          /\ kept' = IF n[1] = "file" THEN [kept EXCEPT ![n[2]] = None] ELSE kept
          /\ Go(t, [th[t] EXCEPT !.names = @ \ {n}])
    /\ UNCHANGED <<config, inner, lock, settled>>
    /\ Reap(body)

ClearEnd(t) ==
    /\ th[t].pc = "clear"
    /\ th[t].names = {} \/ th[t].names \ Existing # {} \/ "scan" \in config.fails
    /\ lock' = None
    /\ Idle(t)
    /\ UNCHANGED <<config, dir, tmp, inner, settled, kept>>
    /\ Reap(body)

(***************************************************************************)
(* An error of the file system: the operation returns it where it is.      *)
(***************************************************************************)
Fail(t) ==
    /\ th[t].pc \in config.fails \cap {"write", "map", "remap", "delete"}
    /\ Idle(t)
    /\ UNCHANGED <<config, dir, tmp, inner, lock, settled, kept>>
    /\ Reap(body)

(***************************************************************************)
(* The process ends anywhere, the files stay, and the tier is opened       *)
(* again: scan accounts for the files named after keys in the order of     *)
(* their mtimes - any order, as mtimes are coarse and the clock may be set *)
(* - and maps none of them.                                                *)
(***************************************************************************)
Scan(order) ==
    LET size == [k \in Keys |-> IF dir[k] = None THEN None ELSE Len(body[dir[k]])]
    IN  [NoInner EXCEPT !.sizes = size, !.order = order, !.stamps = ToSet(order),
                        !.total = MapThenSumSet(LAMBDA k : size[k], ToSet(order))]

Restart ==
    /\ \E order \in SetToSeqs({k \in Keys : dir[k] # None}) :
          inner' = IF config.kind = "mmap" THEN Scan(order) ELSE NoInner
    /\ lock' = None
    /\ th' = [t \in Threads |-> At("idle", None)]
    /\ settled' = FALSE
    /\ UNCHANGED <<config, dir, tmp, kept>>
    /\ Reap(body)

-----------------------------------------------------------------------------

Begin(t) == GetHit(t) \/ GetMiss(t) \/ PutOpen(t) \/ Delete(t) \/ Clear(t)

Continue(t) ==
    \/ GetMap(t) \/ GetRead(t) \/ GetInsert(t)
    \/ PutWrite(t) \/ PutRename(t) \/ PutRemap(t) \/ PutAccount(t)
    \/ Evict(t) \/ EvictUnlink(t) \/ PutDone(t)
    \/ DeleteUnlink(t) \/ ClearUnlink(t) \/ ClearEnd(t)

Next == Restart \/ \E t \in Threads : Begin(t) \/ Continue(t) \/ Fail(t)

Spec == Init /\ [][Next]_vars

-----------------------------------------------------------------------------
(* What the tiers promise                                                  *)

Resting == \A t \in Threads : th[t].pc = "idle"

\* Who uses the tier: one caller at a time, or one writer for each key.
OneCaller == Cardinality(config.readers \cup UNION {config.writers[k] : k \in Keys}) = 1
OneWriter(k) == Cardinality(config.writers[k]) <= 1

(***************************************************************************)
(* Every accounted key can be found by the eviction loop, and no other:    *)
(* whatever is touched, replaced, deleted, evicted and compacted by        *)
(* concurrent callers, a key has a size iff it has a live ticket.          *)
(***************************************************************************)
TicketsInSync ==
    Accounted(inner) = inner.stamps /\ inner.stamps = ToSet(Retain(inner))

(***************************************************************************)
(* disk_usage is the sum of the accounted sizes: no saturating_sub hides a *)
(* double removal.                                                         *)
(***************************************************************************)
TotalInSync == inner.total = MapThenSumSet(LAMBDA k : inner.sizes[k], Accounted(inner))

(***************************************************************************)
(* Once a put has completed since the tier was opened, the accounted bytes *)
(* are within the budget whenever the lock is free, the leftovers of an    *)
(* earlier process and oversized values included.                          *)
(***************************************************************************)
WithinBudget ==
    settled /\ ~Locked /\ config.budget # None => inner.total <= config.budget

(***************************************************************************)
(* Stale tickets do not pile up under LRU touches and re-puts.             *)
(***************************************************************************)
QueueBounded == Len(inner.order) <= Max({2 * Cardinality(Keys), CompactMin})

(***************************************************************************)
(* "do not resurrect it in the retained mapping": a get that races a       *)
(* delete, an eviction or a clear retains no mapping of what is gone.      *)
(***************************************************************************)
NoGhostMapping == \A k \in Keys : inner.maps[k] # None => inner.sizes[k] # None

(***************************************************************************)
(* The memory behind the lock is consistent whatever callers interleave,   *)
(* fail and crash: mappings, sizes, tickets and total agree.               *)
(***************************************************************************)
InnerInSync == TypeOK /\ TicketsInSync /\ TotalInSync /\ QueueBounded /\ NoGhostMapping

(***************************************************************************)
(* "never truncated or mutated in place": where a key has one writer, the  *)
(* bytes of its file, of a retained mapping and of a view that a reader    *)
(* holds never change, through overwrites, evictions, clears and restarts. *)
(***************************************************************************)
Viewed ==
    {i \in Inodes :
        \/ \E k \in Keys : i \in {dir[k], inner.maps[k]}
        \/ \E t \in Threads :
              i = th[t].file /\ th[t].pc \in {"idle", "read", "insert", "account"}}

ViewsImmutable ==
    [][(\A k \in Keys : OneWriter(k)) =>
        \A i \in Viewed \cap Viewed' : body'[i] = body[i]]_vars

(***************************************************************************)
(* "a crash never leaves a torn value": where a key has one writer, its    *)
(* file is a whole value, whatever write failed or was cut short.          *)
(***************************************************************************)
WholeValues ==
    \A k \in Keys : dir[k] # None /\ OneWriter(k) =>
        \E v \in Values : body[dir[k]] = Body(v)

(***************************************************************************)
(* One caller, no error but of a write: at rest, and so after a crash      *)
(* anywhere, the index accounts for exactly the files there are, with      *)
(* their lengths, and retains mappings of those very files.                *)
(***************************************************************************)
IndexMatchesDisk ==
    OneCaller /\ config.kind = "mmap" /\ config.fails \subseteq {"write"} /\ Resting =>
        \A k \in Keys :
            /\ inner.sizes[k] = IF dir[k] = None THEN None ELSE Len(body[dir[k]])
            /\ inner.maps[k] \in {None, dir[k]}

(***************************************************************************)
(* One caller: a value that has been put stays readable, across crashes,   *)
(* failed overwrites and the evictions of other keys, until it is deleted, *)
(* cleared or popped as displaced, to be handed out when the put returns.  *)
(***************************************************************************)
PutKept ==
    OneCaller /\ config.fails \subseteq {"write"} =>
        \A k \in Keys : kept[k] # None =>
            dir[k] # None /\ body[dir[k]] = Body(kept[k])

(***************************************************************************)
(* The module's documentation: "reads after the overwrite see the new      *)
(* one".  While nothing but gets and unfinished writes of temporary files  *)
(* is going on, a retained mapping is the mapping of the key's file.       *)
(***************************************************************************)
ReadsSeeOverwrite ==
    (\A t \in Threads : th[t].pc \in {"idle", "map", "insert", "write"}) =>
        \A k \in Keys : inner.maps[k] \in {None, dir[k]}
=============================================================================
