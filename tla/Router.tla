------------------------------- MODULE Router -------------------------------
(***************************************************************************)
(* The router over an ordered stack of tiers                               *)
(* (crates/tierstore/src/router.rs), executing the policy of               *)
(* crates/tierstore-core/src/policy.rs for several concurrent callers.     *)
(*                                                                         *)
(* The router holds no lock and awaits every tier call, so one tier call   *)
(* is one action and calls of different clients interleave freely.  The    *)
(* code between two awaits is local to a client: it is folded into the     *)
(* action before it, as operators from the client's registers to its       *)
(* registers.  A single-key operation is the batched one on a batch of one *)
(* (get and read_one are read_many, put is put_many, delete is             *)
(* remove_many).                                                           *)
(*                                                                         *)
(* A tier is its contents and the contract of TierRead and TierWrite       *)
(* (tier.rs): a put replaces, then displaces entries until the tier is     *)
(* within its bound again, in an order that is the tier's own business; on *)
(* an error the contents for the key are unspecified.  A tier's put_many   *)
(* is the loop over put that ends at the first error, one action per put.  *)
(* The per-tier counters are left out: no decision reads them.             *)
(***************************************************************************)
EXTENDS Integers, FiniteSets, SequencesExt, Enumeration

CONSTANTS
    Clients,        \* concurrent callers
    Keys, Values,   \* what they store
    None,           \* no value
    Fits(_, _),     \* Fits(b, m): contents m respect the bound b of a tier
    Configs         \* the routers to be checked, and what their callers do

Contents == [Keys -> Values \cup {None}]
Empty == [k \in Keys |-> None]

Policy ==
    [promote : {"Never", "TopOnly", "AllAbove"}, on_error : {"FallThrough", "FailFast"},
     write : {"WriteThrough", "WriteAround"}, on_write_error : {"FailFast", "BestEffort"},
     demote_displaced : BOOLEAN]

\* The preset of TieredStore.
StorePolicy ==
    [promote |-> "Never", on_error |-> "FailFast", write |-> "WriteThrough",
     on_write_error |-> "FailFast", demote_displaced |-> TRUE]

\* The preset of TieredCache.
CachePolicy ==
    [promote |-> "TopOnly", on_error |-> "FallThrough", write |-> "WriteThrough",
     on_write_error |-> "BestEffort", demote_displaced |-> TRUE]

(***************************************************************************)
(* A router: n tiers, 0 the topmost; those added with `tier' and not       *)
(* `read_only_tier', those whose calls may return Err, the bound of each,  *)
(* and the policy.  Its use: the callers, the keys and values, the longest *)
(* batch of a read or put and of a delete (0 for none), and whether        *)
(* callers drop futures they have polled.                                  *)
(***************************************************************************)
Config ==
    [n : Nat \ {0},             \* RouterBuilder::build asserts it
     writable : SUBSET Nat, fallible : SUBSET Nat, bound : Seq(Nat), policy : Policy,
     callers : SUBSET Clients, keys : SUBSET Keys, values : SUBSET Values,
     batch : Nat, deletes : Nat, drops : BOOLEAN]

ASSUME RouterAssumption ==
    /\ IsFiniteSet(Clients) /\ IsFiniteSet(Keys)
    /\ None \notin Values
    /\ Configs \subseteq Config
    /\ \A cfg \in Configs :
          /\ cfg.writable \cup cfg.fallible \subseteq 0 .. cfg.n - 1
          /\ Len(cfg.bound) = cfg.n
          /\ \A b \in ToSet(cfg.bound) : Fits(b, Empty)

VARIABLES
    config, \* the router and its use, which never change
    store,  \* store[i]: what tier i holds
    op,     \* op[c]: the registers of client c's current or last operation
    owed,   \* history: keys accepted and neither deleted nor reported evicted
    latest, \* history of a single caller: its last write of a key to a tier;
            \* None since a delete
    torn    \* history of a single caller: keys whose last put or delete has not
            \* succeeded

vars == <<config, store, op, latest, owed, torn>>

Tiers == 0 .. config.n - 1
NoTier == config.n
Writable == config.writable
Fallible == config.fallible

Kinds == {"none", "read", "exists", "put", "delete"}
Phases == {"idle", "probe", "promote", "write", "purge", "remove"}
Outcomes == {"none", "ok", "tier", "inconclusive", "partial", "readonly", "dropped"}

Entries == Keys \X Values

TypeOK ==
    /\ config \in Configs
    /\ store \in [Tiers -> Contents]
    /\ op \in [Clients ->
          [kind : Kinds, pc : Phases, outcome : Outcomes,
           keys : Seq(Keys), entries : Seq(Entries),
           from : [Keys -> Tiers \cup {NoTier}], got : Contents,
           failures : SUBSET Tiers, src : Tiers, tier : Tiers,
           at : Tiers, todo : Seq(Entries), out : Seq(Entries),
           evicted : SUBSET Entries]]
    /\ latest \in Contents
    /\ owed \subseteq Keys
    /\ torn \subseteq Keys

(***************************************************************************)
(* Several promises are made to one caller at a time: with a second one a  *)
(* delete or put may pass between a read's probe and its promotion, and    *)
(* the router, which locks nothing, lets the older value win.              *)
(***************************************************************************)
Alone == Cardinality(config.callers) = 1

\* The keys whose history is kept.
Followed(ks) == IF Alone THEN ks ELSE {}

(***************************************************************************)
(* The registers: kind, keys, entries are the request; from and got the    *)
(* hits of a read by key; failures the tiers that failed; tier the tier of *)
(* the loop over tiers and src the tier whose hits are being promoted; at, *)
(* todo and out the put in progress - the tier, the entries still to put   *)
(* and what it displaced so far - which is a demotion when at # tier;      *)
(* evicted what a write reports.  An idle client keeps its last result.    *)
(***************************************************************************)
Start(kind, pc, keys, entries, tier) ==
    [kind |-> kind, pc |-> pc, outcome |-> "none",
     keys |-> keys, entries |-> entries,
     from |-> [k \in Keys |-> NoTier], got |-> Empty, failures |-> {},
     src |-> 0, tier |-> tier, at |-> tier, todo |-> entries, out |-> <<>>,
     evicted |-> {}]

\* The keys of a request, of either kind.
Targets(o) == o.keys \o [n \in 1 .. Len(o.entries) |-> o.entries[n][1]]

Return(o, outcome) ==
    [o EXCEPT !.pc = "idle", !.outcome = outcome,
              !.src = 0, !.tier = 0, !.at = 0, !.todo = <<>>, !.out = <<>>]

NoOperation == Return(Start("none", "idle", <<>>, <<>>, 0), "none")

\* Writable tiers start empty, read-only ones with anything.
Init ==
    /\ config \in Configs
    /\ \E m \in [config.keys -> config.values \cup {None}] :
          store = [i \in Tiers |->
                      IF i \in Writable THEN Empty
                      ELSE [k \in Keys |-> IF k \in config.keys THEN m[k] ELSE None]]
    /\ op = [c \in Clients |-> NoOperation]
    /\ latest = Empty
    /\ owed = {}
    /\ torn = {}

-----------------------------------------------------------------------------
(* The tiers                                                               *)

\* Mutant: read-only tiers are skipped nowhere.
BelowAnyTier(i) == {j \in Tiers : j > i}

Below(i) == {j \in Writable : j > i}
Above(i) == {j \in Writable : j < i}
Bottom == Max(Writable)

Present(m) == {k \in Keys : m[k] # None}
Without(m, ks) == [k \in Keys |-> IF k \in ks THEN None ELSE m[k]]

(***************************************************************************)
(* The keys that tier i may displace when it holds m after a put: as many  *)
(* as it takes to be within the bound, one by one in any order.  The key   *)
(* that is put may be among them, new to the tier or not.                  *)
(***************************************************************************)
Victims(i, m) ==
    {s \in SetToAllKPermutations(Present(m)) :
        /\ Fits(config.bound[i + 1], Without(m, ToSet(s)))
        /\ \A n \in 0 .. Len(s) - 1 : ~Fits(config.bound[i + 1], Without(m, ToSet(SubSeq(s, 1, n))))}

-----------------------------------------------------------------------------
(* Reads: read_many, get, read_one, exists, get_many                       *)

Unresolved(o) == {k \in ToSet(o.keys) : o.from[k] = NoTier}

\* Inconclusive exactly when a key is unresolved and a tier failed.
ReadOutcome(o) ==
    IF Unresolved(o) # {} /\ o.failures # {} THEN "inconclusive" ELSE "ok"

\* promote_batch: the tier whose hits are copied, and the tier they go to, in
\* the order of the two loops.
Promotions(o) ==
    {p \in Tiers \X Writable :
        /\ o.kind = "read"
        /\ config.policy.promote # "Never"
        /\ \E k \in ToSet(o.keys) : o.from[k] = p[1]
        /\ p[2] < p[1]
        /\ config.policy.promote = "TopOnly" => p[2] = 0}

Later(p, q) == p[1] > q[1] \/ (p[1] = q[1] /\ p[2] > q[2])

HitsAt(o, i) ==
    LET hits == [n \in DOMAIN o.keys |-> <<o.keys[n], o.got[o.keys[n]]>>]
    IN  Subsequence(hits, {n \in DOMAIN o.keys : o.from[o.keys[n]] = i})

NextPromotion(o) ==
    LET ps == {p \in Promotions(o) : Later(p, <<o.src, o.tier>>)}
    IN  IF ps = {}
        THEN Return(o, ReadOutcome(o))
        ELSE LET p == CHOOSE p \in ps : \A q \in ps \ {p} : Later(q, p)
             IN  [o EXCEPT !.pc = "promote", !.src = p[1], !.tier = p[2], !.at = p[2],
                           !.todo = HitsAt(o, p[1]), !.out = <<>>]

\* After a tier has answered: the next tier, or the end of the probing.
AfterProbe(o) ==
    IF Unresolved(o) # {} /\ o.tier + 1 < config.n
    THEN [o EXCEPT !.tier = @ + 1]
    ELSE NextPromotion([o EXCEPT !.src = 0, !.tier = 0])

CallRead(c, ks) ==
    /\ op[c].pc = "idle"
    /\ op' = [op EXCEPT ![c] = Start("read", "probe", ks, <<>>, 0)]
    /\ UNCHANGED <<config, store, latest, owed, torn>>

\* exists: the same flow for one key, without promotion.
CallExists(c, k) ==
    /\ op[c].pc = "idle"
    /\ op' = [op EXCEPT ![c] = Start("exists", "probe", <<k>>, <<>>, 0)]
    /\ UNCHANGED <<config, store, latest, owed, torn>>

\* Mutant: the answers for the missing keys are matched with the whole batch.
ProbeOkMisaligned(c) ==
    LET o == op[c]
        asked == SelectSeq(o.keys, LAMBDA k : o.from[k] = NoTier)
        answer == [n \in DOMAIN asked |-> store[o.tier][asked[n]]]
        At(k) == CHOOSE n \in DOMAIN o.keys : o.keys[n] = k
        found == {o.keys[n] : n \in {n \in DOMAIN asked : answer[n] # None}}
    IN  /\ o.pc = "probe"
        /\ op' = [op EXCEPT ![c] = AfterProbe(
               [o EXCEPT !.from = [k \in Keys |-> IF k \in found THEN o.tier ELSE @[k]],
                         !.got = [k \in Keys |-> IF k \in found THEN answer[At(k)]
                                                                ELSE @[k]]])]
        /\ UNCHANGED <<config, store, latest, owed, torn>>

ProbeOk(c) ==
    LET o == op[c]
        found == {k \in Unresolved(o) : store[o.tier][k] # None}
    IN  /\ o.pc = "probe"
        /\ op' = [op EXCEPT ![c] = AfterProbe(
               [o EXCEPT !.from = [k \in Keys |-> IF k \in found THEN o.tier ELSE @[k]],
                         !.got = [k \in Keys |-> IF k \in found THEN store[o.tier][k]
                                                                ELSE @[k]]])]
        /\ UNCHANGED <<config, store, latest, owed, torn>>

\* Mutant: a failed probe is a miss.
ProbeErrUnrecorded(c) ==
    LET o == op[c]
    IN  /\ o.pc = "probe"
        /\ o.tier \in Fallible
        /\ op' = [op EXCEPT ![c] =
               IF config.policy.on_error = "FailFast" THEN Return(o, "tier") ELSE AfterProbe(o)]
        /\ UNCHANGED <<config, store, latest, owed, torn>>

ProbeErr(c) ==
    LET o == [op[c] EXCEPT !.failures = @ \cup {op[c].tier}]
    IN  /\ o.pc = "probe"
        /\ o.tier \in Fallible
        /\ op' = [op EXCEPT ![c] =
               IF config.policy.on_error = "FailFast" THEN Return(o, "tier") ELSE AfterProbe(o)]
        /\ UNCHANGED <<config, store, latest, owed, torn>>

-----------------------------------------------------------------------------
(* Writes: put, put_many, and demote for writes and promotions             *)

StartTier(o, i) == [o EXCEPT !.tier = i, !.at = i, !.todo = o.entries, !.out = <<>>]

\* Mutant: the tier after the bottom is the topmost.
NextWriteSkipping(o) ==
    IF Above(o.tier) = {} THEN Return(o, "ok")
    ELSE IF config.policy.write = "WriteThrough" THEN StartTier(o, Min(Above(o.tier)))
    ELSE [o EXCEPT !.pc = "purge", !.tier = Min(Above(o.tier))]

\* The write has finished its current tier: write-through goes on to the next
\* writable tier up, write-around to the invalidation of the tiers above.
NextWrite(o) ==
    IF Above(o.tier) = {} THEN Return(o, "ok")
    ELSE IF config.policy.write = "WriteThrough" THEN StartTier(o, Max(Above(o.tier)))
    ELSE [o EXCEPT !.pc = "purge", !.tier = Min(Above(o.tier))]

\* Mutant: a write drops what its cascade leaves over.
ResumeSilently(o) ==
    IF o.pc = "promote"
    THEN NextPromotion([o EXCEPT !.out = <<>>])
    ELSE NextWrite([o EXCEPT !.out = <<>>])

\* What the cascade leaves over is reported by a write, dropped by a promotion.
Resume(o) ==
    IF o.pc = "promote"
    THEN NextPromotion([o EXCEPT !.out = <<>>])
    ELSE NextWrite([o EXCEPT !.evicted = @ \cup ToSet(o.out), !.out = <<>>])

\* Mutant: the displaced entries go back into the tier they come from.
SettleInPlace(o) ==
    IF o.todo # <<>> THEN o
    ELSE IF o.out # <<>> /\ config.policy.demote_displaced /\ Below(o.at) # {}
    THEN [o EXCEPT !.todo = o.out, !.out = <<>>]
    ELSE Resume(o)

\* Once every entry of a level is put, demote sends what it displaced to the
\* next writable tier down.
Settle(o) ==
    IF o.todo # <<>> THEN o
    ELSE IF o.out # <<>> /\ config.policy.demote_displaced /\ Below(o.at) # {}
    THEN [o EXCEPT !.at = Min(Below(o.at)), !.todo = o.out, !.out = <<>>]
    ELSE Resume(o)

\* Mutant: every write is best-effort.
RejectedLenient(o) ==
    IF o.at # o.tier THEN Settle([o EXCEPT !.todo = Tail(@)])
    ELSE IF o.pc = "promote" THEN NextPromotion([o EXCEPT !.out = <<>>])
    ELSE NextWrite([o EXCEPT !.out = <<>>])

\* A tier rejects an entry: demotion drops the entry, promotion the tier, a
\* write fails or (write-through, best effort) skips the tier; a failing
\* put_many loses what it had displaced.
Rejected(o) ==
    IF o.at # o.tier THEN Settle([o EXCEPT !.todo = Tail(@)])
    ELSE IF o.pc = "promote" THEN NextPromotion([o EXCEPT !.out = <<>>])
    ELSE IF config.policy.on_write_error = "FailFast" \/ config.policy.write = "WriteAround"
    THEN Return([o EXCEPT !.failures = @ \cup {o.at}], "tier")
    ELSE NextWrite([o EXCEPT !.out = <<>>])

\* History: a caller's own write of a key; the keys a write reports, which are
\* what TieredStore::put turns into StoreError::Evicted; and what becomes of
\* torn with the registers new.
CallersWrite(o) == o.pc = "write" /\ o.at = o.tier
Reported(o) ==
    IF o.pc = "idle" /\ o.outcome = "ok" THEN {e[1] : e \in o.evicted} ELSE {}
Mended(o) ==
    IF o.pc = "idle" /\ o.outcome = "ok" /\ o.kind \in {"put", "delete"}
    THEN ToSet(Targets(o)) ELSE {}

CallPut(c, es) ==
    /\ op[c].pc = "idle"
    /\ op' = [op EXCEPT ![c] =
               IF Writable = {}
               THEN Return(Start("put", "write", <<>>, es, 0), "readonly")
               ELSE Start("put", "write", <<>>, es, Bottom)]
    /\ torn' = torn \cup Followed({e[1] : e \in ToSet(es)})
    /\ UNCHANGED <<config, store, latest, owed>>

PutOk(c) ==
    LET o == op[c]
        k == o.todo[1][1]
        v == o.todo[1][2]
        full == [store[o.at] EXCEPT ![k] = v]
    IN  /\ o.pc \in {"promote", "write"}
        /\ \E s \in Victims(o.at, full) :
              /\ store' = [store EXCEPT ![o.at] = Without(full, ToSet(s))]
              /\ op' = [op EXCEPT ![c] = Settle([o EXCEPT
                            !.todo = Tail(@),
                            !.out = @ \o [n \in 1 .. Len(s) |-> <<s[n], full[s[n]]>>]])]
        /\ owed' = (owed \cup IF CallersWrite(o) THEN {k} ELSE {}) \ Reported(op'[c])
        /\ torn' = torn \ Mended(op'[c])
        /\ latest' = [latest EXCEPT ![k] = IF CallersWrite(o) /\ Alone THEN v ELSE @]
        /\ UNCHANGED config

PutErr(c) ==
    LET o == op[c]
        k == o.todo[1][1]
    IN  /\ o.pc \in {"promote", "write"}
        /\ o.at \in Fallible
        /\ \E w \in {store[o.at][k], o.todo[1][2], None} :
              store' = [store EXCEPT ![o.at][k] = w]
        /\ op' = [op EXCEPT ![c] = Rejected(o)]
        /\ owed' = owed \ Reported(op'[c])
        /\ torn' = torn \ Mended(op'[c])
        /\ UNCHANGED <<config, latest>>

-----------------------------------------------------------------------------
(* Invalidation by write-around, and delete, delete_many, remove_many      *)

\* Mutant: the loop ends at the first failure.
NextRemovalUntilFailure(o) ==
    LET rest == Below(o.tier) \ (IF o.pc = "purge" THEN {Bottom} ELSE {})
    IN  IF rest # {} /\ o.failures = {} THEN [o EXCEPT !.tier = Min(rest)]
        ELSE Return(o, IF o.failures = {} THEN "ok" ELSE "partial")

\* The loop over the writable tiers, downwards; write-around stops short of
\* the bottom, which it has written.
NextRemoval(o) ==
    LET rest == Below(o.tier) \ (IF o.pc = "purge" THEN {Bottom} ELSE {})
    IN  IF rest # {} THEN [o EXCEPT !.tier = Min(rest)]
        ELSE Return(o, IF o.failures = {} THEN "ok" ELSE "partial")

CallDelete(c, ks) ==
    /\ op[c].pc = "idle"
    /\ op' = [op EXCEPT ![c] =
               IF Writable = {}
               THEN Return(Start("delete", "remove", ks, <<>>, 0), "ok")
               ELSE Start("delete", "remove", ks, <<>>, Min(Writable))]
    /\ latest' = Without(latest, ToSet(ks))
    /\ torn' = torn \cup Followed(ToSet(ks))
    /\ UNCHANGED <<config, store, owed>>

\* History: only a delete unmakes the key; an invalidation replaces copies.
Forget(o) == IF o.pc = "remove" THEN ToSet(o.keys) ELSE {}

RemoveOk(c) ==
    LET o == op[c]
        new == NextRemoval(o)
    IN  /\ o.pc \in {"purge", "remove"}
        /\ store' = [store EXCEPT ![o.tier] = Without(@, ToSet(Targets(o)))]
        /\ op' = [op EXCEPT ![c] = new]
        /\ owed' = (owed \ Forget(o)) \ Reported(new)
        /\ torn' = torn \ Mended(new)
        /\ UNCHANGED <<config, latest>>

\* The keys before the failing one are gone, that one perhaps.
RemoveErr(c) ==
    LET o == op[c]
        new == NextRemoval([o EXCEPT !.failures = @ \cup {o.tier}])
    IN  /\ o.pc \in {"purge", "remove"}
        /\ o.tier \in Fallible
        /\ \E n \in 0 .. Len(Targets(o)) :
              store' = [store EXCEPT ![o.tier] =
                           Without(@, ToSet(SubSeq(Targets(o), 1, n)))]
        /\ op' = [op EXCEPT ![c] = new]
        /\ owed' = (owed \ Forget(o)) \ Reported(new)
        /\ torn' = torn \ Mended(new)
        /\ UNCHANGED <<config, latest>>

-----------------------------------------------------------------------------

(***************************************************************************)
(* The caller drops its future at an await (a timeout, a select): what the *)
(* operation has not written yet it never writes, and the entries of its   *)
(* cascade are dropped with its registers.                                 *)
(***************************************************************************)
Drop(c) ==
    /\ config.drops
    /\ op[c].pc # "idle"
    /\ op' = [op EXCEPT ![c] = Return(op[c], "dropped")]
    /\ UNCHANGED <<config, store, latest, owed, torn>>

\* What a client does once it has called: one tier call after the other.
Continue(c) ==
    \/ ProbeOk(c) \/ ProbeErr(c)
    \/ PutOk(c) \/ PutErr(c)
    \/ RemoveOk(c) \/ RemoveErr(c)

\* Batches of different keys, up to a length.
Batches(n) == {s \in SeqOf(config.keys, n) : s # <<>> /\ IsInjective(s)}

Begin(c) ==
    \/ \E ks \in Batches(config.batch) :
          \/ CallRead(c, ks)
          \/ \E vs \in [DOMAIN ks -> config.values] :
                CallPut(c, [n \in DOMAIN ks |-> <<ks[n], vs[n]>>])
    \/ \E k \in config.keys : CallExists(c, k)
    \/ \E ks \in Batches(config.deletes) : CallDelete(c, ks)

Next == \E c \in config.callers : Begin(c) \/ Continue(c) \/ Drop(c)

Spec == Init /\ [][Next]_vars

\* Every tier call returns and its caller is polled again; callers need not
\* call.
FairSpec == Spec /\ \A c \in Clients : WF_vars(Continue(c))

-----------------------------------------------------------------------------
(* What the router promises                                                *)

Quiet == \A c \in Clients : op[c].pc = "idle"

Returned(c, kind, outcomes) ==
    op[c].pc = "idle" /\ op[c].kind = kind /\ op[c].outcome \in outcomes

\* The copy that a read finds first.
TopCopy(k) ==
    LET at == {i \in Tiers : store[i][k] # None}
    IN  IF at = {} THEN None ELSE store[Min(at)][k]

(***************************************************************************)
(* At rest the topmost copy of a key is what was last written to it, or    *)
(* there is none, unless the last put or delete of the key itself failed   *)
(* or was dropped half-way: displacement, demotion and promotion, which    *)
(* move copies past each other and may fail or be dropped at any tier      *)
(* call, leave no stale copy on top and bring no deleted key back, and a   *)
(* repeated put or delete mends what an interrupted one left.              *)
(***************************************************************************)
FreshTop ==
    Alone /\ Writable = Tiers /\ Quiet =>
        \A k \in Keys \ torn : TopCopy(k) \in {None, latest[k]}

(***************************************************************************)
(* Under the same conditions a read returns the last value written,        *)
(* whatever tier it comes from and whatever failed before.                 *)
(***************************************************************************)
FreshRead ==
    Alone /\ Writable = Tiers => \A c \in Clients :
        Returned(c, "read", {"ok", "inconclusive", "tier", "dropped"}) =>
            \A k \in ToSet(op[c].keys) \ torn :
                op[c].from[k] # NoTier => op[c].got[k] = latest[k]

(***************************************************************************)
(* Both: stale values neither lie on top nor are returned.                 *)
(***************************************************************************)
Fresh == FreshTop /\ FreshRead

(***************************************************************************)
(* Loss is loud (store.rs, README "eviction is never silent"): under the   *)
(* store's policy a key that the stack accepted is in a writable tier, or  *)
(* on its way into one or into the report of an operation in progress,     *)
(* until it is deleted or reported to a caller.  Read-only tiers between   *)
(* the writable ones do not swallow what rolls over them.                  *)
(***************************************************************************)
InFlight(k) ==
    \E c \in Clients :
        /\ op[c].pc # "idle"
        /\ \E e \in ToSet(op[c].todo) \cup ToSet(op[c].out) \cup op[c].evicted : e[1] = k

LossIsLoud ==
    config.policy = StorePolicy /\ ~config.drops =>
        \A k \in owed : InFlight(k) \/ \E i \in Writable : store[i][k] # None

(***************************************************************************)
(* Bottom-up writes and top-down deletes (WriteMode::WriteThrough: "an     *)
(* upper tier never holds a key its lower tiers failed to accept"): while  *)
(* nothing is promoted, fails or is displaced, the keys of a tier are keys *)
(* of every writable tier below it, also in the middle of an operation and *)
(* after one that was dropped there.                                       *)
(***************************************************************************)
Unbounded == \A b \in ToSet(config.bound), m \in Contents : Fits(b, m)

Inclusive ==
    Alone /\ config.policy = StorePolicy /\ Fallible = {} /\ Unbounded =>
        \A i \in Writable : \A j \in Below(i) : Present(store[i]) \subseteq Present(store[j])

(***************************************************************************)
(* Honest misses: a read that calls a key missing has been told so by      *)
(* every tier - the key is in none of them, the failing ones included.     *)
(***************************************************************************)
HonestMiss ==
    Alone => \A c \in Clients :
        Returned(c, "read", {"ok"}) \/ Returned(c, "exists", {"ok"}) =>
            \A k \in Unresolved(op[c]), i \in Tiers : store[i][k] = None

(***************************************************************************)
(* A key that a read-only origin holds is never called missing, whatever   *)
(* the callers beside it put, promote, demote and invalidate - and nothing *)
(* comes to be in the origin that a reader was told is missing: the router *)
(* never writes a read-only tier, whatever rolls over it.                  *)
(***************************************************************************)
OriginServes ==
    \A c \in Clients :
        Returned(c, "read", {"ok"}) \/ Returned(c, "exists", {"ok"}) =>
            \A k \in Unresolved(op[c]), i \in Tiers \ Writable : store[i][k] = None

(***************************************************************************)
(* Deletes are all-tier and write-around invalidates: after a delete, or a *)
(* write-around put, a copy of the key survives in a tier (above the       *)
(* bottom) only if the tier is one of the failures that the caller is      *)
(* given, and then the result is Partial.                                  *)
(***************************************************************************)
Survivors(c, tiers) ==
    {i \in tiers : \E k \in ToSet(Targets(op[c])) : store[i][k] # None}

SurvivorsReported ==
    Alone => \A c \in Clients :
        /\ Returned(c, "delete", {"ok", "partial"}) =>
              /\ Survivors(c, Writable) \subseteq op[c].failures
              /\ op[c].outcome = "ok" <=> op[c].failures = {}
        /\ config.policy.write = "WriteAround" /\ Returned(c, "put", {"ok", "partial"}) =>
              /\ Survivors(c, Above(Bottom)) \subseteq op[c].failures
              /\ op[c].outcome = "ok" <=> op[c].failures = {}

(***************************************************************************)
(* Every operation ends: cascades run downwards and tiers are finitely     *)
(* many.                                                                   *)
(***************************************************************************)
OperationsEnd == \A c \in Clients : op[c].pc # "idle" ~> op[c].pc = "idle"
=============================================================================
