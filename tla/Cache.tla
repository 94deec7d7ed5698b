-------------------------------- MODULE Cache -------------------------------
(***************************************************************************)
(* TieredCache (crates/tierstore/src/cache.rs): the router behind per-key  *)
(* single-flight gates.  The tier calls are the actions of Router and the  *)
(* gates those of KeyGates, which SingleFlight implements; this module     *)
(* adds where each call of the cache is between them:                      *)
(*                                                                         *)
(*   lookup, get   gate -> read                                            *)
(*   get_or_load   probe -> wait -> reprobe -> loading -> fill             *)
(*   the others    forward                                                 *)
(*                                                                         *)
(* and, with single_flight off, the same without gate, wait and reprobe.   *)
(* The loader is the caller's future: it returns a value or an error.      *)
(***************************************************************************)
EXTENDS Router

VARIABLES
    single_flight,  \* TieredCache.single_flight
    holders,        \* the gates in use, as pairs of a client and a key
    flow,           \* flow[c]: where client c's call is, and its key
    loads,          \* history: loads of a key that returned a value
    cold,           \* history: gated reads of a key that a read-only tier served
    spoiled         \* history: keys that were deleted, displaced, met a failing
                    \* tier or lost a future, after which they may be loaded again

own == <<single_flight, holders, flow, loads, cold, spoiled>>
cacheVars == <<vars, own>>

Gates == INSTANCE KeyGates WITH Tasks <- Clients

MaxCount == 2   \* the histories count up to here

Waiting == {"gate", "wait"}
Steps == {"idle", "read", "probe", "reprobe", "loading", "fill", "forward"} \cup Waiting

CacheTypeOK ==
    /\ TypeOK
    /\ single_flight \in BOOLEAN
    /\ holders \subseteq Clients \X Keys
    /\ flow \in [Clients -> [at : Steps, key : Keys \cup {None}]]
    /\ loads \in [Keys -> 0 .. MaxCount]
    /\ cold \in [Keys -> 0 .. MaxCount]
    /\ spoiled \subseteq Keys
    /\ \A h \in holders : flow[h[1]].key = h[2] /\ flow[h[1]].at \notin Waiting

At(step, k) == [at |-> step, key |-> k]
Count(f, k) == [f EXCEPT ![k] = Min({@ + 1, MaxCount})]

CacheInit ==
    /\ Init
    /\ single_flight \in BOOLEAN
    /\ holders = {}
    /\ flow = [c \in Clients |-> At("idle", None)]
    /\ loads = [k \in Keys |-> 0]
    /\ cold = [k \in Keys |-> 0]
    /\ spoiled = {}

-----------------------------------------------------------------------------
(* Steps shared by the calls                                               *)

Is(c, step) == flow[c].at = step
Ready(c, step) == Is(c, step) /\ op[c].pc = "idle"

\* Ok(Some(value)) of the router's get: a failure counts as a miss.
Hit(c) == op[c].outcome = "ok" /\ op[c].from[flow[c].key] # NoTier

\* The call returns, or its future is dropped; its guard, if any, goes too.
Leave(c) ==
    /\ op' = [op EXCEPT ![c] = NoOperation]
    /\ flow' = [flow EXCEPT ![c] = At("idle", None)]
    /\ IF \E k \in Keys : <<c, k>> \in holders THEN Gates!Release(c) ELSE UNCHANGED holders
    /\ UNCHANGED <<config, store, latest, owed, torn, single_flight, loads, cold>>

\* The call goes on to a step that is no tier call.
GoTo(c, step) ==
    /\ op' = [op EXCEPT ![c] = NoOperation]
    /\ flow' = [flow EXCEPT ![c].at = step]
    /\ UNCHANGED <<config, store, latest, owed, torn, single_flight, holders, loads, cold, spoiled>>

\* The gate is acquired and the read under it begins.
Enter(c, waiting, step) ==
    LET k == flow[c].key
    IN  /\ Is(c, waiting)
        /\ Gates!Acquire(c, k)
        /\ CallRead(c, <<k>>)
        /\ flow' = [flow EXCEPT ![c].at = step]
        /\ UNCHANGED <<single_flight, loads, cold, spoiled>>

\* The router is called without a gate.
Call(c, step, k) ==
    /\ Is(c, "idle")
    /\ flow' = [flow EXCEPT ![c] = At(step, k)]
    /\ UNCHANGED <<single_flight, holders, loads, cold, spoiled>>

-----------------------------------------------------------------------------
(* lookup and get                                                          *)

Lookup(c, k) ==
    /\ single_flight
    /\ Call(c, "gate", k)
    /\ UNCHANGED vars

LookupUngated(c, k) ==
    /\ ~single_flight
    /\ Call(c, "read", k)
    /\ CallRead(c, <<k>>)

\* Mutant: the read does not wait for the gate.
LookupEnterUngated(c) ==
    /\ Is(c, "gate")
    /\ CallRead(c, <<flow[c].key>>)
    /\ flow' = [flow EXCEPT ![c].at = "read"]
    /\ UNCHANGED <<single_flight, holders, loads, cold, spoiled>>

LookupEnter(c) == Enter(c, "gate", "read")

LookupDone(c) == Ready(c, "read") /\ Leave(c) /\ UNCHANGED spoiled

-----------------------------------------------------------------------------
(* get_or_load                                                             *)

GetOrLoad(c, k) == Call(c, "probe", k) /\ CallRead(c, <<k>>)

Probed(c) ==
    /\ Ready(c, "probe")
    /\ IF Hit(c) THEN Leave(c) /\ UNCHANGED spoiled
       ELSE GoTo(c, IF single_flight THEN "wait" ELSE "loading")

LoadEnter(c) == Enter(c, "wait", "reprobe")

\* Mutants: the follower does not look at what its re-probe returned; only a
\* re-probe that met no failure goes on to the load.
ReprobedBlind(c) == Ready(c, "reprobe") /\ GoTo(c, "loading")

ReprobedIfConclusive(c) ==
    /\ Ready(c, "reprobe")
    /\ op[c].outcome = "ok"
    /\ IF Hit(c) THEN Leave(c) /\ UNCHANGED spoiled ELSE GoTo(c, "loading")

Reprobed(c) ==
    /\ Ready(c, "reprobe")
    /\ IF Hit(c) THEN Leave(c) /\ UNCHANGED spoiled ELSE GoTo(c, "loading")

LoadOk(c) ==
    LET k == flow[c].key
    IN  /\ Is(c, "loading")
        /\ \E v \in config.values : CallPut(c, <<<<k, v>>>>)
        /\ flow' = [flow EXCEPT ![c].at = "fill"]
        /\ loads' = Count(loads, k)
        /\ UNCHANGED <<single_flight, holders, cold, spoiled>>

\* The loader's error is returned and nothing is cached.
LoadErr(c) == Is(c, "loading") /\ Leave(c) /\ UNCHANGED spoiled

\* Whatever came of the fill, the loaded value is returned.
Filled(c) == Ready(c, "fill") /\ Leave(c) /\ UNCHANGED spoiled

-----------------------------------------------------------------------------
(* put, put_many, invalidate, invalidate_many, contains, get_many          *)

Forward(c) == Call(c, "forward", None) /\ Begin(c)

Forwarded(c) == Ready(c, "forward") /\ Leave(c) /\ UNCHANGED spoiled

-----------------------------------------------------------------------------
(* Tier calls and dropped futures                                          *)

\* History: keys that leave a writable tier, or that it displaces as they are
\* put.
Vanished(c) ==
    {k \in Keys : \E i \in Writable :
        /\ store'[i][k] = None
        /\ \/ store[i][k] # None
           \/ op[c].pc \in {"promote", "write"} /\ op[c].at = i /\ op[c].todo[1][1] = k}

\* History: a gated read is served by a read-only tier.
ServedCold(c) ==
    Is(c, "read") /\ op[c].pc = "probe" /\ op[c].tier \notin Writable
    /\ store[op[c].tier][flow[c].key] # None

TierOk(c) ==
    /\ ProbeOk(c) \/ PutOk(c) \/ RemoveOk(c)
    /\ spoiled' = spoiled \cup Vanished(c)
    /\ cold' = IF ServedCold(c) THEN Count(cold, flow[c].key) ELSE cold
    /\ UNCHANGED <<single_flight, holders, flow, loads>>

TierErr(c) ==
    /\ ProbeErr(c) \/ PutErr(c) \/ RemoveErr(c)
    /\ spoiled' = spoiled \cup Vanished(c) \cup ToSet(Targets(op[c]))
    /\ UNCHANGED <<single_flight, holders, flow, loads, cold>>

\* Mutant: the guard is not dropped with the future.
CancelKeepsGate(c) ==
    /\ config.drops
    /\ ~Is(c, "idle")
    /\ op' = [op EXCEPT ![c] = NoOperation]
    /\ flow' = [flow EXCEPT ![c] = At("idle", None)]
    /\ spoiled' = spoiled \cup ToSet(Targets(op[c]))
    /\ UNCHANGED <<config, store, latest, owed, torn, single_flight, holders, loads, cold>>

\* A future is dropped at an await, waiting for a gate, a tier or the loader.
CancelCall(c) ==
    /\ config.drops
    /\ ~Is(c, "idle")
    /\ Leave(c)
    /\ spoiled' = spoiled \cup ToSet(Targets(op[c]))

-----------------------------------------------------------------------------

\* What a call does on its own, once made: the loader returns, and a waiter
\* takes its gate when it is free.
Step(c) ==
    \/ TierOk(c) \/ TierErr(c)
    \/ LookupEnter(c) \/ LookupDone(c)
    \/ Probed(c) \/ LoadEnter(c) \/ Reprobed(c)
    \/ LoadOk(c) \/ LoadErr(c) \/ Filled(c)
    \/ Forwarded(c)

CacheNext ==
    \E c \in config.callers :
        \/ Step(c)
        \/ CancelCall(c)
        \/ Forward(c)
        \/ \E k \in config.keys : Lookup(c, k) \/ LookupUngated(c, k) \/ GetOrLoad(c, k)

CacheSpec == CacheInit /\ [][CacheNext]_cacheVars

CacheFairSpec == CacheSpec /\ \A c \in Clients : WF_cacheVars(Step(c))

-----------------------------------------------------------------------------
(* What the cache promises                                                 *)

(***************************************************************************)
(* get_or_load: "concurrent misses for one key share a single load -       *)
(* followers re-probe under the gate and reuse the leader's fill".  A key  *)
(* is loaded once, however many callers miss it and however their probes   *)
(* interleave with the leader's load and fill, until it is deleted,        *)
(* displaced, meets a failing tier, or a future working on it is dropped.  *)
(* (A stack of read-only tiers has nowhere to keep what is loaded.)        *)
(***************************************************************************)
LoadOnce ==
    single_flight /\ Writable # {} => \A k \in Keys \ spoiled : loads[k] <= 1

(***************************************************************************)
(* get, lookup: "never stampeding the cold tier".  Under a policy that     *)
(* promotes to a writable top, gated reads take a key from a read-only     *)
(* tier once: waiters enter after the promotion, not after the lower read. *)
(***************************************************************************)
ColdOnce ==
    single_flight /\ 0 \in Writable /\ config.policy.promote # "Never" =>
        \A k \in Keys \ spoiled : cold[k] <= 1

(***************************************************************************)
(* Gates are handed on: again and again nobody holds a key's gate, and a   *)
(* call that waits for it does not wait while the gate stays free.  A      *)
(* leader that fails, whatever its tiers and its loader return, or that is *)
(* dropped leaves no gate closed.                                          *)
(***************************************************************************)
Held(k) == \E c \in Clients : <<c, k>> \in holders

GatesHandedOn ==
    /\ \A k \in Keys : []<>~Held(k)
    /\ \A c \in Clients :
          flow[c].at \in Waiting ~> flow[c].at \notin Waiting \/ Held(flow[c].key)
=============================================================================
