------------------------------ MODULE ReadFlow ------------------------------
(***************************************************************************)
(* The sans-io read flow (crates/tierstore-core/src/read.rs): the state    *)
(* machine that decides, for one read over a stack of tiers, which tier to *)
(* probe, where to promote a hit and how to classify the read.  A driver   *)
(* asks for the next step, executes it and reports what happened; the      *)
(* actions below are its two reports.                                      *)
(***************************************************************************)
EXTENDS Integers, Sequences

CONSTANT MaxTiers   \* bound on the number of tiers, for TLC

ASSUME MaxTiersAssumption == MaxTiers \in Nat

VARIABLES
    tiers,      \* number of tiers
    promote,    \* ReadPolicy.promote
    onError,    \* ReadPolicy.on_error
    errors,     \* failed probes so far
    state,      \* "Probe", "Promote", "Done"
    tier,       \* Probe: the tier to probe; then: the tier of the outcome
    next,       \* Promote: the tier to copy the hit into
    outcome,    \* Done: "Hit", "Miss", "Inconclusive", "Failed"
    answers,    \* history: the probes reported, in order
    copied      \* history: the promotions requested, in order

vars == <<tiers, promote, onError, errors, state, tier, next, outcome, answers, copied>>
policy == <<tiers, promote, onError>>

Probes == {"Hit", "Miss", "Error"}

TypeOK ==
    /\ tiers \in 0 .. MaxTiers
    /\ promote \in {"Never", "TopOnly", "AllAbove"}
    /\ onError \in {"FallThrough", "FailFast"}
    /\ errors \in 0 .. tiers
    /\ state \in {"Probe", "Promote", "Done"}
    /\ tier \in 0 .. tiers
    /\ next \in 0 .. tier
    /\ outcome \in {"none", "Hit", "Miss", "Inconclusive", "Failed"}
    /\ answers \in Seq(Probes)
    /\ copied \in Seq(Nat)

-----------------------------------------------------------------------------

Probing(t) ==
    /\ state' = "Probe" /\ tier' = t
    /\ UNCHANGED <<next, outcome>>

Promoting(t) ==
    /\ state' = "Promote" /\ next' = t
    /\ UNCHANGED <<tier, outcome>>

Finish(o) ==
    /\ state' = "Done" /\ outcome' = o
    /\ UNCHANGED <<tier, next>>

\* ReadFlow::new, for every stack and policy.
Init ==
    /\ tiers \in 0 .. MaxTiers
    /\ promote \in {"Never", "TopOnly", "AllAbove"}
    /\ onError \in {"FallThrough", "FailFast"}
    /\ errors = 0 /\ tier = 0 /\ next = 0
    /\ IF tiers = 0 THEN state = "Done" /\ outcome = "Miss"
                    ELSE state = "Probe" /\ outcome = "none"
    /\ answers = <<>> /\ copied = <<>>

\* Mutant: one tier too many.
AdvancePastEnd(e) ==
    \/ tier + 1 <= tiers /\ Probing(tier + 1)
    \/ tier + 1 > tiers /\ Finish(IF e > 0 THEN "Inconclusive" ELSE "Miss")

\* advance: the next tier down, or a miss - confirmed only without errors.
Advance(e) ==
    \/ tier + 1 < tiers /\ Probing(tier + 1)
    \/ tier + 1 >= tiers /\ Finish(IF e > 0 THEN "Inconclusive" ELSE "Miss")

AfterHit ==
    IF tier = 0 \/ promote = "Never" THEN Finish("Hit") ELSE Promoting(0)

\* Mutant: a tolerated failure is not counted.
OnGetUncounted(probe) ==
    /\ state = "Probe"
    /\ \/ probe = "Hit" /\ AfterHit
       \/ probe = "Miss" /\ Advance(errors)
       \/ probe = "Error" /\ onError = "FailFast" /\ Finish("Failed")
       \/ probe = "Error" /\ onError = "FallThrough" /\ Advance(errors)
    /\ answers' = Append(answers, probe)
    /\ UNCHANGED <<policy, errors, copied>>

OnGet(probe) ==
    /\ state = "Probe"
    /\ \/ probe = "Hit" /\ AfterHit /\ UNCHANGED errors
       \/ probe = "Miss" /\ Advance(errors) /\ UNCHANGED errors
       \/ probe = "Error" /\ onError = "FailFast" /\ Finish("Failed") /\ UNCHANGED errors
       \/ probe = "Error" /\ onError = "FallThrough"
          /\ errors' = errors + 1 /\ Advance(errors')
    /\ answers' = Append(answers, probe)
    /\ UNCHANGED <<policy, copied>>

\* Mutant: every policy fills one tier.
OnPromoteOnce ==
    /\ state = "Promote"
    /\ Finish("Hit")
    /\ copied' = Append(copied, next)
    /\ UNCHANGED <<policy, errors, answers>>

\* The hit goes to the top only, or to every tier above the one it was in.
OnPromote ==
    /\ state = "Promote"
    /\ IF promote = "TopOnly" \/ next + 1 = tier THEN Finish("Hit")
                                                 ELSE Promoting(next + 1)
    /\ copied' = Append(copied, next)
    /\ UNCHANGED <<policy, errors, answers>>

Next == (\E probe \in Probes : OnGet(probe)) \/ OnPromote

Spec == Init /\ [][Next]_vars

-----------------------------------------------------------------------------
(* What the outcome says about the probes: the reference.                  *)

AllNonHit(n) == \A m \in 1 .. n : answers[m] = "Miss" \/
                                 (answers[m] = "Error" /\ onError = "FallThrough")

HitReported ==
    /\ Len(answers) = tier + 1 /\ tier < tiers
    /\ answers[tier + 1] = "Hit" /\ AllNonHit(tier)

FailureReported ==
    /\ Len(answers) = tier + 1 /\ tier < tiers
    /\ answers[tier + 1] = "Error" /\ onError = "FailFast" /\ AllNonHit(tier)

Exhausted == Len(answers) = tiers /\ AllNonHit(tiers)

SomeError == \E m \in 1 .. Len(answers) : answers[m] = "Error"

(***************************************************************************)
(* The classification is right: a hit is the first tier that answers one   *)
(* after misses and tolerated failures only, a miss is confirmed by all    *)
(* tiers, an inconclusive read met a failure and no hit, and a failed one  *)
(* stops at the first failure.                                             *)
(***************************************************************************)
OutcomeIsHonest ==
    state = "Done" =>
        /\ outcome = "Hit" => HitReported
        /\ outcome = "Failed" => FailureReported
        /\ outcome = "Miss" => Exhausted /\ ~SomeError
        /\ outcome = "Inconclusive" => Exhausted /\ SomeError
        /\ outcome # "none"

\* The tiers above a hit that the policy fills, topmost first.
Above ==
    IF outcome # "Hit" \/ promote = "Never" THEN 0
    ELSE IF promote = "TopOnly" /\ tier > 0 THEN 1 ELSE tier

(***************************************************************************)
(* A finished read has promoted exactly as its policy says: a hit goes     *)
(* once into tiers 0, 1, ... above its own, and nothing else is promoted.  *)
(***************************************************************************)
PromotesPerPolicy ==
    state = "Done" => copied = [n \in 1 .. Above |-> n - 1]

(***************************************************************************)
(* A driver that follows the steps meets none of the panics of on_get and  *)
(* on_promote: it is asked to probe existing tiers only, and to promote    *)
(* only above the hit and never under Promote::Never.                      *)
(***************************************************************************)
StepsAreSane ==
    /\ state = "Probe" => tier < tiers
    /\ state = "Promote" => promote # "Never" /\ next < tier /\ tier < tiers
=============================================================================
