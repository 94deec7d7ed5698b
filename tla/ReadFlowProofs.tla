--------------------------- MODULE ReadFlowProofs ---------------------------
(***************************************************************************)
(* The read flow classifies, promotes and steps correctly, for stacks of   *)
(* any number of tiers and every policy.                                   *)
(***************************************************************************)
EXTENDS ReadFlow, TLAPS

\* Every tier above the probed one has answered and none with a hit.
ProbeInv ==
    state = "Probe" =>
        /\ tier < tiers /\ Len(answers) = tier /\ AllNonHit(tier)
        /\ errors <= tier /\ (errors > 0 <=> SomeError)
        /\ next = 0 /\ copied = <<>>

\* The hit has been copied into the tiers above `next', topmost first.
PromoteInv ==
    state = "Promote" =>
        /\ tier < tiers /\ HitReported
        /\ promote # "Never" /\ next < tier
        /\ promote = "TopOnly" => next = 0
        /\ copied = [n \in 1 .. next |-> n - 1]

(***************************************************************************)
(* The inductive invariant: what is known while probing becomes the        *)
(* classification, what is known while promoting the list of promotions.   *)
(***************************************************************************)
IInv ==
    /\ TypeOK
    /\ ProbeInv
    /\ PromoteInv
    /\ OutcomeIsHonest
    /\ PromotesPerPolicy

-----------------------------------------------------------------------------

\* A new flow: nothing is answered; without tiers it is a confirmed miss.
LEMMA InitIInv == Init => IInv
  <1> SUFFICES ASSUME Init PROVE IInv
    OBVIOUS
  <1> USE MaxTiersAssumption DEF Init
  <1>1. TypeOK
    BY DEF TypeOK
  <1>2. ProbeInv /\ PromoteInv /\ OutcomeIsHonest
    BY DEF ProbeInv, PromoteInv, OutcomeIsHonest, AllNonHit, SomeError, Exhausted
  <1>3. PromotesPerPolicy
    BY DEF PromotesPerPolicy, Above
  <1> QED
    BY <1>1, <1>2, <1>3 DEF IInv

\* What appending an answer does to the list.
LEMMA AppendAnswer ==
    ASSUME TypeOK, NEW p \in Probes, answers' = Append(answers, p)
    PROVE  /\ answers' \in Seq(Probes)
           /\ Len(answers') = Len(answers) + 1
           /\ answers'[Len(answers) + 1] = p
           /\ \A m \in 1 .. Len(answers) : answers'[m] = answers[m]
  BY DEF TypeOK

\* A probe that answers a hit ends the probing.
LEMMA HitStep ==
    ASSUME IInv, state = "Probe", AfterHit,
           answers' = Append(answers, "Hit"), UNCHANGED <<policy, errors, copied>>
    PROVE  IInv'
  <1> USE MaxTiersAssumption DEF IInv, policy
  <1>1. /\ answers' \in Seq(Probes) /\ Len(answers') = tier + 1
        /\ answers'[tier + 1] = "Hit"
        /\ \A m \in 1 .. tier : answers'[m] = answers[m]
    BY AppendAnswer DEF Probes, ProbeInv
  <1>2. tier' = tier /\ HitReported'
    BY <1>1 DEF AfterHit, Finish, Promoting, HitReported, AllNonHit, ProbeInv, TypeOK
  <1>3. TypeOK'
    BY <1>1 DEF AfterHit, Finish, Promoting, TypeOK, ProbeInv
  <1>4. ProbeInv' /\ OutcomeIsHonest'
    BY <1>2 DEF AfterHit, Finish, Promoting, ProbeInv, OutcomeIsHonest
  <1>5. PromoteInv' /\ PromotesPerPolicy'
    <2>1. CASE tier = 0 \/ promote = "Never"
      <3>1. copied' = <<>> /\ Above' = 0 /\ state' = "Done"
        BY <2>1 DEF AfterHit, Finish, ProbeInv, Above, TypeOK
      <3> QED
        BY <3>1 DEF PromoteInv, PromotesPerPolicy
    <2>2. CASE ~(tier = 0 \/ promote = "Never")
      <3>1. state' = "Promote" /\ next' = 0 /\ copied' = <<>>
        BY <2>2 DEF AfterHit, Promoting, ProbeInv
      <3> QED
        BY <1>2, <2>2, <3>1 DEF PromoteInv, PromotesPerPolicy, ProbeInv, TypeOK
    <2> QED
      BY <2>1, <2>2
  <1> QED
    BY <1>3, <1>4, <1>5

\* A miss or a tolerated failure moves on, or ends in the right miss.
LEMMA AdvanceStep ==
    ASSUME IInv, state = "Probe", NEW p \in {"Miss", "Error"},
           p = "Error" => onError = "FallThrough",
           errors' = (IF p = "Error" THEN errors + 1 ELSE errors),
           Advance(errors'),
           answers' = Append(answers, p), UNCHANGED <<policy, copied>>
    PROVE  IInv'
  <1> USE MaxTiersAssumption DEF IInv, policy
  <1>1. /\ answers' \in Seq(Probes) /\ Len(answers') = tier + 1
        /\ answers'[tier + 1] = p
        /\ \A m \in 1 .. tier : answers'[m] = answers[m]
    BY AppendAnswer DEF Probes, ProbeInv
  <1>2. \A m \in 1 .. tier + 1 :
           answers'[m] = "Miss" \/ (answers'[m] = "Error" /\ onError' = "FallThrough")
    BY <1>1 DEF AllNonHit, ProbeInv, TypeOK
  <1>3. errors' > 0 <=> SomeError'
    BY <1>1 DEF SomeError, ProbeInv, TypeOK
  <1>4. errors' \in 0 .. tier + 1
    BY DEF TypeOK, ProbeInv
  <1>5. CASE tier + 1 < tiers /\ Probing(tier + 1)
    <2>1. ProbeInv'
      BY <1>1, <1>2, <1>3, <1>4, <1>5 DEF Probing, ProbeInv, AllNonHit, TypeOK
    <2>2. TypeOK'
      BY <1>1, <1>4, <1>5 DEF Probing, ProbeInv, TypeOK
    <2> QED
      BY <1>5, <2>1, <2>2 DEF Probing, PromoteInv, OutcomeIsHonest, PromotesPerPolicy
  <1>6. CASE tier + 1 >= tiers /\ Finish(IF errors' > 0 THEN "Inconclusive" ELSE "Miss")
    <2>1. tier + 1 = tiers
      BY <1>6 DEF ProbeInv, TypeOK
    <2>2. state' = "Done" /\ Exhausted'
      BY <1>1, <1>2, <1>6, <2>1 DEF Finish, Exhausted, AllNonHit
    <2>3. OutcomeIsHonest' /\ ProbeInv' /\ PromoteInv'
      BY <1>3, <1>6, <2>2 DEF Finish, OutcomeIsHonest, ProbeInv, PromoteInv
    <2>4. PromotesPerPolicy'
      BY <1>6, <2>2 DEF Finish, PromotesPerPolicy, Above, ProbeInv
    <2>5. TypeOK'
      BY <1>1, <1>4, <1>6, <2>1 DEF Finish, TypeOK, ProbeInv
    <2> QED
      BY <2>3, <2>4, <2>5
  <1> QED
    BY <1>5, <1>6 DEF Advance

\* A failure under FailFast ends the read as failed.
LEMMA FailStep ==
    ASSUME IInv, state = "Probe", onError = "FailFast", Finish("Failed"),
           answers' = Append(answers, "Error"), UNCHANGED <<policy, errors, copied>>
    PROVE  IInv'
  <1> USE MaxTiersAssumption DEF IInv, policy
  <1>1. /\ answers' \in Seq(Probes) /\ Len(answers') = tier + 1
        /\ answers'[tier + 1] = "Error"
        /\ \A m \in 1 .. tier : answers'[m] = answers[m]
    BY AppendAnswer DEF Probes, ProbeInv
  <1>2. state' = "Done" /\ FailureReported'
    BY <1>1 DEF Finish, FailureReported, AllNonHit, ProbeInv, TypeOK
  <1>3. TypeOK'
    BY <1>1 DEF Finish, TypeOK, ProbeInv
  <1>4. ProbeInv' /\ PromoteInv' /\ OutcomeIsHonest'
    BY <1>2 DEF Finish, ProbeInv, PromoteInv, OutcomeIsHonest
  <1>5. PromotesPerPolicy'
    BY <1>2 DEF Finish, PromotesPerPolicy, Above, ProbeInv
  <1> QED
    BY <1>3, <1>4, <1>5

\* A promotion extends the list of promotions and ends the read when the
\* tiers that the policy fills are filled.
LEMMA PromoteStep ==
    ASSUME IInv, OnPromote
    PROVE  IInv'
  <1> USE MaxTiersAssumption DEF IInv, policy
  <1>1. state = "Promote" /\ tier' = tier /\ UNCHANGED <<policy, errors, answers>>
    BY DEF OnPromote, Finish, Promoting
  <1>2. copied' = [n \in 1 .. next + 1 |-> n - 1]
    <2>1. /\ copied' \in Seq(Nat) /\ Len(copied) = next /\ Len(copied') = next + 1
          /\ copied'[next + 1] = next
          /\ \A n \in 1 .. next : copied'[n] = copied[n]
      BY <1>1 DEF OnPromote, PromoteInv, TypeOK
    <2>2. \A n \in 1 .. next + 1 : copied'[n] = n - 1
      BY <1>1, <2>1 DEF PromoteInv, TypeOK
    <2>3. DOMAIN copied' = 1 .. next + 1 /\ copied' = [n \in DOMAIN copied' |-> copied'[n]]
      BY <2>1
    <2> QED
      BY <2>2, <2>3
  <1>3. HitReported'
    BY <1>1 DEF PromoteInv, HitReported, AllNonHit
  <1>4. copied' \in Seq(Nat)
    BY DEF OnPromote, TypeOK
  <1>5. CASE promote = "TopOnly" \/ next + 1 = tier
    <2>1. Finish("Hit")
      BY <1>5 DEF OnPromote
    <2>2. Above' = next + 1
      BY <1>1, <1>5, <2>1 DEF Finish, Above, PromoteInv, TypeOK
    <2>3. TypeOK'
      BY <1>1, <1>4, <2>1 DEF Finish, TypeOK
    <2>4. PromotesPerPolicy'
      BY <1>2, <2>2 DEF PromotesPerPolicy
    <2> QED
      BY <1>3, <2>1, <2>3, <2>4 DEF Finish, ProbeInv, PromoteInv, OutcomeIsHonest
  <1>6. CASE ~(promote = "TopOnly" \/ next + 1 = tier)
    <2>1. Promoting(next + 1)
      BY <1>6 DEF OnPromote
    <2>2. TypeOK'
      BY <1>1, <1>4, <1>6, <2>1 DEF Promoting, TypeOK, PromoteInv
    <2>3. PromoteInv'
      BY <1>1, <1>2, <1>3, <1>6, <2>1 DEF Promoting, PromoteInv, TypeOK
    <2> QED
      BY <2>1, <2>2, <2>3 DEF Promoting, ProbeInv, OutcomeIsHonest, PromotesPerPolicy
  <1> QED
    BY <1>5, <1>6

\* IInv is an invariant of the flow.
THEOREM IInvAlways == Spec => []IInv
  <1>1. ASSUME IInv, [Next]_vars PROVE IInv'
    <2>1. ASSUME NEW probe \in Probes, OnGet(probe) PROVE IInv'
      <3>1. CASE probe = "Hit"
        BY <1>1, <2>1, <3>1, HitStep DEF OnGet
      <3>2. CASE probe = "Miss"
        BY <1>1, <2>1, <3>2, AdvanceStep DEF OnGet
      <3>3. CASE probe = "Error" /\ onError = "FailFast"
        BY <1>1, <2>1, <3>3, FailStep DEF OnGet
      <3>4. CASE probe = "Error" /\ onError = "FallThrough"
        BY <1>1, <2>1, <3>4, AdvanceStep DEF OnGet
      <3> QED
        BY <1>1, <2>1, <3>1, <3>2, <3>3, <3>4 DEF Probes, IInv, TypeOK
    <2>2. CASE OnPromote
      BY <1>1, <2>2, PromoteStep
    <2>3. CASE UNCHANGED vars
      BY <1>1, <2>3
      DEF vars, IInv, TypeOK, ProbeInv, PromoteInv, OutcomeIsHonest, PromotesPerPolicy,
          HitReported, FailureReported, Exhausted, SomeError, AllNonHit, Above
    <2> QED
      BY <1>1, <2>1, <2>2, <2>3 DEF Next
  <1> QED
    BY InitIInv, <1>1, PTL DEF Spec

\* Type correctness of the read flow.
THEOREM TypeCorrect == Spec => []TypeOK
  <1>1. IInv => TypeOK
    BY DEF IInv
  <1> QED
    BY IInvAlways, <1>1, PTL

\* Hit, miss, inconclusive and failed mean what they say of the probes,
\* whatever the stack and the policy.
THEOREM ClassificationCorrect == Spec => []OutcomeIsHonest
  <1>1. IInv => OutcomeIsHonest
    BY DEF IInv
  <1> QED
    BY IInvAlways, <1>1, PTL

\* A finished read has promoted into exactly the tiers its policy names.
THEOREM PromotionCorrect == Spec => []PromotesPerPolicy
  <1>1. IInv => PromotesPerPolicy
    BY DEF IInv
  <1> QED
    BY IInvAlways, <1>1, PTL

\* A driver of the flow never meets its panics.
THEOREM DriverIsSafe == Spec => []StepsAreSane
  <1>1. IInv => StepsAreSane
    BY DEF IInv, ProbeInv, PromoteInv, StepsAreSane
  <1> QED
    BY IInvAlways, <1>1, PTL
=============================================================================
