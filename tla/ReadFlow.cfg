\* all policies, stacks of up to five tiers, all answers; a flow ends in Done
SPECIFICATION Spec
CHECK_DEADLOCK FALSE
CONSTANT MaxTiers = 5
INVARIANTS
    OutcomeIsHonest
    PromotesPerPolicy
    StepsAreSane
