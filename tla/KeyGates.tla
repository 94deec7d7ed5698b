------------------------------ MODULE KeyGates ------------------------------
(***************************************************************************)
(* What the single-flight gates promise (abstract): a task acquires a key  *)
(* that nobody holds, holds one key at a time and releases it.  The gates  *)
(* of SingleFlight implement it (SingleFlightProofs), and Cache uses it.   *)
(***************************************************************************)
CONSTANTS Tasks, Keys

VARIABLE holders    \* the pairs of a task and the key it holds

Init == holders = {}

Acquire(t, k) ==
    /\ \A h \in holders : h[1] # t /\ h[2] # k
    /\ holders' = holders \cup {<<t, k>>}

Release(t) ==
    /\ \E k \in Keys : <<t, k>> \in holders
    /\ holders' = {h \in holders : h[1] # t}

Next == \E t \in Tasks : Release(t) \/ \E k \in Keys : Acquire(t, k)

Spec == Init /\ [][Next]_holders
=============================================================================
