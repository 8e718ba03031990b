----------------------- MODULE MCProtocolSubscription -----------------------
(* Instances of ProtocolSubscription for TLC. *)
EXTENDS ProtocolSubscription, TLC

CONSTANTS r1, p1, p2

OneRelay == {r1}
OnePlan == {p1}
TwoPlans == {p1, p2}

PlanSymmetry == Permutations({p1, p2})
=============================================================================
