-------------------------- MODULE MCPromotionGate --------------------------
(* Small instances of PromotionGate for TLC.                               *)
EXTENDS PromotionGate, TLC

MCNoSkew == [e \in Evaluations |-> 0]

\* One worker's clock is a tick ahead of the others.
MCFastClock == [e \in Evaluations |-> IF e = CHOOSE d \in Evaluations : TRUE THEN 1 ELSE 0]

MCSymmetry == Permutations(Handlers) \union Permutations(Services)
============================================================================
