--------------------------- MODULE MCSubscriptions ---------------------------
(* One customer, one subscription to sell, two plans that only differ in name. *)
EXTENDS Subscriptions, TLC

CONSTANTS basic, pro

PlanSymmetry == Permutations(Plans)
=============================================================================
