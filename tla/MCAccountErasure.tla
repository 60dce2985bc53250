--------------------------- MODULE MCAccountErasure ---------------------------
(***************************************************************************)
(* A learner with a subscription of their own, a licence that a colleague   *)
(* bought for them, and one they bought for the colleague, with another     *)
(* Stripe customer.  The learner's account is deleted, by themselves and by *)
(* an administrator.                                                       *)
(***************************************************************************)
EXTENDS AccountErasure

CONSTANTS learner, colleague, own, given, bought,
          cusOwn, cusColleague, cusBulk, subOwn, subGiven, subBought,
          byLearner, byAdmin

McRow == [r \in {own, given, bought} |->
    CASE r = own    -> [user |-> learner, purchaser |-> None,
                        customer |-> cusOwn, sub |-> subOwn]
      [] r = given  -> [user |-> learner, purchaser |-> colleague,
                        customer |-> cusColleague, sub |-> subGiven]
      [] r = bought -> [user |-> colleague, purchaser |-> learner,
                        customer |-> cusBulk, sub |-> subBought]]

McAsked == [e \in Erasers |->
               [user |-> learner, admin |-> e = byAdmin]]
=============================================================================
