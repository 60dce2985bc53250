---------------------------- MODULE BudgetLedger ----------------------------
(***************************************************************************)
(* What the reserve-first protocol promises: admission to a budget scope is *)
(* a single atomic decision.  An item is charged only when it fits beside   *)
(* everything charged through the same scope at that instant, and charges   *)
(* can otherwise only be dropped.                                          *)
(***************************************************************************)
EXTENDS BudgetEngine

CONSTANTS
    Item,        \* the rows that can be charged
    ScopeOf,     \* the budget scope an item is charged to
    PlanOf,      \* the [maxCPU, maxMem] caps that judge an item
    CPU, Mem     \* the footprint of an item

ASSUME LedgerAssumption ==
    /\ CPU \in [Item -> Nat] /\ Mem \in [Item -> Nat]
    /\ PlanOf \in [Item -> [maxCPU : Int, maxMem : Int]]

VARIABLE charged

ChargedTo(s) == {x \in charged : ScopeOf[x] = s}

Fits(x) ==
    Allowed(PlanOf[x], Usage(ChargedTo(ScopeOf[x]), CPU, Mem),
            [cpu |-> CPU[x], mem |-> Mem[x]])

Init == charged = {}

Admit(x) ==
    /\ x \notin charged
    /\ Fits(x)
    /\ charged' = charged \cup {x}

Drop == charged' \in SUBSET charged

Next == Drop \/ \E x \in Item : Admit(x)

Spec == Init /\ [][Next]_charged

-----------------------------------------------------------------------------
(* The items of S fit in the caps of the plan that judged x. *)
Within(x, S) ==
    /\ PlanOf[x].maxCPU > 0 => Total(S, CPU) <= PlanOf[x].maxCPU
    /\ PlanOf[x].maxMem > 0 => Total(S, Mem) <= PlanOf[x].maxMem

(***************************************************************************)
(* Members of one scope may hold plans with different caps.  What a scope   *)
(* is charged never exceeds the caps of all of them: it fits in those of a  *)
(* plan that admitted one of the items, on both axes at once.              *)
(***************************************************************************)
WithinCap ==
    \A x \in charged :
        LET pool == ChargedTo(ScopeOf[x]) IN \E y \in pool : Within(y, pool)

(***************************************************************************)
(* WithinCap is not inductive: the most generous item may be the one that   *)
(* is dropped.  Every part of a scope's charges is within a cap of its own, *)
(* that of the item of the part that was admitted last.                    *)
(***************************************************************************)
EveryPartWithin ==
    \A T \in SUBSET charged :
        (T # {} /\ \A x, y \in T : ScopeOf[x] = ScopeOf[y]) =>
            \E y \in T : Within(y, T)

TypeOK == charged \in SUBSET Item /\ IsFiniteSet(charged)
=============================================================================
