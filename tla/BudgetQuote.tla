----------------------------- MODULE BudgetQuote -----------------------------
(***************************************************************************)
(* The composer announces how many more sessions of each size fit          *)
(* (ComputeRemainingBySize, shown by GET /terminals/session-options) and    *)
(* the gate judges the launches one by one (evaluateBudget).  The two are   *)
(* separate code over the same caps.  This module puts them beside each     *)
(* other in every state of the ledger, for every plan a caller of the       *)
(* scope may hold: one plan finds the scope half empty, another finds it    *)
(* overdrawn.                                                              *)
(***************************************************************************)
EXTENDS BudgetLedger

CONSTANTS
    Caps,        \* the caps a plan may carry on an axis; <= 0 is unlimited
    Catalog,     \* the [cpu, mem] footprints of the size catalogue
    Unlimited    \* budgetUnlimited, the sentinel of an uncapped axis

(* A size of the catalogue costs something on both axes, and no cap reaches *)
(* the sentinel (the largest 32-bit integer).                              *)
ASSUME QuoteAssumption ==
    /\ Unlimited \in Nat
    /\ \A cap \in Caps : cap \in Int /\ cap <= Unlimited
    /\ \A size \in Catalog : size.cpu \in Nat \ {0} /\ size.mem \in Nat \ {0}

Plans == [maxCPU : Caps, maxMem : Caps]

Scopes == {ScopeOf[x] : x \in Item}

Used(s) == Usage(ChargedTo(s), CPU, Mem)

(* What the scope would be charged after n launches of one size. *)
After(used, size, n) == [cpu |-> used.cpu + n * size.cpu, mem |-> used.mem + n * size.mem]

(* The launches that the gate grants one after the other before it refuses. *)
Granted(plan, used, size) ==
    CHOOSE n \in 0 .. Unlimited :
        /\ \A k \in 0 .. n - 1 : Allowed(plan, After(used, size, k), size)
        /\ n < Unlimited => ~Allowed(plan, After(used, size, n), size)

-----------------------------------------------------------------------------
(***************************************************************************)
(* The composer's announcement is exact: the gate grants precisely the      *)
(* number of sessions that was quoted, neither fewer (the learner was       *)
(* promised a session) nor more (the caps leak).                           *)
(***************************************************************************)
QuoteIsExact ==
    \A s \in Scopes, plan \in Plans, size \in Catalog :
        RemainingCount(plan, Used(s), size, Unlimited) = Granted(plan, Used(s), size)
=============================================================================
