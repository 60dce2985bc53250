------------------------------ MODULE MCBudget ------------------------------
(* Nine items: five in a pool with four different plans, four in another;   *)
(* the caps and sizes for which each state is quoted.                       *)
EXTENDS BudgetQuote

McItem == 1 .. 9
McScope == [x \in McItem |-> IF x <= 5 THEN "org" ELSE "user"]
McCPU == [x \in McItem |-> IF x \in {2, 5, 8} THEN 2 ELSE 1]
McMem == [x \in McItem |-> IF x \in {3, 6, 9} THEN 2 ELSE 1]
McPlan == [x \in McItem |->
              [maxCPU |-> IF x = 1 THEN 4 ELSE IF x = 4 THEN 0 ELSE IF x > 7 THEN 3 ELSE 2,
               maxMem |-> IF x = 4 THEN 3 ELSE IF x \in {6, 7} THEN 2 ELSE 0]]

McCaps == {-1, 0, 1, 3, 4, 6}

McCatalog == {[cpu |-> 1, mem |-> 1], [cpu |-> 1, mem |-> 2],
              [cpu |-> 2, mem |-> 1], [cpu |-> 3, mem |-> 2]}
=============================================================================
