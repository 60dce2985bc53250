---------------------------- MODULE BudgetEngine ----------------------------
(***************************************************************************)
(* The pure half of the CPU/RAM budget engine of                           *)
(* payment/services/quotaService.go: how the capacity charged to a scope   *)
(* is totalled, how a request is judged against the caps of a plan, and    *)
(* how many more sessions of a size the composer announces.                *)
(*                                                                         *)
(* A footprint is a record [cpu, mem]; a plan carries maxCPU and maxMem,   *)
(* and a cap of zero or less means that the axis is unlimited.             *)
(***************************************************************************)
EXTENDS Integers, FiniteSets

(***************************************************************************)
(* The total cost of the elements of S.  It is counted as a number of      *)
(* (element, unit) pairs, a finite union of disjoint blocks: a sum whose   *)
(* laws follow from those of Cardinality.                                  *)
(***************************************************************************)
Units(S, cost) == UNION {{x} \X (1 .. cost[x]) : x \in S}

Total(S, cost) == Cardinality(Units(S, cost))

(* lockAndSumActiveResources: the footprint of a set of rows, on both axes. *)
Usage(S, cpu, mem) == [cpu |-> Total(S, cpu), mem |-> Total(S, mem)]

-----------------------------------------------------------------------------
(* Faulty variant: the usage is judged without the request. *)
ExceedsBefore(cap, used, req) == cap > 0 /\ cap - used < 0

(* One axis of evaluateBudget: a cap of zero or less never rejects. *)
Exceeds(cap, used, req) == cap > 0 /\ cap - used - req < 0

(* What an axis has left, never below zero; Unlimited for a cap <= 0. *)
Remaining(cap, used, unlimited) ==
    IF cap <= 0 THEN unlimited
    ELSE IF cap < used THEN 0 ELSE cap - used

Reason(plan, used, req) ==
    IF Exceeds(plan.maxCPU, used.cpu, req.cpu) THEN "budget_cpu_exceeded"
    ELSE IF Exceeds(plan.maxMem, used.mem, req.mem) THEN "budget_memory_exceeded"
    ELSE ""

Allowed(plan, used, req) == Reason(plan, used, req) = ""

(* Faulty variant: the memory axis is forgotten. *)
RemainingCountByCPU(plan, used, size, unlimited) ==
    IF plan.maxCPU <= 0 THEN unlimited
    ELSE Remaining(plan.maxCPU, used.cpu, unlimited) \div size.cpu

(***************************************************************************)
(* ComputeRemainingBySize for one size of the catalogue: the division of    *)
(* what is left on each capped axis, and the smaller of the two.           *)
(***************************************************************************)
RemainingCount(plan, used, size, unlimited) ==
    LET along(cap, u, need) ==
            IF cap <= 0 \/ need = 0 THEN unlimited
            ELSE Remaining(cap, u, unlimited) \div need
        byCPU == along(plan.maxCPU, used.cpu, size.cpu)
        byMem == along(plan.maxMem, used.mem, size.mem)
    IN  IF byCPU < byMem THEN byCPU ELSE byMem
=============================================================================
