---------------------------- MODULE RulesProofs ----------------------------
(***************************************************************************)
(* The pure rules.  The laws of Total, the sum in which budgets are counted; *)
(* the ledger keeps every scope within a cap; the quote is what the gate    *)
(* grants; and what a sync pass makes of a row: for any items, scopes,      *)
(* plans, sizes, rows and entries.                                         *)
(***************************************************************************)
EXTENDS BudgetQuote, TerminalReconcile, FiniteSetTheorems, TLAPS

(* A finite set of items has finitely many units of capacity. *)
LEMMA UnitsFinite ==
    ASSUME NEW S, IsFiniteSet(S), NEW cost, \A x \in S : cost[x] \in Nat
    PROVE  IsFiniteSet(Units(S, cost))
<1> DEFINE Block(x) == {x} \X (1 .. cost[x])
           Blocks == {Block(x) : x \in S}
           f == [x \in S |-> Block(x)]
<1>1. f \in Surjection(S, Blocks)
  BY DEF Surjection
<1>2. IsFiniteSet(Blocks)
  <2> HIDE DEF f, Blocks
  <2> QED BY <1>1, FS_Surjection
<1>3. \A x \in S : IsFiniteSet(Block(x))
  <2> SUFFICES ASSUME NEW x \in S PROVE IsFiniteSet(Block(x))
    OBVIOUS
  <2>1. IsFiniteSet(1 .. cost[x])
    BY FS_Interval
  <2>2. IsFiniteSet({x})
    BY FS_Singleton
  <2> QED BY <2>1, <2>2, FS_Product
<1>4. \A B \in Blocks : IsFiniteSet(B)
  BY <1>3
<1>5. IsFiniteSet(UNION Blocks)
  <2> HIDE DEF Blocks
  <2> QED BY <1>2, <1>4, FS_UNION
<1> QED BY <1>5 DEF Units

(* A total is a natural number, and dropping items never raises it. *)
LEMMA TotalMonotone ==
    ASSUME NEW S, IsFiniteSet(S), NEW cost, \A x \in S : cost[x] \in Nat,
           NEW T \in SUBSET S
    PROVE  /\ Total(S, cost) \in Nat /\ Total(T, cost) \in Nat
           /\ Total(T, cost) <= Total(S, cost)
<1>1. IsFiniteSet(Units(S, cost))
  BY UnitsFinite
<1>2. Units(T, cost) \in SUBSET Units(S, cost)
  BY DEF Units
<1>3. /\ IsFiniteSet(Units(T, cost))
      /\ Cardinality(Units(T, cost)) <= Cardinality(Units(S, cost))
  BY <1>1, <1>2, FS_Subset
<1> QED BY <1>1, <1>3, FS_CardinalityType DEF Total

(* One more item adds at most its cost. *)
LEMMA TotalAdd ==
    ASSUME NEW S, IsFiniteSet(S), NEW x, NEW cost,
           \A y \in S \cup {x} : cost[y] \in Nat
    PROVE  Total(S \cup {x}, cost) <= Total(S, cost) + cost[x]
<1> DEFINE A == Units(S, cost)
           B == {x} \X (1 .. cost[x])
<1>1. Units(S \cup {x}, cost) = A \cup B
  BY DEF Units
<1>2. IsFiniteSet(A)
  BY UnitsFinite
<1>a. cost[x] \in Nat
  OBVIOUS
<1>3. IsFiniteSet(B) /\ Cardinality(B) = cost[x]
  <2> HIDE DEF A
  <2>1. IsFiniteSet(1 .. cost[x]) /\ Cardinality(1 .. cost[x]) = cost[x]
    BY <1>a, FS_Interval
  <2>2. IsFiniteSet({x}) /\ Cardinality({x}) = 1
    BY FS_Singleton
  <2>3. /\ IsFiniteSet({x} \X (1 .. cost[x]))
        /\ Cardinality({x} \X (1 .. cost[x])) = Cardinality({x}) * Cardinality(1 .. cost[x])
    <3> HIDE DEF B
    <3> QED BY <2>1, <2>2, FS_Product
  <2> QED BY <1>a, <2>1, <2>2, <2>3
<1>4. IsFiniteSet(A \cap B) /\ Cardinality(A \cap B) \in Nat
  BY <1>2, FS_Intersection, FS_CardinalityType
<1>5. Cardinality(A) \in Nat
  BY <1>2, FS_CardinalityType
<1>6. Cardinality(A \cup B) = Cardinality(A) + Cardinality(B) - Cardinality(A \cap B)
  BY <1>2, <1>3, FS_Union
<1>7. Cardinality(A \cup B) <= Cardinality(A) + cost[x]
  <2> HIDE DEF A, B
  <2> QED BY <1>a, <1>3, <1>4, <1>5, <1>6
<1> QED BY <1>1, <1>7 DEF Total

-----------------------------------------------------------------------------
(* The charged items are finitely many items. *)
THEOREM LedgerTyped == Spec => []TypeOK
<1>1. Init => TypeOK
  BY FS_EmptySet DEF Init, TypeOK
<1>2. TypeOK /\ [Next]_charged => TypeOK'
  <2> SUFFICES ASSUME TypeOK, [Next]_charged PROVE TypeOK'
    OBVIOUS
  <2>1. CASE Drop
    BY <2>1, FS_Subset DEF Drop, TypeOK
  <2>2. ASSUME NEW x \in Item, Admit(x) PROVE TypeOK'
    BY <2>2, FS_AddElement DEF Admit, TypeOK
  <2>3. CASE UNCHANGED charged
    BY <2>3 DEF TypeOK
  <2> QED BY <2>1, <2>2, <2>3 DEF Next
<1> QED BY <1>1, <1>2, PTL DEF Spec

(* An item that fits beside a pool is within its own caps with the pool. *)
LEMMA FitsWithin ==
    ASSUME TypeOK, NEW x \in Item, Fits(x)
    PROVE  Within(x, ChargedTo(ScopeOf[x]) \cup {x})
<1> DEFINE pool == ChargedTo(ScopeOf[x])
<1>1. pool \in SUBSET Item /\ IsFiniteSet(pool)
  BY FS_Subset DEF TypeOK, ChargedTo
<1>2. \A y \in pool \cup {x} : CPU[y] \in Nat /\ Mem[y] \in Nat
  BY <1>1, LedgerAssumption
<1> HIDE DEF pool
<1>3. /\ Total(pool, CPU) \in Nat /\ Total(pool, Mem) \in Nat
      /\ Total(pool \cup {x}, CPU) <= Total(pool, CPU) + CPU[x]
      /\ Total(pool \cup {x}, Mem) <= Total(pool, Mem) + Mem[x]
  BY <1>1, <1>2, TotalAdd, TotalMonotone
<1>4. IsFiniteSet(pool \cup {x})
  BY <1>1, FS_AddElement
<1>5. Total(pool \cup {x}, CPU) \in Nat /\ Total(pool \cup {x}, Mem) \in Nat
  BY <1>2, <1>4, TotalMonotone
<1>6. /\ ~Exceeds(PlanOf[x].maxCPU, Total(pool, CPU), CPU[x])
      /\ ~Exceeds(PlanOf[x].maxMem, Total(pool, Mem), Mem[x])
  BY DEF Fits, Allowed, Reason, Usage, pool
<1>7. PlanOf[x].maxCPU \in Int /\ PlanOf[x].maxMem \in Int
  BY LedgerAssumption
<1>8. CPU[x] \in Nat /\ Mem[x] \in Nat
  BY LedgerAssumption
<1>9. Within(x, pool \cup {x})
  BY <1>3, <1>5, <1>6, <1>7, <1>8 DEF Exceeds, Within
<1> QED BY <1>9 DEF pool

(* What is within the caps of x stays so when items are dropped. *)
LEMMA WithinShrinks ==
    ASSUME NEW S \in SUBSET Item, IsFiniteSet(S), NEW x \in Item, Within(x, S),
           NEW T \in SUBSET S
    PROVE  Within(x, T)
<1>1. \A y \in S : CPU[y] \in Nat /\ Mem[y] \in Nat
  BY LedgerAssumption
<1>2. /\ Total(S, CPU) \in Nat /\ Total(T, CPU) \in Nat
      /\ Total(S, Mem) \in Nat /\ Total(T, Mem) \in Nat
      /\ Total(T, CPU) <= Total(S, CPU) /\ Total(T, Mem) <= Total(S, Mem)
  BY <1>1, TotalMonotone
<1>3. PlanOf[x].maxCPU \in Int /\ PlanOf[x].maxMem \in Int
  BY LedgerAssumption
<1> QED BY <1>2, <1>3 DEF Within

(* Every part of what a scope is charged is within a cap: by induction on   *)
(* the steps, an admission covering the parts that hold the new item.      *)
THEOREM PartsWithin == Spec => []EveryPartWithin
<1>1. Init => EveryPartWithin
  BY DEF Init, EveryPartWithin
<1>2. TypeOK /\ EveryPartWithin /\ [Next]_charged => EveryPartWithin'
  <2> SUFFICES ASSUME TypeOK, EveryPartWithin, [Next]_charged,
                      NEW T \in SUBSET charged', T # {},
                      \A x, y \in T : ScopeOf[x] = ScopeOf[y]
               PROVE  \E y \in T : Within(y, T)
    BY DEF EveryPartWithin, Within
  <2>1. CASE T \in SUBSET charged
    BY <2>1 DEF EveryPartWithin
  <2>2. CASE T \notin SUBSET charged
    <3>1. PICK x \in Item : Admit(x)
      BY <2>2 DEF Next, Drop
    <3>2. x \in T
      BY <2>2, <3>1 DEF Admit
    <3> DEFINE S == ChargedTo(ScopeOf[x]) \cup {x}
    <3>3. S \in SUBSET Item /\ IsFiniteSet(S)
      BY FS_Subset, FS_AddElement DEF TypeOK, ChargedTo
    <3>4. T \in SUBSET S
      BY <3>1, <3>2 DEF Admit, ChargedTo
    <3>5. Within(x, S)
      BY <3>1, FitsWithin DEF Admit
    <3> HIDE DEF S
    <3> QED BY <3>2, <3>3, <3>4, <3>5, WithinShrinks
  <2> QED BY <2>1, <2>2
<1> QED BY <1>1, <1>2, LedgerTyped, PTL DEF Spec

(* Every scope is within the caps of a plan that admitted to it. *)
THEOREM ScopesWithinCap == Spec => []WithinCap
<1>1. EveryPartWithin => WithinCap
  BY DEF EveryPartWithin, WithinCap, ChargedTo
<1> QED BY <1>1, PartsWithin, PTL

-----------------------------------------------------------------------------
(***************************************************************************)
(* The quote.  On one axis the gate grants launch after launch as long as   *)
(* what is left divided by the need has not been reached (AxisGrants); with *)
(* the smaller of the two axes, the gate grants launch number k exactly     *)
(* when k is less than the quote (GateGrants), and no other number has that *)
(* property.                                                               *)
(***************************************************************************)
LEMMA TimesMonotone ==
    ASSUME NEW a \in Nat, NEW b \in Nat, NEW c \in Nat, a <= b
    PROVE  a * c <= b * c
OBVIOUS

(* What a division gives. *)
LEMMA Quotient ==
    ASSUME NEW r \in Nat, NEW need \in Nat \ {0}
    PROVE  /\ r \div need \in Nat /\ r \div need <= r
           /\ (r \div need) * need <= r
           /\ r < (r \div need + 1) * need
<1>1. r \div need \in Nat
  OBVIOUS
<1>2. (r \div need) * need <= r
  OBVIOUS
<1>3. r < (r \div need + 1) * need
  OBVIOUS
<1>4. r \div need <= r
  OBVIOUS
<1> QED BY <1>1, <1>2, <1>3, <1>4

(* How many needs fit in what is left. *)
LEMMA FitsIn ==
    ASSUME NEW r \in Nat, NEW need \in Nat \ {0}, NEW k \in Nat
    PROVE  k * need + need <= r <=> k < r \div need
<1> DEFINE q == r \div need
<1>1. q \in Nat /\ q * need <= r /\ r < (q + 1) * need
  BY Quotient
<1> HIDE DEF q
<1>2. k * need + need = (k + 1) * need
  OBVIOUS
<1>3. CASE k < q
  <2>1. (k + 1) * need <= q * need
    BY <1>1, <1>3, TimesMonotone
  <2> QED BY <2>1, <1>1, <1>2, <1>3
<1>4. CASE q <= k
  <2>1. (q + 1) * need <= (k + 1) * need
    BY <1>1, <1>4, TimesMonotone
  <2> QED BY <2>1, <1>1, <1>2, <1>4
<1> QED BY <1>1, <1>3, <1>4 DEF q

(* RemainingCount along one axis. *)
Along(cap, u, need) ==
    IF cap <= 0 \/ need = 0 THEN Unlimited ELSE Remaining(cap, u, Unlimited) \div need

(* One axis rejects the launch number k when the quote of the axis is k or less. *)
LEMMA AxisGrants ==
    ASSUME NEW cap \in Caps, NEW u \in Nat, NEW need \in Nat \ {0}
    PROVE  /\ Along(cap, u, need) \in 0 .. Unlimited
           /\ \A k \in 0 .. Unlimited - 1 :
                 ~Exceeds(cap, u + k * need, need) <=> k < Along(cap, u, need)
<1>1. Unlimited \in Nat /\ cap \in Int /\ cap <= Unlimited
  BY QuoteAssumption
<1>2. CASE cap <= 0
  BY <1>1, <1>2 DEF Along, Exceeds
<1>3. CASE cap > 0
  <2> DEFINE left == Remaining(cap, u, Unlimited)
  <2>1. left \in Nat /\ left <= cap /\ (cap < u => left = 0) /\ (u <= cap => left = cap - u)
    BY <1>1, <1>3 DEF Remaining
  <2> HIDE DEF left
  <2>2. Along(cap, u, need) = left \div need
    BY <1>1, <1>3 DEF Along, left
  <2>3. left \div need \in 0 .. Unlimited
    <3>1. left \div need \in Nat /\ left \div need <= left
      BY <2>1, Quotient
    <3> QED BY <1>1, <2>1, <3>1
  <2>4. ASSUME NEW k \in 0 .. Unlimited - 1
        PROVE  ~Exceeds(cap, u + k * need, need) <=> k < left \div need
    <3>1. PICK past \in Nat : past = k * need
      OBVIOUS
    <3>2. ~Exceeds(cap, u + k * need, need) <=> past + need <= left
      BY <1>1, <1>3, <2>1, <3>1 DEF Exceeds
    <3>3. k * need + need <= left <=> k < left \div need
      BY <2>1, FitsIn
    <3> QED BY <3>1, <3>2, <3>3
  <2> QED BY <2>2, <2>3, <2>4
<1> QED BY <1>1, <1>2, <1>3

(* The gate grants as many launches as were quoted, and no more. *)
LEMMA GateGrants ==
    ASSUME NEW plan \in Plans, NEW u \in [cpu : Nat, mem : Nat], NEW size \in Catalog
    PROVE  RemainingCount(plan, u, size, Unlimited) = Granted(plan, u, size)
<1> DEFINE quote == RemainingCount(plan, u, size, Unlimited)
           byCPU == Along(plan.maxCPU, u.cpu, size.cpu)
           byMem == Along(plan.maxMem, u.mem, size.mem)
           IsGranted(n) == /\ \A k \in 0 .. n - 1 : Allowed(plan, After(u, size, k), size)
                           /\ n < Unlimited => ~Allowed(plan, After(u, size, n), size)
<1>1. Unlimited \in Nat
  BY QuoteAssumption
<1>2. /\ plan.maxCPU \in Caps /\ plan.maxMem \in Caps /\ u.cpu \in Nat /\ u.mem \in Nat
      /\ size.cpu \in Nat \ {0} /\ size.mem \in Nat \ {0}
  BY QuoteAssumption DEF Plans
<1>3. /\ byCPU \in 0 .. Unlimited
      /\ \A k \in 0 .. Unlimited - 1 :
            ~Exceeds(plan.maxCPU, u.cpu + k * size.cpu, size.cpu) <=> k < byCPU
  BY <1>2, AxisGrants
<1>4. /\ byMem \in 0 .. Unlimited
      /\ \A k \in 0 .. Unlimited - 1 :
            ~Exceeds(plan.maxMem, u.mem + k * size.mem, size.mem) <=> k < byMem
  BY <1>2, AxisGrants
<1>5. quote = IF byCPU < byMem THEN byCPU ELSE byMem
  BY DEF RemainingCount, Along
<1>6. \A k : After(u, size, k).cpu = u.cpu + k * size.cpu
           /\ After(u, size, k).mem = u.mem + k * size.mem
  BY DEF After
<1>7. \A k : Allowed(plan, After(u, size, k), size) <=>
             /\ ~Exceeds(plan.maxCPU, u.cpu + k * size.cpu, size.cpu)
             /\ ~Exceeds(plan.maxMem, u.mem + k * size.mem, size.mem)
  BY <1>6 DEF Allowed, Reason
<1> HIDE DEF byCPU, byMem, quote
<1>8. quote \in 0 .. Unlimited /\ \A k \in 0 .. Unlimited - 1 :
        Allowed(plan, After(u, size, k), size) <=> k < quote
  BY <1>1, <1>3, <1>4, <1>5, <1>7
<1>9. IsGranted(quote)
  BY <1>1, <1>8
<1>10. ASSUME NEW n \in 0 .. Unlimited, IsGranted(n) PROVE n = quote
  <2>1. CASE n < quote
    BY <1>1, <1>8, <1>10, <2>1
  <2>2. CASE quote < n
    BY <1>1, <1>8, <1>10, <2>2
  <2> QED BY <1>1, <1>8, <2>1, <2>2
<1>11. Granted(plan, u, size) = CHOOSE n \in 0 .. Unlimited : IsGranted(n)
  BY DEF Granted
<1> HIDE DEF IsGranted
<1> QED BY <1>8, <1>9, <1>10, <1>11 DEF quote

(* What the composer announces is what the gate will grant. *)
THEOREM QuotesAreExact == Spec => []QuoteIsExact
<1>1. TypeOK => QuoteIsExact
  <2> SUFFICES ASSUME TypeOK, NEW s \in Scopes, NEW plan \in Plans, NEW size \in Catalog
               PROVE  RemainingCount(plan, Used(s), size, Unlimited)
                        = Granted(plan, Used(s), size)
    BY DEF QuoteIsExact
  <2>1. ChargedTo(s) \in SUBSET Item /\ IsFiniteSet(ChargedTo(s))
    BY FS_Subset DEF TypeOK, ChargedTo
  <2>2. \A x \in ChargedTo(s) : CPU[x] \in Nat /\ Mem[x] \in Nat
    BY <2>1, LedgerAssumption
  <2>3. Total(ChargedTo(s), CPU) \in Nat /\ Total(ChargedTo(s), Mem) \in Nat
    BY <2>1, <2>2, TotalMonotone
  <2>4. Used(s) \in [cpu : Nat, mem : Nat]
    BY <2>3 DEF Used, Usage
  <2> QED BY <2>4, GateGrants
<1> QED BY <1>1, LedgerTyped, PTL

-----------------------------------------------------------------------------
(***************************************************************************)
(* The rule of a sync pass, for one session by itself: whatever its row and *)
(* whatever tt-backend lists, whenever the pass comes.                     *)
(***************************************************************************)
ListedEntry == [st : {"running", "stopped", "deleted", "gone"}, expiresAt : Nat, idleUntil : Nat]

SessionTyped == now \in Nat /\ row \in Row /\ entry \in ListedEntry

(* The state that remains when tt-backend's numeric status and the date have *)
(* been applied: only a revoked row that is not past its date stays revoked. *)
LEMMA DatedState ==
    ASSUME NEW r \in Row, NEW c \in ListedEntry, c.st # "gone", NEW t \in Nat
    PROVE  LET dated == ExpireByDate(AdoptStatus(r.state, c), c, t)
           IN  /\ dated \in RowState
               /\ dated = "revoked" <=> (r.state = "revoked" /\ (t > c.expiresAt => c.st = "deleted"))
               /\ dated = "stopped" => (r.state = "stopped" /\ c.st # "deleted" /\ t <= c.expiresAt)
BY DEF ExpireByDate, AdoptStatus, StatusState, StateChangeAllowed,
       ExpiredByDate, Row, RowState, ListedEntry

(* What a pass makes of the row. *)
LEMMA Passes ==
    ASSUME NEW r \in Row, SessionTyped
    PROVE  LET new == Rewritten(r)
               holds == r.state = "revoked" /\ (now > entry.expiresAt => entry.st = "deleted")
           IN  /\ new \in Row
               /\ entry.st = "gone" => new.state = "deleted"
               /\ entry.st = "deleted" => new.state \in {"deleted", "revoked"}
               /\ entry.st # "gone" /\ holds => new.state = "revoked"
               /\ entry.st \in {"stopped", "deleted"} /\ ~holds => new.state = entry.st
               /\ entry.st = "running" /\ ~holds =>
                     \/ new.state = "running"
                     \/ r.state = "stopped" /\ now <= entry.expiresAt
               /\ entry.st = "stopped" /\ ~holds /\ entry.idleUntil > 0 =>
                     new.expiresAt = entry.idleUntil
<1> DEFINE dated == ExpireByDate(AdoptStatus(r.state, entry), entry, now)
           datedRow == [r EXCEPT !.state = dated]
           holds == r.state = "revoked" /\ (now > entry.expiresAt => entry.st = "deleted")
<1>1. CASE entry.st = "gone"
  <2>1. [r EXCEPT !.state = "deleted"] \in Row /\ [r EXCEPT !.state = "deleted"].state = "deleted"
    BY DEF Row, RowState
  <2> QED BY <1>1, <2>1 DEF Rewritten
<1>2. CASE entry.st # "gone"
  <2>1. entry \in ListedEntry /\ now \in Nat
    BY DEF SessionTyped
  <2>2. /\ dated \in RowState /\ (dated = "revoked" <=> holds)
        /\ dated = "stopped" => (r.state = "stopped" /\ entry.st # "deleted"
                                 /\ now <= entry.expiresAt)
    BY <1>2, <2>1, DatedState
  <2>3. entry.st \in RowState
    BY <1>2, <2>1 DEF ListedEntry, RowState
  <2> HIDE DEF dated, holds
  <2>4. datedRow \in Row /\ datedRow.state = dated
    BY <2>2 DEF Row
  <2> HIDE DEF datedRow
  <2>5. [datedRow EXCEPT !.state = entry.st] \in Row
        /\ [datedRow EXCEPT !.state = entry.st].state = entry.st
    BY <2>3, <2>4 DEF Row
  <2> DEFINE paused == MarkSessionStopped(datedRow, entry.idleUntil, now)
  <2>6. /\ paused \in Row /\ paused.state = "stopped"
        /\ entry.idleUntil > 0 => paused.expiresAt = entry.idleUntil
    <3> DEFINE off == [datedRow EXCEPT !.state = "stopped"]
               until == IF entry.idleUntil > 0 THEN entry.idleUntil
                        ELSE IF datedRow.known THEN now + SessionLen ELSE datedRow.expiresAt
    <3>1. off \in Row /\ off.state = "stopped"
      BY <2>4 DEF Row, RowState
    <3>2. until \in Nat
      BY <2>1, <2>4, WindowAssumption DEF ListedEntry, Row
    <3>3. paused = [off EXCEPT !.expiresAt = until]
      BY <2>4 DEF MarkSessionStopped, Row
    <3> HIDE DEF off, until, paused
    <3>4. /\ [off EXCEPT !.expiresAt = until] \in Row
          /\ [off EXCEPT !.expiresAt = until].state = "stopped"
          /\ [off EXCEPT !.expiresAt = until].expiresAt = until
      BY <3>1, <3>2 DEF Row
    <3> QED BY <3>3, <3>4 DEF until
  <2> HIDE DEF paused
  <2>7. Rewritten(r) =
           IF entry.st = "stopped" /\ dated # "revoked" THEN paused
           ELSE IF StateChangeAllowed(dated, entry.st)
           THEN [datedRow EXCEPT !.state = entry.st] ELSE datedRow
    BY <1>2 DEF Rewritten, Reconcile, paused, datedRow, dated
  <2>8. /\ StateChangeAllowed(dated, entry.st) <=>
              dated # "revoked" /\ (dated = "stopped" => entry.st = "deleted")
    BY <2>2 DEF StateChangeAllowed
  <2>9. entry.st \in {"running", "stopped", "deleted"}
    BY <1>2, <2>1 DEF ListedEntry
  <2> QED BY <2>2, <2>4, <2>5, <2>6, <2>7, <2>8, <2>9 DEF holds
<1> QED BY <1>1, <1>2

(* Every step keeps row and entry typed. *)
LEMMA SessionTypedStep == SessionTyped /\ [SessionNext]_sessionVars => SessionTyped'
<1> SUFFICES ASSUME SessionTyped, [SessionNext]_sessionVars PROVE SessionTyped'
  OBVIOUS
<1>0. now \in Nat /\ row \in Row /\ entry \in ListedEntry
  BY DEF SessionTyped
<1>1. CASE Pass
  BY <1>0, <1>1, Passes DEF SessionTyped, Pass
<1>2. CASE Revoke
  BY <1>0, <1>2 DEF SessionTyped, Revoke, Row, RowState
<1>3. CASE WriteAlone
  <2>1. [row EXCEPT !.state = "deleted"] \in Row
    BY <1>0 DEF Row, RowState
  <2>2. MarkSessionStopped(row, 0, now) \in Row
    <3> DEFINE off == [row EXCEPT !.state = "stopped"]
               until == IF row.known THEN now + SessionLen ELSE row.expiresAt
    <3>1. off \in Row
      BY <1>0 DEF Row, RowState
    <3>2. until \in Nat
      BY <1>0, WindowAssumption DEF Row
    <3>3. MarkSessionStopped(row, 0, now) = [off EXCEPT !.expiresAt = until]
      BY <1>0 DEF MarkSessionStopped, Row
    <3> HIDE DEF off, until
    <3> QED BY <3>1, <3>2, <3>3 DEF Row
  <2> QED BY <1>0, <1>3, <2>1, <2>2 DEF SessionTyped, WriteAlone
<1>4. CASE Move
  <2>1. now + SessionLen \in Nat /\ now + IdleLen \in Nat
    BY <1>0, WindowAssumption
  <2>2. entry' \in ListedEntry
    <3>1. ASSUME NEW d \in {0, now + IdleLen},
                 entry' = [entry EXCEPT !.st = "stopped", !.idleUntil = d]
          PROVE  entry' \in ListedEntry
      <4>1. d \in Nat
        BY <2>1
      <4> QED BY <1>0, <3>1, <4>1 DEF ListedEntry
    <3>2. CASE entry' = [st |-> "running", expiresAt |-> now + SessionLen, idleUntil |-> 0]
      BY <2>1, <3>2 DEF ListedEntry
    <3>3. CASE \E s \in {"deleted", "gone"} : entry' = [entry EXCEPT !.st = s]
      BY <1>0, <3>3 DEF ListedEntry
    <3> QED BY <1>4, <3>1, <3>2, <3>3 DEF Move
  <2> QED BY <1>0, <1>4, <2>2 DEF SessionTyped, Move
<1>5. CASE Tick
  BY <1>0, <1>5 DEF SessionTyped, Tick
<1>6. CASE UNCHANGED sessionVars
  BY <1>0, <1>6 DEF SessionTyped, sessionVars
<1> QED BY <1>1, <1>2, <1>3, <1>4, <1>5, <1>6 DEF SessionNext

(* In every reachable state they are typed. *)
LEMMA SessionStaysTyped == SessionSpec => []SessionTyped
<1>1. SessionInit => SessionTyped
  BY WindowAssumption DEF SessionInit, SessionTyped, Row, RowState, ListedEntry
<1> QED BY <1>1, SessionTypedStep, PTL DEF SessionSpec

(* A pass brings the row to what tt-backend says, up to the exceptions.     *)
THEOREM PassesConverge == SessionSpec => []ConvergesToBackend
<1>1. SessionTyped => ConvergesToBackend
  <2> SUFFICES ASSUME SessionTyped PROVE ConvergesToBackend
    OBVIOUS
  <2>1. row \in Row /\ now \in Nat /\ entry.expiresAt \in Nat
        /\ entry.st \in {"running", "stopped", "deleted", "gone"}
    BY DEF SessionTyped, ListedEntry
  <2> QED BY <2>1, Passes DEF ConvergesToBackend, ListedPastDate, Passed
<1> QED BY <1>1, SessionStaysTyped, PTL

(* A session that stopped keeps its budget for as long as it can be resumed. *)
THEOREM PausedKeepBudget == SessionSpec => []StoppedKeepsBudget
<1>1. SessionTyped => StoppedKeepsBudget
  <2> SUFFICES ASSUME SessionTyped, entry.st = "stopped", entry.idleUntil > now,
                      row.state # "revoked"
               PROVE  OccupiesSlot(Passed, now)
    BY DEF StoppedKeepsBudget
  <2>1. row \in Row /\ now \in Nat /\ entry.idleUntil \in Nat
    BY DEF SessionTyped, ListedEntry
  <2>2. Passed.state = "stopped" /\ Passed.expiresAt = entry.idleUntil
    BY <2>1, Passes DEF Passed
  <2> QED BY <2>2 DEF OccupiesSlot, TerminalStatesOccupyingSlot
<1> QED BY <1>1, SessionStaysTyped, PTL

(* No step takes a revoked row that is still listed and in date elsewhere. *)
THEOREM RevocationHolds == SessionSpec => RevokedHolds
<1>1. ASSUME SessionTyped, [SessionNext]_sessionVars
      PROVE  [row.state = "revoked" /\ entry.st # "gone" /\ now <= entry.expiresAt
                => row'.state = "revoked"]_sessionVars
  <2> SUFFICES ASSUME row.state = "revoked", entry.st # "gone", now <= entry.expiresAt
               PROVE  row'.state = "revoked"
    OBVIOUS
  <2>0. row \in Row /\ now \in Nat /\ entry.expiresAt \in Nat
    BY <1>1 DEF SessionTyped, ListedEntry
  <2>1. CASE Pass
    BY <1>1, <2>0, <2>1, Passes DEF Pass
  <2>2. CASE Revoke
    BY <2>2 DEF Revoke, RunningDisplay
  <2>3. CASE WriteAlone
    BY <2>3 DEF WriteAlone, LocalVerdict
  <2>4. CASE UNCHANGED row
    BY <2>4
  <2> QED BY <1>1, <2>1, <2>2, <2>3, <2>4
      DEF SessionNext, Move, Tick, sessionVars
<1> QED BY <1>1, SessionStaysTyped, PTL DEF SessionSpec, RevokedHolds
============================================================================
