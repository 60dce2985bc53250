------------------------- MODULE BulkLicensesProofs -------------------------
(***************************************************************************)
(* Three arguments.                                                        *)
(*                                                                         *)
(* A licence in use is never handed to somebody else in one stroke, careful *)
(* managers or not.  From the moment AssignLicense picks an unassigned      *)
(* licence to its commit it holds the batch row, and the only other writers *)
(* of the licence cancel it (Inv).                                         *)
(*                                                                         *)
(* With careful managers the batch row counts its licences, and a batch is  *)
(* cancelled after all of them.  What a request or a webhook has read is    *)
(* still there when it writes (Keeps): assignments and revocations run      *)
(* beside each other and touch distinct licences, everything else is alone  *)
(* (Apart).  Each transaction then moves the total by as many rows as it    *)
(* adds or removes, and the counter by as many as it hands out (Counted).   *)
(*                                                                         *)
(* Both hold for any licences, users, requests and quantities, for          *)
(* deliveries in any order, repeated or given up, and for any crashes.      *)
(*                                                                         *)
(* With events in order and no crash inside a handler (Attended), the       *)
(* batch provides what Stripe bills once the updates are answered (Linked). *)
(* They are answered in turn (Desk, Turns), the newest of them tells the    *)
(* quantity (Told), and a resize between Stripe and the database has its    *)
(* update still to come (Hands).                                           *)
(***************************************************************************)
EXTENDS BulkLicenses, WellFoundedInduction, FiniteSetTheorems, Sequences, TLAPS

Licence == [status : LicenceStatus, user : Users \cup {Nobody}]

(* What a request or a handler may hold. *)
Hand(j) ==
    /\ DOMAIN j = {"op", "lic", "user", "qty", "seen", "rows", "missed", "copy"}
    /\ j.copy \in [Licences -> Licence]
    /\ j.user \in Users \cup {Nobody}

HandsTyped ==
    /\ lic \in [Licences -> Licence]
    /\ job = [p \in Procs |-> job[p]]
    /\ \A p \in Procs : Hand(job[p])

(* An assignment under way is the only one, and its licence is nobody's. *)
Picked(p) ==
    /\ BatchFree(p)
    /\ job[p].lic \in Licences
    /\ lic[job[p].lic].status \in {"unassigned", "cancelled"}

AssignmentsHold == \A p \in Procs : At(p, "assign") => Picked(p)

Inv == HandsTyped /\ AssignmentsHold

(***************************************************************************)
(* The two ways in which the rows change beside an assignment of another    *)
(* process: gently, or with the batch row locked.                          *)
(***************************************************************************)
Gentle ==
    \A l \in Licences :
        \/ lic'[l] = lic[l]
        \/ lic'[l].status = "cancelled"
        \/ lic[l].status = "none"
        \/ lic[l].status \in {"active", "past_due"} /\ lic'[l].user = lic[l].user

(* Process p moves on, and is not assigning afterwards. *)
Moves(p) ==
    /\ lic' \in [Licences -> Licence]
    /\ job' = [job EXCEPT ![p] = job'[p]]
    /\ Hand(job'[p])
    /\ job'[p].op # "assign"

(* What NeverReassigned says of one step. *)
Respected ==
    \A l \in Licences :
        (lic[l].status = "active" /\ lic'[l].status = "active") => lic'[l].user = lic[l].user

-----------------------------------------------------------------------------
(* The empty hands. *)
LEMMA IdleIsHand == Hand(Idle) /\ Idle.op # "assign" /\ NoLicence \in Licence
BY DEF Hand, Idle, NoLicence, Licence, LicenceStatus

(* The order of the natural numbers, as the relation the library speaks of. *)
LEMMA LessThanRelation == OpToRel(<, Nat) = {ss \in Nat \X Nat : ss[1] < ss[2]}
BY DEF OpToRel

(* Among licences there is one of the least id: licences are numbered. *)
LEMMA MinIsMember ==
    ASSUME NEW S \in SUBSET Licences, S # {}
    PROVE  Min(S) \in S
<1>1. S \subseteq Nat
  BY BulkAssumption
<1>2. PICK x \in S : \A y \in S : ~(<<y, x>> \in OpToRel(<, Nat))
  BY <1>1, WFMin, NatLessThanWellFounded
<1>3. \A y \in S : <<y, x>> \notin {ss \in Nat \X Nat : ss[1] < ss[2]}
  BY <1>2, LessThanRelation
<1>4. ASSUME NEW y \in S PROVE x <= y
  <2>1. x \in Nat /\ y \in Nat
    BY <1>1
  <2>2. ~(y < x)
    <3>1. <<y, x>> \in Nat \X Nat
      BY <2>1
    <3> QED BY <1>3, <3>1
  <2> QED BY <2>1, <2>2
<1> QED BY <1>4 DEF Min

(* A gentle step of a process that is not assigning afterwards. *)
LEMMA GentleStep ==
    ASSUME Inv, NEW p \in Procs, Moves(p), Gentle
    PROVE  Inv' /\ Respected
<1>1. HandsTyped'
  BY DEF Inv, HandsTyped, Moves
<1>2. \A q \in Procs : At(q, "assign")' => q # p /\ At(q, "assign") /\ job'[q] = job[q]
  BY DEF Inv, HandsTyped, Moves, At
<1>3. AssignmentsHold'
  <2> SUFFICES ASSUME NEW q \in Procs, At(q, "assign")' PROVE Picked(q)'
    BY DEF AssignmentsHold
  <2>1. Picked(q) /\ job'[q] = job[q]
    BY <1>2 DEF Inv, AssignmentsHold
  <2>2. BatchFree(q)'
    BY <1>2, <2>1 DEF Picked, BatchFree
  <2> QED BY <2>1, <2>2 DEF Picked, Gentle
<1>4. Respected
  BY DEF Respected, Gentle
<1> QED BY <1>1, <1>3, <1>4 DEF Inv

(* A step under the lock of the batch row: nobody is assigning afterwards. *)
LEMMA LockedStep ==
    ASSUME Inv, NEW p \in Procs, Moves(p), BatchFree(p)
    PROVE  Inv'
<1>1. HandsTyped'
  BY DEF Inv, HandsTyped, Moves
<1>2. \A q \in Procs : ~At(q, "assign")'
  BY DEF Inv, HandsTyped, Moves, At, BatchFree
<1> QED BY <1>1, <1>2 DEF Inv, AssignmentsHold

-----------------------------------------------------------------------------
(* Provisioning and growth fill ids that no row has. *)
LEMMA AddedIsGentle ==
    ASSUME HandsTyped, NEW n, NEW st \in LicenceStatus, lic' \in Added(n, st)
    PROVE  lic' \in [Licences -> Licence] /\ Gentle
<1>1. PICK new \in kSubset(n, Licences \ Rows) :
         lic' = [l \in Licences |-> IF l \in new THEN [status |-> st, user |-> Nobody] ELSE lic[l]]
  BY DEF Added
<1>2. new \subseteq Licences \ Rows
  BY DEF kSubset
<1>3. [status |-> st, user |-> Nobody] \in Licence
  BY DEF Licence
<1>4. lic' \in [Licences -> Licence]
  BY <1>1, <1>3 DEF HandsTyped
<1>5. Gentle
  BY <1>1, <1>2 DEF Gentle, Rows
<1> QED BY <1>4, <1>5

(* A resize fills free ids or removes unassigned rows. *)
LEMMA ResizedRespects ==
    ASSUME HandsTyped, NEW p \in Procs, NEW q, Resized(p, q)
    PROVE  lic' \in [Licences -> Licence] /\ Respected
<1>1. CASE \E n : lic' \in Added(n, "unassigned")
  <2>1. "unassigned" \in LicenceStatus
    BY DEF LicenceStatus
  <2> QED BY <1>1, <2>1, AddedIsGentle DEF Gentle, Respected
<1>2. ASSUME NEW gone, lic' = [l \in Licences |-> IF l \in gone THEN NoLicence ELSE lic[l]]
      PROVE  lic' \in [Licences -> Licence] /\ Respected
  <2>1. lic' \in [Licences -> Licence]
    BY <1>2, IdleIsHand DEF HandsTyped
  <2>2. Respected
    BY <1>2 DEF Respected, NoLicence
  <2> QED BY <2>1, <2>2
<1> QED BY <1>1, <1>2 DEF Resized

(* A process that takes j in its hands moves. *)
LEMMA GoMoves ==
    ASSUME HandsTyped, lic' \in [Licences -> Licence],
           NEW p \in Procs, NEW j, Go(p, j), Hand(j), j.op # "assign"
    PROVE  Moves(p)
BY DEF HandsTyped, Go, Moves

(* Nothing at hand and no licence moves: Stripe's steps and deliveries. *)
LEMMA Unmoved ==
    ASSUME Inv, UNCHANGED <<lic, job>>
    PROVE  Inv' /\ Respected
BY DEF Inv, HandsTyped, AssignmentsHold, Picked, BatchFree, At, Respected

-----------------------------------------------------------------------------
(* AssignLicense picks an unassigned licence, with nobody else assigning. *)
LEMMA PickHolds ==
    ASSUME Inv, NEW m \in Managers, NEW u \in Users, AssignPick(m, u)
    PROVE  Inv' /\ Respected
<1> DEFINE least == Min(With("unassigned"))
<1>1. m \in Procs
  BY DEF Procs
<1>2. least \in With("unassigned")
  BY MinIsMember DEF AssignPick, Assignable, With
<1>3. job'[m] = [Idle EXCEPT !.op = "assign", !.user = u, !.lic = least]
  BY <1>1 DEF AssignPick, Go, Inv, HandsTyped
<1> HIDE DEF least
<1>4. /\ lic' = lic
      /\ job' = [job EXCEPT ![m] = job'[m]]
      /\ job'[m].lic = least /\ Hand(job'[m])
  BY <1>1, <1>3, IdleIsHand DEF AssignPick, Go, Inv, HandsTyped, Hand, Idle
<1>5. HandsTyped'
  BY <1>4 DEF Inv, HandsTyped
<1>6. \A q \in Procs \ {m} : ~At(q, "assign")'
  BY <1>1, <1>4 DEF AssignPick, BatchFree, At, Inv, HandsTyped
<1>7. Picked(m)'
  BY <1>2, <1>4, <1>6 DEF Picked, BatchFree, With
<1> QED BY <1>4, <1>5, <1>6, <1>7 DEF Inv, AssignmentsHold, Respected

(* The commit of AssignLicense hands out a licence that is not in use. *)
LEMMA AssignRespects ==
    ASSUME Inv, NEW m \in Managers, AssignCommit(m)
    PROVE  Inv' /\ Respected
<1>1. m \in Procs /\ Picked(m)
  BY DEF Procs, AssignCommit, Inv, AssignmentsHold
<1> DEFINE l == job[m].lic
           new == [status |-> "active", user |-> job[m].user]
<1>2. new \in Licence
  BY <1>1 DEF Inv, HandsTyped, Hand, Licence, LicenceStatus
<1>3. lic' = [lic EXCEPT ![l] = new]
  BY DEF AssignCommit
<1> HIDE DEF new
<1>4. lic' \in [Licences -> Licence]
  BY <1>2, <1>3 DEF Inv, HandsTyped
<1>5. Moves(m)
  BY <1>1, <1>4, GoMoves, IdleIsHand DEF Inv, AssignCommit
<1>6. Inv'
  BY <1>1, <1>5, LockedStep DEF Picked
<1>7. Respected
  BY <1>1, <1>3 DEF Picked, Respected, Inv, HandsTyped
<1> QED BY <1>6, <1>7

(* Cancelling licence by licence is gentle, however old the copies. *)
LEMMA CancelRespects ==
    ASSUME Inv, NEW p \in Procs, CancelStep(p)
    PROVE  Inv' /\ Respected
<1>1. ASSUME NEW l \in Licences, CancelLicence(p, l) PROVE Inv' /\ Respected
  <2> DEFINE gone == [job[p].copy[l] EXCEPT !.status = "cancelled"]
             left == [job[p] EXCEPT !.rows = @ \ {l}]
  <2>1. gone \in Licence /\ gone.status = "cancelled"
    BY DEF Inv, HandsTyped, Hand, Licence, LicenceStatus
  <2>2. Hand(left) /\ left.op # "assign"
    BY <1>1 DEF Inv, HandsTyped, Hand, CancelLicence, At
  <2>3. lic' = [lic EXCEPT ![l] = gone] /\ Go(p, left)
    BY <1>1 DEF CancelLicence
  <2> HIDE DEF gone, left
  <2>4. lic' \in [Licences -> Licence] /\ Gentle
    BY <2>1, <2>3 DEF Inv, HandsTyped, Gentle
  <2>5. Moves(p)
    BY <2>2, <2>3, <2>4, GoMoves DEF Inv
  <2> QED BY <2>4, <2>5, GentleStep
<1>2. CASE CancelBatch(p)
  <2>1. Go(p, Idle) /\ lic' = lic
    BY <1>2 DEF CancelBatch, Answer
  <2>2. Moves(p) /\ Gentle
    BY <2>1, GoMoves, IdleIsHand DEF Inv, HandsTyped, Gentle
  <2> QED BY <2>2, GentleStep
<1>3. ASSUME NEW l \in Licences, MissLicence(p, l) PROVE Inv' /\ Respected
  <2> DEFINE left == [job[p] EXCEPT !.rows = @ \ {l}, !.missed = @ \cup {l}]
  <2>1. Hand(left) /\ left.op # "assign"
    BY <1>3 DEF Inv, HandsTyped, Hand, MissLicence, At
  <2>2. Go(p, left) /\ lic' = lic
    BY <1>3 DEF MissLicence
  <2> HIDE DEF left
  <2>3. Moves(p) /\ Gentle
    BY <2>1, <2>2, GoMoves DEF Inv, HandsTyped, Gentle
  <2> QED BY <2>3, GentleStep
<1>4. CASE CancelFails(p)
  <2>1. Go(p, Idle) /\ lic' = lic
    BY <1>4 DEF CancelFails, Refuse
  <2>2. Moves(p) /\ Gentle
    BY <2>1, GoMoves, IdleIsHand DEF Inv, HandsTyped, Gentle
  <2> QED BY <2>2, GentleStep
<1> QED BY <1>1, <1>2, <1>3, <1>4 DEF CancelStep

(* A process takes something in its hands and touches no licence. *)
LEMMA HandOnly ==
    ASSUME Inv, NEW p \in Procs, NEW j, Go(p, j), Hand(j), j.op # "assign", lic' = lic
    PROVE  Inv' /\ Respected
<1>1. Moves(p) /\ Gentle
  BY GoMoves DEF Inv, HandsTyped, Gentle
<1> QED BY <1>1, GentleStep

(* The transactions that create the rows of a batch. *)
LEMMA ProvisionRespects ==
    ASSUME Inv, NEW p \in Procs, NEW n, NEW b, NEW st \in LicenceStatus,
           Provision(n, b, st), Go(p, Idle)
    PROVE  Inv' /\ Respected
<1>1. lic' \in [Licences -> Licence] /\ Gentle
  BY AddedIsGentle DEF Inv, Provision
<1>2. Moves(p)
  BY <1>1, GoMoves, IdleIsHand DEF Inv
<1> QED BY <1>1, <1>2, GentleStep

(* The transactions that hold the batch row to their commit. *)
LEMMA UnderLock ==
    ASSUME Inv, NEW p \in Procs, BatchFree(p), Go(p, Idle),
           lic' \in [Licences -> Licence], Respected
    PROVE  Inv' /\ Respected
<1>1. Moves(p)
  BY GoMoves, IdleIsHand DEF Inv
<1> QED BY <1>1, LockedStep

(* The requests of the managers. *)
LEMMA ManagerRespects ==
    ASSUME Inv, NEW m \in Managers, ManagerStep(m)
    PROVE  Inv' /\ Respected
<1>1. m \in Procs
  BY DEF Procs
<1>2. Hand(job[m]) /\ lic \in [Licences -> Licence]
  BY <1>1 DEF Inv, HandsTyped
<1>3. ASSUME NEW n \in Quantities, Purchase(m, n) PROVE Inv' /\ Respected
  <2> DEFINE j == [Idle EXCEPT !.op = "buy", !.qty = n]
  <2>1. Go(m, j) /\ Hand(j) /\ j.op # "assign" /\ lic' = lic
    BY <1>3, IdleIsHand DEF Purchase, Hand, Idle
  <2> QED BY <1>1, <2>1, HandOnly
<1>4. CASE PurchaseCommit(m)
  <2>1. "pending_payment" \in LicenceStatus
    BY DEF LicenceStatus
  <2> QED BY <1>1, <1>4, <2>1, ProvisionRespects DEF PurchaseCommit
<1>5. CASE PurchaseFails(m) \/ ResizeReverts(m) \/ ResizeStranded(m)
  <2>1. Go(m, Idle) /\ lic' = lic
    BY <1>5 DEF PurchaseFails, ResizeReverts, ResizeStranded
  <2> QED BY <1>1, <2>1, IdleIsHand, HandOnly
<1>6. ASSUME NEW u \in Users, AssignPick(m, u) PROVE Inv' /\ Respected
  BY <1>6, PickHolds
<1>7. CASE AssignCommit(m)
  BY <1>7, AssignRespects
<1>8. ASSUME NEW l \in Licences, RevokeRead(m, l) PROVE Inv' /\ Respected
  <2> DEFINE j == [Idle EXCEPT !.op = "revoke", !.lic = l]
  <2>1. Go(m, j) /\ Hand(j) /\ j.op # "assign" /\ lic' = lic
    BY <1>8, IdleIsHand DEF RevokeRead, Hand, Idle
  <2> QED BY <1>1, <2>1, HandOnly
<1>9. CASE RevokeCommit(m)
  <2> DEFINE freed == [status |-> "unassigned", user |-> Nobody]
  <2>1. freed \in Licence
    BY DEF Licence, LicenceStatus
  <2>2. lic' = [lic EXCEPT ![job[m].lic] = freed] /\ Go(m, Idle) /\ BatchFree(m)
    BY <1>9 DEF RevokeCommit
  <2>3. lic' \in [Licences -> Licence]
    BY <1>2, <2>1, <2>2
  <2>4. Respected
    BY <1>2, <2>2 DEF Respected
  <2> QED BY <1>1, <2>2, <2>3, <2>4, UnderLock
<1>10. ASSUME NEW q \in Quantities, ResizeRead(m, q) PROVE Inv' /\ Respected
  <2> DEFINE j == [Idle EXCEPT !.op = "quantity", !.qty = q, !.seen = batch]
  <2>1. Go(m, j) /\ Hand(j) /\ j.op # "assign" /\ lic' = lic
    BY <1>10, IdleIsHand DEF ResizeRead, Hand, Idle
  <2> QED BY <1>1, <2>1, HandOnly
<1>11. CASE ResizeStripe(m)
  <2> DEFINE j == [job[m] EXCEPT !.op = "resize"]
  <2>1. Go(m, j) /\ Hand(j) /\ j.op # "assign" /\ lic' = lic
    BY <1>2, <1>11 DEF ResizeStripe, Hand
  <2> QED BY <1>1, <2>1, HandOnly
<1>12. CASE ResizeOfCancelled(m)
  <2> DEFINE j == Cancellation(Rows, {})
  <2>1. Hand(j) /\ j.op # "assign" /\ lic' = lic
    BY <1>2, <1>12, IdleIsHand DEF ResizeOfCancelled, Cancellation, Hand, Idle
  <2>2. Go(m, j) \/ Go(m, Idle)
    BY <1>12 DEF ResizeOfCancelled
  <2> HIDE DEF j
  <2> QED BY <1>1, <2>1, <2>2, IdleIsHand, HandOnly
<1>13. CASE ResizeCommit(m)
  <2>1. BatchFree(m) /\ Go(m, Idle) /\ Resized(m, job[m].qty)
    BY <1>13 DEF ResizeCommit, Resized
  <2>2. lic' \in [Licences -> Licence] /\ Respected
    BY <1>1, <2>1, ResizedRespects DEF Inv
  <2> QED BY <1>1, <2>1, <2>2, UnderLock
<1>14. CASE DeleteRead(m)
  <2> DEFINE j == [Idle EXCEPT !.op = "ask_end", !.rows = Rows]
  <2>1. Go(m, j) /\ Hand(j) /\ j.op # "assign" /\ lic' = lic
    BY <1>14, IdleIsHand DEF DeleteRead, Hand, Idle
  <2> QED BY <1>1, <2>1, HandOnly
<1>15. CASE DeleteStripe(m)
  <2> DEFINE j == [job[m] EXCEPT !.op = "delete"]
  <2>1. Go(m, j) /\ Hand(j) /\ j.op # "assign" /\ lic' = lic
    BY <1>2, <1>15 DEF DeleteStripe, Hand
  <2> QED BY <1>1, <2>1, HandOnly
<1>16. CASE DeleteCommit(m)
  <2>1. /\ BatchFree(m) /\ Go(m, Idle)
        /\ lic' = [l \in Licences |-> IF l \in job[m].rows THEN NoLicence ELSE lic[l]]
    BY <1>16 DEF DeleteCommit
  <2>2. lic' \in [Licences -> Licence]
    BY <1>2, <2>1, IdleIsHand
  <2>3. Respected
    BY <2>1 DEF Respected, NoLicence
  <2> QED BY <1>1, <2>1, <2>2, <2>3, UnderLock
<1>17. CASE CancelStep(m)
  BY <1>1, <1>17, CancelRespects
<1> QED
  BY <1>3, <1>4, <1>5, <1>6, <1>7, <1>8, <1>9, <1>10, <1>11, <1>12, <1>13, <1>14, <1>15,
     <1>16, <1>17 DEF ManagerStep

(* A payment touches one row that is in use, and leaves it its user. *)
LEMMA InvoiceRespects ==
    ASSUME Inv, NEW h \in Hooks, HookPaid(h) \/ HookUnpaid(h)
    PROVE  Inv' /\ Respected
<1>1. h \in Procs /\ lic \in [Licences -> Licence] /\ Go(h, Idle)
  BY DEF Procs, Inv, HandsTyped, HookPaid, HookUnpaid, Refuse, Answer
<1>2. CASE lic' = lic
  BY <1>1, <1>2, IdleIsHand, HandOnly
<1>3. ASSUME NEW S \in SUBSET Entitling, S # {}, NEW st \in {"active", "past_due"},
             lic' = [lic EXCEPT ![Min(S)].status = st]
      PROVE  Inv' /\ Respected
  <2> DEFINE least == Min(S)
             billed == [lic[least] EXCEPT !.status = st]
  <2>1. least \in Entitling /\ least \in Licences
    BY <1>3, MinIsMember DEF Entitling, With
  <2> HIDE DEF least
  <2>2. /\ billed \in Licence /\ billed.user = lic[least].user
        /\ lic[least].status \in {"active", "past_due"}
    BY <1>1, <2>1 DEF Licence, LicenceStatus, Entitling, With
  <2>3. lic' = [lic EXCEPT ![least] = billed]
    BY <1>3 DEF least
  <2> HIDE DEF billed
  <2>4. lic' \in [Licences -> Licence] /\ Gentle
    BY <1>1, <2>1, <2>2, <2>3 DEF Gentle
  <2>5. Moves(h)
    BY <1>1, <2>4, GoMoves, IdleIsHand DEF Inv
  <2> QED BY <1>1, <2>4, <2>5, GentleStep
<1>4. CASE HookPaid(h)
  BY <1>2, <1>3, <1>4 DEF HookPaid
<1>5. CASE HookUnpaid(h)
  BY <1>2, <1>3, <1>5 DEF HookUnpaid, Entitling
<1> QED BY <1>4, <1>5

(* The webhooks. *)
LEMMA HookRespects ==
    ASSUME Inv, NEW h \in Hooks, HookStep(h)
    PROVE  Inv' /\ Respected
<1>1. h \in Procs /\ lic \in [Licences -> Licence]
  BY DEF Procs, Inv, HandsTyped
<1>2. CASE Deliver(h)
  BY <1>2, Unmoved DEF Deliver
<1>3. CASE HookCreated(h)
  <2>1. {"unassigned", "pending_payment"} \subseteq LicenceStatus
    BY DEF LicenceStatus
  <2>2. Go(h, Idle)
    BY <1>3 DEF HookCreated, Answer, Refuse
  <2>3. CASE lic' = lic
    BY <1>1, <2>2, <2>3, IdleIsHand, HandOnly
  <2>4. ASSUME NEW n, NEW b, NEW st \in LicenceStatus, Provision(n, b, st)
        PROVE  Inv' /\ Respected
    BY <1>1, <2>2, <2>4, ProvisionRespects
  <2> QED BY <1>3, <2>1, <2>3, <2>4 DEF HookCreated
<1>4. ASSUME Cancelling(h), lic' = lic PROVE Inv' /\ Respected
  <2> DEFINE j(rows, missed) == Cancellation(rows, missed)
  <2>1. \A rows, missed : Hand(j(rows, missed)) /\ j(rows, missed).op # "assign"
    BY <1>1, IdleIsHand DEF Cancellation, Hand, Idle
  <2>2. Go(h, j(Rows, {})) \/ Go(h, j({}, Rows))
    BY <1>4 DEF Cancelling
  <2> HIDE DEF j
  <2> QED BY <1>1, <1>4, <2>1, <2>2, HandOnly
<1>5. ASSUME Go(h, Idle), lic' = lic PROVE Inv' /\ Respected
  BY <1>1, <1>5, IdleIsHand, HandOnly
<1>6. CASE HookUpdated(h)
  <2> DEFINE j == [Idle EXCEPT !.op = "reconcile", !.qty = Event(h).qty, !.seen = batch]
  <2>1. Hand(j) /\ j.op # "assign"
    BY IdleIsHand DEF Hand, Idle
  <2>2. lic' = lic /\ (Go(h, Idle) \/ Cancelling(h) \/ Go(h, j))
    BY <1>6 DEF HookUpdated, Answer, Refuse
  <2> HIDE DEF j
  <2> QED BY <1>1, <1>4, <1>5, <2>1, <2>2, HandOnly
<1>7. CASE HookReconciles(h)
  <2>1. Go(h, Idle)
    BY <1>7 DEF HookReconciles, Answer, Refuse
  <2>2. CASE lic' = lic
    BY <1>5, <2>1, <2>2
  <2>3. CASE Resized(h, job[h].qty)
    <3>1. BatchFree(h) /\ lic' \in [Licences -> Licence] /\ Respected
      BY <1>1, <2>3, ResizedRespects DEF Inv, Resized
    <3> QED BY <1>1, <2>1, <3>1, UnderLock
  <2> QED BY <1>7, <2>2, <2>3 DEF HookReconciles
<1>8. CASE HookDeleted(h)
  <2>1. lic' = lic /\ (Go(h, Idle) \/ Cancelling(h))
    BY <1>8 DEF HookDeleted, Refuse
  <2> QED BY <1>4, <1>5, <2>1
<1>9. CASE HookPaid(h) \/ HookUnpaid(h)
  BY <1>9, InvoiceRespects
<1>10. CASE CancelStep(h)
  BY <1>1, <1>10, CancelRespects
<1> QED BY <1>2, <1>3, <1>6, <1>7, <1>8, <1>9, <1>10 DEF HookStep

-----------------------------------------------------------------------------
(* Every step of the system. *)
LEMMA StepRespects == Inv /\ [Next]_vars => Inv' /\ Respected
<1> SUFFICES ASSUME Inv, [Next]_vars PROVE Inv' /\ Respected
  OBVIOUS
<1>1. ASSUME NEW m \in Managers, ManagerStep(m) PROVE Inv' /\ Respected
  BY <1>1, ManagerRespects
<1>2. ASSUME NEW h \in Hooks, HookStep(h) PROVE Inv' /\ Respected
  BY <1>2, HookRespects
<1>3. ASSUME NEW p \in Procs, Dies(p) PROVE Inv' /\ Respected
  <2>1. Go(p, Idle) /\ lic' = lic
    BY <1>3 DEF Dies
  <2> QED BY <2>1, IdleIsHand, HandOnly
<1>4. CASE StripeStep
  <2>1. UNCHANGED <<lic, job>>
    BY <1>4 DEF StripeStep, Checkout, Pay, End, Invoice
  <2> QED BY <2>1, Unmoved
<1>5. CASE UNCHANGED vars
  BY <1>5, Unmoved DEF vars
<1> QED BY <1>1, <1>2, <1>3, <1>4, <1>5 DEF Next

(* Nothing is at hand when nothing has been bought. *)
LEMMA InitHolds == Init => Inv
<1> SUFFICES ASSUME Init PROVE Inv
  OBVIOUS
<1>1. HandsTyped
  BY IdleIsHand DEF Init, HandsTyped
<1>2. AssignmentsHold
  BY IdleIsHand DEF Init, AssignmentsHold, At
<1> QED BY <1>1, <1>2 DEF Inv

(* AssignLicense's lock is enough: nobody's licence is given away. *)
THEOREM LicencesNotReassigned == Spec => NeverReassigned
<1>1. Init => Inv
  BY InitHolds
<1>2. Inv /\ [Next]_vars => Inv'
  BY StepRespects
<1>3. Inv /\ [Next]_vars =>
         [\A l \in Licences :
             (lic[l].status = "active" /\ lic'[l].status = "active")
                 => lic'[l].user = lic[l].user]_vars
  BY StepRespects DEF Respected
<1> QED BY <1>1, <1>2, <1>3, PTL DEF Spec, NeverReassigned

-----------------------------------------------------------------------------
BatchStatus == {"none", "pending_payment", "active", "cancelled"}
Batch == [status : BatchStatus, total : Nat, assigned : Int]

(* The row counts its licences, and there is no total without a row. *)
Counted ==
    /\ batch \in Batch
    /\ ~Exists => batch.total = 0
    /\ RowsMatchTotal /\ HeldIsCounted

(* Licences are handed out and taken back beside each other; whatever else a *)
(* request or a webhook does to a batch, careful managers leave it alone.    *)
Sharing == {"idle", "assign", "revoke"}

Apart ==
    \A p \in Procs : \A q \in Procs \ {p} :
        /\ job[p].op \notin Sharing => job[q].op = "idle"
        /\ job[p].op = "revoke" /\ job[q].op = "revoke" => job[p].lic # job[q].lic

(* What was read is what is there when it is used. *)
Keeps(j) ==
    /\ j.op \in {"buy", "quantity", "resize", "reconcile"} => j.qty \in Nat
    /\ j.op \in {"quantity", "resize", "reconcile", "cancel"} => Exists /\ j.seen = batch
    /\ j.op \in {"ask_end", "delete"} => Exists /\ j.rows = Rows
    /\ j.op = "buy" => ~Exists /\ sub.status # "none"
    /\ j.op = "assign" => j.lic \in With("unassigned")
    /\ j.op = "revoke" => j.lic \in Entitling
    /\ j.op = "cancel" =>
          /\ j.rows \subseteq Rows
          /\ Rows \ (j.rows \cup j.missed) \subseteq With("cancelled")
          /\ \A l \in j.rows : j.copy[l] = lic[l]

Orderly == Apart /\ \A p \in Procs : Keeps(job[p])

(* Stripe bills and announces quantities; a delivery has an event. *)
SubStatus == {"none", "incomplete", "active", "canceled"}
Subscription == [status : SubStatus, qty : Nat, ending : BOOLEAN, direct : BOOLEAN]
NoteType == {"created", "updated", "deleted", "paid", "unpaid"}
Notes == [type : NoteType, status : SubStatus, qty : Nat, ending : BOOLEAN, direct : BOOLEAN]

Billing ==
    /\ sub \in Subscription
    /\ sent \in Seq(Notes)
    /\ sub.status = "none" => sent = << >> /\ ~Exists
    /\ hook = [h \in Hooks |-> hook[h]]
    /\ \A h \in Hooks :
          /\ DOMAIN hook[h] = {"pc", "ev", "seen"}
          /\ hook[h].pc # "idle" => hook[h].ev \in DOMAIN sent

Counts == Inv /\ Counted /\ Orderly /\ Billing

-----------------------------------------------------------------------------
(* The sets of licences are finite, and are what they were when nothing moves. *)
LEMMA FiniteRows ==
    ASSUME NEW S \in SUBSET Licences
    PROVE  IsFiniteSet(S) /\ Cardinality(S) \in Nat
BY BulkAssumption, FS_Subset, FS_CardinalityType

LEMMA DisjointAdd ==
    ASSUME NEW S \in SUBSET Licences, NEW T \in SUBSET Licences, S \cap T = {}
    PROVE  Cardinality(S \cup T) = Cardinality(S) + Cardinality(T)
<1>1. /\ IsFiniteSet(S) /\ IsFiniteSet(T)
      /\ Cardinality(S) \in Nat /\ Cardinality(T) \in Nat
  BY FiniteRows
<1>2. Cardinality(S \cup T) = Cardinality(S) + Cardinality(T) - Cardinality(S \cap T)
  BY <1>1, FS_Union
<1>3. Cardinality(S \cap T) = 0
  BY FS_EmptySet
<1> QED BY <1>1, <1>2, <1>3

LEMMA ProvisionCounts ==
    ASSUME HandsTyped, Counted, ~Exists, NEW n \in Nat, NEW b \in BatchStatus, b # "none",
           NEW st \in {"pending_payment", "unassigned"}, Provision(n, b, st)
    PROVE  Counted'
<1>1. Rows = {}
  <2>1. Cardinality(Rows) = 0 /\ IsFiniteSet(Rows)
    BY FiniteRows DEF Counted, RowsMatchTotal, Rows
  <2> QED BY <2>1, FS_EmptySet
<1>2. PICK new \in kSubset(n, Licences \ Rows) :
         lic' = [l \in Licences |-> IF l \in new THEN [status |-> st, user |-> Nobody] ELSE lic[l]]
  BY DEF Provision, Added
<1>3. new \subseteq Licences /\ Cardinality(new) = n
  BY DEF kSubset
<1>4. \A l \in Licences : lic[l].status = "none"
  BY <1>1 DEF Rows
<1>5. Rows' = new /\ Entitling' = {}
  <2>1. \A l \in Licences : lic'[l].status = IF l \in new THEN st ELSE "none"
    BY <1>2, <1>4
  <2> QED BY <2>1, <1>3 DEF Rows, Entitling, With
<1>6. batch' = [status |-> b, total |-> n, assigned |-> 0]
  BY DEF Provision
<1>7. batch' \in Batch /\ Exists' /\ batch'.total = n /\ batch'.assigned = 0
  BY <1>6 DEF Batch, Exists
<1>8. Cardinality(Rows') = n /\ Cardinality(Entitling') = 0
  BY <1>3, <1>5, FS_EmptySet
<1> QED BY <1>7, <1>8 DEF Counted, RowsMatchTotal, HeldIsCounted

(* A resize moves the total and the rows by as many. *)
LEMMA ResizedCounts ==
    ASSUME HandsTyped, Counted, Exists, NEW p \in Procs, NEW q \in Nat,
           job[p].seen = batch, Resized(p, q)
    PROVE  Counted' /\ batch'.status = batch.status
<1> DEFINE old == batch.total
<1>1. old \in Nat /\ batch.assigned \in Int /\ Cardinality(Rows) = old
  BY DEF Counted, Batch, RowsMatchTotal
<1>2. batch' = [batch EXCEPT !.total = q]
  BY DEF Resized
<1>3. /\ batch' \in Batch /\ batch'.total = q
      /\ batch'.assigned = batch.assigned /\ batch'.status = batch.status
  BY <1>2 DEF Counted, Batch
<1>4. /\ Cardinality(Rows') = q
      /\ Entitling' = Entitling /\ With("cancelled")' = With("cancelled")
  <2>1. CASE q >= old
    <3>1. lic' \in Added(q - old, "unassigned")
      BY <2>1 DEF Resized
    <3>2. PICK new \in kSubset(q - old, Licences \ Rows) :
             lic' = [l \in Licences |-> IF l \in new THEN [status |-> "unassigned", user |-> Nobody]
                                                     ELSE lic[l]]
      BY <3>1 DEF Added
    <3>3. new \subseteq Licences \ Rows /\ Cardinality(new) = q - old
      BY DEF kSubset
    <3>4. \A l \in Licences : lic'[l].status = IF l \in new THEN "unassigned" ELSE lic[l].status
      BY <3>2
    <3>5. \A l \in new : lic[l].status = "none"
      BY <3>3 DEF Rows
    <3>6. Rows' = Rows \cup new /\ Entitling' = Entitling /\ With("cancelled")' = With("cancelled")
      BY <3>3, <3>4, <3>5 DEF Rows, Entitling, With
    <3>7. Rows \in SUBSET Licences /\ new \in SUBSET Licences /\ Rows \cap new = {}
      BY <3>3 DEF Rows
    <3>8. Cardinality(Rows \cup new) = old + (q - old)
      BY <1>1, <3>3, <3>7, DisjointAdd
    <3> QED BY <1>1, <3>6, <3>8
  <2>2. CASE ~(q >= old)
    <3>1. PICK gone \in kSubset(old - q, With("unassigned")) :
             lic' = [l \in Licences |-> IF l \in gone THEN NoLicence ELSE lic[l]]
      BY <2>2 DEF Resized
    <3>2. gone \subseteq With("unassigned") /\ Cardinality(gone) = old - q
      BY DEF kSubset
    <3>3. \A l \in Licences : lic'[l].status = IF l \in gone THEN "none" ELSE lic[l].status
      BY <3>1 DEF NoLicence
    <3>4. \A l \in gone : l \in Licences /\ lic[l].status = "unassigned"
      BY <3>2 DEF With
    <3>5. Rows = Rows' \cup gone /\ Rows' \cap gone = {}
      BY <3>3, <3>4 DEF Rows
    <3>6. Entitling' = Entitling /\ With("cancelled")' = With("cancelled")
      BY <3>3, <3>4 DEF Entitling, With
    <3>7. Rows' \in SUBSET Licences /\ gone \in SUBSET Licences
      BY <3>4 DEF Rows
    <3>8. Cardinality(Rows) = Cardinality(Rows') + (old - q)
      BY <3>2, <3>5, <3>7, DisjointAdd
    <3>9. Cardinality(Rows') \in Nat
      BY <3>7, FiniteRows
    <3> QED BY <1>1, <3>6, <3>8, <3>9
  <2> QED BY <2>1, <2>2
<1>5. HeldIsCounted'
  BY <1>3, <1>4 DEF HeldIsCounted, Counted
<1>6. Exists'
  BY <1>3 DEF Exists
<1> QED BY <1>3, <1>4, <1>5, <1>6 DEF Counted, RowsMatchTotal

(* One licence row is written: the sets that lose it and that gain it. *)
LEMMA LicenceWritten ==
    ASSUME HandsTyped, NEW l \in Licences, NEW v, lic' = [lic EXCEPT ![l] = v]
    PROVE  /\ \A st : With(st)' = IF v.status = st THEN With(st) \cup {l} ELSE With(st) \ {l}
           /\ Rows' = IF v.status = "none" THEN Rows \ {l} ELSE Rows \cup {l}
<1>1. \A k \in Licences : lic'[k] = IF k = l THEN v ELSE lic[k]
  BY DEF HandsTyped
<1> QED BY <1>1 DEF With, Rows

(* A batch whose row is left alone, with licences that come and go nowhere. *)
LEMMA StillCounted ==
    ASSUME Counted, batch' = batch, Rows' = Rows,
           With("cancelled")' = {} => Entitling' = Entitling /\ With("cancelled") = {}
    PROVE  Counted'
BY DEF Counted, Exists, RowsMatchTotal, HeldIsCounted

LEMMA AssignCounts ==
    ASSUME HandsTyped, Counted, NEW m \in Procs, job[m].lic \in With("unassigned"),
           AssignCommit(m)
    PROVE  Counted' /\ batch'.status = batch.status
<1> DEFINE l == job[m].lic
           v == [status |-> "active", user |-> job[m].user]
<1>1. l \in Licences /\ lic[l].status = "unassigned"
  BY DEF With
<1>2. lic' = [lic EXCEPT ![l] = v] /\ v.status = "active"
  BY DEF AssignCommit
<1>3. batch' = [batch EXCEPT !.assigned = @ + 1]
  BY DEF AssignCommit
<1>4. /\ batch' \in Batch /\ batch'.total = batch.total /\ batch'.status = batch.status
      /\ batch'.assigned = batch.assigned + 1 /\ batch.assigned \in Int
  BY <1>3 DEF Counted, Batch
<1> HIDE DEF l, v
<1>5. /\ Rows' = Rows \cup {l} /\ With("active")' = With("active") \cup {l}
      /\ With("past_due")' = With("past_due") \ {l} /\ With("cancelled")' = With("cancelled") \ {l}
  BY <1>1, <1>2, LicenceWritten
<1>6. /\ l \in Rows /\ l \notin With("active") /\ l \notin With("past_due") /\ l \notin With("cancelled")
  BY <1>1 DEF Rows, With
<1>7. /\ Rows' = Rows /\ With("cancelled")' = With("cancelled")
      /\ Entitling' = Entitling \cup {l} /\ l \notin Entitling
  BY <1>5, <1>6 DEF Entitling
<1>8. IsFiniteSet(Entitling)
  BY FiniteRows DEF Entitling, With
<1>9. Cardinality(Entitling') = Cardinality(Entitling) + 1
  BY <1>7, <1>8, FS_AddElement
<1> QED BY <1>4, <1>7, <1>9 DEF Counted, Exists, RowsMatchTotal, HeldIsCounted

LEMMA RevokeCounts ==
    ASSUME HandsTyped, Counted, NEW m \in Procs, job[m].lic \in Entitling, RevokeCommit(m)
    PROVE  Counted' /\ batch'.status = batch.status
<1> DEFINE l == job[m].lic
           v == [status |-> "unassigned", user |-> Nobody]
<1>1. l \in Licences /\ lic[l].status \in {"active", "past_due"}
  BY DEF Entitling, With
<1>2. lic' = [lic EXCEPT ![l] = v] /\ v.status = "unassigned"
  BY DEF RevokeCommit
<1> HIDE DEF v
<1>3. l \in Rows /\ l \in Entitling /\ l \notin With("cancelled")
  BY <1>1 DEF Rows, With
<1>4. Exists
  <2>1. CASE ~Exists
    <3>1. Cardinality(Rows) = 0 /\ IsFiniteSet(Rows)
      BY <2>1, FiniteRows DEF Counted, RowsMatchTotal, Rows
    <3>2. Rows = {}
      BY <3>1, FS_EmptySet
    <3> QED BY <1>3, <3>2
  <2> QED BY <2>1
<1>5. batch' = [batch EXCEPT !.assigned = @ - 1]
  BY <1>4 DEF RevokeCommit
<1>6. /\ batch' \in Batch /\ batch'.total = batch.total /\ batch'.status = batch.status
      /\ batch'.assigned = batch.assigned - 1 /\ batch.assigned \in Int
  BY <1>5 DEF Counted, Batch
<1> HIDE DEF l
<1>7. /\ Rows' = Rows \cup {l} /\ With("active")' = With("active") \ {l}
      /\ With("past_due")' = With("past_due") \ {l} /\ With("cancelled")' = With("cancelled") \ {l}
  BY <1>1, <1>2, LicenceWritten
<1>8. /\ Rows' = Rows /\ With("cancelled")' = With("cancelled") /\ Entitling' = Entitling \ {l}
  BY <1>3, <1>7 DEF Entitling
<1>9. IsFiniteSet(Entitling)
  BY FiniteRows DEF Entitling, With
<1>10. Cardinality(Entitling') = Cardinality(Entitling) - 1
  BY <1>3, <1>8, <1>9, FS_RemoveElement
<1> QED BY <1>6, <1>8, <1>10 DEF Counted, Exists, RowsMatchTotal, HeldIsCounted
-----------------------------------------------------------------------------
(* What CancellationIsComplete says of one step, and what each step does. *)
Completed ==
    (batch.status # "cancelled" /\ batch'.status = "cancelled")
        => \E p \in Procs : At(p, "cancel") /\ Rows \ With("cancelled") \subseteq job[p].missed
Backed == Exists' => Exists \/ sub.status # "none"
Advances == Counted' /\ Orderly' /\ Completed /\ Backed

(* Whoever is about to change a batch, or is changing it, is alone. *)
LEMMA Solitude ==
    ASSUME Careful, Orderly, NEW p \in Procs, Alone(p) \/ job[p].op \notin Sharing
    PROVE  \A q \in Procs \ {p} : job[q].op = "idle"
BY DEF Orderly, Apart, Alone, Others

(* A step of a process that is alone. *)
LEMMA SoleStep ==
    ASSUME HandsTyped, NEW p \in Procs, job' = [job EXCEPT ![p] = job'[p]], Keeps(job[p])',
           \A q \in Procs \ {p} : job[q].op = "idle"
    PROVE  Orderly'
<1>1. \A q \in Procs \ {p} : job'[q].op = "idle"
  BY DEF HandsTyped
<1>2. Apart'
  BY <1>1 DEF Apart, Sharing
<1>3. \A q \in Procs \ {p} : Keeps(job[q])'
  BY <1>1 DEF Keeps
<1> QED BY <1>2, <1>3 DEF Orderly

(* Empty hands keep to anything. *)
LEMMA IdleKeeps ==
    ASSUME HandsTyped, NEW p \in Procs, Go(p, Idle)
    PROVE  Keeps(job[p])' /\ job'[p].op = "idle" /\ job' = [job EXCEPT ![p] = job'[p]]
<1>1. job'[p] = Idle /\ Idle.op = "idle"
  BY DEF HandsTyped, Go, Idle
<1>2. job'[p].op = "idle" /\ job' = [job EXCEPT ![p] = job'[p]]
  BY <1>1 DEF Go
<1> QED BY <1>2 DEF Keeps

(* A process gives up, or dies: the others go on as they were. *)
LEMMA LetsGo ==
    ASSUME HandsTyped, Counted, Orderly, NEW p \in Procs, Go(p, Idle), UNCHANGED <<batch, lic>>,
           sub.status # "none" => sub'.status # "none"
    PROVE  Advances
<1>1. /\ job'[p].op = "idle"
      /\ \A q \in Procs \ {p} : job'[q] = job[q]
  BY IdleKeeps DEF HandsTyped
<1>2. Apart'
  BY <1>1 DEF Orderly, Apart, Sharing
<1>3. Keeps(job[p])'
  BY IdleKeeps
<1>4. \A q \in Procs \ {p} : Keeps(job[q])'
  BY <1>1 DEF Orderly, Keeps, Exists, Rows, With, Entitling
<1>5. Counted' /\ Completed /\ Backed
  BY DEF Counted, Exists, RowsMatchTotal, HeldIsCounted, Rows, With, Entitling, Completed, Backed
<1> QED BY <1>2, <1>3, <1>4, <1>5 DEF Orderly, Advances

(* Stripe and the deliveries touch nothing of the batch. *)
LEMMA StandsBy ==
    ASSUME HandsTyped, Counted, Orderly, UNCHANGED <<batch, lic, job>>,
           sub.status # "none" => sub'.status # "none"
    PROVE  Advances
<1>1. Apart'
  BY DEF Orderly, Apart
<1>2. \A q \in Procs : Keeps(job[q])'
  BY DEF Orderly, Keeps, Exists, Rows, With, Entitling
<1>3. Counted' /\ Completed /\ Backed
  BY DEF Counted, Exists, RowsMatchTotal, HeldIsCounted, Rows, With, Entitling, Completed, Backed
<1> QED BY <1>1, <1>2, <1>3 DEF Orderly, Advances

(* Something is read, or Stripe is asked, by a process that is alone. *)
LEMMA TakesUp ==
    ASSUME HandsTyped, Counted, NEW p \in Procs, UNCHANGED <<batch, lic>>,
           job' = [job EXCEPT ![p] = job'[p]], Keeps(job[p])',
           \A q \in Procs \ {p} : job[q].op = "idle"
    PROVE  Advances
<1>1. Orderly'
  BY SoleStep
<1>2. Counted' /\ Completed /\ Backed
  BY DEF Counted, Exists, RowsMatchTotal, HeldIsCounted, Rows, With, Entitling, Completed, Backed
<1> QED BY <1>1, <1>2 DEF Advances

(* A transaction of a process that is alone. *)
LEMMA Commits ==
    ASSUME HandsTyped, NEW p \in Procs, Go(p, Idle), Counted', Completed, Backed,
           \A q \in Procs \ {p} : job[q].op = "idle"
    PROVE  Advances
<1>1. Orderly'
  BY IdleKeeps, SoleStep
<1> QED BY <1>1 DEF Advances

(* The list and the batch row are read as they are, or the list is missed. *)
LEMMA CancellationKeeps ==
    ASSUME HandsTyped, Exists, NEW p \in Procs, UNCHANGED <<batch, lic>>,
           NEW rows \in SUBSET Rows, NEW missed, Rows \subseteq rows \cup missed,
           Go(p, Cancellation(rows, missed))
    PROVE  Keeps(job[p])' /\ job' = [job EXCEPT ![p] = job'[p]]
<1>1. job'[p] = Cancellation(rows, missed)
  BY DEF HandsTyped, Go
<1>2. /\ job'[p].op = "cancel" /\ job'[p].rows = rows /\ job'[p].missed = missed
      /\ job'[p].copy = lic /\ job'[p].seen = batch
  BY <1>1 DEF Cancellation, Idle
<1>3. Rows' = Rows /\ Exists'
  BY DEF Rows, Exists
<1>4. Keeps(job[p])'
  BY <1>2, <1>3 DEF Keeps
<1>5. job' = [job EXCEPT ![p] = job'[p]]
  BY <1>1 DEF Go
<1> QED BY <1>4, <1>5

LEMMA CancellingKeeps ==
    ASSUME HandsTyped, Exists, NEW p \in Procs, Cancelling(p), UNCHANGED <<batch, lic>>
    PROVE  Keeps(job[p])' /\ job' = [job EXCEPT ![p] = job'[p]]
BY CancellationKeeps DEF Cancelling

(* A cancellation, licence by licence and then the batch. *)
LEMMA CancelAdvances ==
    ASSUME Careful, HandsTyped, Counted, Orderly, NEW p \in Procs, CancelStep(p)
    PROVE  Advances
<1>1. At(p, "cancel")
  BY DEF CancelStep, CancelLicence, MissLicence, CancelBatch, CancelFails
<1>2. \A q \in Procs \ {p} : job[q].op = "idle"
  BY <1>1, Solitude DEF At, Sharing
<1>3. /\ Exists /\ job[p].seen = batch /\ job[p].rows \subseteq Rows
      /\ Rows \ (job[p].rows \cup job[p].missed) \subseteq With("cancelled")
      /\ \A l \in job[p].rows : job[p].copy[l] = lic[l]
  BY <1>1 DEF Orderly, Keeps, At
<1>4. ASSUME NEW l \in Licences, CancelLicence(p, l) PROVE Advances
  <2> DEFINE v == [job[p].copy[l] EXCEPT !.status = "cancelled"]
             j == [job[p] EXCEPT !.rows = @ \ {l}]
  <2>1. l \in job[p].rows /\ l \in Rows
    BY <1>3, <1>4 DEF CancelLicence
  <2>2. v.status = "cancelled"
    BY DEF HandsTyped, Hand, Licence
  <2>3. lic' = [lic EXCEPT ![l] = v] /\ Go(p, j) /\ batch' = batch
    BY <1>4 DEF CancelLicence
  <2>4. /\ j.op = "cancel" /\ j.seen = batch /\ j.copy = job[p].copy
        /\ j.rows = job[p].rows \ {l} /\ j.missed = job[p].missed
    BY <1>1, <1>3 DEF HandsTyped, Hand, At
  <2> HIDE DEF v, j
  <2>5. /\ With("cancelled")' = With("cancelled") \cup {l}
        /\ Rows' = Rows \cup {l}
    BY <2>2, <2>3, LicenceWritten
  <2>6. Rows' = Rows
    BY <2>1, <2>5
  <2>7. \A k \in job[p].rows \ {l} : lic'[k] = lic[k]
    BY <2>3 DEF HandsTyped
  <2>8. job'[p] = j /\ job' = [job EXCEPT ![p] = job'[p]]
    BY <2>3 DEF Go, HandsTyped
  <2>9. Keeps(job[p])'
    <3>1. job'[p].rows \subseteq Rows'
      BY <1>3, <2>4, <2>6, <2>8
    <3>2. Rows' \ (job'[p].rows \cup job'[p].missed) \subseteq With("cancelled")'
      BY <1>3, <2>4, <2>5, <2>6, <2>8
    <3>3. \A k \in job'[p].rows : job'[p].copy[k] = lic'[k]
      BY <1>3, <2>4, <2>7, <2>8
    <3>4. job'[p].op = "cancel" /\ job'[p].seen = batch' /\ Exists'
      BY <1>3, <2>3, <2>4, <2>8 DEF Exists
    <3> QED BY <3>1, <3>2, <3>3, <3>4 DEF Keeps
  <2>10. Orderly'
    BY <1>2, <2>8, <2>9, SoleStep
  <2>11. Counted'
    BY <2>3, <2>5, <2>6, StillCounted
  <2> QED BY <1>3, <2>3, <2>10, <2>11 DEF Advances, Completed, Backed
<1>5. CASE CancelBatch(p)
  <2>1. Go(p, Idle)
    BY <1>5 DEF CancelBatch, Answer
  <2>2. batch' = [batch EXCEPT !.status = "cancelled"] /\ lic' = lic /\ job[p].rows = {}
    BY <1>3, <1>5 DEF CancelBatch
  <2>3. /\ batch' \in Batch /\ batch'.total = batch.total /\ batch'.assigned = batch.assigned
        /\ batch'.status = "cancelled"
    BY <2>2 DEF Counted, Batch, BatchStatus
  <2>4. Counted'
    BY <2>2, <2>3 DEF Counted, Exists, RowsMatchTotal, HeldIsCounted, Rows, With, Entitling
  <2>5. Rows \ With("cancelled") \subseteq job[p].missed
    BY <1>3, <2>2
  <2>6. Completed
    BY <1>1, <2>5 DEF Completed
  <2> QED BY <1>2, <1>3, <2>1, <2>4, <2>6, Commits DEF Backed
<1>6. ASSUME NEW l \in Licences, MissLicence(p, l) PROVE Advances
  <2> DEFINE j == [job[p] EXCEPT !.rows = @ \ {l}, !.missed = @ \cup {l}]
  <2>1. Go(p, j) /\ UNCHANGED <<batch, lic>>
    BY <1>6 DEF MissLicence
  <2>2. /\ j.op = "cancel" /\ j.seen = batch /\ j.copy = job[p].copy
        /\ j.rows = job[p].rows \ {l} /\ j.missed = job[p].missed \cup {l}
    BY <1>1, <1>3 DEF HandsTyped, Hand, At
  <2> HIDE DEF j
  <2>3. job'[p] = j /\ job' = [job EXCEPT ![p] = job'[p]]
    BY <2>1 DEF Go, HandsTyped
  <2>4. Rows' = Rows /\ With("cancelled")' = With("cancelled") /\ Exists'
    BY <1>3, <2>1 DEF Rows, With, Exists
  <2>5. Keeps(job[p])'
    BY <1>3, <2>1, <2>2, <2>3, <2>4 DEF Keeps
  <2> QED BY <1>2, <2>1, <2>3, <2>5, TakesUp
<1>7. CASE CancelFails(p)
  <2>1. Go(p, Idle) /\ UNCHANGED <<batch, lic, sub>>
    BY <1>7 DEF CancelFails, Refuse
  <2> QED BY <2>1, LetsGo
<1> QED BY <1>4, <1>5, <1>6, <1>7 DEF CancelStep
-----------------------------------------------------------------------------
(* The requests that share a batch: assignments and revocations. *)
LEMMA PickAdvances ==
    ASSUME Careful, HandsTyped, Counted, Orderly, NEW m \in Managers, NEW u \in Users,
           AssignPick(m, u)
    PROVE  Advances
<1> DEFINE least == Min(With("unassigned"))
<1>1. m \in Procs /\ least \in With("unassigned")
  BY MinIsMember DEF AssignPick, Assignable, With, Procs
<1>2. job'[m] = [Idle EXCEPT !.op = "assign", !.user = u, !.lic = least]
  BY <1>1 DEF AssignPick, Go, HandsTyped
<1> HIDE DEF least
<1>3. job'[m].op = "assign" /\ job'[m].lic = least
  BY <1>2 DEF Idle
<1>4. \A q \in Procs \ {m} : job'[q] = job[q]
  BY <1>1 DEF AssignPick, Go, HandsTyped
<1>5. \A q \in Procs \ {m} : job[q].op \in Sharing
  BY DEF AssignPick, Beside, Others, Sharing
<1>6. UNCHANGED <<batch, lic, sub>>
  BY DEF AssignPick
<1>7. Apart'
  BY <1>3, <1>4, <1>5 DEF Orderly, Apart, Sharing
<1>8. Keeps(job[m])'
  BY <1>1, <1>3, <1>6 DEF Keeps, With
<1>9. \A q \in Procs \ {m} : Keeps(job[q])'
  BY <1>4, <1>6 DEF Orderly, Keeps, Exists, Rows, With, Entitling
<1>10. Counted' /\ Completed /\ Backed
  BY <1>6 DEF Counted, Exists, RowsMatchTotal, HeldIsCounted, Rows, With, Entitling, Completed, Backed
<1> QED BY <1>7, <1>8, <1>9, <1>10 DEF Orderly, Advances

LEMMA RevokeReadAdvances ==
    ASSUME Careful, HandsTyped, Counted, Orderly, NEW m \in Managers, NEW l \in Licences,
           RevokeRead(m, l)
    PROVE  Advances
<1>1. m \in Procs /\ l \in Entitling /\ \A q \in Procs : job[q].lic # l
  BY DEF RevokeRead, Procs
<1>2. job'[m] = [Idle EXCEPT !.op = "revoke", !.lic = l]
  BY <1>1 DEF RevokeRead, Go, HandsTyped
<1>3. job'[m].op = "revoke" /\ job'[m].lic = l
  BY <1>2 DEF Idle
<1>4. \A q \in Procs \ {m} : job'[q] = job[q]
  BY <1>1 DEF RevokeRead, Go, HandsTyped
<1>5. \A q \in Procs \ {m} : job[q].op \in Sharing
  BY DEF RevokeRead, Beside, Others, Sharing
<1>6. UNCHANGED <<batch, lic, sub>>
  BY DEF RevokeRead
<1>7. Apart'
  BY <1>1, <1>3, <1>4, <1>5 DEF Orderly, Apart, Sharing
<1>8. Keeps(job[m])'
  BY <1>1, <1>3, <1>6 DEF Keeps, With, Entitling
<1>9. \A q \in Procs \ {m} : Keeps(job[q])'
  BY <1>4, <1>6 DEF Orderly, Keeps, Exists, Rows, With, Entitling
<1>10. Counted' /\ Completed /\ Backed
  BY <1>6 DEF Counted, Exists, RowsMatchTotal, HeldIsCounted, Rows, With, Entitling, Completed, Backed
<1> QED BY <1>7, <1>8, <1>9, <1>10 DEF Orderly, Advances

(* What a commit beside others writes: one licence and the counter. *)
LEMMA SharedCommit ==
    ASSUME NEW m \in Procs, NEW v, NEW l \in Licences, HandsTyped, Orderly, Go(m, Idle),
           job[m].op \in {"assign", "revoke"}, job[m].lic = l, BatchFree(m),
           Counted', batch'.status = batch.status,
           v.status \in {"active", "unassigned"}, lic' = [lic EXCEPT ![l] = v]
    PROVE  Advances
<1>1. /\ job'[m].op = "idle" /\ Keeps(job[m])'
      /\ \A q \in Procs \ {m} : job'[q] = job[q]
  BY IdleKeeps DEF HandsTyped
<1>2. Apart'
  BY <1>1 DEF Orderly, Apart, Sharing
<1>3. ASSUME NEW q \in Procs \ {m} PROVE Keeps(job[q])'
  <2>1. job[q].op \in {"idle", "revoke"}
    BY DEF Orderly, Apart, Sharing, BatchFree, At
  <2>2. CASE job[q].op = "idle"
    BY <1>1, <2>2 DEF Keeps
  <2>3. CASE job[q].op = "revoke"
    <3>1. job[q].lic \in Entitling
      BY <2>3 DEF Orderly, Keeps
    <3>2. job[q].lic # l
      BY <2>3, <3>1 DEF Orderly, Apart, Keeps, With, Entitling
    <3>3. job[q].lic \in Licences /\ lic'[job[q].lic] = lic[job[q].lic]
      BY <3>1, <3>2 DEF HandsTyped, Entitling, With
    <3>4. job[q].lic \in Entitling'
      BY <3>1, <3>3 DEF Entitling, With
    <3> QED BY <1>1, <2>3, <3>4 DEF Keeps
  <2> QED BY <2>1, <2>2, <2>3
<1>4. Completed /\ Backed
  BY DEF Completed, Backed, Exists
<1> QED BY <1>1, <1>2, <1>3, <1>4 DEF Orderly, Advances

LEMMA AssignAdvances ==
    ASSUME Inv, Counted, Orderly, NEW m \in Managers, AssignCommit(m)
    PROVE  Advances
<1> DEFINE l == job[m].lic
           v == [status |-> "active", user |-> job[m].user]
<1>1. m \in Procs /\ HandsTyped /\ job[m].op = "assign" /\ BatchFree(m)
  BY DEF AssignCommit, Procs, Inv, AssignmentsHold, Picked, At
<1>2. job[m].lic \in With("unassigned") /\ l \in Licences
  BY <1>1 DEF Orderly, Keeps, With
<1>3. Counted' /\ batch'.status = batch.status
  BY <1>1, <1>2, AssignCounts
<1>4. lic' = [lic EXCEPT ![l] = v] /\ Go(m, Idle) /\ job[m].lic = l
  BY DEF AssignCommit
<1>5. v.status \in {"active", "unassigned"} /\ job[m].op \in {"assign", "revoke"}
  BY <1>1
<1> HIDE DEF l, v
<1> QED BY <1>1, <1>2, <1>3, <1>4, <1>5, SharedCommit

LEMMA RevokeAdvances ==
    ASSUME Inv, Counted, Orderly, NEW m \in Managers, RevokeCommit(m)
    PROVE  Advances
<1> DEFINE l == job[m].lic
           v == [status |-> "unassigned", user |-> Nobody]
<1>1. m \in Procs /\ HandsTyped /\ job[m].op = "revoke" /\ BatchFree(m)
  BY DEF RevokeCommit, Procs, Inv, At
<1>2. job[m].lic \in Entitling /\ l \in Licences
  BY <1>1 DEF Orderly, Keeps, With, Entitling
<1>3. Counted' /\ batch'.status = batch.status
  BY <1>1, <1>2, RevokeCounts
<1>4. lic' = [lic EXCEPT ![l] = v] /\ Go(m, Idle) /\ job[m].lic = l
  BY DEF RevokeCommit
<1>5. v.status \in {"active", "unassigned"} /\ job[m].op \in {"assign", "revoke"}
  BY <1>1
<1> HIDE DEF l, v
<1> QED BY <1>1, <1>2, <1>3, <1>4, <1>5, SharedCommit

-----------------------------------------------------------------------------
(* The transactions of a purchase, a resize and a deletion. *)
LEMMA ProvisionAdvances ==
    ASSUME NEW p \in Procs, NEW n \in Nat, HandsTyped, Counted, ~Exists, sub.status # "none",
           NEW b \in {"active", "pending_payment"}, NEW st \in {"pending_payment", "unassigned"},
           Provision(n, b, st), Go(p, Idle), \A q \in Procs \ {p} : job[q].op = "idle"
    PROVE  Advances
<1>1. b \in BatchStatus /\ b # "none" /\ batch'.status = b
  BY DEF BatchStatus, Provision
<1>2. Counted'
  BY <1>1, ProvisionCounts
<1>3. Completed /\ Backed
  BY <1>1 DEF Completed, Backed
<1> QED BY <1>2, <1>3, Commits

LEMMA ResizedAdvances ==
    ASSUME HandsTyped, Counted, NEW p \in Procs, Keeps(job[p]),
           job[p].op \in {"resize", "reconcile"}, Resized(p, job[p].qty), Go(p, Idle),
           \A q \in Procs \ {p} : job[q].op = "idle"
    PROVE  Advances
<1>1. Exists /\ job[p].qty \in Nat /\ job[p].seen = batch
  BY DEF Keeps
<1>2. Counted' /\ batch'.status = batch.status
  BY <1>1, ResizedCounts
<1> QED BY <1>1, <1>2, Commits DEF Completed, Backed

LEMMA DeleteAdvances ==
    ASSUME HandsTyped, Counted, NEW m \in Procs, Keeps(job[m]), DeleteCommit(m),
           \A q \in Procs \ {m} : job[q].op = "idle"
    PROVE  Advances
<1>1. job[m].rows = Rows /\ Go(m, Idle) /\ batch' = NoBatch
  BY DEF DeleteCommit, Keeps, At
<1>2. \A l \in Licences : lic'[l] = IF l \in Rows THEN NoLicence ELSE lic[l]
  BY <1>1 DEF DeleteCommit
<1>3. Rows' = {} /\ Entitling' = {}
  BY <1>2 DEF Rows, Entitling, With, NoLicence
<1>4. Cardinality(Rows') = 0 /\ Cardinality(Entitling') = 0
  BY <1>3, FS_EmptySet
<1>5. batch' \in Batch /\ batch'.total = 0 /\ batch'.assigned = 0 /\ batch'.status = "none"
  BY <1>1 DEF NoBatch, Batch, BatchStatus
<1>6. Counted' /\ Completed /\ Backed
  BY <1>4, <1>5 DEF Counted, RowsMatchTotal, HeldIsCounted, Completed, Backed, Exists
<1> QED BY <1>1, <1>6, Commits

(* A manager's request, step by step. *)
LEMMA ManagerAdvances ==
    ASSUME Careful, Inv, Counted, Orderly, Billing, NEW m \in Managers, ManagerStep(m)
    PROVE  Advances
<1>1. m \in Procs /\ HandsTyped /\ Keeps(job[m])
  BY DEF Procs, Inv, Orderly
<1>2. ASSUME Alone(m) \/ job[m].op \notin Sharing PROVE \A q \in Procs \ {m} : job[q].op = "idle"
  BY <1>1, <1>2, Solitude
<1>3. ASSUME NEW n \in Quantities, Purchase(m, n) PROVE Advances
  <2>1. job'[m] = [Idle EXCEPT !.op = "buy", !.qty = n] /\ job' = [job EXCEPT ![m] = job'[m]]
    BY <1>1, <1>3 DEF Purchase, Go, HandsTyped
  <2>2. job'[m].op = "buy" /\ job'[m].qty = n
    BY <2>1 DEF Idle
  <2>3. UNCHANGED <<batch, lic>> /\ ~Exists /\ Alone(m)
    BY <1>3 DEF Purchase, Billing
  <2>4. sub' = [status |-> "incomplete", qty |-> n, ending |-> FALSE, direct |-> TRUE]
    BY <1>3 DEF Purchase
  <2>5. Keeps(job[m])'
    BY <2>2, <2>3, <2>4, BulkAssumption DEF Keeps, Exists
  <2> QED BY <1>1, <1>2, <2>1, <2>3, <2>5, TakesUp
<1>4. CASE PurchaseCommit(m)
  <2>1. /\ Provision(job[m].qty, "pending_payment", "pending_payment") /\ Go(m, Idle)
        /\ job[m].op = "buy"
    BY <1>4 DEF PurchaseCommit, At
  <2>2. job[m].qty \in Nat /\ ~Exists /\ sub.status # "none"
    BY <1>1, <2>1 DEF Keeps
  <2>3. \A q \in Procs \ {m} : job[q].op = "idle"
    BY <1>2, <2>1 DEF Sharing
  <2> QED BY <1>1, <2>1, <2>2, <2>3, ProvisionAdvances
<1>5. CASE PurchaseFails(m)
  <2>1. Go(m, Idle) /\ UNCHANGED <<batch, lic>> /\ sub' = [sub EXCEPT !.status = "canceled"]
    BY <1>5 DEF PurchaseFails
  <2>2. sub'.status = "canceled"
    BY <2>1 DEF Billing
  <2> QED BY <1>1, <2>1, <2>2, LetsGo
<1>6. CASE ResizeReverts(m)
  <2>1. Go(m, Idle) /\ UNCHANGED <<batch, lic>> /\ sub' = [sub EXCEPT !.qty = job[m].seen.total]
    BY <1>6 DEF ResizeReverts
  <2>2. sub'.status = sub.status
    BY <2>1 DEF Billing
  <2> QED BY <1>1, <2>1, <2>2, LetsGo
<1>7. CASE ResizeStranded(m)
  <2>1. Go(m, Idle) /\ UNCHANGED <<batch, lic, sub>>
    BY <1>7 DEF ResizeStranded
  <2> QED BY <1>1, <2>1, LetsGo
<1>8. ASSUME NEW u \in Users, AssignPick(m, u) PROVE Advances
  BY <1>1, <1>8, PickAdvances
<1>9. CASE AssignCommit(m)
  BY <1>9, AssignAdvances
<1>10. ASSUME NEW l \in Licences, RevokeRead(m, l) PROVE Advances
  BY <1>1, <1>10, RevokeReadAdvances
<1>11. CASE RevokeCommit(m)
  BY <1>11, RevokeAdvances
<1>12. ASSUME NEW q \in Quantities, ResizeRead(m, q) PROVE Advances
  <2>1. /\ job'[m] = [Idle EXCEPT !.op = "quantity", !.qty = q, !.seen = batch]
        /\ job' = [job EXCEPT ![m] = job'[m]]
    BY <1>1, <1>12 DEF ResizeRead, Go, HandsTyped
  <2>2. job'[m].op = "quantity" /\ job'[m].qty = q /\ job'[m].seen = batch
    BY <2>1 DEF Idle
  <2>3. UNCHANGED <<batch, lic>> /\ Exists /\ Alone(m)
    BY <1>12 DEF ResizeRead
  <2>4. Keeps(job[m])'
    BY <2>2, <2>3, BulkAssumption DEF Keeps, Exists
  <2> QED BY <1>1, <1>2, <2>1, <2>3, <2>4, TakesUp
<1>13. CASE ResizeStripe(m)
  <2>1. /\ job'[m] = [job[m] EXCEPT !.op = "resize"]
        /\ job' = [job EXCEPT ![m] = job'[m]] /\ job[m].op = "quantity"
    BY <1>1, <1>13 DEF ResizeStripe, Go, HandsTyped, At
  <2>2. job'[m].op = "resize" /\ job'[m].qty = job[m].qty /\ job'[m].seen = job[m].seen
    BY <1>1, <2>1 DEF HandsTyped, Hand
  <2>3. UNCHANGED <<batch, lic>> /\ job[m].op \notin Sharing
    BY <1>13, <2>1 DEF ResizeStripe, Sharing
  <2>4. Keeps(job[m])'
    BY <1>1, <2>1, <2>2, <2>3 DEF Keeps, Exists
  <2> QED BY <1>1, <1>2, <2>1, <2>3, <2>4, TakesUp
<1>14. CASE ResizeOfCancelled(m)
  <2>1. UNCHANGED <<batch, lic, sub>> /\ job[m].op = "quantity"
    BY <1>14 DEF ResizeOfCancelled, At
  <2>2. CASE Go(m, Idle)
    BY <1>1, <2>1, <2>2, LetsGo
  <2>3. CASE Go(m, Cancellation(Rows, {}))
    <3>1. Exists /\ job[m].op \notin Sharing
      BY <1>1, <2>1 DEF Keeps, Sharing
    <3>2. Keeps(job[m])' /\ job' = [job EXCEPT ![m] = job'[m]]
      BY <1>1, <2>1, <2>3, <3>1, CancellationKeeps
    <3> QED BY <1>1, <1>2, <2>1, <3>1, <3>2, TakesUp
  <2> QED BY <1>14, <2>2, <2>3 DEF ResizeOfCancelled
<1>15. CASE ResizeCommit(m)
  <2>1. Resized(m, job[m].qty) /\ Go(m, Idle) /\ job[m].op = "resize"
    BY <1>15 DEF ResizeCommit, At
  <2> QED BY <1>1, <1>2, <2>1, ResizedAdvances DEF Sharing
<1>16. CASE DeleteRead(m)
  <2>1. /\ job'[m] = [Idle EXCEPT !.op = "ask_end", !.rows = Rows]
        /\ job' = [job EXCEPT ![m] = job'[m]]
    BY <1>1, <1>16 DEF DeleteRead, Go, HandsTyped
  <2>2. job'[m].op = "ask_end" /\ job'[m].rows = Rows
    BY <2>1 DEF Idle
  <2>3. UNCHANGED <<batch, lic>> /\ Exists /\ Alone(m)
    BY <1>16 DEF DeleteRead
  <2>4. Keeps(job[m])'
    BY <2>2, <2>3 DEF Keeps, Rows, Exists
  <2> QED BY <1>1, <1>2, <2>1, <2>3, <2>4, TakesUp
<1>17. CASE DeleteStripe(m)
  <2>1. /\ job'[m] = [job[m] EXCEPT !.op = "delete"]
        /\ job' = [job EXCEPT ![m] = job'[m]] /\ job[m].op = "ask_end"
    BY <1>1, <1>17 DEF DeleteStripe, Go, HandsTyped, At
  <2>2. job'[m].op = "delete" /\ job'[m].rows = job[m].rows
    BY <1>1, <2>1 DEF HandsTyped, Hand
  <2>3. UNCHANGED <<batch, lic>> /\ job[m].op \notin Sharing
    BY <1>17, <2>1 DEF DeleteStripe, Sharing
  <2>4. Keeps(job[m])'
    BY <1>1, <2>1, <2>2, <2>3 DEF Keeps, Rows, Exists
  <2> QED BY <1>1, <1>2, <2>1, <2>3, <2>4, TakesUp
<1>18. CASE DeleteCommit(m)
  <2>1. job[m].op = "delete"
    BY <1>18 DEF DeleteCommit, At
  <2> QED BY <1>1, <1>2, <1>18, <2>1, DeleteAdvances DEF Sharing
<1>19. CASE CancelStep(m)
  BY <1>1, <1>19, CancelAdvances
<1> QED
  BY <1>3, <1>4, <1>5, <1>6, <1>7, <1>8, <1>9, <1>10, <1>11, <1>12, <1>13, <1>14, <1>15,
     <1>16, <1>17, <1>18, <1>19 DEF ManagerStep
-----------------------------------------------------------------------------
(* What a delivery handles is an event that Stripe has sent. *)
LEMMA EventIsNote ==
    ASSUME Billing, NEW h \in Hooks, Running(h)
    PROVE  Event(h) \in Notes /\ Event(h).qty \in Nat /\ sub.status # "none"
<1>1. hook[h].ev \in DOMAIN sent /\ sent \in Seq(Notes)
  BY DEF Billing, Running
<1>2. sent[hook[h].ev] \in Notes /\ sent # << >>
  BY <1>1
<1> QED BY <1>2 DEF Event, Notes, Billing

(* An invoice turns one licence in use into another state of use. *)
LEMMA InvoiceAdvances ==
    ASSUME Careful, HandsTyped, Counted, Orderly, NEW h \in Hooks, HookPaid(h) \/ HookUnpaid(h)
    PROVE  Advances
<1>1. h \in Procs /\ Go(h, Idle) /\ batch' = batch /\ sub' = sub /\ Alone(h)
  BY DEF Procs, HookPaid, HookUnpaid, Handling, Answer, Refuse
<1>2. CASE lic' = lic
  BY <1>1, <1>2, LetsGo
<1>3. ASSUME NEW S \in SUBSET Entitling, S # {}, NEW st \in {"active", "past_due"},
             lic' = [lic EXCEPT ![Min(S)].status = st]
      PROVE  Advances
  <2> DEFINE l == Min(S)
             v == [lic[l] EXCEPT !.status = st]
  <2>1. l \in Entitling /\ l \in Licences /\ lic[l].status \in {"active", "past_due"}
    BY <1>3, MinIsMember DEF Entitling, With
  <2> HIDE DEF l
  <2>2. v.status = st
    BY <2>1 DEF HandsTyped, Licence
  <2>3. lic' = [lic EXCEPT ![l] = v]
    BY <1>3 DEF l
  <2> HIDE DEF v
  <2>4. /\ Rows' = Rows \cup {l} /\ With("cancelled")' = With("cancelled") \ {l}
        /\ With("active")' = IF st = "active" THEN With("active") \cup {l} ELSE With("active") \ {l}
        /\ With("past_due")' = IF st = "past_due" THEN With("past_due") \cup {l}
                                                ELSE With("past_due") \ {l}
    BY <2>1, <2>2, <2>3, LicenceWritten
  <2>5. l \in Rows /\ l \notin With("cancelled")
    BY <2>1 DEF Rows, With
  <2>6. Rows' = Rows /\ With("cancelled")' = With("cancelled") /\ Entitling' = Entitling
    BY <2>1, <2>4, <2>5 DEF Entitling
  <2>7. Counted'
    BY <1>1, <2>6, StillCounted
  <2>8. \A q \in Procs \ {h} : job[q].op = "idle"
    BY <1>1, Solitude
  <2>9. Completed /\ Backed
    BY <1>1 DEF Completed, Backed, Exists
  <2> QED BY <1>1, <2>7, <2>8, <2>9, Commits
<1>4. CASE HookPaid(h)
  BY <1>2, <1>3, <1>4 DEF HookPaid
<1>5. CASE HookUnpaid(h)
  BY <1>2, <1>3, <1>5 DEF HookUnpaid, Entitling
<1> QED BY <1>4, <1>5

(* A webhook, step by step. *)
LEMMA HookAdvances ==
    ASSUME Careful, Inv, Counted, Orderly, Billing, NEW h \in Hooks, HookStep(h)
    PROVE  Advances
<1>1. h \in Procs /\ HandsTyped /\ Keeps(job[h])
  BY DEF Procs, Inv, Orderly
<1>2. ASSUME Alone(h) \/ job[h].op \notin Sharing PROVE \A q \in Procs \ {h} : job[q].op = "idle"
  BY <1>1, <1>2, Solitude
<1>3. ASSUME Go(h, Idle), UNCHANGED <<batch, lic, sub>> PROVE Advances
  BY <1>1, <1>3, LetsGo
<1>4. ASSUME Cancelling(h), Exists, Alone(h), UNCHANGED <<batch, lic, sub>> PROVE Advances
  BY <1>1, <1>2, <1>4, CancellingKeeps, TakesUp
<1>5. CASE Deliver(h)
  <2>1. UNCHANGED <<batch, lic, job, sub>>
    BY <1>5 DEF Deliver
  <2> QED BY <1>1, <2>1, StandsBy
<1>6. CASE HookCreated(h)
  <2>1. Go(h, Idle) /\ sub' = sub /\ Alone(h) /\ Running(h)
    BY <1>6 DEF HookCreated, Handling, Answer, Refuse
  <2>2. Event(h).qty \in Nat /\ sub.status # "none"
    BY <2>1, EventIsNote
  <2>3. \A q \in Procs \ {h} : job[q].op = "idle"
    BY <1>2, <2>1
  <2>4. CASE UNCHANGED <<batch, lic>>
    BY <1>3, <2>1, <2>4
  <2>5. CASE ~Exists /\ Provision(Event(h).qty, "active", "unassigned")
    BY <1>1, <2>1, <2>2, <2>3, <2>5, ProvisionAdvances
  <2>6. CASE ~Exists /\ Provision(Event(h).qty, "pending_payment", "pending_payment")
    BY <1>1, <2>1, <2>2, <2>3, <2>6, ProvisionAdvances
  <2> QED BY <1>6, <2>4, <2>5, <2>6 DEF HookCreated
<1>7. CASE HookUpdated(h)
  <2> DEFINE j == [Idle EXCEPT !.op = "reconcile", !.qty = Event(h).qty, !.seen = batch]
  <2>1. UNCHANGED <<batch, lic, sub>> /\ Alone(h) /\ Running(h)
    BY <1>7 DEF HookUpdated, Handling
  <2>2. Go(h, Idle) \/ (Cancelling(h) /\ Exists) \/ (Go(h, j) /\ Exists)
    BY <1>7 DEF HookUpdated, Answer, Refuse
  <2>3. CASE Go(h, j) /\ Exists
    <3>1. job'[h] = j /\ job' = [job EXCEPT ![h] = job'[h]]
      BY <1>1, <2>3 DEF Go, HandsTyped
    <3>2. j.op = "reconcile" /\ j.qty \in Nat /\ j.seen = batch
      BY <2>1, EventIsNote DEF Idle
    <3> HIDE DEF j
    <3>3. job'[h].op = "reconcile" /\ job'[h].qty \in Nat /\ job'[h].seen = batch' /\ Exists'
      BY <2>1, <2>3, <3>1, <3>2 DEF Exists
    <3>4. Keeps(job[h])'
      BY <3>3 DEF Keeps
    <3> QED BY <1>1, <1>2, <2>1, <3>1, <3>4, TakesUp
  <2> HIDE DEF j
  <2> QED BY <1>3, <1>4, <2>1, <2>2, <2>3
<1>8. CASE HookReconciles(h)
  <2>1. Go(h, Idle) /\ sub' = sub /\ job[h].op = "reconcile"
    BY <1>8 DEF HookReconciles, Answer, Refuse, At
  <2>2. CASE UNCHANGED <<batch, lic>>
    BY <1>3, <2>1, <2>2
  <2>3. CASE Resized(h, job[h].qty)
    BY <1>1, <1>2, <2>1, <2>3, ResizedAdvances DEF Sharing
  <2> QED BY <1>8, <2>2, <2>3 DEF HookReconciles
<1>9. CASE HookDeleted(h)
  <2>1. UNCHANGED <<batch, lic, sub>> /\ Alone(h)
    BY <1>9 DEF HookDeleted, Handling
  <2>2. Go(h, Idle) \/ (Cancelling(h) /\ Exists)
    BY <1>9 DEF HookDeleted, Refuse
  <2> QED BY <1>3, <1>4, <2>1, <2>2
<1>10. CASE HookPaid(h) \/ HookUnpaid(h)
  BY <1>1, <1>10, InvoiceAdvances
<1>11. CASE CancelStep(h)
  BY <1>1, <1>11, CancelAdvances
<1> QED BY <1>5, <1>6, <1>7, <1>8, <1>9, <1>10, <1>11 DEF HookStep
-----------------------------------------------------------------------------
(* Stripe's log grows at its end. *)
LEMMA EmitAppends ==
    ASSUME NEW es \in Seq(Notes), sent \in Seq(Notes), Emit(es)
    PROVE  /\ sent' \in Seq(Notes) /\ DOMAIN sent \subseteq DOMAIN sent'
<1> DEFINE n == Len(sent)
           k == Len(es)
<1>1. n \in Nat /\ k \in Nat /\ DOMAIN sent = 1 .. n /\ DOMAIN es = 1 .. k
  OBVIOUS
<1>2. Cardinality(1 .. n) = n /\ Cardinality(1 .. k) = k
  <2>1. ASSUME NEW i \in Nat PROVE Cardinality(1 .. i) = i
    BY FS_Interval
  <2> QED BY <1>1, <2>1
<1>3. Cardinality(DOMAIN sent) = n /\ Cardinality(DOMAIN es) = k
  BY <1>1, <1>2
<1>4. sent' = [i \in 1 .. (n + k) |-> IF i \in 1 .. n THEN sent[i] ELSE es[i - n]]
  BY <1>1, <1>3 DEF Emit
<1>5. \A i \in 1 .. n : sent[i] \in Notes
  BY <1>1
<1>6. \A i \in 1 .. k : es[i] \in Notes
  BY <1>1
<1> HIDE DEF n, k
<1>7. ASSUME NEW i \in 1 .. (n + k) PROVE sent'[i] \in Notes
  <2>1. CASE i \in 1 .. n
    BY <1>4, <1>5, <2>1
  <2>2. CASE i \notin 1 .. n
    <3>1. i - n \in 1 .. k
      BY <1>1, <2>2
    <3>2. sent'[i] = es[i - n]
      BY <1>4, <2>2
    <3> QED BY <1>6, <3>1, <3>2
  <2> QED BY <2>1, <2>2
<1>8. n + k \in Nat /\ DOMAIN sent' = 1 .. (n + k)
  BY <1>1, <1>4
<1>9. sent' \in [1 .. (n + k) -> Notes]
  BY <1>4, <1>7, <1>8
<1>10. sent' \in Seq(Notes)
  BY <1>8, <1>9
<1> QED BY <1>1, <1>8, <1>10

(* Stripe changes the subscription and says so. *)
LEMMA Announces ==
    ASSUME NEW es \in Seq(Notes), Billing, Backed, Emit(es), hook' = hook,
           sub' \in Subscription,
           sub'.status # "none"
    PROVE  Billing'
<1>1. sent' \in Seq(Notes) /\ DOMAIN sent \subseteq DOMAIN sent'
  BY EmitAppends DEF Billing
<1> QED BY <1>1 DEF Billing

(* Nothing happens at Stripe, and no delivery moves. *)
LEMMA Unbilled ==
    ASSUME Billing, Backed, UNCHANGED <<sub, sent, hook>>
    PROVE  Billing'
BY DEF Billing, Backed

(* A delivery is done with its event, or lost. *)
LEMMA Rests ==
    ASSUME NEW h \in Hooks, Billing, Backed, UNCHANGED <<sub, sent>>,
           hook' = [hook EXCEPT ![h] = Resting] \/ hook' = hook
    PROVE  Billing'
<1>1. DOMAIN Resting = {"pc", "ev", "seen"} /\ Resting.pc = "idle"
  BY DEF Resting
<1> HIDE DEF Resting
<1>2. /\ hook' = [g \in Hooks |-> hook'[g]]
      /\ \A g \in Hooks : hook'[g] = hook[g] \/ hook'[g] = Resting
  BY DEF Billing
<1>3. /\ sub' \in Subscription
      /\ sent' \in Seq(Notes)
      /\ sub'.status = "none" => sent' = << >> /\ ~Exists'
  BY DEF Billing, Backed
<1>4. ASSUME NEW g \in Hooks
      PROVE  /\ DOMAIN hook'[g] = {"pc", "ev", "seen"}
             /\ hook'[g].pc # "idle" => hook'[g].ev \in DOMAIN sent'
  <2>1. CASE hook'[g] = hook[g]
    BY <2>1 DEF Billing
  <2>2. CASE hook'[g] = Resting
    BY <1>1, <2>2
  <2> QED BY <1>2, <2>1, <2>2
<1> QED BY <1>2, <1>3, <1>4 DEF Billing

(* A delivery is posted, or claims its event. *)
LEMMA DeliverBills ==
    ASSUME NEW h \in Hooks, Billing, Backed, Deliver(h)
    PROVE  Billing'
<1>1. UNCHANGED <<sub, sent>>
  BY DEF Deliver, Post, Claim
<1>2. ASSUME NEW e \in Events, Post(h, e) PROVE Billing'
  <2> DEFINE d == [pc |-> "seen", ev |-> e, seen |-> row[e]]
  <2>1. hook' = [hook EXCEPT ![h] = d] /\ e \in DOMAIN sent
    BY <1>2 DEF Post, Deliverable
  <2>2. DOMAIN d = {"pc", "ev", "seen"} /\ d.ev = e
    OBVIOUS
  <2> HIDE DEF d
  <2> QED BY <1>1, <2>1, <2>2 DEF Billing, Backed
<1>3. CASE Claim(h)
  <2>1. CASE hook' = [hook EXCEPT ![h].pc = "run"]
    <3>1. hook[h].pc # "idle"
      BY <1>3 DEF Claim
    <3>2. DOMAIN hook'[h] = {"pc", "ev", "seen"} /\ hook'[h].ev = hook[h].ev
      BY <2>1 DEF Billing
    <3>3. hook' = [g \in Hooks |-> hook'[g]] /\ \A g \in Hooks \ {h} : hook'[g] = hook[g]
      BY <2>1 DEF Billing
    <3> QED BY <1>1, <3>1, <3>2, <3>3 DEF Billing, Backed
  <2>2. CASE hook' = [hook EXCEPT ![h] = Resting]
    BY <1>1, <2>2, Rests
  <2> QED BY <1>3, <2>1, <2>2 DEF Claim
<1> QED BY <1>2, <1>3 DEF Deliver

(* One or two notes are a sequence of notes. *)
LEMMA NoteIsNote ==
    ASSUME NEW s \in Subscription,
           NEW type \in NoteType,
           NEW type2 \in NoteType
    PROVE  << Note(type, s) >> \in Seq(Notes) /\ << Note(type, s), Note(type2, s) >> \in Seq(Notes)
<1>1. Note(type, s) \in Notes /\ Note(type2, s) \in Notes
  BY DEF Note, Notes, Subscription
<1> HIDE DEF Note
<1> QED BY <1>1

(* Whoever changes the subscription writes a quantity that somebody read. *)
LEMMA StripeBills ==
    ASSUME Billing, Backed, StripeStep
    PROVE  Billing'
<1>1. ASSUME sub' \in Subscription, sub'.status # "none", hook' = hook,
             NEW t1 \in NoteType,
             NEW t2 \in NoteType,
             Emit(<< Note(t1, sub') >>) \/ Emit(<< Note(t1, sub'), Note(t2, sub') >>)
      PROVE  Billing'
  BY <1>1, NoteIsNote, Announces
<1>2. ASSUME NEW n \in Quantities, Checkout(n) PROVE Billing'
  <2>1. sub' = [status |-> "active", qty |-> n, ending |-> FALSE, direct |-> FALSE] /\ hook' = hook
    BY <1>2 DEF Checkout
  <2>2. sub' \in Subscription /\ sub'.status # "none"
    BY <2>1, BulkAssumption DEF Subscription, SubStatus
  <2>3. Emit(<< Note("created", sub'), Note("paid", sub') >>)
    BY <1>2 DEF Checkout
  <2> QED BY <1>1, <2>1, <2>2, <2>3 DEF NoteType
<1>3. CASE Pay
  <2>1. sub' = [sub EXCEPT !.status = "active"] /\ hook' = hook
    BY <1>3 DEF Pay
  <2>2. sub' \in Subscription /\ sub'.status # "none"
    BY <2>1 DEF Billing, Subscription, SubStatus
  <2>3. Emit(<< Note("updated", sub'), Note("paid", sub') >>)
    BY <1>3 DEF Pay
  <2> QED BY <1>1, <2>1, <2>2, <2>3 DEF NoteType
<1>4. CASE End
  <2>1. sub' = [sub EXCEPT !.status = "canceled", !.ending = TRUE] /\ hook' = hook
    BY <1>4 DEF End
  <2>2. sub' \in Subscription /\ sub'.status # "none"
    BY <2>1 DEF Billing, Subscription, SubStatus
  <2>3. Emit(<< Note("deleted", sub') >>)
    BY <1>4 DEF End
  <2> QED BY <1>1, <2>1, <2>2, <2>3 DEF NoteType
<1>5. ASSUME NEW type \in {"paid", "unpaid"}, Invoice(type) PROVE Billing'
  <2>1. sub' = sub /\ hook' = hook /\ sub'.status # "none"
    BY <1>5 DEF Invoice
  <2>2. sub' \in Subscription
    BY <2>1 DEF Billing
  <2>3. Emit(<< Note(type, sub') >>)
    BY <1>5, <2>1 DEF Invoice
  <2> QED BY <1>1, <2>1, <2>2, <2>3 DEF NoteType
<1> QED BY <1>2, <1>3, <1>4, <1>5 DEF StripeStep
(* What the managers ask of Stripe is a quantity that was typed or read. *)
LEMMA ManagerBills ==
    ASSUME NEW m \in Managers, Inv, Counted, Orderly, Billing, Backed, ManagerStep(m)
    PROVE  Billing'
<1>1. m \in Procs /\ Keeps(job[m]) /\ batch.total \in Nat
  BY DEF Procs, Orderly, Counted, Batch
<1>2. ASSUME sub' \in Subscription, sub'.status # "none", hook' = hook,
             NEW t \in NoteType, Emit(<< Note(t, sub') >>)
      PROVE  Billing'
  BY <1>2, NoteIsNote, Announces
<1>3. ASSUME NEW n \in Quantities, Purchase(m, n) PROVE Billing'
  <2>1. sub' = [status |-> "incomplete", qty |-> n, ending |-> FALSE, direct |-> TRUE] /\ hook' = hook
    BY <1>3 DEF Purchase
  <2>2. sub' \in Subscription /\ sub'.status # "none"
    BY <2>1, BulkAssumption DEF Subscription, SubStatus
  <2>3. Emit(<< Note("created", sub') >>)
    BY <1>3 DEF Purchase
  <2> QED BY <1>2, <2>1, <2>2, <2>3 DEF NoteType
<1>4. CASE PurchaseFails(m)
  <2>1. sub' = [sub EXCEPT !.status = "canceled"] /\ hook' = hook
    BY <1>4 DEF PurchaseFails
  <2>2. sub' \in Subscription /\ sub'.status # "none"
    BY <2>1 DEF Billing, Subscription, SubStatus
  <2>3. Emit(<< Note("deleted", sub') >>)
    BY <1>4 DEF PurchaseFails
  <2> QED BY <1>2, <2>1, <2>2, <2>3 DEF NoteType
<1>5. CASE ResizeStripe(m)
  <2>1. sub' = [sub EXCEPT !.qty = job[m].qty] /\ hook' = hook /\ job[m].op = "quantity"
    BY <1>5 DEF ResizeStripe, At
  <2>2. job[m].qty \in Nat /\ Exists
    BY <1>1, <2>1 DEF Keeps
  <2>3. sub' \in Subscription /\ sub'.status # "none"
    BY <2>1, <2>2 DEF Billing, Subscription, SubStatus
  <2>4. Emit(<< Note("updated", sub') >>)
    BY <1>5 DEF ResizeStripe
  <2> QED BY <1>2, <2>1, <2>3, <2>4 DEF NoteType
<1>6. CASE ResizeReverts(m)
  <2>1. sub' = [sub EXCEPT !.qty = job[m].seen.total] /\ hook' = hook /\ job[m].op = "resize"
    BY <1>6 DEF ResizeReverts, At
  <2>2. job[m].seen.total \in Nat /\ Exists
    BY <1>1, <2>1 DEF Keeps
  <2>3. sub' \in Subscription /\ sub'.status # "none"
    BY <2>1, <2>2 DEF Billing, Subscription, SubStatus
  <2>4. Emit(<< Note("updated", sub') >>)
    BY <1>6 DEF ResizeReverts
  <2> QED BY <1>2, <2>1, <2>3, <2>4 DEF NoteType
<1>7. CASE DeleteStripe(m)
  <2>1. hook' = hook /\ Exists
    BY <1>1, <1>7 DEF DeleteStripe, At, Keeps
  <2>2. CASE UNCHANGED <<sub, sent>>
    BY <2>1, <2>2, Unbilled
  <2>3. CASE sub.status # "canceled" /\ sub' = [sub EXCEPT !.ending = TRUE] /\ Emit(<< Note("updated", sub') >>)
    <3>1. sub' \in Subscription /\ sub'.status # "none"
      BY <2>1, <2>3 DEF Billing, Subscription
    <3> QED BY <1>2, <2>1, <2>3, <3>1 DEF NoteType
  <2> QED BY <1>7, <2>2, <2>3 DEF DeleteStripe
<1>8. ASSUME UNCHANGED <<sub, sent, hook>> PROVE Billing'
  BY <1>8, Unbilled
<1>9. ASSUME UNCHANGED <<sub, eventVars>> PROVE Billing'
  BY <1>9, Unbilled DEF eventVars
<1>10. CASE PurchaseCommit(m) \/ AssignCommit(m) \/ RevokeCommit(m)
  BY <1>9, <1>10 DEF PurchaseCommit, AssignCommit, RevokeCommit
<1>11. CASE (\E u \in Users : AssignPick(m, u)) \/ (\E l \in Licences : RevokeRead(m, l))
  BY <1>9, <1>11 DEF AssignPick, RevokeRead
<1>12. CASE (\E q \in Quantities : ResizeRead(m, q)) \/ ResizeOfCancelled(m)
  BY <1>9, <1>12 DEF ResizeRead, ResizeOfCancelled
<1>13. CASE ResizeCommit(m) \/ ResizeStranded(m) \/ DeleteRead(m) \/ DeleteCommit(m)
  BY <1>9, <1>13 DEF ResizeCommit, ResizeStranded, DeleteRead, DeleteCommit
<1>14. CASE CancelStep(m)
  <2>1. ASSUME NEW l \in Licences, CancelLicence(m, l) PROVE Billing'
    BY <1>9, <2>1 DEF CancelLicence
  <2>3. ASSUME NEW l \in Licences, MissLicence(m, l) PROVE Billing'
    BY <1>9, <2>3 DEF MissLicence
  <2>4. CASE CancelFails(m)
    <3>1. CASE UNCHANGED eventVars
      BY <1>9, <2>4, <3>1 DEF CancelFails
    <3>2. CASE m \in Hooks /\ Refuse(m)
      BY <2>4, <3>2, Rests DEF CancelFails, Refuse, Failed
    <3> QED BY <2>4, <3>1, <3>2 DEF CancelFails
  <2>2. CASE CancelBatch(m)
    <3>1. CASE UNCHANGED eventVars
      BY <1>9, <2>2, <3>1 DEF CancelBatch
    <3>2. CASE m \in Hooks /\ Answer(m)
      BY <2>2, <3>2, Rests DEF CancelBatch, Answer, Processed
    <3> QED BY <2>2, <3>1, <3>2 DEF CancelBatch
  <2> QED BY <1>14, <2>1, <2>2, <2>3, <2>4 DEF CancelStep
<1> QED
  BY <1>3, <1>4, <1>5, <1>6, <1>7, <1>10, <1>11, <1>12, <1>13, <1>14 DEF ManagerStep

(* The webhooks bill nothing. *)
LEMMA HookBills ==
    ASSUME NEW h \in Hooks, Billing, Backed, HookStep(h)
    PROVE  Billing'
<1>1. CASE Deliver(h)
  BY <1>1, DeliverBills
<1>2. ASSUME Answer(h) \/ Refuse(h) \/ UNCHANGED eventVars, sub' = sub PROVE Billing'
  BY <1>2, Rests DEF Answer, Refuse, Processed, Failed, eventVars
<1>3. CASE HookCreated(h)
  BY <1>2, <1>3 DEF HookCreated
<1>4. CASE HookUpdated(h) \/ HookDeleted(h)
  BY <1>2, <1>4 DEF HookUpdated, HookDeleted
<1>5. CASE HookReconciles(h)
  BY <1>2, <1>5 DEF HookReconciles
<1>6. CASE HookPaid(h) \/ HookUnpaid(h)
  BY <1>2, <1>6 DEF HookPaid, HookUnpaid
<1>7. CASE CancelStep(h)
  BY <1>2, <1>7 DEF CancelStep, CancelLicence, MissLicence, CancelBatch, CancelFails
<1> QED BY <1>1, <1>3, <1>4, <1>5, <1>6, <1>7 DEF HookStep

(* Every step of a careful server. *)
LEMMA StepCounts == Careful /\ Counts /\ [Next]_vars => Counts' /\ Completed
<1> SUFFICES ASSUME Careful, Counts, [Next]_vars PROVE Counts' /\ Completed
  OBVIOUS
<1>1. Inv /\ HandsTyped /\ Counted /\ Orderly /\ Billing /\ Inv'
  BY StepRespects DEF Counts, Inv
<1>2. ASSUME NEW m \in Managers, ManagerStep(m) PROVE Advances /\ Billing'
  <2>1. Advances
    BY <1>1, <1>2, ManagerAdvances
  <2> QED BY <1>1, <1>2, <2>1, ManagerBills DEF Advances
<1>3. ASSUME NEW h \in Hooks, HookStep(h) PROVE Advances /\ Billing'
  <2>1. Advances
    BY <1>1, <1>3, HookAdvances
  <2> QED BY <1>1, <1>3, <2>1, HookBills DEF Advances
<1>4. ASSUME NEW p \in Procs, Dies(p) PROVE Advances /\ Billing'
  <2>1. Go(p, Idle) /\ UNCHANGED <<batch, lic, sub>>
    BY <1>4 DEF Dies
  <2>2. Advances
    BY <1>1, <2>1, LetsGo
  <2>3. CASE UNCHANGED eventVars
    BY <1>1, <2>1, <2>2, <2>3, Unbilled DEF Advances, eventVars
  <2>4. CASE p \in Hooks /\ HookDies(p)
    BY <1>1, <2>1, <2>2, <2>4, Rests DEF Advances, HookDies
  <2> QED BY <1>4, <2>2, <2>3, <2>4 DEF Dies
<1>5. ASSUME StripeStep PROVE Advances /\ Billing'
  <2>1. UNCHANGED <<batch, lic, job>>
    BY <1>5 DEF StripeStep, Checkout, Pay, End, Invoice
  <2>2. sub.status # "none" => sub'.status # "none"
    <3>1. CASE sub' = sub
      BY <3>1
    <3>2. CASE Pay \/ End
      BY <1>1, <3>2 DEF Pay, End, Billing, Subscription
    <3>3. CASE \E n \in Quantities \ {0} : Checkout(n)
      BY <3>3 DEF Checkout
    <3> QED BY <1>5, <3>1, <3>2, <3>3 DEF StripeStep, Invoice
  <2>3. Advances
    BY <1>1, <2>1, <2>2, StandsBy
  <2>4. Backed
    BY <2>3 DEF Advances
  <2> QED BY <1>1, <1>5, <2>3, <2>4, StripeBills
<1>6. ASSUME UNCHANGED vars PROVE Advances /\ Billing'
  <2>1. UNCHANGED <<batch, lic, job, sub, sent, hook>>
    BY <1>6 DEF vars
  <2>2. Advances
    BY <1>1, <2>1, StandsBy
  <2>3. Backed
    BY <2>2 DEF Advances
  <2> QED BY <1>1, <2>1, <2>2, <2>3, Unbilled
<1>7. Advances /\ Billing'
  BY <1>2, <1>3, <1>4, <1>5, <1>6 DEF Next
<1> QED BY <1>1, <1>7 DEF Advances, Counts

(* A batch that nobody has bought. *)
LEMMA InitCounts == Init => Counts
<1> SUFFICES ASSUME Init PROVE Counts
  OBVIOUS
<1>1. Inv
  BY InitHolds
<1>2. /\ batch = NoBatch /\ lic = [l \in Licences |-> NoLicence]
      /\ job = [p \in Procs |-> Idle] /\ EventsInit
      /\ sub = [status |-> "none", qty |-> 0, ending |-> FALSE, direct |-> FALSE]
  BY DEF Init
<1>3. Rows = {} /\ Entitling = {}
  BY <1>2 DEF Rows, Entitling, With, NoLicence
<1>4. Cardinality(Rows) = 0 /\ Cardinality(Entitling) = 0
  BY <1>3, FS_EmptySet
<1>5. batch \in Batch /\ batch.total = 0 /\ batch.assigned = 0 /\ ~Exists
  BY <1>2 DEF NoBatch, Batch, BatchStatus, Exists
<1>6. Counted
  BY <1>4, <1>5 DEF Counted, RowsMatchTotal, HeldIsCounted
<1>7. \A p \in Procs : job[p].op = "idle"
  BY <1>2 DEF Idle
<1>8. Orderly
  BY <1>7 DEF Orderly, Apart, Keeps, Sharing
<1>9. sub \in Subscription
  BY <1>2 DEF Subscription, SubStatus
<1>10. Billing
  <2>1. sent = << >> /\ hook = [h \in Hooks |-> Resting]
    BY <1>2 DEF EventsInit
  <2>2. DOMAIN Resting = {"pc", "ev", "seen"} /\ Resting.pc = "idle"
    BY DEF Resting
  <2> HIDE DEF Resting
  <2> QED BY <1>5, <1>9, <2>1, <2>2 DEF Billing
<1> QED BY <1>1, <1>6, <1>8, <1>10 DEF Counts

(* With careful managers the total of a batch is the number of its rows: for *)
(* any quantities, deliveries in any order, and crashes.                    *)
THEOREM TotalsMatchRows == ASSUME Careful PROVE Spec => []RowsMatchTotal
<1>1. Counts => RowsMatchTotal
  BY DEF Counts, Counted
<1>2. Counts /\ [Next]_vars => Counts'
  BY StepCounts
<1> QED BY <1>1, <1>2, InitCounts, PTL DEF Spec

(* ... the counter that admits assignments is the number of licences held ... *)
THEOREM CounterIsHeld == ASSUME Careful PROVE Spec => []HeldIsCounted
<1>1. Counts => HeldIsCounted
  BY DEF Counts, Counted
<1>2. Counts /\ [Next]_vars => Counts'
  BY StepCounts
<1> QED BY <1>1, <1>2, InitCounts, PTL DEF Spec

(* ... and a batch is cancelled only after each of its licences, but for     *)
(* those that this cancellation could not write.                           *)
THEOREM CancellationsComplete == ASSUME Careful PROVE Spec => CancellationIsComplete
<1>1. Counts /\ [Next]_vars => Counts'
  BY StepCounts
<1>2. Counts /\ [Next]_vars =>
         [(batch.status # "cancelled" /\ batch'.status = "cancelled")
             => \E p \in Procs : At(p, "cancel") /\ Rows \ With("cancelled") \subseteq job[p].missed]_vars
  BY StepCounts DEF Completed
<1> QED BY <1>1, <1>2, InitCounts, PTL DEF Spec, CancellationIsComplete

-----------------------------------------------------------------------------
(***************************************************************************)
(* What Stripe bills.  Managers are careful, events come in order, no two   *)
(* deliveries of one event overlap and no server dies in a handler.        *)
(***************************************************************************)
Attended == Careful /\ InOrder /\ ~Timeouts /\ Crashes \cap Hooks = {}

RowStatus == {"none", "reserved", "processed", "failed"}
Of(type) == {e \in DOMAIN sent : sent[e].type = type}
Updates == Of("updated")
Unanswered == Updates \ acked
Works(h) == hook[h].pc # "idle"

(* A delivery that claims its event gets it: nobody else works on it, and a *)
(* row is reserved only while its handler runs.                            *)
Desk ==
    /\ row \in [Events -> RowStatus]
    /\ DOMAIN sent \subseteq Events /\ acked \subseteq DOMAIN sent
    /\ \A e \in Events :
         /\ row[e] # "none" => e \in DOMAIN sent
         /\ row[e] = "processed" => e \in acked
         /\ row[e] = "reserved" => \E h \in Hooks : Running(h) /\ hook[h].ev = e
    /\ \A h \in Hooks :
         /\ hook[h].pc \in {"idle", "seen", "run"}
         /\ Works(h) => hook[h].ev \in DOMAIN sent \ acked
         /\ hook[h].pc = "seen" => hook[h].seen \in {"none", "failed"} /\ row[hook[h].ev] = hook[h].seen
         /\ Running(h) => row[hook[h].ev] = "reserved"
    /\ \A h, k \in Hooks : Works(h) /\ Works(k) /\ hook[h].ev = hook[k].ev => h = k

(* Events of one type are answered in turn. *)
Turns ==
    \A e, f \in DOMAIN sent :
        (f < e /\ sent[f].type = sent[e].type) =>
            /\ e \in acked => f \in acked
            /\ \A h \in Hooks : Works(h) /\ hook[h].ev = e => f \in acked

(* The newest update tells the quantity, the creation tells it before them, *)
(* and the creation of a Checkout is answered before anything else.        *)
Told ==
    /\ \A e \in Updates : (\A f \in Updates : f <= e) => sent[e].qty = sub.qty
    /\ \A e \in Of("created") :
         /\ e = 1
         /\ Updates = {} => sent[e].qty = sub.qty
         /\ e \notin acked /\ ~sent[e].direct =>
              /\ acked = {} /\ row[e] # "failed"
              /\ \A h \in Hooks : Works(h) => hook[h].ev = e

(* A resize that has told Stripe has an update to come, and a reconciliation *)
(* brings the quantity of its event.                                        *)
Hands ==
    \A p \in Procs :
        /\ job[p].op = "buy" => job[p].qty = sub.qty
        /\ job[p].op = "resize" => Unanswered # {}
        /\ job[p].op = "reconcile" =>
             p \in Hooks /\ Running(p) /\ Event(p).type = "updated" /\ job[p].qty = Event(p).qty
        /\ p \in Hooks /\ job[p].op = "cancel" => Running(p) /\ Event(p).type # "created"

Linked == (Exists /\ batch.status # "cancelled" /\ Unanswered = {}) => batch.total = sub.qty

Billed == Desk /\ Turns /\ Told /\ Hands /\ Linked

-----------------------------------------------------------------------------
(* Stripe adds k events of these types to a log of n, about the subscription s. *)
Adds(n, k, types, s) ==
    /\ n \in Nat /\ k \in {1, 2} /\ n + k <= MaxEvents
    /\ DOMAIN sent = 1 .. n /\ DOMAIN sent' = 1 .. (n + k)
    /\ \A i \in 1 .. n : sent'[i] = sent[i]
    /\ \A i \in 1 .. k : sent'[n + i].type = types[i] /\ sent'[n + i].qty = s.qty

(* One note or two are added as Emit adds them. *)
LEMMA NotesAreAdded ==
    ASSUME Billing, NEW s, NEW k \in {1, 2}, NEW types, NEW es, DOMAIN es = 1 .. k,
           \A i \in 1 .. k : es[i] = Note(types[i], s), Emit(es)
    PROVE  Adds(Len(sent), k, types, s)
<1> DEFINE n == Len(sent)
<1>1. n \in Nat /\ DOMAIN sent = 1 .. n
  BY DEF Billing
<1>2. \A i \in Nat : Cardinality(1 .. i) = i
  BY FS_Interval
<1> HIDE DEF n
<1>3. Cardinality(DOMAIN sent) = n /\ Cardinality(DOMAIN es) = k
  BY <1>1, <1>2
<1>4. n + k <= MaxEvents
  BY <1>3 DEF Emit
<1>5. sent' = [i \in 1 .. (n + k) |-> IF i \in 1 .. n THEN sent[i] ELSE es[i - n]]
  BY <1>1, <1>3 DEF Emit
<1>6. \A i \in 1 .. n : sent'[i] = sent[i]
  BY <1>1, <1>5
<1>7. ASSUME NEW i \in 1 .. k PROVE sent'[n + i].type = types[i] /\ sent'[n + i].qty = s.qty
  <2>1. n + i \in 1 .. (n + k) /\ n + i \notin 1 .. n /\ (n + i) - n = i
    BY <1>1
  <2>2. sent'[n + i] = es[i]
    BY <1>5, <2>1
  <2>3. es[i] = Note(types[i], s)
    OBVIOUS
  <2> QED BY <2>2, <2>3 DEF Note
<1>8. Adds(n, k, types, s)
  BY <1>1, <1>4, <1>5, <1>6, <1>7 DEF Adds
<1> QED BY <1>8 DEF n

LEMMA NoteIsAdded ==
    ASSUME Billing, NEW s, NEW t, Emit(<< Note(t, s) >>)
    PROVE  Adds(Len(sent), 1, << t >>, s)
<1> DEFINE es == << Note(t, s) >>
           types == << t >>
<1>1. DOMAIN es = 1 .. 1 /\ \A i \in 1 .. 1 : es[i] = Note(types[i], s)
  OBVIOUS
<1>2. Emit(es)
  OBVIOUS
<1> HIDE DEF es, types
<1>3. Adds(Len(sent), 1, types, s)
  BY <1>1, <1>2, NotesAreAdded
<1> QED BY <1>3 DEF types

LEMMA PairIsAdded ==
    ASSUME Billing, NEW s, NEW t, NEW u, Emit(<< Note(t, s), Note(u, s) >>)
    PROVE  Adds(Len(sent), 2, << t, u >>, s)
<1> DEFINE es == << Note(t, s), Note(u, s) >>
           types == << t, u >>
<1>1. DOMAIN es = 1 .. 2 /\ \A i \in 1 .. 2 : es[i] = Note(types[i], s)
  OBVIOUS
<1>2. Emit(es)
  OBVIOUS
<1> HIDE DEF es, types
<1>3. Adds(Len(sent), 2, types, s)
  BY <1>1, <1>2, NotesAreAdded
<1> QED BY <1>3 DEF types

(* An event of the longer log is old, or one of the new ones. *)
LEMMA OldOrNew ==
    ASSUME NEW n, NEW k, NEW types, NEW s, Adds(n, k, types, s)
    PROVE  /\ \A e \in DOMAIN sent' : e \in 1 .. n \/ \E i \in 1 .. k : e = n + i
           /\ DOMAIN sent \subseteq DOMAIN sent'
           /\ \A i \in 1 .. k : n + i \in DOMAIN sent' \ DOMAIN sent
<1>1. n \in Nat /\ k \in {1, 2} /\ DOMAIN sent = 1 .. n /\ DOMAIN sent' = 1 .. (n + k)
  BY DEF Adds
<1>2. ASSUME NEW e \in 1 .. (n + k), e \notin 1 .. n PROVE \E i \in 1 .. k : e = n + i
  <2>1. e - n \in 1 .. k /\ e = n + (e - n)
    BY <1>1, <1>2
  <2> QED BY <2>1
<1>3. 1 .. n \subseteq 1 .. (n + k) /\ \A i \in 1 .. k : n + i \in 1 .. (n + k) /\ n + i \notin 1 .. n
  BY <1>1
<1> QED BY <1>1, <1>2, <1>3

(* What is new was neither delivered nor answered. *)
LEMMA AddedIsFresh ==
    ASSUME Desk, Turns, NEW n, NEW k, NEW types, NEW s, Adds(n, k, types, s),
           UNCHANGED <<row, acked, hook>>
    PROVE  Desk' /\ Turns'
<1>1. /\ DOMAIN sent \subseteq DOMAIN sent' /\ DOMAIN sent' \subseteq Events
      /\ \A e \in DOMAIN sent : sent'[e] = sent[e]
  <2>1. DOMAIN sent \subseteq DOMAIN sent'
    BY OldOrNew
  <2> QED BY <2>1, EventsAssumption DEF Adds, Events
<1>2. Desk'
  BY <1>1 DEF Desk, Works, Running
<1>3. Turns'
  <2> SUFFICES ASSUME NEW e \in DOMAIN sent', NEW f \in DOMAIN sent', f < e, sent'[f].type = sent'[e].type
               PROVE  (e \in acked => f \in acked) /\ \A h \in Hooks : Works(h) /\ hook[h].ev = e => f \in acked
    BY DEF Turns, Works
  <2>1. CASE e \notin DOMAIN sent
    BY <2>1 DEF Desk
  <2>2. CASE e \in DOMAIN sent
    <3>1. f \in DOMAIN sent
      BY <2>2 DEF Adds
    <3> QED BY <1>1, <2>2, <3>1 DEF Turns
  <2> QED BY <2>1, <2>2
<1> QED BY <1>2, <1>3

(* The newest update still tells the quantity, as an update announces every *)
(* new one.                                                                *)
LEMMA AddedIsTold ==
    ASSUME Desk, Told, NEW n, NEW k, NEW types, Adds(n, k, types, sub'), UNCHANGED <<row, acked, hook>>,
           \A i \in 1 .. k : types[i] = "created" => n = 0 /\ i = 1,
           sub'.qty = sub.qty \/ n = 0 \/ types[1] = "updated"
    PROVE  /\ Told' /\ Unanswered \subseteq Unanswered'
           /\ types[1] = "updated" => Unanswered' # {}
<1>1. /\ DOMAIN sent \subseteq DOMAIN sent'
      /\ \A e \in DOMAIN sent' : e \in 1 .. n \/ \E i \in 1 .. k : e = n + i
      /\ \A i \in 1 .. k : n + i \in DOMAIN sent' \ DOMAIN sent
  BY OldOrNew
<1>2. /\ n \in Nat /\ 1 \in 1 .. k /\ k \in {1, 2} /\ DOMAIN sent = 1 .. n
      /\ \A e \in DOMAIN sent : sent'[e] = sent[e]
      /\ \A i \in 1 .. k : sent'[n + i].type = types[i] /\ sent'[n + i].qty = sub'.qty
  BY DEF Adds
<1>3. Updates \subseteq Updates'
  BY <1>1, <1>2 DEF Updates, Of
<1>4. types[1] = "updated" => n + 1 \in Updates' /\ n + 1 \notin acked
  BY <1>1, <1>2 DEF Updates, Of, Desk
<1>5. ASSUME NEW e \in Updates', \A f \in Updates' : f <= e PROVE sent'[e].qty = sub'.qty
  <2>1. e \in DOMAIN sent' /\ sent'[e].type = "updated"
    BY DEF Updates, Of
  <2>2. CASE e \in 1 .. n
    <3>1. e \in Updates /\ \A f \in Updates : f <= e
      BY <1>2, <1>3, <1>5, <2>1, <2>2 DEF Updates, Of
    <3>2. sent[e].qty = sub.qty
      BY <3>1 DEF Told
    <3>3. n # 0 /\ ~(n + 1 <= e)
      BY <1>2, <2>2
    <3>4. types[1] # "updated"
      BY <1>4, <1>5, <3>3
    <3> QED BY <1>2, <2>2, <3>2, <3>3, <3>4
  <2>3. ASSUME NEW i \in 1 .. k, e = n + i PROVE sent'[e].qty = sub'.qty
    BY <1>2, <2>3
  <2> QED BY <1>1, <2>1, <2>2, <2>3
<1>6. ASSUME NEW e \in Of("created")'
      PROVE  /\ e = 1
             /\ Updates' = {} => sent'[e].qty = sub'.qty
             /\ e \notin acked /\ ~sent'[e].direct =>
                  acked = {} /\ row[e] # "failed" /\ \A h \in Hooks : Works(h) => hook[h].ev = e
  <2>1. e \in DOMAIN sent' /\ sent'[e].type = "created"
    BY DEF Of
  <2>2. CASE e \in 1 .. n
    <3>1. e \in Of("created") /\ sent'[e] = sent[e]
      BY <1>2, <2>1, <2>2 DEF Of
    <3>2. n # 0 /\ (Updates' = {} => types[1] # "updated" /\ Updates = {})
      BY <1>2, <1>3, <1>4, <2>2
    <3> QED BY <3>1, <3>2 DEF Told
  <2>3. ASSUME NEW i \in 1 .. k, e = n + i
        PROVE  /\ e = 1 /\ sent'[e].qty = sub'.qty
               /\ acked = {} /\ row[e] # "failed" /\ \A h \in Hooks : ~Works(h)
    <3>1. n = 0 /\ i = 1
      BY <1>2, <2>1, <2>3
    <3>2. e = 1 /\ sent'[e].qty = sub'.qty /\ DOMAIN sent = {} /\ e \in Events
      BY <1>2, <2>3, <3>1, EventsAssumption DEF Adds, Events
    <3> QED BY <3>2 DEF Desk
  <2> QED BY <1>1, <2>1, <2>2, <2>3
<1>7. Told'
  BY <1>5, <1>6 DEF Told, Works
<1>8. Unanswered \subseteq Unanswered'
  BY <1>3 DEF Unanswered
<1> QED BY <1>4, <1>7, <1>8 DEF Unanswered

(* What each process may hold after Stripe has emitted events. *)
Announced(p, t) ==
    \/ job'[p] = job[p] /\ (job[p].op = "buy" => sub'.qty = sub.qty)
    \/ job'[p].op \in {"idle", "delete"}
    \/ job'[p].op = "resize" /\ t = "updated"
    \/ job'[p].op = "buy" /\ job'[p].qty = sub'.qty

LEMMA EmitKeepsBilled ==
    ASSUME Billing, Billed, NEW k, NEW types, Adds(Len(sent), k, types, sub'),
           UNCHANGED <<batch, row, acked, hook>>,
           \A i \in 1 .. k : types[i] = "created" => sub.status = "none" /\ i = 1,
           sub'.qty = sub.qty \/ sub.status = "none" \/ types[1] = "updated",
           \A p \in Procs : Announced(p, types[1])
    PROVE  Billed'
<1> DEFINE n == Len(sent)
<1>1. n = 0 \/ sub.status # "none"
  BY DEF Billing
<1>2. Adds(n, k, types, sub')
  OBVIOUS
<1> HIDE DEF n
<1>3. Desk' /\ Turns'
  BY <1>2, AddedIsFresh DEF Billed
<1>4. /\ Told' /\ Unanswered \subseteq Unanswered'
      /\ types[1] = "updated" => Unanswered' # {}
  BY <1>1, <1>2, AddedIsTold DEF Billed
<1>5. \A e \in DOMAIN sent : sent'[e] = sent[e]
  BY DEF Adds
<1>6. Hands'
  <2> SUFFICES ASSUME NEW p \in Procs
               PROVE  /\ job'[p].op = "buy" => job'[p].qty = sub'.qty
                      /\ job'[p].op = "resize" => Unanswered' # {}
                      /\ job'[p].op = "reconcile" =>
                           p \in Hooks /\ Running(p)' /\ Event(p)'.type = "updated" /\ job'[p].qty = Event(p)'.qty
                      /\ p \in Hooks /\ job'[p].op = "cancel" => Running(p)' /\ Event(p)'.type # "created"
    BY DEF Hands, At
  <2>1. CASE job'[p] = job[p] /\ (job[p].op = "buy" => sub'.qty = sub.qty)
    <3>1. Running(p)' <=> Running(p)
      BY DEF Running
    <3>2. p \in Hooks /\ Running(p) => Event(p)' = Event(p)
      <4>1. p \in Hooks /\ Running(p) => hook[p].ev \in DOMAIN sent
        BY DEF Billed, Desk, Works, Running
      <4> QED BY <1>5, <4>1 DEF Event
    <3> QED BY <1>4, <2>1, <3>1, <3>2 DEF Billed, Hands
  <2>2. CASE ~(job'[p] = job[p] /\ (job[p].op = "buy" => sub'.qty = sub.qty))
    BY <1>4, <2>2 DEF Announced
  <2> QED BY <2>1, <2>2
<1>7. Linked'
  <2>1. CASE Unanswered' # {}
    BY <2>1 DEF Linked
  <2>2. CASE Unanswered' = {} /\ sub.status = "none"
    BY <2>2 DEF Linked, Billing, Exists
  <2>3. CASE Unanswered' = {} /\ sub.status # "none"
    <3>1. sub'.qty = sub.qty /\ Unanswered = {}
      BY <1>4, <2>3
    <3> QED BY <3>1 DEF Linked, Billed, Exists
  <2> QED BY <2>1, <2>2, <2>3
<1> QED BY <1>3, <1>4, <1>6, <1>7 DEF Billed

-----------------------------------------------------------------------------
(* What each process may hold after a step that emits and answers nothing. *)
Calm(p) ==
    \/ job'[p] = job[p]
    \/ job'[p].op \notin {"buy", "resize", "reconcile", "cancel"}
    \/ job'[p].op = "cancel" /\ (p \in Hooks => Running(p) /\ Event(p).type # "created")
    \/ /\ job'[p].op = "reconcile" /\ p \in Hooks /\ Running(p)
       /\ Event(p).type = "updated" /\ job'[p].qty = Event(p).qty

LEMMA QuietKeepsBilled ==
    ASSUME Billed, UNCHANGED <<sub, eventVars>>, \A p \in Procs : Calm(p),
           \/ batch'.status = batch.status /\ batch'.total = batch.total
           \/ batch'.status = "none"
           \/ batch'.status = "cancelled"
           \/ batch'.total = sub.qty
           \/ Unanswered # {}
    PROVE  Billed'
<1>1. Desk' /\ Turns' /\ Told'
  BY DEF Billed, Desk, Turns, Told, eventVars, Works, Running, Updates, Of
<1>2. Unanswered' = Unanswered /\ \A p : (Running(p)' <=> Running(p)) /\ Event(p)' = Event(p)
  BY DEF eventVars, Unanswered, Updates, Of, Running, Event
<1>3. Hands'
  <2> SUFFICES ASSUME NEW p \in Procs
               PROVE  /\ job'[p].op = "buy" => job'[p].qty = sub'.qty
                      /\ job'[p].op = "resize" => Unanswered' # {}
                      /\ job'[p].op = "reconcile" =>
                           p \in Hooks /\ Running(p)' /\ Event(p)'.type = "updated" /\ job'[p].qty = Event(p)'.qty
                      /\ p \in Hooks /\ job'[p].op = "cancel" => Running(p)' /\ Event(p)'.type # "created"
    BY DEF Hands
  <2>1. CASE job'[p] = job[p]
    BY <1>2, <2>1 DEF Billed, Hands
  <2>2. CASE job'[p] # job[p]
    BY <1>2, <2>2 DEF Calm
  <2> QED BY <2>1, <2>2
<1>4. Linked'
  BY <1>2 DEF Billed, Linked, Exists
<1> QED BY <1>1, <1>3, <1>4 DEF Billed

-----------------------------------------------------------------------------
(* A delivery whose hook changes is one of its own. *)
LEMMA HookChanges ==
    ASSUME Billing, NEW h \in Hooks, NEW d, hook' = [hook EXCEPT ![h] = d]
    PROVE  /\ hook'[h] = d
           /\ \A g \in Hooks : g # h => /\ hook'[g] = hook[g]
                                        /\ (Works(g)' <=> Works(g)) /\ (Running(g)' <=> Running(g))
           /\ Works(h)' <=> d.pc # "idle"
           /\ Running(h)' <=> d.pc = "run"
BY DEF Billing, Works, Running

(* While nothing is at hand but at an idle hook, what is at hand stays true. *)
LEMMA HandsStay ==
    ASSUME Hands, NEW h \in Hooks, UNCHANGED <<sub, sent, acked, job>>,
           \A g \in Hooks : g # h => hook'[g] = hook[g],
           ~Running(h)
    PROVE  Hands'
<1> SUFFICES ASSUME NEW p \in Procs
             PROVE  /\ job[p].op = "buy" => job[p].qty = sub.qty
                    /\ job[p].op = "resize" => Unanswered' # {}
                    /\ job[p].op = "reconcile" =>
                         p \in Hooks /\ Running(p)' /\ Event(p)'.type = "updated" /\ job[p].qty = Event(p)'.qty
                    /\ p \in Hooks /\ job[p].op = "cancel" => Running(p)' /\ Event(p)'.type # "created"
  BY DEF Hands
<1>1. Unanswered' = Unanswered
  BY DEF Unanswered, Updates, Of
<1>2. p \in Hooks /\ Running(p) => Running(p)' /\ Event(p)' = Event(p)
  BY DEF Running, Event
<1> QED BY <1>1, <1>2 DEF Hands

(* An event is posted in its turn, and nobody works on it. *)
LEMMA PostKeepsBilled ==
    ASSUME Attended, Billing, Billed, NEW h \in Hooks, NEW e \in Events, Post(h, e),
           UNCHANGED <<batch, sub, job>>
    PROVE  Billed'
<1> DEFINE d == [pc |-> "seen", ev |-> e, seen |-> row[e]]
<1>1. hook' = [hook EXCEPT ![h] = d] /\ UNCHANGED <<sent, row, acked>> /\ ~Works(h) /\ ~Running(h)
  BY DEF Post, Works, Running
<1>2. d.pc = "seen" /\ d.ev = e /\ d.seen = row[e]
  OBVIOUS
<1> HIDE DEF d
<1>3. /\ hook'[h] = d /\ Works(h)' /\ ~Running(h)'
      /\ \A g \in Hooks : g # h => /\ hook'[g] = hook[g]
                                   /\ (Works(g)' <=> Works(g)) /\ (Running(g)' <=> Running(g))
  BY <1>1, <1>2, HookChanges
<1>4. e \in DOMAIN sent \ acked /\ \A g \in Hooks : hook[g].ev # e
  BY DEF Post, Deliverable, Attended, Handled
<1>5. row[e] \in {"none", "failed"}
  BY <1>4 DEF Billed, Desk, RowStatus
<1>6. \A f \in DOMAIN sent : f < e /\ f \notin acked => row[f] = "failed" /\ sent[f].type # sent[e].type
  <2> SUFFICES ASSUME NEW f \in DOMAIN sent, f < e, f \notin acked
               PROVE  row[f] = "failed" /\ sent[f].type # sent[e].type
    OBVIOUS
  <2>1. f \in 1 .. (e - 1)
    BY EventsAssumption DEF Billed, Desk, Events
  <2> QED BY <2>1 DEF Post, Deliverable, Attended
<1>7. Desk'
  BY <1>1, <1>2, <1>3, <1>4, <1>5 DEF Billed, Desk
<1>8. Turns'
  BY <1>1, <1>2, <1>3, <1>6 DEF Billed, Turns
<1>9. Told'
  <2>1. Updates' = Updates /\ Of("created")' = Of("created")
    BY <1>1 DEF Updates, Of
  <2>2. ASSUME NEW c \in Of("created"), c \notin acked, ~sent[c].direct PROVE e = c
    <3>1. c = 1 /\ row[c] # "failed" /\ c \in DOMAIN sent
      BY <2>2 DEF Billed, Told, Of
    <3>2. e = 1 \/ 1 < e
      BY EventsAssumption DEF Events
    <3> QED BY <1>6, <2>2, <3>1, <3>2
  <2> QED BY <1>1, <1>2, <1>3, <2>1, <2>2 DEF Billed, Told
<1>10. Hands'
  BY <1>1, <1>3, HandsStay DEF Billed
<1>11. Linked'
  BY <1>1 DEF Billed, Linked, Exists, Unanswered, Updates, Of
<1> QED BY <1>7, <1>8, <1>9, <1>10, <1>11 DEF Billed

(* Whoever has seen an event may claim it. *)
LEMMA ClaimKeepsBilled ==
    ASSUME Billing, Billed, NEW h \in Hooks, Claim(h), UNCHANGED <<batch, sub, job>>
    PROVE  Billed'
<1> DEFINE e == hook[h].ev
           d == [hook[h] EXCEPT !.pc = "run"]
<1>1. hook[h].pc = "seen" /\ Works(h) /\ ~Running(h)
  BY DEF Claim, Works, Running
<1>2. Claims(h) /\ e \in DOMAIN sent \ acked /\ e \in Events /\ row[e] # "reserved"
  BY <1>1 DEF Billed, Desk, Claims
<1>3. hook' = [hook EXCEPT ![h] = d] /\ row' = [row EXCEPT ![e] = "reserved"] /\ UNCHANGED <<sent, acked>>
  BY <1>2 DEF Claim
<1>4. d.pc = "run" /\ d.ev = e
  BY DEF Billing
<1> HIDE DEF d
<1>5. /\ hook'[h] = d /\ Works(h)' /\ Running(h)'
      /\ \A g \in Hooks : g # h => /\ hook'[g] = hook[g]
                                   /\ (Works(g)' <=> Works(g)) /\ (Running(g)' <=> Running(g))
  BY <1>3, <1>4, HookChanges
<1>6. row' \in [Events -> RowStatus] /\ row'[e] = "reserved" /\ \A f \in Events : f # e => row'[f] = row[f]
  BY <1>2, <1>3 DEF Billed, Desk, RowStatus
<1>7. \A g \in Hooks : g # h /\ Works(g) => hook[g].ev # e /\ hook[g].ev \in Events
  BY <1>1 DEF Billed, Desk
<1> HIDE DEF e
<1>8. e = hook[h].ev
  BY DEF e
<1>9. Desk'
  BY <1>1, <1>2, <1>3, <1>4, <1>5, <1>6, <1>7, <1>8 DEF Billed, Desk, Works, Running
<1>10. Turns'
  BY <1>1, <1>3, <1>4, <1>5, <1>8 DEF Billed, Turns
<1>11. Told'
  <2>1. Updates' = Updates /\ Of("created")' = Of("created")
    BY <1>3 DEF Updates, Of
  <2>2. \A f \in DOMAIN sent : row'[f] = "failed" => row[f] = "failed"
    BY <1>6 DEF Billed, Desk
  <2> QED BY <1>1, <1>3, <1>4, <1>5, <1>8, <2>1, <2>2 DEF Billed, Told, Of
<1>12. Hands'
  BY <1>1, <1>3, <1>5, HandsStay DEF Billed
<1>13. Linked'
  BY <1>3 DEF Billed, Linked, Exists, Unanswered, Updates, Of
<1> QED BY <1>9, <1>10, <1>11, <1>12, <1>13 DEF Billed

(* Nothing is at hand after a handler that was alone. *)
LEMMA HandsEmpty ==
    ASSUME HandsTyped, NEW h \in Procs, Go(h, Idle), \A q \in Procs \ {h} : job[q].op = "idle"
    PROVE  Hands'
<1>1. Idle.op = "idle"
  BY DEF Idle
<1>2. \A q \in Procs : job'[q].op = "idle"
  BY <1>1 DEF HandsTyped, Go
<1> QED BY <1>2 DEF Hands

(* What a delivery leaves when its handler has ended, one way or the other. *)
LEMMA HandlerEnds ==
    ASSUME Billing, Billed, NEW h \in Hooks, Running(h), NEW status \in {"processed", "failed"},
           UNCHANGED <<sub, sent>>, hook' = [hook EXCEPT ![h] = Resting],
           row' = [row EXCEPT ![hook[h].ev] = IF @ = "none" THEN @ ELSE status],
           acked' = IF status = "processed" THEN acked \cup {hook[h].ev} ELSE acked,
           status = "processed" \/ Event(h).type # "created" \/ Event(h).direct
    PROVE  Desk' /\ Turns' /\ Told'
<1> DEFINE e == hook[h].ev
<1>1. Works(h) /\ e \in DOMAIN sent \ acked /\ e \in Events /\ row[e] = "reserved"
  BY DEF Billed, Desk, Works, Running
<1>2. Resting.pc = "idle"
  BY DEF Resting
<1> HIDE DEF Resting
<1>3. /\ ~Works(h)' /\ ~Running(h)' /\ hook'[h].pc = "idle"
      /\ \A g \in Hooks : g # h => /\ hook'[g] = hook[g]
                                   /\ (Works(g)' <=> Works(g)) /\ (Running(g)' <=> Running(g))
  BY <1>2, HookChanges
<1>4. row' \in [Events -> RowStatus] /\ row'[e] = status /\ \A f \in Events : f # e => row'[f] = row[f]
  BY <1>1 DEF Billed, Desk, RowStatus
<1>5. \A g \in Hooks : g # h /\ Works(g) => hook[g].ev # e /\ hook[g].ev \in Events
  BY <1>1 DEF Billed, Desk
<1>6. acked' = IF status = "processed" THEN acked \cup {e} ELSE acked
  OBVIOUS
<1>7. e = hook[h].ev
  OBVIOUS
<1> HIDE DEF e
<1>8. Desk'
  <2>1. /\ row' \in [Events -> RowStatus] /\ DOMAIN sent' \subseteq Events /\ acked' \subseteq DOMAIN sent'
    BY <1>1, <1>4, <1>6 DEF Billed, Desk
  <2>2. ASSUME NEW f \in Events
        PROVE  /\ row'[f] # "none" => f \in DOMAIN sent'
               /\ row'[f] = "processed" => f \in acked'
               /\ row'[f] = "reserved" => \E g \in Hooks : Running(g)' /\ hook'[g].ev = f
    <3>1. CASE f = e
      BY <1>1, <1>4, <1>6, <3>1
    <3>2. CASE f # e
      <4>1. row'[f] = row[f]
        BY <1>4, <3>2
      <4> QED BY <1>3, <1>6, <1>7, <3>2, <4>1 DEF Billed, Desk
    <3> QED BY <3>1, <3>2
  <2>3. ASSUME NEW g \in Hooks
        PROVE  /\ hook'[g].pc \in {"idle", "seen", "run"}
               /\ Works(g)' => hook'[g].ev \in DOMAIN sent' \ acked'
               /\ hook'[g].pc = "seen" =>
                    hook'[g].seen \in {"none", "failed"} /\ row'[hook'[g].ev] = hook'[g].seen
               /\ Running(g)' => row'[hook'[g].ev] = "reserved"
    <3>1. CASE g = h
      BY <1>3, <3>1
    <3>2. CASE g # h /\ Works(g)
      <4>1. hook'[g] = hook[g] /\ hook[g].ev # e /\ row'[hook[g].ev] = row[hook[g].ev]
        BY <1>3, <1>4, <1>5, <3>2
      <4> QED BY <1>3, <1>6, <3>2, <4>1 DEF Billed, Desk
    <3>3. CASE g # h /\ ~Works(g)
      BY <1>3, <3>3 DEF Works, Running
    <3> QED BY <3>1, <3>2, <3>3
  <2>4. \A g, k \in Hooks : Works(g)' /\ Works(k)' /\ hook'[g].ev = hook'[k].ev => g = k
    BY <1>3 DEF Billed, Desk
  <2> QED BY <2>1, <2>2, <2>3, <2>4 DEF Desk
<1>9. Turns'
  BY <1>1, <1>3, <1>6, <1>7 DEF Billed, Turns
<1>10. Told'
  <2>1. Updates' = Updates /\ Of("created")' = Of("created")
    BY DEF Updates, Of
  <2>2. ASSUME NEW c \in Of("created"), c \notin acked', ~sent[c].direct
        PROVE  acked' = {} /\ row'[c] # "failed" /\ \A g \in Hooks : Works(g)' => hook'[g].ev = c
    <3>1. c \notin acked /\ c \in DOMAIN sent /\ sent[c].type = "created"
      BY <1>6, <2>2 DEF Of
    <3>2. acked = {} /\ e = c
      BY <1>1, <1>7, <2>2, <3>1 DEF Billed, Told
    <3>3. status = "failed" /\ Event(h) = sent[c]
      BY <1>6, <1>7, <2>2, <3>2 DEF Event
    <3> QED BY <2>2, <3>1, <3>3
  <2> QED BY <2>1, <2>2 DEF Billed, Told
<1> QED BY <1>8, <1>9, <1>10

(* An event is answered: what was waiting for it, is not any more. *)
LEMMA AnswerKeepsBilled ==
    ASSUME Billing, HandsTyped, Billed, NEW h \in Hooks, Running(h), Answer(h), sub' = sub,
           \A q \in Procs \ {h} : job[q].op = "idle",
           Linked'
    PROVE  Billed'
<1>1. Desk' /\ Turns' /\ Told'
  BY HandlerEnds DEF Answer, Processed
<1>2. Hands'
  BY HandsEmpty DEF Procs, Answer
<1> QED BY <1>1, <1>2 DEF Billed

(* An event is refused, to be tried again later. *)
LEMMA RefuseKeepsBilled ==
    ASSUME Billing, HandsTyped, Billed, NEW h \in Hooks, Running(h), Refuse(h), UNCHANGED <<batch, sub>>,
           \A q \in Procs \ {h} : job[q].op = "idle",
           Event(h).type # "created" \/ Event(h).direct
    PROVE  Billed'
<1>1. Desk' /\ Turns' /\ Told'
  BY HandlerEnds DEF Refuse, Failed
<1>2. Hands'
  BY HandsEmpty DEF Procs, Refuse
<1>3. Linked'
  BY DEF Refuse, Failed, Billed, Linked, Exists, Unanswered, Updates, Of
<1> QED BY <1>1, <1>2, <1>3 DEF Billed

-----------------------------------------------------------------------------
(* A process that takes j in its hands leaves the others what they have. *)
LEMMA OthersStay ==
    ASSUME HandsTyped, NEW p \in Procs, NEW j, Go(p, j)
    PROVE  job'[p] = j /\ \A q \in Procs : q # p => job'[q] = job[q]
BY DEF HandsTyped, Go

(* A manager's request emits one event of a subscription that exists. *)
LEMMA TellsStripe ==
    ASSUME Billing, HandsTyped, Billed, NEW m \in Procs, NEW j, Go(m, j), NEW t,
           Emit(<< Note(t, sub') >>), UNCHANGED <<batch, row, acked, hook>>,
           t # "created", sub'.qty = sub.qty \/ t = "updated",
           j.op \in {"idle", "delete"} \/ (j.op = "resize" /\ t = "updated"),
           \A q \in Procs \ {m} : job[q].op = "idle"
    PROVE  Billed'
<1> DEFINE types == << t >>
<1>1. types[1] = t /\ \A i \in 1 .. 1 : types[i] = t
  OBVIOUS
<1>2. Adds(Len(sent), 1, types, sub')
  BY NoteIsAdded
<1> HIDE DEF types
<1>3. job'[m] = j /\ \A q \in Procs : q # m => job'[q] = job[q]
  BY OthersStay
<1>4. \A p \in Procs : Announced(p, types[1])
  BY <1>1, <1>3 DEF Announced
<1> QED BY <1>1, <1>2, <1>4, EmitKeepsBilled

(* The request that buys is the first to speak of a subscription. *)
LEMMA PurchaseKeepsBilled ==
    ASSUME Counts, Billed, NEW m \in Managers, NEW n \in Quantities, Purchase(m, n)
    PROVE  Billed'
<1> DEFINE types == << "created" >>
           j == [Idle EXCEPT !.op = "buy", !.qty = n]
<1>1. types[1] = "created" /\ \A i \in 1 .. 1 : i = 1
  OBVIOUS
<1>2. Billing /\ HandsTyped /\ Orderly /\ m \in Procs
  BY DEF Counts, Inv, Procs
<1>3. Adds(Len(sent), 1, types, sub')
  BY <1>2, NoteIsAdded DEF Purchase
<1>4. Go(m, j) /\ sub.status = "none" /\ sub'.qty = n /\ UNCHANGED <<batch, row, acked, hook>>
  BY DEF Purchase
<1>5. j.op = "buy" /\ j.qty = n
  BY DEF Idle
<1> HIDE DEF types, j
<1>6. job'[m] = j /\ \A q \in Procs : q # m => job'[q] = job[q]
  BY <1>2, <1>4, OthersStay
<1>7. \A q \in Procs : job[q].op # "buy"
  BY <1>2, <1>4 DEF Orderly, Keeps
<1>8. \A p \in Procs : Announced(p, types[1])
  BY <1>4, <1>5, <1>6, <1>7 DEF Announced
<1> QED BY <1>1, <1>2, <1>3, <1>4, <1>8, EmitKeepsBilled

(* A request that emits nothing, and leaves the total alone. *)
LEMMA QuietRequest ==
    ASSUME HandsTyped, Billed, NEW m \in Managers, NEW j, Go(m, j), UNCHANGED <<sub, eventVars>>,
           j.op \notin {"buy", "resize", "reconcile"},
           \/ batch'.status = batch.status /\ batch'.total = batch.total
           \/ batch'.status = "none"
           \/ batch'.status = "cancelled"
           \/ batch'.total = sub.qty
           \/ Unanswered # {}
    PROVE  Billed'
<1>1. m \in Procs /\ m \notin Hooks
  BY BulkAssumption DEF Procs
<1>2. job'[m] = j /\ \A q \in Procs : q # m => job'[q] = job[q]
  BY <1>1, OthersStay
<1>3. \A p \in Procs : Calm(p)
  BY <1>1, <1>2 DEF Calm
<1> QED BY <1>3, QuietKeepsBilled

(* Assignments and revocations, which leave total and status alone. *)
LEMMA SharedKeepsBilled ==
    ASSUME Counts, Billed, NEW m \in Managers, AssignCommit(m) \/ RevokeCommit(m)
    PROVE  Billed'
<1>1. HandsTyped /\ batch \in Batch /\ Idle.op = "idle"
  BY DEF Counts, Inv, Counted, Idle
<1>2. Go(m, Idle) /\ UNCHANGED <<sub, eventVars>>
  BY DEF AssignCommit, RevokeCommit
<1>3. batch'.status = batch.status /\ batch'.total = batch.total
  BY <1>1 DEF AssignCommit, RevokeCommit, Batch
<1> HIDE DEF Idle
<1> QED BY <1>1, <1>2, <1>3, QuietRequest

(* The cancellation by a request. *)
LEMMA CancelKeepsBilled ==
    ASSUME Counts, Billed, NEW m \in Managers, CancelStep(m)
    PROVE  Billed'
<1>1. HandsTyped /\ m \in Procs /\ m \notin Hooks /\ Idle.op = "idle" /\ batch \in Batch
  BY BulkAssumption DEF Counts, Inv, Procs, Counted, Idle
<1>2. Hand(job[m]) /\ Keeps(job[m])
  BY <1>1 DEF HandsTyped, Counts, Orderly
<1>3. ASSUME NEW l \in Licences, CancelLicence(m, l) PROVE Billed'
  <2> DEFINE j == [job[m] EXCEPT !.rows = @ \ {l}]
  <2>1. Go(m, j) /\ UNCHANGED <<batch, sub, eventVars>> /\ job[m].op = "cancel"
    BY <1>3 DEF CancelLicence, At
  <2>2. j.op = "cancel"
    BY <1>2, <2>1 DEF Hand
  <2> HIDE DEF j
  <2> QED BY <1>1, <2>1, <2>2, QuietRequest
<1>4. CASE CancelBatch(m)
  <2>1. Go(m, Idle) /\ UNCHANGED <<sub, eventVars>> /\ job[m].op = "cancel"
    BY <1>1, <1>4 DEF CancelBatch, At
  <2>2. batch' = [batch EXCEPT !.status = "cancelled"]
    BY <1>2, <1>4, <2>1 DEF CancelBatch, Keeps
  <2>3. batch'.status = "cancelled"
    BY <1>1, <2>2 DEF Batch
  <2> HIDE DEF Idle
  <2> QED BY <1>1, <2>1, <2>3, QuietRequest
<1>5. ASSUME NEW l \in Licences, MissLicence(m, l) PROVE Billed'
  <2> DEFINE j == [job[m] EXCEPT !.rows = @ \ {l}, !.missed = @ \cup {l}]
  <2>1. Go(m, j) /\ UNCHANGED <<batch, sub, eventVars>> /\ job[m].op = "cancel"
    BY <1>5 DEF MissLicence, At
  <2>2. j.op = "cancel"
    BY <1>2, <2>1 DEF Hand
  <2> HIDE DEF j
  <2> QED BY <1>1, <2>1, <2>2, QuietRequest
<1>6. CASE CancelFails(m)
  <2>1. Go(m, Idle) /\ UNCHANGED <<batch, sub, eventVars>>
    BY <1>1, <1>6 DEF CancelFails
  <2> HIDE DEF Idle
  <2> QED BY <1>1, <2>1, QuietRequest
<1> QED BY <1>3, <1>4, <1>5, <1>6 DEF CancelStep

(* A manager's request, step by step. *)
LEMMA ManagerKeepsBilled ==
    ASSUME Attended, Counts, Billed, NEW m \in Managers, ManagerStep(m)
    PROVE  Billed'
<1>1. /\ Billing /\ HandsTyped /\ Orderly /\ m \in Procs /\ Keeps(job[m]) /\ Hand(job[m])
      /\ Idle.op = "idle"
  BY DEF Counts, Inv, Orderly, Procs, HandsTyped, Idle
<1>2. ASSUME Alone(m) \/ job[m].op \notin Sharing PROVE \A q \in Procs \ {m} : job[q].op = "idle"
  BY <1>1, <1>2, Solitude DEF Attended
<1>3. sub \in Subscription
  BY <1>1 DEF Billing
<1>4. ASSUME NEW n \in Quantities, Purchase(m, n) PROVE Billed'
  BY <1>4, PurchaseKeepsBilled
<1>5. CASE PurchaseCommit(m)
  <2>1. /\ Go(m, Idle) /\ UNCHANGED <<sub, eventVars>> /\ batch'.total = job[m].qty
        /\ job[m].qty = sub.qty
    BY <1>1, <1>5 DEF PurchaseCommit, Provision, Billed, Hands, At
  <2> HIDE DEF Idle
  <2> QED BY <1>1, <2>1, QuietRequest
<1>6. CASE PurchaseFails(m)
  <2>1. /\ Go(m, Idle) /\ Emit(<< Note("deleted", sub') >>) /\ UNCHANGED <<batch, row, acked, hook>>
        /\ sub' = [sub EXCEPT !.status = "canceled"] /\ job[m].op = "buy"
    BY <1>6 DEF PurchaseFails, At
  <2>2. sub'.qty = sub.qty
    BY <1>3, <2>1 DEF Subscription
  <2>3. \A q \in Procs \ {m} : job[q].op = "idle"
    BY <1>2, <2>1 DEF Sharing
  <2> HIDE DEF Idle
  <2> QED BY <1>1, <2>1, <2>2, <2>3, TellsStripe
<1>7. CASE ResizeReverts(m)
  <2>1. /\ Go(m, Idle) /\ Emit(<< Note("updated", sub') >>) /\ UNCHANGED <<batch, row, acked, hook>>
        /\ job[m].op = "resize"
    BY <1>7 DEF ResizeReverts, At
  <2>2. \A q \in Procs \ {m} : job[q].op = "idle"
    BY <1>2, <2>1 DEF Sharing
  <2> HIDE DEF Idle
  <2> QED BY <1>1, <2>1, <2>2, TellsStripe
<1>8. CASE ResizeStripe(m)
  <2> DEFINE j == [job[m] EXCEPT !.op = "resize"]
  <2>1. /\ Go(m, j) /\ Emit(<< Note("updated", sub') >>) /\ UNCHANGED <<batch, row, acked, hook>>
        /\ job[m].op = "quantity"
    BY <1>8 DEF ResizeStripe, At
  <2>2. \A q \in Procs \ {m} : job[q].op = "idle"
    BY <1>2, <2>1 DEF Sharing
  <2>3. j.op = "resize"
    BY <1>1 DEF Hand
  <2> HIDE DEF j
  <2> QED BY <1>1, <2>1, <2>2, <2>3, TellsStripe
<1>9. CASE ResizeStranded(m)
  <2>1. Go(m, Idle) /\ UNCHANGED <<batch, sub, eventVars>>
    BY <1>9 DEF ResizeStranded
  <2> HIDE DEF Idle
  <2> QED BY <1>1, <2>1, QuietRequest
<1>10. ASSUME NEW u \in Users, AssignPick(m, u) PROVE Billed'
  <2> DEFINE j == [Idle EXCEPT !.op = "assign", !.user = u, !.lic = Min(With("unassigned"))]
  <2>1. Go(m, j) /\ UNCHANGED <<batch, sub, eventVars>>
    BY <1>10 DEF AssignPick
  <2>2. j.op = "assign"
    BY DEF Idle
  <2> HIDE DEF j
  <2> QED BY <1>1, <2>1, <2>2, QuietRequest
<1>11. ASSUME NEW l \in Licences, RevokeRead(m, l) PROVE Billed'
  <2> DEFINE j == [Idle EXCEPT !.op = "revoke", !.lic = l]
  <2>1. Go(m, j) /\ UNCHANGED <<batch, sub, eventVars>>
    BY <1>11 DEF RevokeRead
  <2>2. j.op = "revoke"
    BY DEF Idle
  <2> HIDE DEF j
  <2> QED BY <1>1, <2>1, <2>2, QuietRequest
<1>12. ASSUME NEW q \in Quantities, ResizeRead(m, q) PROVE Billed'
  <2> DEFINE j == [Idle EXCEPT !.op = "quantity", !.qty = q, !.seen = batch]
  <2>1. Go(m, j) /\ UNCHANGED <<batch, sub, eventVars>>
    BY <1>12 DEF ResizeRead
  <2>2. j.op = "quantity"
    BY DEF Idle
  <2> HIDE DEF j
  <2> QED BY <1>1, <2>1, <2>2, QuietRequest
<1>13. CASE ResizeOfCancelled(m)
  <2> DEFINE j == Cancellation(Rows, {})
  <2>1. (Go(m, j) \/ Go(m, Idle)) /\ UNCHANGED <<batch, sub, eventVars>>
    BY <1>13 DEF ResizeOfCancelled
  <2>2. j.op = "cancel"
    BY DEF Cancellation, Idle
  <2> HIDE DEF j, Idle
  <2> QED BY <1>1, <2>1, <2>2, QuietRequest
<1>14. CASE ResizeCommit(m)
  <2>1. Go(m, Idle) /\ UNCHANGED <<sub, eventVars>> /\ Unanswered # {}
    BY <1>1, <1>14 DEF ResizeCommit, Billed, Hands, At
  <2> HIDE DEF Idle
  <2> QED BY <1>1, <2>1, QuietRequest
<1>15. CASE DeleteRead(m)
  <2> DEFINE j == [Idle EXCEPT !.op = "ask_end", !.rows = Rows]
  <2>1. Go(m, j) /\ UNCHANGED <<batch, sub, eventVars>>
    BY <1>15 DEF DeleteRead
  <2>2. j.op = "ask_end"
    BY DEF Idle
  <2> HIDE DEF j
  <2> QED BY <1>1, <2>1, <2>2, QuietRequest
<1>16. CASE DeleteStripe(m)
  <2> DEFINE j == [job[m] EXCEPT !.op = "delete"]
  <2>1. Go(m, j) /\ UNCHANGED <<batch, row, acked, hook>> /\ job[m].op = "ask_end"
    BY <1>16 DEF DeleteStripe, At
  <2>2. j.op = "delete"
    BY <1>1 DEF Hand
  <2>3. \A q \in Procs \ {m} : job[q].op = "idle"
    BY <1>2, <2>1 DEF Sharing
  <2> HIDE DEF j
  <2>4. CASE UNCHANGED <<sub, sent>>
    BY <1>1, <2>1, <2>2, <2>4, QuietRequest DEF eventVars
  <2>5. CASE sub' = [sub EXCEPT !.ending = TRUE] /\ Emit(<< Note("updated", sub') >>)
    BY <1>1, <2>1, <2>2, <2>3, <2>5, TellsStripe
  <2> QED BY <1>16, <2>4, <2>5 DEF DeleteStripe
<1>17. CASE DeleteCommit(m)
  <2>1. Go(m, Idle) /\ UNCHANGED <<sub, eventVars>> /\ batch'.status = "none"
    BY <1>17 DEF DeleteCommit, NoBatch
  <2> HIDE DEF Idle
  <2> QED BY <1>1, <2>1, QuietRequest
<1>18. CASE AssignCommit(m) \/ RevokeCommit(m)
  BY <1>18, SharedKeepsBilled
<1>19. CASE CancelStep(m)
  BY <1>19, CancelKeepsBilled
<1> QED
  BY <1>4, <1>5, <1>6, <1>7, <1>8, <1>9, <1>10, <1>11, <1>12, <1>13, <1>14, <1>15, <1>16,
     <1>17, <1>18, <1>19 DEF ManagerStep

-----------------------------------------------------------------------------
(* An answer to something else leaves the updates to come as they were ... *)
LEMMA OtherAnswered ==
    ASSUME NEW h \in Hooks, Answer(h), Event(h).type # "updated"
    PROVE  Unanswered' = Unanswered
BY DEF Answer, Processed, Unanswered, Updates, Of, Event

(* ... and the last update to be answered tells what Stripe bills. *)
LEMMA LastUpdateTells ==
    ASSUME Billed, NEW h \in Hooks, Running(h), Answer(h), Event(h).type = "updated", Unanswered' = {}
    PROVE  Event(h).qty = sub.qty
<1> DEFINE e == hook[h].ev
<1>1. e \in DOMAIN sent \ acked /\ DOMAIN sent \subseteq Events
  BY DEF Billed, Desk, Works, Running
<1>2. e \in Updates
  BY <1>1 DEF Updates, Of, Event
<1>3. \A f \in Updates : f = e \/ f \in acked
  BY DEF Answer, Processed, Unanswered, Updates, Of
<1>4. ASSUME NEW f \in Updates PROVE f <= e
  <2>1. f \in Nat /\ e \in Nat
    BY <1>1 DEF Updates, Of, Events
  <2>2. ~(e < f)
    BY <1>1, <1>2, <1>3, <2>1 DEF Billed, Turns, Updates, Of
  <2> QED BY <2>1, <2>2
<1> QED BY <1>2, <1>4 DEF Billed, Told, Event

(* A cancellation that begins is a cancellation. *)
LEMMA CancellationCancels == \A rows, missed : Cancellation(rows, missed).op = "cancel"
BY DEF Cancellation, Idle

(* A handler takes up a cancellation or a reconciliation. *)
LEMMA HandlerTakesUp ==
    ASSUME HandsTyped, Billed, NEW h \in Hooks, Running(h), NEW j, Go(h, j),
           UNCHANGED <<batch, sub, eventVars>>,
           \/ j.op = "cancel" /\ Event(h).type # "created"
           \/ j.op = "reconcile" /\ Event(h).type = "updated" /\ j.qty = Event(h).qty
    PROVE  Billed'
<1>1. job'[h] = j /\ \A q \in Procs : q # h => job'[q] = job[q]
  BY OthersStay DEF Procs
<1>2. \A p \in Procs : Calm(p)
  BY <1>1 DEF Calm
<1> QED BY <1>2, QuietKeepsBilled

(* The creation by Checkout brings the quantity that was bought, or an      *)
(* update of it is still to come.                                          *)
LEMMA CreatedKeepsBilled ==
    ASSUME Billing, HandsTyped, Billed, NEW h \in Hooks, HookCreated(h),
           \A q \in Procs \ {h} : job[q].op = "idle"
    PROVE  Billed'
<1>1. Running(h) /\ Event(h).type = "created" /\ sub' = sub
  BY DEF HookCreated, Handling
<1>2. CASE Event(h).direct
  <2>1. Refuse(h) /\ UNCHANGED <<batch, sub>>
    BY <1>2 DEF HookCreated
  <2> QED BY <1>1, <1>2, <2>1, RefuseKeepsBilled
<1>3. CASE ~Event(h).direct
  <2>1. Answer(h) /\ Unanswered' = Unanswered
    BY <1>1, <1>3, OtherAnswered DEF HookCreated
  <2>2. Linked'
    <3>1. CASE batch' = batch
      BY <1>1, <2>1, <3>1 DEF Billed, Linked, Exists
    <3>2. CASE batch'.total = Event(h).qty
      <4> DEFINE c == hook[h].ev
      <4>1. c \in DOMAIN sent \ acked
        BY <1>1 DEF Billed, Desk, Works, Running
      <4>2. c \in Of("created") /\ sent[c] = Event(h)
        BY <1>1, <4>1 DEF Of, Event
      <4>3. acked = {} /\ (Updates = {} => Event(h).qty = sub.qty)
        BY <1>3, <4>1, <4>2 DEF Billed, Told
      <4> QED BY <1>1, <2>1, <3>2, <4>3 DEF Linked, Unanswered
    <3> QED BY <1>3, <3>1, <3>2 DEF HookCreated, Provision
  <2> QED BY <1>1, <2>1, <2>2, AnswerKeepsBilled
<1> QED BY <1>2, <1>3

(* The update brings the batch to the quantity it tells, unless it cancels. *)
LEMMA UpdatedKeepsBilled ==
    ASSUME Billing, HandsTyped, Billed, NEW h \in Hooks, HookUpdated(h),
           \A q \in Procs \ {h} : job[q].op = "idle"
    PROVE  Billed'
<1>1. Running(h) /\ Event(h).type = "updated" /\ UNCHANGED <<batch, sub>>
  BY DEF HookUpdated, Handling
<1>2. CASE Refuse(h)
  BY <1>1, <1>2, RefuseKeepsBilled
<1>3. CASE Cancelling(h) /\ UNCHANGED eventVars
  <2>1. PICK j : Go(h, j) /\ j.op = "cancel"
    BY <1>3, CancellationCancels DEF Cancelling
  <2> QED BY <1>1, <1>3, <2>1, HandlerTakesUp
<1>4. CASE Answer(h) /\ Event(h).qty = batch.total
  <2>1. Unanswered' = {} => Event(h).qty = sub.qty
    BY <1>1, <1>4, LastUpdateTells
  <2>2. Linked'
    BY <1>1, <1>4, <2>1 DEF Linked
  <2> QED BY <1>1, <1>4, <2>2, AnswerKeepsBilled
<1>5. CASE Go(h, [Idle EXCEPT !.op = "reconcile", !.qty = Event(h).qty, !.seen = batch]) /\ UNCHANGED eventVars
  <2> DEFINE j == [Idle EXCEPT !.op = "reconcile", !.qty = Event(h).qty, !.seen = batch]
  <2>1. Go(h, j) /\ j.op = "reconcile" /\ j.qty = Event(h).qty
    BY <1>5 DEF Idle
  <2> HIDE DEF j
  <2> QED BY <1>1, <1>5, <2>1, HandlerTakesUp
<1> QED BY <1>2, <1>3, <1>4, <1>5 DEF HookUpdated

LEMMA ReconcileKeepsBilled ==
    ASSUME Counts, Billed, NEW h \in Hooks, HookReconciles(h),
           \A q \in Procs \ {h} : job[q].op = "idle"
    PROVE  Billed'
<1>1. Billing /\ HandsTyped /\ h \in Procs /\ job[h].op = "reconcile" /\ batch \in Batch /\ sub' = sub
  BY DEF Counts, Inv, Counted, Procs, HookReconciles, At
<1>2. Running(h) /\ Event(h).type = "updated" /\ job[h].qty = Event(h).qty
  BY <1>1 DEF Billed, Hands
<1>3. CASE Refuse(h) /\ UNCHANGED <<batch, lic>>
  BY <1>1, <1>2, <1>3, RefuseKeepsBilled
<1>4. CASE Resized(h, job[h].qty) /\ Answer(h)
  <2>1. job[h].seen = batch
    BY <1>1 DEF Counts, Orderly, Keeps
  <2>2. batch' = [batch EXCEPT !.total = job[h].qty]
    BY <1>4, <2>1 DEF Resized
  <2>3. batch'.total = Event(h).qty
    BY <1>1, <1>2, <2>2 DEF Batch
  <2>4. Unanswered' = {} => Event(h).qty = sub.qty
    BY <1>2, <1>4, LastUpdateTells
  <2>5. Linked'
    BY <1>1, <2>3, <2>4 DEF Linked
  <2> QED BY <1>1, <1>2, <1>4, <2>5, AnswerKeepsBilled
<1> QED BY <1>3, <1>4 DEF HookReconciles

(* The webhooks. *)
LEMMA HookKeepsBilled ==
    ASSUME Attended, Counts, Billed, NEW h \in Hooks, HookStep(h)
    PROVE  Billed'
<1>1. Billing /\ HandsTyped /\ Orderly /\ h \in Procs /\ batch \in Batch /\ Hand(job[h]) /\ Keeps(job[h])
  BY DEF Counts, Inv, Counted, Procs, HandsTyped, Orderly
<1>2. ASSUME Alone(h) \/ job[h].op \notin Sharing PROVE \A q \in Procs \ {h} : job[q].op = "idle"
  BY <1>1, <1>2, Solitude DEF Attended
<1>3. CASE Deliver(h)
  BY <1>1, <1>3, PostKeepsBilled, ClaimKeepsBilled DEF Deliver
<1>4. CASE HookCreated(h)
  BY <1>1, <1>2, <1>4, CreatedKeepsBilled DEF HookCreated, Handling
<1>5. CASE HookUpdated(h)
  BY <1>1, <1>2, <1>5, UpdatedKeepsBilled DEF HookUpdated, Handling
<1>6. CASE HookReconciles(h)
  <2>1. job[h].op \notin Sharing
    BY <1>6 DEF HookReconciles, At, Sharing
  <2> QED BY <1>2, <1>6, <2>1, ReconcileKeepsBilled
<1>7. CASE HookDeleted(h)
  <2>1. Running(h) /\ Event(h).type = "deleted" /\ UNCHANGED <<batch, sub>> /\ Alone(h)
    BY <1>7 DEF HookDeleted, Handling
  <2>2. CASE Refuse(h)
    BY <1>1, <1>2, <2>1, <2>2, RefuseKeepsBilled
  <2>3. CASE Cancelling(h) /\ UNCHANGED eventVars
    <3>1. PICK j : Go(h, j) /\ j.op = "cancel"
      BY <2>3, CancellationCancels DEF Cancelling
    <3> QED BY <1>1, <2>1, <2>3, <3>1, HandlerTakesUp
  <2> QED BY <1>7, <2>2, <2>3 DEF HookDeleted
<1>8. CASE HookPaid(h) \/ HookUnpaid(h)
  <2>1. Running(h) /\ Event(h).type \in {"paid", "unpaid"} /\ UNCHANGED <<batch, sub>> /\ Alone(h)
    BY <1>8 DEF HookPaid, HookUnpaid, Handling
  <2>2. CASE Refuse(h)
    BY <1>1, <1>2, <2>1, <2>2, RefuseKeepsBilled
  <2>3. CASE Answer(h)
    <3>1. Unanswered' = Unanswered
      BY <2>1, <2>3, OtherAnswered
    <3>2. Linked'
      BY <2>1, <3>1 DEF Billed, Linked, Exists
    <3> QED BY <1>1, <1>2, <2>1, <2>3, <3>2, AnswerKeepsBilled
  <2> QED BY <1>8, <2>2, <2>3 DEF HookPaid, HookUnpaid
<1>9. CASE CancelStep(h)
  <2>1. job[h].op = "cancel" /\ job[h].op \notin Sharing
    BY <1>9 DEF CancelStep, CancelLicence, MissLicence, CancelBatch, CancelFails, At, Sharing
  <2>2. Running(h) /\ Event(h).type # "created"
    BY <1>1, <2>1 DEF Billed, Hands
  <2>3. ASSUME NEW l \in Licences, CancelLicence(h, l) PROVE Billed'
    <3> DEFINE j == [job[h] EXCEPT !.rows = @ \ {l}]
    <3>1. Go(h, j) /\ UNCHANGED <<batch, sub, eventVars>>
      BY <2>3 DEF CancelLicence
    <3>2. j.op = "cancel"
      BY <1>1, <2>1 DEF Hand
    <3> HIDE DEF j
    <3> QED BY <1>1, <2>2, <3>1, <3>2, HandlerTakesUp
  <2>4. CASE CancelBatch(h)
    <3>1. Answer(h) /\ sub' = sub /\ batch' = [batch EXCEPT !.status = "cancelled"]
      BY <1>1, <2>1, <2>4 DEF CancelBatch, Keeps
    <3>2. Linked'
      BY <1>1, <3>1 DEF Linked, Batch
    <3> QED BY <1>1, <1>2, <2>1, <2>2, <3>1, <3>2, AnswerKeepsBilled
  <2>5. ASSUME NEW l \in Licences, MissLicence(h, l) PROVE Billed'
    <3> DEFINE j == [job[h] EXCEPT !.rows = @ \ {l}, !.missed = @ \cup {l}]
    <3>1. Go(h, j) /\ UNCHANGED <<batch, sub, eventVars>>
      BY <2>5 DEF MissLicence
    <3>2. j.op = "cancel"
      BY <1>1, <2>1 DEF Hand
    <3> HIDE DEF j
    <3> QED BY <1>1, <2>2, <3>1, <3>2, HandlerTakesUp
  <2>6. CASE CancelFails(h)
    <3>1. Refuse(h) /\ UNCHANGED <<batch, sub>>
      BY <2>6 DEF CancelFails
    <3> QED BY <1>1, <1>2, <2>1, <2>2, <3>1, RefuseKeepsBilled
  <2> QED BY <1>9, <2>3, <2>4, <2>5, <2>6 DEF CancelStep
<1> QED BY <1>3, <1>4, <1>5, <1>6, <1>7, <1>8, <1>9 DEF HookStep

(* Stripe's own moves. *)
LEMMA StripeKeepsBilled ==
    ASSUME Counts, Billed, StripeStep
    PROVE  Billed'
<1>1. Billing /\ Orderly /\ sub \in Subscription
  BY DEF Counts, Billing
<1>2. UNCHANGED <<batch, job, row, acked, hook>>
  BY DEF StripeStep, Checkout, Pay, End, Invoice
<1>3. ASSUME NEW k, NEW types, Adds(Len(sent), k, types, sub'),
             \A i \in 1 .. k : types[i] = "created" => sub.status = "none" /\ i = 1,
             sub'.qty = sub.qty \/ sub.status = "none"
      PROVE  Billed'
  <2>1. \A p \in Procs : job[p].op = "buy" => sub'.qty = sub.qty
    BY <1>1, <1>3 DEF Orderly, Keeps
  <2>2. \A p \in Procs : Announced(p, types[1])
    BY <1>2, <2>1 DEF Announced
  <2> QED BY <1>1, <1>2, <1>3, <2>2, EmitKeepsBilled
<1>4. ASSUME NEW n \in Quantities, Checkout(n) PROVE Billed'
  <2> DEFINE types == << "created", "paid" >>
  <2>1. sub.status = "none" /\ Emit(<< Note("created", sub'), Note("paid", sub') >>)
    BY <1>4 DEF Checkout
  <2>2. Adds(Len(sent), 2, types, sub')
    BY <1>1, <2>1, PairIsAdded
  <2>3. \A i \in 1 .. 2 : types[i] = "created" => i = 1
    OBVIOUS
  <2> HIDE DEF types
  <2> QED BY <1>3, <2>1, <2>2, <2>3
<1>5. CASE Pay
  <2> DEFINE types == << "updated", "paid" >>
  <2>1. sub' = [sub EXCEPT !.status = "active"] /\ Emit(<< Note("updated", sub'), Note("paid", sub') >>)
    BY <1>5 DEF Pay
  <2>2. Adds(Len(sent), 2, types, sub')
    BY <1>1, <2>1, PairIsAdded
  <2>3. sub'.qty = sub.qty
    BY <1>1, <2>1 DEF Subscription
  <2>4. \A i \in 1 .. 2 : types[i] # "created"
    OBVIOUS
  <2> HIDE DEF types
  <2> QED BY <1>3, <2>2, <2>3, <2>4
<1>6. ASSUME NEW t, t # "created", Emit(<< Note(t, sub') >>), sub'.qty = sub.qty PROVE Billed'
  <2> DEFINE types == << t >>
  <2>1. Adds(Len(sent), 1, types, sub')
    BY <1>1, <1>6, NoteIsAdded
  <2>2. \A i \in 1 .. 1 : types[i] # "created"
    BY <1>6
  <2> HIDE DEF types
  <2> QED BY <1>3, <1>6, <2>1, <2>2
<1>7. CASE End
  <2>1. sub' = [sub EXCEPT !.status = "canceled", !.ending = TRUE] /\ Emit(<< Note("deleted", sub') >>)
    BY <1>7 DEF End
  <2>2. sub'.qty = sub.qty
    BY <1>1, <2>1 DEF Subscription
  <2> QED BY <1>6, <2>1, <2>2
<1>8. ASSUME NEW t \in {"paid", "unpaid"}, Invoice(t) PROVE Billed'
  <2>1. sub' = sub /\ Emit(<< Note(t, sub') >>)
    BY <1>8 DEF Invoice
  <2> QED BY <1>6, <2>1
<1> QED BY <1>4, <1>5, <1>7, <1>8 DEF StripeStep

(* Every step, with the handlers attended. *)
LEMMA StepKeepsBilled == Attended /\ Counts /\ Billed /\ [Next]_vars => Billed'
<1> SUFFICES ASSUME Attended, Counts, Billed, [Next]_vars PROVE Billed'
  OBVIOUS
<1>1. ASSUME NEW p \in Procs, Dies(p) PROVE Billed'
  <2>1. HandsTyped /\ p \in Managers
    BY <1>1 DEF Counts, Inv, Dies, Attended, Procs
  <2>2. Go(p, Idle) /\ UNCHANGED <<batch, sub, eventVars>> /\ Idle.op = "idle"
    BY <1>1, <2>1, BulkAssumption DEF Dies, Idle
  <2> HIDE DEF Idle
  <2> QED BY <2>1, <2>2, QuietRequest
<1>2. CASE UNCHANGED vars
  <2>1. \A p \in Procs : Calm(p)
    BY <1>2 DEF vars, Calm
  <2> QED BY <1>2, <2>1, QuietKeepsBilled DEF vars, eventVars
<1> QED BY <1>1, <1>2, ManagerKeepsBilled, HookKeepsBilled, StripeKeepsBilled DEF Next

(* Nothing has been bought, nothing is billed. *)
LEMMA InitIsBilled == Init => Billed
<1> SUFFICES ASSUME Init PROVE Billed
  OBVIOUS
<1>1. /\ batch = NoBatch /\ job = [p \in Procs |-> Idle]
      /\ sent = << >> /\ row = [e \in Events |-> "none"] /\ acked = {}
      /\ hook = [h \in Hooks |-> Resting]
  BY DEF Init, EventsInit
<1>2. DOMAIN sent = {} /\ Updates = {} /\ Of("created") = {} /\ ~Exists
  BY <1>1 DEF Updates, Of, Exists, NoBatch
<1>3. \A h \in Hooks : hook[h].pc = "idle" /\ ~Works(h) /\ ~Running(h)
  BY <1>1 DEF Resting, Works, Running
<1>4. Desk
  BY <1>1, <1>2, <1>3 DEF Desk, RowStatus
<1>5. \A p \in Procs : job[p].op = "idle"
  BY <1>1 DEF Idle
<1> QED BY <1>2, <1>4, <1>5 DEF Billed, Turns, Told, Hands, Linked

(***************************************************************************)
(* With Stripe's updates answered, the batch provides what Stripe bills: a  *)
(* resize that crashed, failed or could not be put back between Stripe and  *)
(* the database is made good by its update, whatever was refused before.   *)
(***************************************************************************)
THEOREM AnsweredIsBilled == ASSUME Attended PROVE Spec => []SettledIsBilled
<1>1. Billed => SettledIsBilled
  BY DEF Billed, Linked, SettledIsBilled, Unanswered, Updates, Of
<1>2. Counts /\ Billed /\ [Next]_vars => Counts' /\ Billed'
  BY StepCounts, StepKeepsBilled DEF Attended
<1> QED BY <1>1, <1>2, InitCounts, InitIsBilled, PTL DEF Spec
=============================================================================
