---------------------------- MODULE BulkLicenses ----------------------------
(***************************************************************************)
(* A batch of licences: one Stripe subscription with a quantity, one        *)
(* subscription_batches row that counts them and one user_subscriptions row *)
(* per licence.  Managers assign, revoke, resize and delete; Stripe's       *)
(* webhooks provision, reconcile, cancel and touch rows of the customer.    *)
(***************************************************************************)
EXTENDS WebhookEvents, Integers, FiniteSetsExt

CONSTANTS
    Licences,    \* the ids licence rows can get, in the order of the primary key
    Users,       \* the learners
    Managers,    \* the requests of purchasers and organization managers
    Quantities,  \* the quantities that can be bought or resized to
    Careful,     \* BOOLEAN: the managers do not get in each other's or Stripe's way
    Crashes      \* the requests and deliveries during which the server may die

ASSUME BulkAssumption ==
    /\ Licences \subseteq Nat /\ IsFiniteSet(Licences) /\ Quantities \subseteq Nat
    /\ Managers \cap Hooks = {}

VARIABLES
    batch,       \* the row of subscription_batches
    lic,         \* the licence rows
    sub,         \* the subscription at Stripe
    job          \* what each request and handler has in its hands

vars == <<batch, lic, sub, job, sent, row, acked, hook>>

Procs == Managers \cup Hooks
Nobody == "nobody"
NoBatch == [status |-> "none", total |-> 0, assigned |-> 0]
NoLicence == [status |-> "none", user |-> Nobody]
Idle == [op |-> "idle", lic |-> 0, user |-> Nobody, qty |-> 0,
         seen |-> NoBatch, rows |-> {}, missed |-> {},
         copy |-> [l \in Licences |-> NoLicence]]

Exists == batch.status # "none"
Rows == {l \in Licences : lic[l].status # "none"}
With(status) == {l \in Licences : lic[l].status = status}
Entitling == With("active") \cup With("past_due")
LicenceStatus == {"none", "pending_payment", "unassigned", "active", "past_due", "cancelled"}

Init ==
    /\ EventsInit
    /\ batch = NoBatch
    /\ lic = [l \in Licences |-> NoLicence]
    /\ sub = [status |-> "none", qty |-> 0, ending |-> FALSE, direct |-> FALSE]
    /\ job = [p \in Procs |-> Idle]

-----------------------------------------------------------------------------
(* The requests in flight, and the discipline of careful managers.         *)
At(p, op) == job[p].op = op
Others(p) == {job[q].op : q \in Procs \ {p}} \ {"idle"}
Alone(p) == Careful => Others(p) = {}
Beside(p) == Careful => Others(p) \subseteq {"assign", "revoke"}
Go(p, j) == job' = [job EXCEPT ![p] = j]
Free(p) == p \in Managers /\ At(p, "idle")

(* Faulty variant: no row lock. *)
BatchUnlocked(p) == TRUE

(* AssignLicense holds the batch row FOR UPDATE from its read to its commit. *)
BatchFree(p) == \A q \in Procs \ {p} : ~At(q, "assign")

(* An event about the subscription as it is (or is about to be). *)
Note(type, s) == [type |-> type, status |-> s.status, qty |-> s.qty,
                  ending |-> s.ending, direct |-> s.direct]

(* Delivery h ends well, or its event is to be retried; both forget the job. *)
Answer(h) == Processed(h) /\ Go(h, Idle) /\ UNCHANGED sent
Refuse(h) == Failed(h) /\ Go(h, Idle) /\ UNCHANGED sent

-----------------------------------------------------------------------------
(* n new rows in the given status, on ids that no row has. *)
Added(n, status) ==
    {[l \in Licences |-> IF l \in new THEN [status |-> status, user |-> Nobody] ELSE lic[l]] :
        new \in kSubset(n, Licences \ Rows)}

(* The transaction that provisions a batch: all of it or nothing. *)
Provision(n, bstatus, lstatus) ==
    /\ batch' = [status |-> bstatus, total |-> n, assigned |-> 0]
    /\ lic' \in Added(n, lstatus)

(* PurchaseBulkLicenses: Stripe first, then the rows. *)
Purchase(m, n) ==
    /\ Free(m) /\ Alone(m)
    /\ sub.status = "none"
    /\ sub' = [status |-> "incomplete", qty |-> n, ending |-> FALSE, direct |-> TRUE]
    /\ Emit(<<Note("created", sub')>>)
    /\ Go(m, [Idle EXCEPT !.op = "buy", !.qty = n])
    /\ UNCHANGED <<batch, lic, row, acked, hook>>

PurchaseCommit(m) ==
    /\ At(m, "buy")
    /\ Provision(job[m].qty, "pending_payment", "pending_payment")
    /\ Go(m, Idle)
    /\ UNCHANGED <<sub, eventVars>>

(* The rows could not be written: the subscription is cancelled. *)
PurchaseFails(m) ==
    /\ At(m, "buy")
    /\ sub' = [sub EXCEPT !.status = "canceled"]
    /\ Emit(<<Note("deleted", sub')>>)
    /\ Go(m, Idle)
    /\ UNCHANGED <<batch, lic, row, acked, hook>>

(* A Checkout session is completed: Stripe creates the paid subscription. *)
Checkout(n) ==
    /\ sub.status = "none"
    /\ sub' = [status |-> "active", qty |-> n, ending |-> FALSE, direct |-> FALSE]
    /\ Emit(<<Note("created", sub'), Note("paid", sub')>>)
    /\ UNCHANGED <<batch, lic, job, row, acked, hook>>

-----------------------------------------------------------------------------
(***************************************************************************)
(* AssignLicense.  The batch is locked and re-read, the first unassigned    *)
(* licence is picked, and the licence and the counter are written together. *)
(***************************************************************************)
Assignable == batch.assigned < batch.total /\ With("unassigned") # {}

AssignPick(m, u) ==
    /\ Free(m) /\ Beside(m) /\ BatchFree(m)
    /\ Exists
    /\ Assignable
    /\ Go(m, [Idle EXCEPT !.op = "assign", !.user = u, !.lic = Min(With("unassigned"))])
    /\ UNCHANGED <<batch, lic, sub, eventVars>>

AssignCommit(m) ==
    /\ At(m, "assign")
    /\ lic' = [lic EXCEPT ![job[m].lic] = [status |-> "active", user |-> job[m].user]]
    /\ batch' = [batch EXCEPT !.assigned = @ + 1]
    /\ Go(m, Idle)
    /\ UNCHANGED <<sub, eventVars>>

(* RevokeLicense reads the licence, ends the user's terminals and writes    *)
(* the row it has read back, whatever has become of it.                    *)
RevokeRead(m, l) ==
    /\ Free(m) /\ Beside(m)
    /\ l \in Rows /\ Exists
    /\ Careful => l \in Entitling /\ \A q \in Procs : job[q].lic # l
    /\ Go(m, [Idle EXCEPT !.op = "revoke", !.lic = l])
    /\ UNCHANGED <<batch, lic, sub, eventVars>>

RevokeCommit(m) ==
    /\ At(m, "revoke") /\ BatchFree(m)
    /\ lic' = [lic EXCEPT ![job[m].lic] = [status |-> "unassigned", user |-> Nobody]]
    /\ batch' = IF Exists THEN [batch EXCEPT !.assigned = @ - 1] ELSE batch
    /\ Go(m, Idle)
    /\ UNCHANGED <<sub, eventVars>>

-----------------------------------------------------------------------------
(* Faulty variant: rows are added one by one and an error is only logged. *)
ResizedLogging(p, q) ==
    /\ BatchFree(p)
    /\ \E n \in {0, 1} : lic' \in Added(n, "unassigned")
    /\ batch' = [job[p].seen EXCEPT !.total = q]

(***************************************************************************)
(* The transaction by which a resize brings the rows from the total that    *)
(* was read to q: new rows, or as many unassigned rows deleted, and the     *)
(* copy of the batch row saved with the new total.  It is refused when      *)
(* there are too few unassigned rows.                                      *)
(***************************************************************************)
Shrinkable(p, q) == q < job[p].seen.total => Cardinality(With("unassigned")) >= job[p].seen.total - q

Resized(p, q) ==
    LET old == job[p].seen.total IN
    /\ BatchFree(p)
    /\ Shrinkable(p, q)
    /\ IF q >= old
       THEN lic' \in Added(q - old, "unassigned")
       ELSE \E gone \in kSubset(old - q, With("unassigned")) :
               lic' = [l \in Licences |-> IF l \in gone THEN NoLicence ELSE lic[l]]
    /\ batch' = [job[p].seen EXCEPT !.total = q]

(* UpdateBatchQuantity: read and check, tell Stripe, write. *)
ResizeRead(m, q) ==
    /\ Free(m) /\ Alone(m)
    /\ Exists
    /\ Careful => batch.status # "cancelled" /\ ~sub.ending
    /\ q >= batch.assigned /\ q # batch.total
    /\ Go(m, [Idle EXCEPT !.op = "quantity", !.qty = q, !.seen = batch])
    /\ UNCHANGED <<batch, lic, sub, eventVars>>

ResizeStripe(m) ==
    /\ At(m, "quantity")
    /\ sub.status # "canceled"
    /\ sub' = [sub EXCEPT !.qty = job[m].qty]
    /\ Emit(<<Note("updated", sub')>>)
    /\ Go(m, [job[m] EXCEPT !.op = "resize"])
    /\ UNCHANGED <<batch, lic, row, acked, hook>>

(* A cancellation that has rows to write and has missed some, as it begins. *)
Cancellation(rows, missed) ==
    [Idle EXCEPT !.op = "cancel", !.rows = rows, !.missed = missed, !.copy = lic, !.seen = batch]

(* Stripe says the subscription is cancelled: autoCancelBatchFromStripeError, *)
(* which gives up when it cannot read the batch or list its licences.       *)
ResizeOfCancelled(m) ==
    /\ At(m, "quantity")
    /\ sub.status = "canceled"
    /\ (Exists /\ Go(m, Cancellation(Rows, {}))) \/ Go(m, Idle)
    /\ UNCHANGED <<batch, lic, sub, eventVars>>

ResizeCommit(m) ==
    /\ At(m, "resize")
    /\ Resized(m, job[m].qty)
    /\ Go(m, Idle)
    /\ UNCHANGED <<sub, eventVars>>

(* The transaction fails and Stripe is put back, if that call succeeds. *)
ResizeReverts(m) ==
    /\ At(m, "resize")
    /\ sub' = [sub EXCEPT !.qty = job[m].seen.total]
    /\ Emit(<<Note("updated", sub')>>)
    /\ Go(m, Idle)
    /\ UNCHANGED <<batch, lic, row, acked, hook>>

ResizeStranded(m) ==
    /\ At(m, "resize")
    /\ Go(m, Idle)
    /\ UNCHANGED <<batch, lic, sub, eventVars>>

-----------------------------------------------------------------------------
(***************************************************************************)
(* A batch is cancelled licence by licence, each saved whole from the list  *)
(* read at the start, and the batch row last.  A webhook ignores the error   *)
(* of the list; the error of a save is ignored or logged: what was not      *)
(* written is missed, and the loop goes on.                                 *)
(***************************************************************************)
Cancelling(p) == Go(p, Cancellation(Rows, {})) \/ Go(p, Cancellation({}, Rows))

CancelLicence(p, l) ==
    /\ At(p, "cancel")
    /\ l \in job[p].rows
    /\ lic' = [lic EXCEPT ![l] = [job[p].copy[l] EXCEPT !.status = "cancelled"]]
    /\ Go(p, [job[p] EXCEPT !.rows = @ \ {l}])
    /\ UNCHANGED <<batch, sub, eventVars>>

MissLicence(p, l) ==
    /\ At(p, "cancel")
    /\ l \in job[p].rows
    /\ Go(p, [job[p] EXCEPT !.rows = @ \ {l}, !.missed = @ \cup {l}])
    /\ UNCHANGED <<batch, lic, sub, eventVars>>

(* Faulty variant: the batch row first. *)
CancelBatchFirst(p) ==
    /\ At(p, "cancel")
    /\ BatchFree(p)
    /\ batch' = [job[p].seen EXCEPT !.status = "cancelled"]
    /\ IF p \in Hooks THEN Answer(p) ELSE Go(p, Idle) /\ UNCHANGED eventVars
    /\ UNCHANGED <<lic, sub>>

CancelBatch(p) ==
    /\ At(p, "cancel")
    /\ job[p].rows = {}
    /\ BatchFree(p)
    /\ batch' = [job[p].seen EXCEPT !.status = "cancelled"]
    /\ IF p \in Hooks THEN Answer(p) ELSE Go(p, Idle) /\ UNCHANGED eventVars
    /\ UNCHANGED <<lic, sub>>

(* The error of the batch row's save is returned: the event is refused. *)
CancelFails(p) ==
    /\ At(p, "cancel")
    /\ job[p].rows = {}
    /\ IF p \in Hooks THEN Refuse(p) ELSE Go(p, Idle) /\ UNCHANGED eventVars
    /\ UNCHANGED <<batch, lic, sub>>

(* PermanentlyDeleteBatch: list, ask Stripe to end it, delete what was listed. *)
DeleteRead(m) ==
    /\ Free(m) /\ Alone(m)
    /\ Exists
    /\ Go(m, [Idle EXCEPT !.op = "ask_end", !.rows = Rows])
    /\ UNCHANGED <<batch, lic, sub, eventVars>>

DeleteStripe(m) ==
    /\ At(m, "ask_end")
    /\ \/ /\ sub.status # "canceled"
          /\ sub' = [sub EXCEPT !.ending = TRUE]
          /\ Emit(<<Note("updated", sub')>>)
       \/ UNCHANGED <<sub, sent>>
    /\ Go(m, [job[m] EXCEPT !.op = "delete"])
    /\ UNCHANGED <<batch, lic, row, acked, hook>>

DeleteCommit(m) ==
    /\ At(m, "delete") /\ BatchFree(m)
    /\ lic' = [l \in Licences |-> IF l \in job[m].rows THEN NoLicence ELSE lic[l]]
    /\ batch' = NoBatch
    /\ Go(m, Idle)
    /\ UNCHANGED <<sub, eventVars>>

-----------------------------------------------------------------------------
(* The handlers.  Each looks for its row first and is retried without one.  *)
Handling(h, type) ==
    /\ Running(h) /\ At(h, "idle") /\ Alone(h)
    /\ Event(h).type = type

(* A direct purchase carries no user_id in its metadata: always refused. *)
HookCreated(h) ==
    /\ Handling(h, "created")
    /\ IF Event(h).direct
       THEN Refuse(h) /\ UNCHANGED <<batch, lic>>
       ELSE IF Exists
       THEN Answer(h) /\ UNCHANGED <<batch, lic>>
       ELSE /\ IF Event(h).status = "active"
               THEN Provision(Event(h).qty, "active", "unassigned")
               ELSE Provision(Event(h).qty, "pending_payment", "pending_payment")
            /\ Answer(h)
    /\ UNCHANGED sub

(***************************************************************************)
(* canceled_at is set and its end is not in the future (the scheduled end   *)
(* may have passed before the event is handled).                           *)
(***************************************************************************)
EndsNow(h) ==
    /\ Event(h).ending /\ batch.status # "cancelled"
    /\ Event(h).status # "active" \/ sub.status = "canceled"

(* Faulty variant: the quantity is left to the request that changed it. *)
HookUpdatedCancelOnly(h) ==
    /\ Handling(h, "updated")
    /\ IF ~Exists THEN Refuse(h)
       ELSE IF EndsNow(h) THEN Cancelling(h) /\ UNCHANGED eventVars
       ELSE Answer(h)
    /\ UNCHANGED <<batch, lic, sub>>

HookUpdated(h) ==
    /\ Handling(h, "updated")
    /\ IF ~Exists
       THEN Refuse(h)
       ELSE IF EndsNow(h)
       THEN Cancelling(h) /\ UNCHANGED eventVars
       ELSE IF Event(h).qty = batch.total
       THEN Answer(h)
       ELSE /\ Go(h, [Idle EXCEPT !.op = "reconcile", !.qty = Event(h).qty, !.seen = batch])
            /\ UNCHANGED eventVars
    /\ UNCHANGED <<batch, lic, sub>>

HookReconciles(h) ==
    /\ At(h, "reconcile")
    /\ IF Shrinkable(h, job[h].qty)
       THEN Resized(h, job[h].qty) /\ Answer(h)
       ELSE Refuse(h) /\ UNCHANGED <<batch, lic>>
    /\ UNCHANGED sub

HookDeleted(h) ==
    /\ Handling(h, "deleted")
    /\ IF Exists THEN Cancelling(h) /\ UNCHANGED eventVars ELSE Refuse(h)
    /\ UNCHANGED <<batch, lic, sub>>

(* Faulty variant: a payment revives whatever row the customer has. *)
HookPaidAny(h) ==
    /\ Handling(h, "paid")
    /\ IF Rows = {}
       THEN Refuse(h) /\ UNCHANGED lic
       ELSE /\ lic' = [lic EXCEPT ![Min(Rows)].status = "active"]
            /\ Answer(h)
    /\ UNCHANGED <<batch, sub>>

(***************************************************************************)
(* Invoices are looked up by customer: the first row of the customer, which *)
(* licence rows are too.  Their stripe_subscription_id is NULL, so that the *)
(* branch that would activate a batch is not taken.                        *)
(***************************************************************************)
HookPaid(h) ==
    /\ Handling(h, "paid")
    /\ IF Entitling = {}
       THEN Refuse(h) /\ UNCHANGED lic
       ELSE /\ lic' = [lic EXCEPT ![Min(Entitling)].status = "active"]
            /\ Answer(h)
    /\ UNCHANGED <<batch, sub>>

HookUnpaid(h) ==
    /\ Handling(h, "unpaid")
    /\ IF With("active") = {}
       THEN Refuse(h) /\ UNCHANGED lic
       ELSE /\ lic' = [lic EXCEPT ![Min(With("active"))].status = "past_due"]
            /\ Answer(h)
    /\ UNCHANGED <<batch, sub>>

-----------------------------------------------------------------------------
(* Stripe. *)
Pay ==
    /\ sub.status = "incomplete"
    /\ sub' = [sub EXCEPT !.status = "active"]
    /\ Emit(<<Note("updated", sub'), Note("paid", sub')>>)
    /\ UNCHANGED <<batch, lic, job, row, acked, hook>>

Invoice(type) ==
    /\ sub.status = "active"
    /\ Emit(<<Note(type, sub)>>)
    /\ UNCHANGED <<batch, lic, sub, job, row, acked, hook>>

End ==
    /\ sub.status = "active"
    /\ sub' = [sub EXCEPT !.status = "canceled", !.ending = TRUE]
    /\ Emit(<<Note("deleted", sub')>>)
    /\ UNCHANGED <<batch, lic, job, row, acked, hook>>

StripeStep ==
    \/ \E n \in Quantities \ {0} : Checkout(n)
    \/ Pay \/ End \/ Invoice("paid") \/ Invoice("unpaid")

Dies(p) ==
    /\ p \in Crashes
    /\ job[p] # Idle \/ (p \in Hooks /\ hook[p].pc # "idle")
    /\ Go(p, Idle)
    /\ IF p \in Hooks THEN HookDies(p) ELSE UNCHANGED eventVars
    /\ UNCHANGED <<batch, lic, sub>>

Deliver(h) ==
    /\ (\E e \in Events : Post(h, e)) \/ Claim(h)
    /\ UNCHANGED <<batch, lic, sub, job>>

CancelStep(p) ==
    \/ \E l \in Licences : CancelLicence(p, l) \/ MissLicence(p, l)
    \/ CancelBatch(p) \/ CancelFails(p)

HookStep(h) ==
    \/ Deliver(h)
    \/ HookCreated(h) \/ HookUpdated(h) \/ HookReconciles(h) \/ HookDeleted(h)
    \/ HookPaid(h) \/ HookUnpaid(h) \/ CancelStep(h)

ManagerStep(m) ==
    \/ \E n \in Quantities \ {0} : Purchase(m, n)
    \/ PurchaseCommit(m) \/ PurchaseFails(m)
    \/ \E u \in Users : AssignPick(m, u)
    \/ AssignCommit(m)
    \/ \E l \in Licences : RevokeRead(m, l)
    \/ RevokeCommit(m)
    \/ \E q \in Quantities : ResizeRead(m, q)
    \/ ResizeStripe(m) \/ ResizeOfCancelled(m) \/ ResizeCommit(m)
    \/ ResizeReverts(m) \/ ResizeStranded(m)
    \/ DeleteRead(m) \/ DeleteStripe(m) \/ DeleteCommit(m)
    \/ CancelStep(m)

Next ==
    \/ \E m \in Managers : ManagerStep(m)
    \/ \E h \in Hooks : HookStep(h)
    \/ \E p \in Procs : Dies(p)
    \/ StripeStep

Spec == Init /\ [][Next]_vars /\ \A h \in Hooks : WF_vars(HookStep(h))
-----------------------------------------------------------------------------
(* The batch's total is the number of its licence rows. *)
RowsMatchTotal == Cardinality(Rows) = batch.total

(***************************************************************************)
(* The counter that admits assignments is the number of licences held.      *)
(* (A cancellation leaves the counter as it was.)                          *)
(***************************************************************************)
HeldIsCounted == With("cancelled") = {} => batch.assigned = Cardinality(Entitling)

(***************************************************************************)
(* A batch becomes cancelled only when each of its licences is, but for      *)
(* those whose write this very cancellation has missed: a server that dies  *)
(* half-way leaves a batch that can be cancelled again, and what an earlier  *)
(* attempt has missed is no excuse for the one that completes.              *)
(***************************************************************************)
CancellationIsComplete ==
    [][(batch.status # "cancelled" /\ batch'.status = "cancelled")
          => \E p \in Procs : At(p, "cancel") /\ Rows \ With("cancelled") \subseteq job[p].missed]_vars

(***************************************************************************)
(* When nothing is under way and Stripe's updates have been answered, the   *)
(* batch provides what Stripe bills: a resize that crashed or failed        *)
(* between Stripe and the database has been made good by the webhook.      *)
(***************************************************************************)
SettledIsBilled ==
    (/\ \A p \in Procs : job[p] = Idle
     /\ \A e \in DOMAIN sent : sent[e].type = "updated" => e \in acked
     /\ Exists /\ batch.status # "cancelled" /\ sub.status = "active")
        => batch.total = sub.qty

(* A licence in use is never handed to somebody else in one stroke. *)
NeverReassigned ==
    [][\A l \in Licences :
          (lic[l].status = "active" /\ lic'[l].status = "active") => lic'[l].user = lic[l].user]_vars
=============================================================================
