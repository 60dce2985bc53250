---------------------------- MODULE Subscriptions ----------------------------
(***************************************************************************)
(* The personal subscriptions of one customer: the user_subscriptions rows, *)
(* the subscriptions at Stripe that some of them mirror, the requests that  *)
(* buy, cancel, resume, upgrade and assign, and the webhooks that keep the  *)
(* rows in step.  The terminals that a cancellation ends are the subject of *)
(* TerminalSessions.                                                       *)
(***************************************************************************)
EXTENDS WebhookEvents, Integers, FiniteSetsExt

CONSTANTS
    Rows,        \* the ids rows can get, in the order of creation
    Subs,        \* the subscriptions the customer can buy at Stripe, in that order
    Plans,       \* the paid plans
    Requests,    \* the requests and jobs in flight
    Orderly,     \* BOOLEAN: requests do not overlap, nor change what Stripe changes
    Overtaking,  \* BOOLEAN: a payment may overtake the retries of a failed charge
    MaxNotes,    \* the number of credit notes issued
    Amount       \* what an invoice amounts to, in credit notes

ASSUME SubscriptionAssumption ==
    /\ IsFiniteSet(Rows) /\ Rows # {} /\ Rows = 1 .. Cardinality(Rows)
    /\ Subs \subseteq Nat \ {0} /\ Amount \in Nat \ {0}

VARIABLES
    us,          \* the rows
    stripe,      \* the subscriptions at Stripe
    invoice,     \* what the customer's last invoice was credited with: the number of
                 \* notes issued by Stripe (history: but for those whose handler could not
                 \* read the row), the refund in the local row (-1: no row), and the one
                 \* each handler of a note has read (-1: none)
    job          \* what each request has in its hands

vars == <<us, stripe, invoice, job, sent, row, acked, hook>>

NoPlan == "no plan"
NoRow == [kind |-> "none", status |-> "none", sub |-> 0, plan |-> NoPlan, due |-> "never"]
NoSub == [status |-> "none", plan |-> NoPlan, meta |-> NoPlan, ending |-> FALSE, replaces |-> 0]
Idle == [op |-> "idle", id |-> 0, copy |-> NoRow, plan |-> NoPlan, seen |-> [s \in Subs |-> NoSub]]

(* The rows that grant a plan, and those that are cleanly paid. *)
Entitling == {r \in Rows : us[r].status \in {"active", "past_due"}}
Billable == {r \in Rows : us[r].status = "active"}
Held == {r \in Rows : us[r].kind # "none"}
RowOf(s) == {r \in Rows : us[r].sub = s}
Customers(S) == {r \in S : us[r].kind = "paid"}

(* GetActiveUserSubscription: the newest. *)
Current == IF Entitling = {} THEN 0 ELSE Max(Entitling)

Init ==
    /\ EventsInit
    /\ us = [r \in Rows |-> NoRow]
    /\ stripe = [s \in Subs |-> NoSub]
    /\ invoice = [notes |-> 0, refunded |-> -1, held |-> [h \in Hooks |-> -1]]
    /\ job = [p \in Requests |-> Idle]

-----------------------------------------------------------------------------
At(p, op) == job[p].op = op
Go(p, j) == job' = [job EXCEPT ![p] = j]
Quiet == \A p \in Requests : job[p] = Idle
Calm == Orderly => (\A h \in Hooks : hook[h] = Resting) /\ ~(sent # <<>> /\ DOMAIN sent \subseteq acked)
Begin(p) == At(p, "idle") /\ Calm /\ (Orderly => Quiet)
CaughtUp == Orderly => DOMAIN sent \subseteq acked

(* A new row takes the next id; the last ones are kept for the purchases. *)
NextId == Max(Held \cup {Min(Rows) - 1}) + 1
Spare == Max(Rows) - NextId >= Cardinality({s \in Subs : RowOf(s) = {}})

Free == [NoRow EXCEPT !.kind = "free", !.status = "active"]

(* The events that tell what a subscription has become. *)
Telling == {e \in DOMAIN sent : sent[e].type \notin {"paid", "failed", "note"}}

(* An event about subscription s in the state st. *)
About(type, s, st) == [type |-> type, sub |-> s, now |-> st]

(* Stripe changes subscription s to st and emits events of these types. *)
Changes(s, st, types) ==
    /\ stripe' = [stripe EXCEPT ![s] = st]
    /\ Emit([i \in DOMAIN types |-> About(types[i], s, st)])

-----------------------------------------------------------------------------
(* EnsureFreeTrialAssigned, at sign-up, import and start-up: look, then create. *)
EnsureLook(p) ==
    /\ Begin(p) /\ Spare
    /\ Entitling = {}
    /\ Go(p, [Idle EXCEPT !.op = "free"])
    /\ UNCHANGED <<us, stripe, invoice, eventVars>>

EnsureCreate(p) ==
    /\ At(p, "free")
    /\ us' = [us EXCEPT ![NextId] = Free]
    /\ Go(p, Idle)
    /\ UNCHANGED <<stripe, invoice, eventVars>>

(***************************************************************************)
(* CreateCheckoutSession opens a session at Stripe, to replace a free       *)
(* subscription if there is one; a paid one must be upgraded instead.  The  *)
(* metadata name the plan that is bought, and no upgrade changes them.      *)
(***************************************************************************)
Checkout(p, s, plan) ==
    /\ Begin(p)
    /\ stripe[s].status = "none" /\ \A z \in Subs : z < s => stripe[z].status # "none"
    /\ Current # 0 => us[Current].kind = "free"
    /\ stripe' = [stripe EXCEPT ![s] =
          [NoSub EXCEPT !.status = "open", !.plan = plan, !.meta = plan, !.replaces = Current]]
    /\ UNCHANGED <<us, invoice, job, eventVars>>

(* CancelSubscription of a free row writes it directly. *)
CancelFree(p, r) ==
    /\ Begin(p)
    /\ us[r].kind # "none" /\ us[r].sub = 0
    /\ us' = [us EXCEPT ![r].status = "cancelled"]
    /\ UNCHANGED <<stripe, invoice, job, eventVars>>

(* CancelSubscription of a paid row, at once: Stripe first (a missing one is *)
(* no error), then MarkSubscriptionAsCancelled saves the row that was read.  *)
CancelNow(p, r) ==
    /\ Begin(p)
    /\ us[r].sub # 0
    /\ LET s == us[r].sub IN
       IF stripe[s].status = "canceled"
       THEN UNCHANGED <<stripe, sent>>
       ELSE Changes(s, [stripe[s] EXCEPT !.status = "canceled"], <<"deleted">>)
    /\ Go(p, [Idle EXCEPT !.op = "mark", !.id = r, !.copy = us[r]])
    /\ UNCHANGED <<us, invoice, row, acked, hook>>

Mark(p) ==
    /\ At(p, "mark")
    /\ us' = [us EXCEPT ![job[p].id] = [job[p].copy EXCEPT !.status = "cancelled"]]
    /\ Go(p, Idle)
    /\ UNCHANGED <<stripe, invoice, eventVars>>

(* CancelSubscription at the end of the period, then SyncUserSubscriptions. *)
CancelAtEnd(p, r) ==
    /\ Begin(p) /\ CaughtUp
    /\ us[r].sub # 0
    /\ LET s == us[r].sub IN
       /\ stripe[s].status # "canceled"
       /\ Changes(s, [stripe[s] EXCEPT !.ending = TRUE], <<"updated">>)
    /\ Go(p, [Idle EXCEPT !.op = "sync", !.seen = stripe'])
    /\ UNCHANGED <<us, invoice, row, acked, hook>>

(***************************************************************************)
(* SyncUserSubscriptions adopts the statuses that Stripe listed.  It knows  *)
(* nothing of dunning stamps, of cancellation dates or of plan changes, and *)
(* a row that is missing gets the plan of the metadata.                     *)
(***************************************************************************)
SyncList(p) ==
    /\ Begin(p) /\ CaughtUp
    /\ Go(p, [Idle EXCEPT !.op = "sync", !.seen = stripe])
    /\ UNCHANGED <<us, stripe, invoice, eventVars>>

SyncRow(p, s) ==
    LET st == job[p].seen[s] IN
    /\ At(p, "sync")
    /\ st.status \notin {"none", "open"}
    /\ IF RowOf(s) # {}
       THEN us' = [r \in Rows |-> IF r \in RowOf(s) THEN [us[r] EXCEPT !.status = st.status] ELSE us[r]]
       ELSE us' = [us EXCEPT ![NextId] =
                      [NoRow EXCEPT !.kind = "paid", !.status = st.status, !.sub = s, !.plan = st.meta]]
    /\ Go(p, [job[p] EXCEPT !.seen[s] = NoSub])
    /\ UNCHANGED <<stripe, invoice, eventVars>>

SyncEnd(p) ==
    /\ At(p, "sync")
    /\ \A s \in Subs : job[p].seen[s].status \in {"none", "open"}
    /\ Go(p, Idle)
    /\ UNCHANGED <<us, stripe, invoice, eventVars>>

(* ReactivateSubscription leaves the row to the webhook. *)
Reactivate(p, r) ==
    /\ Begin(p)
    /\ us[r].sub # 0
    /\ LET s == us[r].sub IN
       /\ stripe[s].status # "canceled" /\ stripe[s].ending
       /\ Changes(s, [stripe[s] EXCEPT !.ending = FALSE], <<"updated">>)
    /\ UNCHANGED <<us, invoice, job, row, acked, hook>>

(* UpgradeUserPlan: Stripe first, then the row; if that fails, Stripe again. *)
Upgrade(p, plan) ==
    /\ Begin(p)
    /\ Current # 0 /\ us[Current].sub # 0
    /\ LET s == us[Current].sub IN
       /\ stripe[s].status # "canceled"
       /\ Changes(s, [stripe[s] EXCEPT !.plan = plan], <<"updated">>)
    /\ Go(p, [Idle EXCEPT !.op = "upgrade", !.copy = us[Current], !.plan = plan])
    /\ UNCHANGED <<us, invoice, row, acked, hook>>

UpgradeRow(p) ==
    /\ At(p, "upgrade")
    /\ Current # 0
    /\ us' = [us EXCEPT ![Current].plan = job[p].plan]
    /\ Go(p, Idle)
    /\ UNCHANGED <<stripe, invoice, eventVars>>

UpgradeFails(p) ==
    /\ At(p, "upgrade")
    /\ LET s == job[p].copy.sub IN
       \/ Changes(s, [stripe[s] EXCEPT !.plan = job[p].copy.plan], <<"updated">>)
       \/ UNCHANGED <<stripe, sent>>
    /\ Go(p, Idle)
    /\ UNCHANGED <<us, invoice, row, acked, hook>>

(* AdminAssignSubscription replaces one entitling row, whichever comes first. *)
Assign(p) ==
    LET granted == [NoRow EXCEPT !.kind = "assigned", !.status = "active"] IN
    /\ Begin(p) /\ Spare
    /\ Orderly => Customers(Entitling) = {}
    /\ IF Entitling = {}
       THEN us' = [us EXCEPT ![NextId] = granted]
       ELSE \E r \in Entitling :
               us' = [us EXCEPT ![r].status = "replaced", ![NextId] = granted]
    /\ UNCHANGED <<stripe, invoice, job, eventVars>>

RequestStep(p) ==
    \/ EnsureLook(p) \/ EnsureCreate(p)
    \/ \E s \in Subs, plan \in Plans : Checkout(p, s, plan)
    \/ \E r \in Rows : CancelFree(p, r) \/ CancelNow(p, r) \/ CancelAtEnd(p, r) \/ Reactivate(p, r)
    \/ Mark(p) \/ SyncList(p) \/ SyncEnd(p)
    \/ \E s \in Subs : SyncRow(p, s)
    \/ \E plan \in Plans : Upgrade(p, plan)
    \/ UpgradeRow(p) \/ UpgradeFails(p) \/ Assign(p)

-----------------------------------------------------------------------------
(* The handlers. *)
Handling(h, type) == Running(h) /\ Event(h).type = type /\ (Orderly => Quiet)

Answer(h) == Done(h) /\ UNCHANGED sent
Refuse(h) == Failed(h) /\ UNCHANGED sent

(* The row of the event's subscription becomes what f makes of it. *)
Rewrite(h, f(_)) ==
    LET mine == RowOf(Event(h).sub) IN
    /\ IF mine = {}
       THEN Refuse(h) /\ UNCHANGED us
       ELSE /\ us' = [r \in Rows |-> IF r \in mine THEN f(us[r]) ELSE us[r]]
            /\ Answer(h)
    /\ UNCHANGED <<stripe, invoice, job>>

(* The free row that the checkout was to replace is deleted. *)
Without(id) == [r \in Rows |-> IF r = id /\ us[r].kind = "free" THEN NoRow ELSE us[r]]

HookCreated(h) ==
    LET ev == Event(h)
        left == Without(ev.now.replaces)
        new == [NoRow EXCEPT !.kind = "paid", !.status = ev.now.status, !.sub = ev.sub, !.plan = ev.now.plan]
    IN
    /\ Handling(h, "created")
    /\ us' = IF RowOf(ev.sub) # {} THEN left ELSE [left EXCEPT ![NextId] = new]
    /\ Answer(h)
    /\ UNCHANGED <<stripe, invoice, job>>

(* checkout.session.completed: the replaced row goes, the metadata is copied. *)
HookCompleted(h) ==
    /\ Handling(h, "completed")
    /\ us' = Without(Event(h).now.replaces)
    /\ Answer(h)
    /\ UNCHANGED <<stripe, invoice, job>>

(* The stamp starts the grace window, once per stay in past_due. *)
Stamped(due) == IF due = "never" THEN "fresh" ELSE due

(* Faulty variants: the stamp is never cleared; the plan is left to the      *)
(* request that changed it.                                                *)
AdoptedKeepingStamp(ev, r) ==
    [r EXCEPT !.status = ev.now.status, !.plan = ev.now.plan,
              !.due = IF ev.now.status = "past_due" THEN Stamped(@) ELSE @]

AdoptedButPlan(ev, r) ==
    [r EXCEPT !.status = ev.now.status,
              !.due = IF ev.now.status = "past_due" THEN Stamped(@) ELSE "never"]

(* What customer.subscription.updated makes of the row. *)
Adopted(ev, r) ==
    [r EXCEPT !.status = ev.now.status, !.plan = ev.now.plan,
              !.due = IF ev.now.status = "past_due" THEN Stamped(@) ELSE "never"]

HookUpdated(h) == Handling(h, "updated") /\ Rewrite(h, LAMBDA r : Adopted(Event(h), r))

HookDeleted(h) ==
    /\ Handling(h, "deleted")
    /\ Rewrite(h, LAMBDA r : [r EXCEPT !.status = "cancelled"])

HookPaused(h) == Handling(h, "paused") /\ Rewrite(h, LAMBDA r : [r EXCEPT !.status = "paused"])

HookResumed(h) ==
    /\ Handling(h, "resumed")
    /\ Rewrite(h, LAMBDA r : [r EXCEPT !.status = Event(h).now.status])

(* A paid invoice cures some row of the customer and is recorded. *)
HookPaid(h) ==
    /\ Handling(h, "paid")
    /\ IF Customers(Entitling) = {}
       THEN Refuse(h) /\ UNCHANGED <<us, invoice>>
       ELSE /\ \E r \in Customers(Entitling) :
                  us' = IF us[r].status = "past_due"
                        THEN [us EXCEPT ![r].status = "active", ![r].due = "never"]
                        ELSE us
            /\ invoice' = [invoice EXCEPT !.refunded = Max({@, 0})]
            /\ Answer(h)
    /\ UNCHANGED <<stripe, job>>

(* A failed one puts an active row of the customer in dunning. *)
HookFailed(h) ==
    /\ Handling(h, "failed")
    /\ IF Customers(Billable) = {}
       THEN Refuse(h) /\ UNCHANGED us
       ELSE /\ \E r \in Customers(Billable) :
                  us' = [us EXCEPT ![r].status = "past_due", ![r].due = Stamped(@)]
            /\ Answer(h)
    /\ UNCHANGED <<stripe, invoice, job>>

(* The handler of a credit note reads the row of the invoice, and takes any  *)
(* failure to do so for an invoice that is not recorded; it then adds to    *)
(* what it read, up to the amount, and saves the whole row, or fails to.    *)
HookNote(h) ==
    /\ Handling(h, "note") /\ invoice.held[h] = -1
    /\ \/ /\ invoice.refunded # -1
          /\ invoice' = [invoice EXCEPT !.held[h] = invoice.refunded]
          /\ UNCHANGED eventVars
       \/ /\ invoice' = [invoice EXCEPT !.notes = @ - 1]
          /\ Answer(h)
    /\ UNCHANGED <<us, stripe, job>>

SaveNote(h) ==
    /\ Handling(h, "note") /\ invoice.held[h] # -1
    /\ \/ /\ invoice' = [invoice EXCEPT !.refunded = Min({invoice.held[h] + 1, Amount}), !.held[h] = -1]
          /\ Answer(h)
       \/ /\ invoice' = [invoice EXCEPT !.held[h] = -1]
          /\ Refuse(h)
    /\ UNCHANGED <<us, stripe, job>>

Deliver(e) == (\E h \in Hooks : Post(h, e)) /\ UNCHANGED <<us, stripe, invoice, job>>

HookStep(h) ==
    \/ (Claim(h) \/ Acknowledge(h)) /\ UNCHANGED <<us, stripe, invoice, job>>
    \/ HookCreated(h) \/ HookCompleted(h) \/ HookUpdated(h) \/ HookDeleted(h)
    \/ HookPaused(h) \/ HookResumed(h) \/ HookPaid(h) \/ HookFailed(h)
    \/ HookNote(h) \/ SaveNote(h)

(* The server dies when the handler has ended and the event is not marked yet. *)
Dies(h) ==
    /\ hook[h].pc = "done"
    /\ HookDies(h)
    /\ UNCHANGED <<us, stripe, invoice, job>>

(* Nobody waits for these events any more; a note is saved at some retry. *)
Forget ==
    /\ Expire \/ \E e \in DOMAIN sent \ Telling : sent[e].type # "note" /\ Abandon(e)
    /\ UNCHANGED <<us, stripe, invoice, job>>

-----------------------------------------------------------------------------
(* Stripe and time. *)
Becomes(s, from, to, types) ==
    /\ stripe[s].status = from
    /\ Changes(s, [stripe[s] EXCEPT !.status = to], types)

(* A checkout is paid, at once or after a confirmation. *)
Sell(s) ==
    \/ \E types \in {<<"created", "completed">>, <<"completed", "created">>} : Becomes(s, "open", "active", types)
    \/ Becomes(s, "open", "incomplete", <<"created">>)
    \/ Becomes(s, "incomplete", "active", <<"updated", "completed">>)

(* A renewal succeeds; or it fails, the overdue invoice is charged again, is *)
(* paid, or is given up and the subscription with it.                       *)
Renew(s) == stripe[s].status = "active" /\ Becomes(s, "active", "active", <<"paid">>)
Fail(s) == Becomes(s, "active", "past_due", <<"failed", "updated">>)
Recharge(s) == Becomes(s, "past_due", "past_due", <<"failed">>)
Recover(s) ==
    /\ Overtaking \/ \A e \in DOMAIN sent \ acked : sent[e].type # "failed"
    /\ Becomes(s, "past_due", "active", <<"updated", "paid">>)
GiveUp(s) == Becomes(s, "past_due", "canceled", <<"deleted">>)

(* The period of a subscription that is to end is over. *)
End(s) == stripe[s].ending /\ Becomes(s, "active", "canceled", <<"deleted">>)

Pause(s) == Becomes(s, "active", "paused", <<"paused", "updated">>)
Resume(s) == Becomes(s, "paused", "active", <<"resumed", "updated">>)

(* A credit note on an invoice that was recorded. *)
Refund(s) ==
    /\ invoice.refunded # -1 /\ invoice.notes < MaxNotes
    /\ Becomes(s, "active", "active", <<"note">>)
    /\ invoice' = [invoice EXCEPT !.notes = @ + 1]
    /\ UNCHANGED <<us, job, row, acked, hook>>

StripeStep(s) ==
    /\ Calm
    /\ \/ /\ \/ Sell(s) \/ Renew(s) \/ Fail(s) \/ Recharge(s) \/ Recover(s) \/ GiveUp(s)
             \/ End(s) \/ Pause(s) \/ Resume(s)
          /\ UNCHANGED <<us, invoice, job, row, acked, hook>>
       \/ Refund(s)

(* The grace window of a row that is past due closes. *)
GraceElapses(r) ==
    /\ Calm
    /\ us[r].due = "fresh"
    /\ us' = [us EXCEPT ![r].due = "overdue"]
    /\ UNCHANGED <<stripe, invoice, job, eventVars>>

Next ==
    \/ \E p \in Requests : RequestStep(p)
    \/ \E e \in Events : Deliver(e)
    \/ Forget
    \/ \E h \in Hooks : HookStep(h) \/ Dies(h)
    \/ \E s \in Subs : StripeStep(s)
    \/ \E r \in Rows : GraceElapses(r)

Spec == Init /\ [][Next]_vars

-----------------------------------------------------------------------------
(* Nothing is under way, and every such event was answered. *)
Settled == Quiet /\ (\A h \in Hooks : hook[h] = Resting) /\ Telling \subseteq acked

(* A cancelled row has Stripe's spelling when a sync wrote it. *)
Mirrors(r, st) ==
    /\ us[r].status \in IF st.status = "canceled" THEN {"canceled", "cancelled"} ELSE {st.status}
    /\ us[r].plan = st.plan

(***************************************************************************)
(* When everything has been answered, each subscription that Stripe bills   *)
(* has one row, in Stripe's status and on the plan that is billed, and the  *)
(* free row it was to replace is gone; whatever the order of checkouts,     *)
(* syncs, failed upgrades and dunning events before.                       *)
(***************************************************************************)
SettledIsBilled ==
    Settled => \A s \in Subs :
        stripe[s].status \notin {"none", "open"} =>
            /\ Cardinality(RowOf(s)) = 1
            /\ \A r \in RowOf(s) : Mirrors(r, stripe[s])
            /\ \A r \in Rows : r = stripe[s].replaces => us[r].kind # "free"

(***************************************************************************)
(* A webhook that puts a row in dunning starts a new grace window: a        *)
(* customer who recovered once is not locked out at the next failure.       *)
(***************************************************************************)
FreshGrace ==
    [][\A r \in Rows :
          (us[r].status = "active" /\ us'[r].status = "past_due" /\ hook' # hook)
              => us'[r].due = "fresh"]_vars

(* No two deliveries whose handlers save the row of the invoice overlap: the *)
(* handlers lock nothing, the one that saves last undoes the other; and a   *)
(* delivery that finds the event reserved is answered although the handler *)
(* that reserved it may fail.                                              *)
SavesInvoice(h) == hook[h].pc # "idle" /\ Event(h).type \in {"paid", "note"}
SavesApart == \A g, h \in Hooks : SavesInvoice(g) /\ SavesInvoice(h) => g = h

(* A credit note whose handler could read the row of the invoice counts     *)
(* once, although events are retried after crashes and failed saves, as     *)
(* long as the deliveries that save the invoice come one after the other.   *)
RefundIsExact ==
    LET unseen == {e \in DOMAIN sent : sent[e].type = "note" /\ row[e] # "processed"} IN
    /\ invoice.refunded <= invoice.notes
    /\ (invoice.refunded # -1 /\ unseen = {}) => invoice.refunded = Min({invoice.notes, Amount})

(***************************************************************************)
(* handleInvoicePaymentSucceeded "cures a past_due subscription ... matching *)
(* what Stripe's customer.subscription.updated would set", and a failed     *)
(* invoice "will stamp them and start the clock": what Stripe has been paid  *)
(* for is never left in dunning.                                           *)
(***************************************************************************)
CuredStaysCured ==
    (Settled /\ DOMAIN sent \subseteq acked) => \A s \in Subs : stripe[s].status = "active" =>
                  \A r \in RowOf(s) : us[r].status # "past_due"
=============================================================================
