------------------------------ MODULE PlanSync ------------------------------
(***************************************************************************)
(* Subscription plans and their mirror at Stripe.  An administrator's edit  *)
(* saves the row and queues a durable entry; one worker drains the queue,   *)
(* oldest first; administrators may also push plans by hand.  A push is a   *)
(* series of Stripe calls, each of which may be refused, or carried out and *)
(* its answer lost, and ends by saving the identifiers in the row.          *)
(***************************************************************************)
EXTENDS Naturals, Sequences, FiniteSets

CONSTANTS
    Plans,
    Amounts,        \* what an edited plan may cost
    NewAmounts,     \* bound: what a new plan may cost; 0 when it is free
    Requests,       \* the requests of administrators that can be under way
    MaxChanges,     \* bound: plans created, edited or deleted
    MaxAttempts,    \* StripeSyncMaxAttempts
    BatchSize,      \* stripeSyncWorkerBatchSize
    MaxCrashes,     \* bound: restarts of the server
    Orderly         \* BOOLEAN: the schedules described at Calm

ASSUME SyncAssumption ==
    /\ Amounts \subseteq Nat /\ NewAmounts \subseteq Nat
    /\ MaxChanges \in Nat /\ MaxAttempts \in Nat \ {0}
    /\ BatchSize \in Nat \ {0} /\ MaxCrashes \in Nat
    /\ Orderly \in BOOLEAN /\ "worker" \notin Requests

VARIABLES
    plan,       \* the plans' rows
    queue,      \* stripe_syncs, in the order of creation
    product,    \* what Stripe holds: products, then prices, by identifier
    price,
    pass,       \* the entries the worker has listed and not yet handled
    hand,       \* what the worker and each request are doing
    applied,    \* history: the entry of a plan that reached Stripe last
    lost,       \* history: the plans whose newest entry does not tell the row
    changes, crashes

vars == <<plan, queue, product, price, pass, hand, applied, lost, changes, crashes>>

Pushers == Requests \cup {"worker"}
NoPlan == "none"
Blank == [state |-> "none", rev |-> 0, on |-> FALSE, amount |-> 0, product |-> 0, price |-> 0]
Idle == [at |-> "idle", plan |-> NoPlan, copy |-> Blank, entry |-> 0,
         todo |-> <<>>, all |-> FALSE, old |-> 0]
Live(p) == plan[p].state = "live"
Free(row) == row.amount = 0

(* A plan is new, or was mirrored in the past: its row then holds the       *)
(* identifiers of its product and of its price.                             *)
Init ==
    /\ \/ /\ plan = [p \in Plans |-> Blank]
          /\ product = <<>> /\ price = <<>>
       \/ \E p \in Plans, a \in NewAmounts :
             /\ a # 0
             /\ plan = [q \in Plans |-> IF q # p THEN Blank ELSE
                    [state |-> "live", rev |-> 0, on |-> TRUE, amount |-> a, product |-> 1, price |-> 1]]
             /\ product = <<[key |-> <<p>>, plan |-> p, asked |-> 0, rev |-> 0, on |-> TRUE]>>
             /\ price = <<[key |-> <<"create", p, 0>>, asked |-> a, on |-> TRUE]>>
    /\ queue = <<>> /\ pass = {}
    /\ hand = [h \in Pushers |-> Idle]
    /\ applied = [p \in Plans |-> 0] /\ lost = {}
    /\ changes = 0 /\ crashes = 0

Busy(h) == hand[h].at # "idle"
Pending(i) == queue[i].state = "pending"
Outstanding == {i \in DOMAIN queue : Pending(i)}
Newest(p) == LET mine == {i \in DOMAIN queue : queue[i].plan = p}
             IN  IF mine = {} THEN 0 ELSE CHOOSE i \in mine : \A j \in mine : j <= i
Holds(h, p) == hand[h].plan = p \/ p \in DOMAIN hand[h].todo

(***************************************************************************)
(* The orderly schedules: a deletion does not overlap the save of a push of *)
(* its plan; a push of every plan starts when nothing is queued or pushed,  *)
(* and a plan is not changed between its read and its update of the product;*)
(* and a plan does not go back to an amount whose price a migration has     *)
(* superseded.                                                             *)
(***************************************************************************)
Calm(condition) == Orderly => condition
Deleting(p) == \E h \in Pushers : hand[h].at = "delete" /\ hand[h].plan = p
BeingPushed(p) ==
    \E r \in Requests : p \in DOMAIN hand[r].todo \/ (hand[r].at = "update" /\ hand[r].plan = p)
Hooks(h, p) == hand[h].at \in {"reread", "hook"} /\ hand[h].plan = p
Superseded(p, a) ==
    \E i \in DOMAIN price : /\ price[i].key = <<"migrate", p, a>>
                            /\ ~price[i].on \/ \E h \in Pushers : hand[h].old = i

-----------------------------------------------------------------------------
Enqueue(op, p, row) ==
    queue' = Append(queue, [op |-> op, plan |-> p, copy |-> row, tries |-> 0, state |-> "pending"])

(* Whether an entry says of a plan what its row says now. *)
Tells(op, row, now) ==
    IF now.state = "live" THEN op # "archive" /\ row.rev = now.rev /\ row.on = now.on
    ELSE op = "archive"

(* The hook of a change queues it, or logs that it could not.  What it      *)
(* queues may be stale by then.                                            *)
Hooked(op, p, row, now) ==
    \/ /\ Enqueue(op, p, row)
       /\ lost' = IF Tells(op, row, now) THEN lost \ {p} ELSE lost \cup {p}
    \/ UNCHANGED queue /\ lost' = lost \cup {p}

(* POST of a plan.  Its AfterCreate hook skips free plans. *)
Add(p, a) ==
    /\ plan[p].state = "none" /\ changes < MaxChanges
    /\ changes' = changes + 1
    /\ plan' = [plan EXCEPT ![p] = [Blank EXCEPT !.state = "live", !.on = TRUE, !.amount = a]]
    /\ IF a = 0 THEN UNCHANGED <<queue, lost>> ELSE Hooked("create", p, plan'[p], plan'[p])
    /\ UNCHANGED <<product, price, pass, hand, applied, crashes>>

(* PATCH of a plan: its description, whether it is on sale, or its amount.  *)
(* Its AfterUpdate hook comes next.                                         *)
Edited(row) ==
    {[row EXCEPT !.rev = @ + 1], [row EXCEPT !.on = ~@]} \cup {[row EXCEPT !.amount = a] : a \in Amounts}

Edit(r, p, row) ==
    /\ ~Busy(r) /\ Live(p) /\ changes < MaxChanges
    /\ row # plan[p]
    /\ Calm((row.amount # plan[p].amount => ~Superseded(p, row.amount)) /\ ~BeingPushed(p))
    /\ changes' = changes + 1
    /\ plan' = [plan EXCEPT ![p] = row]
    /\ hand' = [hand EXCEPT ![r] = [Idle EXCEPT !.at = "reread", !.plan = p]]
    /\ UNCHANGED <<queue, product, price, pass, applied, lost, crashes>>

(* DELETE of a plan: the row is read, then deleted, and the hook is given   *)
(* what was read.                                                           *)
StartDelete(r, p) ==
    /\ ~Busy(r) /\ Live(p) /\ changes < MaxChanges
    /\ Calm(~Deleting(p) /\ ~BeingPushed(p))
    /\ changes' = changes + 1
    /\ hand' = [hand EXCEPT ![r] = [Idle EXCEPT !.at = "delete", !.plan = p, !.copy = plan[p]]]
    /\ UNCHANGED <<plan, queue, product, price, pass, applied, lost, crashes>>

Delete(r) ==
    LET p == hand[r].plan
        row == hand[r].copy
    IN  /\ hand[r].at = "delete"
        /\ IF Live(p)
           THEN /\ plan' = [plan EXCEPT ![p].state = "deleted"]
                /\ IF row.product = 0 THEN UNCHANGED <<queue, lost>> ELSE Hooked("archive", p, row, plan'[p])
           ELSE UNCHANGED <<plan, queue, lost>>
        /\ hand' = [hand EXCEPT ![r] = Idle]
        /\ UNCHANGED <<product, price, pass, applied, changes, crashes>>

(* SyncSubscriptionPlanWithStripe. *)
SyncOne(r, p) ==
    /\ ~Busy(r) /\ Live(p) /\ plan[p].price = 0 /\ ~Free(plan[p])
    /\ Calm(\A h \in Requests : p \notin DOMAIN hand[h].todo)
    /\ hand' = [hand EXCEPT ![r] = [Idle EXCEPT !.at = "product", !.plan = p, !.copy = plan[p]]]
    /\ UNCHANGED <<plan, queue, product, price, pass, applied, lost, changes, crashes>>

(* SyncPlansToStripe reads every live plan first. *)
SyncAll(r) ==
    LET live == {p \in Plans : Live(p)}
    IN  /\ ~Busy(r)
        /\ Calm(Outstanding = {} /\ \A h \in Pushers : hand[h].at \in {"idle", "mirror"})
        /\ hand' = [hand EXCEPT ![r] = [Idle EXCEPT !.at = "next", !.all = TRUE,
                                          !.todo = [p \in live |-> plan[p]]]]
        /\ UNCHANGED <<plan, queue, product, price, pass, applied, lost, changes, crashes>>

-----------------------------------------------------------------------------
(* The end of a push: a request turns to its next plan, and the worker to   *)
(* MarkSuccess or MarkFailure.                                              *)
Rest(h) ==
    LET k == hand[h]
    IN  IF DOMAIN k.todo = {} /\ ~k.all THEN Idle
        ELSE [Idle EXCEPT !.at = "next", !.todo = k.todo, !.all = k.all]

Succeeded(h) == IF h = "worker" THEN [hand[h] EXCEPT !.at = "mark"] ELSE Rest(h)
Go(h, step) == hand' = [hand EXCEPT ![h] = step] /\ UNCHANGED <<queue, pass>>

(* MarkFailure without its count: an entry that fails is tried for ever. *)
UncountedFailure(e) == e

MarkFailure(e) ==
    [e EXCEPT !.tries = @ + 1, !.state = IF e.tries + 1 >= MaxAttempts THEN "failed" ELSE "pending"]

Fail(h) ==
    IF h = "worker"
    THEN /\ queue' = [queue EXCEPT ![hand[h].entry] = MarkFailure(@)]
         /\ pass' = pass \ {hand[h].entry}
         /\ hand' = [hand EXCEPT ![h] = Idle]
    ELSE Go(h, Rest(h))

(* A call that Stripe carried out: its answer arrives or is lost. *)
Answered(h, step) == Go(h, step) \/ Fail(h)

(* A creation under an idempotency key: the object made under the same key  *)
(* if the parameters are the same, an error if they are not, a new object   *)
(* otherwise.                                                               *)
Made(objects, key, asked) ==
    LET known == {i \in DOMAIN objects : objects[i].key = key}
    IN  IF known = {} THEN Len(objects) + 1
        ELSE IF \E i \in known : objects[i].asked = asked THEN CHOOSE i \in known : TRUE ELSE 0

(* The key of a product is its plan's identifier; or it follows the content. *)
ContentKey(k) == <<k.plan, k.copy.rev>>
ProductKey(k) == <<k.plan>>

CallProduct(h) ==
    LET k == hand[h]
        id == Made(product, ProductKey(k), k.copy.rev)
    IN  /\ k.at = "product"
        /\ product' = IF id > Len(product)
                      THEN Append(product, [key |-> ProductKey(k), plan |-> k.plan, asked |-> k.copy.rev,
                                         rev |-> k.copy.rev, on |-> TRUE])
                      ELSE product
        /\ IF id = 0 THEN Fail(h) ELSE Answered(h, [k EXCEPT !.at = "price", !.copy.product = id])
        /\ UNCHANGED <<plan, price, applied, lost, changes, crashes>>

(* The first price, or the one that replaces a price that has drifted. *)
PriceKey(k) ==
    IF k.at = "drift" THEN <<"migrate", k.plan, k.copy.amount>> ELSE <<"create", k.plan, 0>>

CallPrice(h) ==
    LET k == hand[h]
        id == Made(price, PriceKey(k), k.copy.amount)
    IN  /\ k.at \in {"price", "drift"}
        /\ k.at = "drift" => price[k.copy.price].asked # k.copy.amount
        /\ price' = IF id > Len(price)
                    THEN Append(price, [key |-> PriceKey(k), asked |-> k.copy.amount, on |-> TRUE])
                    ELSE price
        /\ IF id = 0 THEN Fail(h)
           ELSE Answered(h, [k EXCEPT !.at = "save", !.old = k.copy.price, !.copy.price = id])
        /\ UNCHANGED <<plan, product, applied, lost, changes, crashes>>

NoDrift(h) ==
    /\ hand[h].at = "drift" /\ price[hand[h].copy.price].asked = hand[h].copy.amount
    /\ Go(h, Succeeded(h))
    /\ UNCHANGED <<plan, product, price, applied, lost, changes, crashes>>

(* EditEntity: GORM writes the non-zero fields of what was read before. *)
Save(h) ==
    LET k == hand[h]
        p == k.plan
    IN  /\ k.at = "save"
        /\ Calm(~Deleting(p))
        /\ IF Live(p)
           THEN /\ plan' = [plan EXCEPT ![p] = [k.copy EXCEPT !.on = @ \/ plan[p].on]]
                /\ Go(h, [k EXCEPT !.at = "reread"])
           ELSE UNCHANGED plan /\ Fail(h)
        /\ UNCHANGED <<product, price, applied, lost, changes, crashes>>

(* What the AfterUpdate hook is given: the row, read again; or, when that   *)
(* fails or the row is gone, what was saved.                               *)
Reread(h) ==
    LET k == hand[h]
        p == k.plan
    IN  /\ k.at = "reread"
        /\ \/ /\ Live(p) /\ UNCHANGED lost
              /\ Go(h, [k EXCEPT !.at = "hook", !.copy = plan[p]])
           \/ /\ lost' = IF Live(p) THEN lost \cup {p} ELSE lost
              /\ Go(h, [k EXCEPT !.at = "hook"])
        /\ UNCHANGED <<plan, product, price, applied, changes, crashes>>

Hook(h) ==
    LET k == hand[h]
    IN  /\ k.at = "hook"
        /\ IF k.copy.product = 0 THEN UNCHANGED <<queue, lost>>
           ELSE Hooked("update", k.plan, k.copy, plan[k.plan])
        /\ hand' = [hand EXCEPT ![h] = IF k.old # 0 THEN [k EXCEPT !.at = "retire"] ELSE Succeeded(h)]
        /\ UNCHANGED <<plan, product, price, pass, applied, changes, crashes>>

(* The superseded price is archived last. *)
Retire(h) ==
    /\ hand[h].at = "retire"
    /\ price' = [price EXCEPT ![hand[h].old].on = FALSE]
    /\ Go(h, Succeeded(h))
    /\ UNCHANGED <<plan, product, applied, lost, changes, crashes>>

(* UpdateSubscriptionPlanInStripe and ArchiveSubscriptionPlanInStripe; the  *)
(* first without the flag.                                                  *)
PushedWithoutFlag(k, shown) ==
    IF k.at = "update" THEN [shown EXCEPT !.rev = k.copy.rev] ELSE [shown EXCEPT !.on = FALSE]

Pushed(k, shown) ==
    IF k.at = "update" THEN [shown EXCEPT !.rev = k.copy.rev, !.on = k.copy.on]
    ELSE [shown EXCEPT !.on = FALSE]

CallUpdate(h) ==
    LET k == hand[h]
    IN  /\ k.at \in {"update", "archive"}
        /\ product' = [product EXCEPT ![k.copy.product] = Pushed(k, @)]
        /\ applied' = IF h = "worker" THEN [applied EXCEPT ![k.plan] = k.entry] ELSE applied
        /\ Answered(h, IF h = "worker" THEN Succeeded(h) ELSE [k EXCEPT !.at = "drift"])
        /\ UNCHANGED <<plan, price, lost, changes, crashes>>

(* A call or a save that is refused ends the push; or, a save that failed   *)
(* does not keep the superseded price from being archived.                  *)
RefusedLightly(h) ==
    /\ hand[h].at \in {"product", "price", "drift", "update", "archive", "save", "retire"}
    /\ IF hand[h].at = "save" /\ hand[h].old # 0
       THEN Go(h, [hand[h] EXCEPT !.at = "retire"]) ELSE Fail(h)
    /\ UNCHANGED <<plan, product, price, applied, lost, changes, crashes>>

Refused(h) ==
    /\ hand[h].at \in {"product", "price", "drift", "update", "archive", "save", "retire"}
    /\ Fail(h)
    /\ UNCHANGED <<plan, product, price, applied, lost, changes, crashes>>

PushStep(h) ==
    \/ CallProduct(h) \/ CallPrice(h) \/ NoDrift(h) \/ Save(h) \/ Reread(h) \/ Hook(h)
    \/ Retire(h) \/ CallUpdate(h) \/ Refused(h)

-----------------------------------------------------------------------------
(* SyncPlansToStripe: one plan after the other, then, when asked to mirror, *)
(* the active products whose plan is gone.                                  *)
NextPlan(r) ==
    LET k == hand[r]
    IN  /\ k.at = "next"
        /\ \/ \E p \in DOMAIN k.todo :
                LET row == k.todo[p]
                    left == [k EXCEPT !.todo = [q \in DOMAIN k.todo \ {p} |-> k.todo[q]]]
                IN  hand' = [hand EXCEPT ![r] =
                        IF Free(row) \/ (~row.on /\ row.price = 0) THEN left
                        ELSE [left EXCEPT !.plan = p, !.copy = row,
                                          !.at = IF row.price = 0 THEN "product" ELSE "update"]]
           \/ /\ DOMAIN k.todo = {}
              /\ \E mirror \in BOOLEAN :
                    hand' = [hand EXCEPT ![r] = IF mirror THEN [Idle EXCEPT !.at = "mirror"] ELSE Idle]
        /\ UNCHANGED <<plan, queue, product, price, pass, applied, lost, changes, crashes>>

Mirror(r) ==
    /\ hand[r].at = "mirror"
    /\ \/ /\ \E i \in DOMAIN product : /\ product[i].on /\ ~Live(product[i].plan)
                                       /\ product' = [product EXCEPT ![i].on = FALSE]
          /\ UNCHANGED hand
       \/ hand' = [hand EXCEPT ![r] = Idle] /\ UNCHANGED product
    /\ UNCHANGED <<plan, queue, price, pass, applied, lost, changes, crashes>>

(* ProcessOnce lists a batch, and handles its entries in that order. *)
Poll ==
    /\ ~Busy("worker") /\ pass = {} /\ Outstanding # {}
    /\ pass' = {i \in Outstanding : Cardinality({j \in Outstanding : j < i}) < BatchSize}
    /\ UNCHANGED <<plan, queue, product, price, hand, applied, lost, changes, crashes>>

Take ==
    /\ ~Busy("worker")
    /\ \E i \in pass :
         LET e == queue[i]
         IN  /\ \A j \in pass : i <= j
             /\ hand' = [hand EXCEPT !["worker"] =
                    [Idle EXCEPT !.at = IF e.op = "create" THEN "product" ELSE e.op,
                                 !.plan = e.plan, !.copy = e.copy, !.entry = i]]
    /\ UNCHANGED <<plan, queue, product, price, pass, applied, lost, changes, crashes>>

MarkSuccess ==
    LET k == hand["worker"]
    IN  /\ k.at = "mark"
        /\ queue' = [queue EXCEPT ![k.entry].state = "succeeded"]
        /\ pass' = pass \ {k.entry}
        /\ hand' = [hand EXCEPT !["worker"] = Idle]
        /\ UNCHANGED <<plan, product, price, applied, lost, changes, crashes>>

(* The server restarts: what was under way is forgotten, the queue is not. *)
Crash ==
    /\ crashes < MaxCrashes /\ \E h \in Pushers : Busy(h)
    /\ crashes' = crashes + 1
    /\ pass' = {} /\ hand' = [h \in Pushers |-> Idle]
    /\ lost' = lost \cup {p \in Plans : \E h \in Pushers : Hooks(h, p)}
    /\ UNCHANGED <<plan, queue, product, price, applied, changes>>

WorkerStep == Poll \/ Take \/ MarkSuccess \/ PushStep("worker")
RequestStep(r) == Delete(r) \/ NextPlan(r) \/ Mirror(r) \/ PushStep(r)
AdminStep ==
    \E p \in Plans :
        \/ \E a \in NewAmounts : Add(p, a)
        \/ \E r \in Requests :
              \/ \E row \in Edited(plan[p]) : Edit(r, p, row)
              \/ StartDelete(r, p) \/ SyncOne(r, p)

Next ==
    \/ WorkerStep \/ AdminStep \/ Crash
    \/ \E r \in Requests : RequestStep(r) \/ SyncAll(r)

Spec == Init /\ [][Next]_vars

(* The worker's ticker keeps firing, and a request that was begun ends. *)
FairSpec == Spec /\ WF_vars(WorkerStep) /\ \A r \in Requests : WF_vars(RequestStep(r))

-----------------------------------------------------------------------------
(* Whatever is retried, answered too late, interrupted, edited or pushed by  *)
(* hand in the meantime, a plan never gets a second product at Stripe.      *)
NoDuplicates ==
    \A i, j \in DOMAIN product : product[i].plan = product[j].plan => i = j

(* When nothing is under way for a plan, its last change was told by the    *)
(* newest entry and that entry reached Stripe last, Stripe shows the plan   *)
(* as it is: a withdrawn or deleted plan cannot be bought, and the content  *)
(* is the row's.  Two edits may queue their snapshots in the wrong order, a *)
(* hook may fail or be cut off, and an older entry may be retried after the *)
(* newest: until the next change Stripe then shows what the plan was.      *)
Quiet(p) == (\A i \in Outstanding : queue[i].plan # p) /\ \A h \in Pushers : ~Holds(h, p)

Mirrored ==
    \A p \in Plans :
        Quiet(p) /\ plan[p].product # 0 /\ applied[p] = Newest(p) /\ p \notin lost =>
            LET shown == product[plan[p].product]
            IN  /\ shown.on = (Live(p) /\ plan[p].on)
                /\ Live(p) => shown.rev = plan[p].rev

(* Whatever fails and whenever the server stops, the price a live plan      *)
(* points at is active at Stripe: a checkout of the plan never meets a      *)
(* price that a migration has archived.                                     *)
AlwaysPurchasable ==
    \A p \in Plans : Live(p) /\ plan[p].price # 0 => price[plan[p].price].on

(* However often Stripe fails, the queue ends empty of pending entries:     *)
(* each of them succeeds or is given up.                                    *)
QueueDrains == <>[](Outstanding = {})
=============================================================================
