# A TLA+ model of OCF Core

OCF Core is the Go back end of a teaching platform: learners open terminals
(containers run by an external service, **tt-backend**), follow scenarios in
them under the eyes of a trainer, and people and organizations pay for it
through **Stripe**. Identities live in **Casdoor**. Paths below are relative
to `src/src/`; a Go file without a directory is in
`terminalTrainer/services`, `payment/services` or `scenarios/services`.

This directory holds TLA+ modules for the parts of the server whose
correctness depends on interleavings, failures and the order of messages, TLC
configurations that check them on small instances, and TLAPS proofs for every
value of the constants.

## 1. Inventory

### 1.1 Components

| Component | State | Operations | What is hard | What makes it correct | Modelled by |
|---|---|---|---|---|---|
| Budget engine (`quotaService.go`) | none: reads plans and `terminals` | `evaluateBudget`, `EnforceBudgetTx`, `ComputeRemainingBySize`, `BudgetScopeFor` | unlimited caps, overdrawn scopes, two computations of one thing | the quote equals what the gate admits; admission is atomic per scope | `BudgetEngine`, `BudgetQuote` |
| Composer (`terminalComposer.go`) | `terminals` rows in state `starting` | reserve, POST, finalize or release | three phases over a database and a remote service, timeouts, crashes | a scope fits in a cap; reservations do not leak; a session is charged once | `TerminalComposer` |
| Lifecycle (`terminalLifecycleService.go`, access middleware) | `terminals` | stop, resume, delete, validate | row read, remote call, whole-row save | stopped sessions keep their budget for one window | `TerminalLifecycle` |
| Sync (`terminalSyncService.go`) | `terminals` | list, reconcile, sweep, adopt | stale lists and rows, partial lists | a pass follows tt-backend; revoked rows stay revoked | `TerminalSync`, `TerminalReconcile` |
| Revocation (`terminalCleanup.go`) | `terminals` | `TerminateUserTerminals` | runs beside everything above | releases what a cancelled subscription holds | `TerminalLifecycle` |
| Supervision (`routes/supervision*.go`) | two sockets and four goroutines per stream, the audit trail | watch, take hand, release hand, re-authorize | frames in any order, lost answers, teardown from four sides | the trail tells who can type; a stream ends when either side or the right to it does | `Supervision` |
| Webhook intake (`payment/routes/webHookController.go`) | `webhook_events` | claim, handle, mark, forget | duplicates, retries, crash between claim and mark | what is refused is retried, what is applied is not applied again | `WebhookEvents` |
| Personal subscriptions (`stripeService.go`, `userSubscriptionService.go`, `userSubscriptionController.go`) | `user_subscriptions` | checkout, cancel, reactivate, upgrade, assign, sync, dunning, refund | Stripe and the rows change separately; events late and out of order | rows end up as what Stripe bills; one grace window per stay in dunning | `Subscriptions` |
| Bulk licences (`bulkLicenseService.go`) | `subscription_batches`, licence rows | provision, assign, revoke, resize, delete, cancel | stale reads outside transactions, Stripe then database | counters are the rows; provisioned = billed | `BulkLicenses` |
| Plan synchronisation (`stripeSyncQueue.go`, `stripeSyncWorker.go`, `stripeService.go`) | `stripe_sync_queue`, plan rows, Stripe products and prices | enqueue, drain, push by hand, migrate a price | a call whose answer is lost, retries behind newer entries | one product per plan, which shows the plan; always a live price | `PlanSync` |
| Scenario sessions (`scenarioSessionService.go`, `zombieCleanup.go`) | `scenario_sessions`, step progress, build windows | start, provision, answer, retry, reprovision, abandon, sweep | goroutines that outlive their run, containers that stop, crashes | one run at a time; an active run can be played; a stuck one is released | `ScenarioSessions` |
| Account deletion (`auth/services/userDeletionService.go`, `userDeletionHelper.go`) | rows in every table, Stripe, Casdoor | pre-flight, cancel, delete the identity, cascade | four systems, no transaction; other requests go on | an aborted deletion spares the application's own data; nobody deleted is billed | `AccountErasure` |
| Terminal budget hook, catalogue, capacity, history, console relay, user keys | caches, `user_terminal_keys` | proxying, check-then-create | – | – | – |
| Effective plan (`effectivePlanService.go`) | none | priority of organization, personal and trial plans | several sources | one plan, the best that applies | a parameter |
| Role plans, usage metrics | subscriptions, counters | sync | – | – | – |
| Organizations and groups | members, invitations | join, leave, import | check-then-insert of caps | caps, ownership | – |
| Entity management, Casbin, middleware | any entity, policy | generic CRUD and hooks | reflection | – | – |
| Accounts (creation, verification, reset, impersonation) | tokens | claims | – | a token works once | – |
| Courses, generation engine, worker | jobs | generate, poll | polling | a job ends | – |
| Audit, email, feedback, configuration, web SSH, cron, CLI, start-up | logs, settings | wiring and I/O | – | – | – |

### 1.2 How they interact

- A launch goes through the effective plan, the budget engine, the composer
  and tt-backend. Lifecycle handlers, syncs, revocations, scenario
  goroutines and account deletions work over the same `terminals` table, in
  other requests and on any number of servers. What synchronises them is
  PostgreSQL: an advisory lock per budget scope, `SELECT ... FOR UPDATE` in
  the admission transaction, the unique index on `session_id`. Every other
  handler reads a row, may call tt-backend, and saves the whole row.
- A request that changes a subscription calls Stripe and writes its row;
  Stripe tells the same change again, later, by a webhook. The webhook
  controller claims each event in `webhook_events`, runs the handler and
  marks the event; Stripe repeats whatever is not answered 200.
- A plan that is edited is queued in the transaction's hook; one worker plays
  the queue against Stripe; administrators push plans beside it.
- A scenario run is bound to a terminal; a stop of the terminal, a sweep, an
  unassignment or a new start abandons it while goroutines still prepare it.
- A supervised terminal has the learner's console and the trainers' streams
  attached at tt-backend; roles are changed by REST, frames go by socket.

The hazards of the code are listed with their lines in `PROJECT.json`; the
few that no property covers say why.

## 2. Modules

| Module | Models | Correspondence |
|---|---|---|
| `BudgetEngine` | the pure half of `quotaService.go` | `Exceeds`, `Remaining`, `RemainingCount`; `Total(S, cost)` is the sum of the SQL query, written as a cardinality so that its laws need no induction |
| `BudgetQuote` | quote against gate | `RemainingCount` is `ComputeRemainingBySize`, `Granted` repeats the gate |
| `BudgetLedger` | the abstract promise of admission | one atomic `Admit(x)` that must fit beside its scope, and `Drop` |
| `TerminalRow` | one row and its pure rules | `OccupiesSlot`, `MarkSessionStopped`, `Reconcile`, `LocalVerdict` |
| `TerminalReconcile` | that rule alone | a sync pass is one step; container, clock and revocation move between passes |
| `TerminalStore` | clock, table, tt-backend | `row`, `cont`, history `held` |
| `TerminalComposer` | `StartComposedSession` | `Begin`, `Lock`, `ReadScope`, `LockRows`, `Admit`/`Reject`, `PostSession`, `Answered`, `Finalize`/`Release`, `Crash` |
| `TerminalLifecycle` | stop, resume, delete, validate, revoke | `ReadRow`, `CallBackend`/`CallFails`, `SaveRow` |
| `TerminalSync` | `SyncUserSessions` | `ListSessions`, `ReadRows`, then `SaveRow` and `AdoptSession` |
| `TerminalSessions` | all of them | `Next`, `FairSpec`, properties, refinement mapping |
| `Supervision` | one or more supervise streams | `Authorize`, `StartSupervision`, `Connect` are `prepareSupervision` and the dial; `ReadControl` to `LogReleased` the frames; `Pump`, `Reauthorize`/`Demote`/`ReauthLeaves`, `LoopEnds` the goroutines; `EndHeld`, `EndSupervision` the end of the window |
| `WebhookEvents` | `webhook_events` and Stripe's deliveries | `Deliver`, claim, answer, refuse, `Dies`, `Forget`; extended by the two modules below |
| `Subscriptions` | one customer's rows | requests are `RequestStep`, webhook handlers `Hook*`, Stripe's own moves `StripeStep`, the grace window `GraceElapses` |
| `BulkLicenses` | one batch | `ManagerStep`, `HookStep`, `Dies`, `StripeStep` |
| `PlanSync` | plans, queue, worker, pushes, Stripe | `WorkerStep`, `AdminStep`, `RequestStep`, `SyncAll`, `Crash` |
| `ScenarioSessions` | the runs of one scenario by one learner | `RequestStep`, `JobStep` (goroutines), `SweepStep`, `MachineStep`, `Unassign`, `Killed`, `Crash` |
| `AccountErasure` | two deletions of an account | `Begin`, `JobStep` (one step per remote call or statement group), `Fail`, `Webhook`, `Pay`, `Ask`/`RequestStep`, `GiveUp` |
| `MC*` | instances for TLC | |
| `*Proofs` | the theorems | one per component, beside it; `RulesProofs` for the budget engine and the sync rule, instantiated by `TerminalSessionsProofs` |

`TerminalStore`, `TerminalComposer`, `TerminalLifecycle`, `TerminalSync` and
`TerminalSessions` extend one another in this order; `TerminalSessions`
instantiates `BudgetLedger` with `charged <- held`. `Subscriptions` and
`BulkLicenses` extend `WebhookEvents`. Faulty variants of definitions, used to
see that a property can fail, stand before the definition they vary.

### Granularity

- A database statement is one step, and so is a call of a remote service. A
  transaction is as many steps as it has statements that can wait.
- *Terminals.* The admission takes the advisory lock, reads the scope in its
  snapshot, waits for row locks, then judges and commits. `SaveRow` is gorm's
  `Save`: an update of all columns, or an insert when the row is gone; a row
  locked `FOR UPDATE` blocks it. `Crash` is the death of the server, an
  aborted transaction (a deadlock PostgreSQL breaks) or a release that fails.
- *Webhooks.* Claim, handler and mark are three steps; `Dies` between them.
- *Plans.* Every Stripe call is a step with three outcomes: done, refused,
  done with the answer lost. An edit's commit, the re-read of the row
  (`Reread`) and its hook's enqueue (`Hook`) are steps of their own, so that
  two edits may queue their snapshots in either order; a creation and a
  deletion enqueue with their commit. Any enqueue may fail, which is swallowed.
- *Webhook handlers* are one step, but for credit notes: `HookNote` reads the
  row of the invoice, or takes a failure for a missing row; `SaveNote` saves
  the whole row, or fails and the event comes back.
- *Licences.* The cancellation of a batch lists its licences, or gets nothing
  when that read fails in a webhook; each licence is then saved or missed
  (`MissLicence`), and the batch row is saved or refused (`CancelFails`).
- *Scenarios.* The transaction of a start reads what is committed at each
  statement: `Count`, `Find`, and `Insert` or `RollBack` are steps. Each script
  in the container and each guarded update is one; launching, stopping or
  deleting a container is one step (`TerminalSessions` opens it). The build
  window is closed, or the failure to close it is logged.
- *Deletion.* Each Stripe and Casdoor call is a step; the cascade is one
  transaction of which the terminals' statements are steps of their own.
- *Supervision.* Each audit entry, PATCH and lock section is a step. A PATCH
  is done, refused, or done with its answer lost; a late one is not applied
  after the broker has given it up.

### Abstractions

- *Terminals.* A launch is a constant record (user, organization, scope, caps,
  footprint). A launch names its container. Time is a counter, delays are
  ticks. Left out: soft deletion, administrator bypass, hibernation, names,
  distributions, persistence mode, sizes of zero cost.
- *Supervision.* The right to supervise is the intersection of the groups the
  learner is in with those the trainer manages, or being an administrator;
  rights are only withdrawn. Terminal output is left out. A closed upstream
  socket detaches the stream at tt-backend at once.
- *Payments and licences.* One customer, one batch. An event carries the state
  at its emission. `InOrder` makes Stripe deliver the events of one type in
  order, `Timeouts` (off) lets a slow delivery overlap with the next.
- *Plans.* An edit changes the content, the on-sale flag or the amount.
  Idempotency keys do not expire (24 h at Stripe). One worker, as one pod has.
- *Scenarios.* A wrong flag leaves no trace; hints, banners, previews and
  attempt counters are left out; weights of steps are one.
- *Deletion.* What the cascade deletes or anonymises by `user_id` is one set,
  "rows", the SSH keys are "keys", what other requests add meanwhile is
  "newRows" and "newKeys", addresses and cards are "billing". A soft delete
  (`deleted_at`) hides a row and keeps it, with the user's id: "hidden". The
  owned group stands for owned organizations too. Subscriptions of a personal
  organization are not among `Rows`: its soft delete leaves them.

## 3. Runs

| Run | Instance | Shows |
|---|---|---|
| `budget` | nine launches in two scopes, four plans, caps -1, 0, 1, 3, 4, 6, four sizes | `EveryPartWithin`; in every state the quote is what the gate grants (`QuoteIsExact`) |
| `reconcile` | delays 2, clock to 6 | `ConvergesToBackend`, `StoppedKeepsBudget`, `RevokedHolds` |
| `admission` | two launches of one pool on plans with caps 3 and 2, fairness | `AdmittedWithinCap`, `LedgerSpec`, `EveryLaunchEnds`, `ReservationResolves` |
| `races` | one launch, two threads with stale copies, partial lists | `ChargedOnce`, `NoStrayReservation`, `BudgetIsLeased` |
| `supervision` | one stream, two groups, two control frames, one fault | `HandIsOnRecord`, `WindowIsBounded`, `StreamsEnd` |
| `licences` | three licences, quantities 1 and 2, two managers, four events, crashes, failed writes of a cancellation | `RowsMatchTotal`, `HeldIsCounted`, `SettledIsBilled`, `NeverReassigned`, `CancellationIsComplete` |
| `payments` | two rows, one subscription, two plans, three events, one delivery at a time, a credit note whose invoice may not be read or saved | `SettledIsBilled`, `RefundIsExact`, `FreshGrace` |
| `plans` | one plan, two changes, two attempts, one crash, one push by hand | `NoDuplicates`, `Mirrored`, `AlwaysPurchasable`, `QueueDrains` |
| `scenarios` | two runs, two containers, a launch beside any other request, one fault (a crash or a window that stays open) | `OneRun`, `ProgressIsPrefix`, `GradeIsTheRows`, `PlayableIsBuilt`, `WindowCloses`, `FinishedIsFinal`, `LiveSetupNotReaped`, `StuckIsReleased` |
| `erasure` | a learner, a colleague, three purchases, two deletions, one fault, one other request | `NeverBilledAfter`, `AbortSparesOwnData`, `PurchaserKeepsCustomer`, `LeavesOnlyExcused`, `EventuallyGone` |
| `overshoot` | two launches, one thread | violated: `StartsCannotOvershoot` |
| `stale_failure` | as `payments`, `Overtaking` | violated: `CuredStaysCured` |

### Why the bounds are enough

- *Terminals.* Two threads are what a stale copy needs: one reads, the other
  writes, the first saves. Two launches are what a lost admission needs, and
  two plans of one pool what a difference of caps adds; the proofs cover any
  number. The clock lets every reservation, session and idle window lapse and
  another begin. `LaunchBy` bounds when a launch may begin, so that it can end.
- *Supervision.* Streams meet only in announcements and at tt-backend, where
  each has its own attachment, and the learner's console announces itself as
  another trainer's would; the proof covers any number of streams. Two frames
  are a take and a release, or two takes; one fault is a lost answer, a lost
  entry, a refused call or a crash.
- *Licences.* Two licences and a resize to the other quantity make every
  counter go up and down; a third is what an over-provisioning would create.
- *Payments.* Two rows are the free one and the paid one that replaces it, or
  an old and a new purchase; three events are a failure, a cure and another.
  One credit note shows what crashes and retries do to it; two, one after the
  other, were checked once and hold too (5.0 million states). Overlaps are
  excluded (below), and the proof covers any number of notes.
- *Plans.* Two changes make an entry stale; two attempts make a retry fall
  behind a newer entry. Two pushes by hand without a crash were checked once
  and hold too (1.1 million states).
- *Scenarios.* The second run and container stand for all later ones. Two
  starts are what the race of two transactions needs: `Launchers` are the
  requests that only launch, so that one launcher and one other request meet;
  `MaxFaults` bounds crashes and windows that stay open. 1.07 million states.
- *Deletion.* Two deletions of one account are the person's own and an
  administrator's. Two other requests were checked once for the safety
  properties (0.8 million states).
- The systems stop at their bounds, hence `CHECK_DEADLOCK FALSE`. Symmetry is
  used on threads, managers, users and plans, in runs without liveness.

### Environment assumptions

Some constants name behaviours that the code does not survive; with them on,
the properties are false, and section 4 tells what happens. They are
assumptions of the runs:

- `Careful` (`licences`): managers do not overlap with each other's revocation
  of the same licence, nor a resize with anything else. `Crashes` holds the
  managers only: a handler that dies loses its event (section 4).
- `Orderly` (`payments`) excludes a good deal: requests, syncs among them, come
  one after the other, and no handler works during one; while an event is
  handled, no request begins, Stripe does nothing new and no grace window
  closes; a sync begins when every event was acknowledged; nobody is assigned
  a plan over a row that mirrors Stripe. `Overtaking` off: the event of a failed
  charge is answered before the cure. What events may still do is to come
  late, be refused, come back after others of other types, and come again
  after a crash.
- `SavesApart` (`payments`, where one delivery at a time implies it): no two
  deliveries whose handlers save the row of an invoice overlap.
- `Orderly` (`plans`): a deletion does not overlap with a push of its plan,
  `SyncAll` runs on an idle queue, a plan does not return to an amount whose
  price a migration has superseded, archived already or not. Hooks that fail,
  are cut off by a crash or queue in the wrong order are not excluded: the
  history variable `lost` holds the plans whose newest entry does not tell the
  row, and `Mirrored` is silent about them until their next change.
- `Orderly` (`scenarios`): no other writer moves a run while a request that
  has read it decides; retries and answers of one run do not overlap; no run
  fails its setup between a start's read and its insertion, unless the start
  has found it (`Unread`); no two starts aim at one container (`Unaimed`).
- `Settled` (`erasure`): no payment of a person overlaps with their deletion.

### Fairness

- `TerminalSessions`: time passes; a statement that can run is run (weak), a
  launch that waits in PostgreSQL's queue gets a lock that is free again and
  again (strong; the queues are first come, first served); a POST past its
  deadline returns, as the HTTP client has a timeout. Nothing is assumed of
  tt-backend, the sync or the other handlers.
- `Supervision`: each of the goroutines is scheduled (weak fairness each); the
  calls they wait for have timeouts. The trainer, tt-backend and the
  withdrawal of rights are free, and so is a write to a dropped console, which
  needs the trainer to type.
- `PlanSync`: the worker's ticker fires, a push that was begun ends.
- `ScenarioSessions`: one condition on clock, sweep and goroutines together:
  while one of them can move, one moves. The transaction of a start ends.
- `AccountErasure`: a deletion that was begun ends, a person who asked asks
  again and deletes the group they own, Stripe redelivers, requests end.

## 4. What the runs show of the code

The two violated claims are quoted in `PROJECT.json`.

- **Starts can overshoot.** A sync that lists the containers while a launch is
  provisioning finds none for its placeholder and deletes the row (step 5b
  takes every state). A second start does not sum it; the first finalizes by
  primary key and brings its row back. What does hold is `AdmittedWithinCap`.
- **A cured customer is put back in dunning.** The event of a failed charge is
  refused while the row is past due; Stripe retries it, and after the cure it
  finds the row active.

Observed while modelling, with no run of their own:

*Terminals.* A sync past the container's date rewrites a revoked row to
deleted (`terminalSyncService.go:274`), and the guard of line 312, which tests
the new state, lets `markSessionStopped` make it stopped with a fresh expiry:
it is charged again, which the comment at 305 to 307 rules out; `RevokedHolds`
states what holds. A sync that read the placeholder can save it over the
finalized row. `reservationTTL` equals the timeout it is said to exceed.
`TerminateUserTerminals` picks only running rows. A container still listed as
running past its date "doit" be erased locally, says the comment at 268 to
271; line 274 does so, and the lifecycle write of the same pass
(`terminalSyncService.go:322`) makes the row running again. `ConvergesToBackend` says nothing of such an
entry. The two row locks of
overlapping scopes are taken in no order; PostgreSQL breaks the deadlock.

*Supervision.* When the answer of the promoting PATCH is lost the trainer can
type, while the trail says `failed`, `promoted` is false, and no `released`
follows: `HandIsOnRecord` therefore counts `failed` as a possible hand.
`reauthLoop` re-checks the group, not the plan: a stream and a hand held
survive the plan, only the next take is denied. `started` is logged before
lookups and the dial; when one of them fails no entry closes that window
(`WindowIsBounded` speaks of streams that ran). The trail names the group
found at the start although access may later come through another.

*Webhooks and payments.* A second delivery while the first still runs is
answered 200, and is lost if the first fails; a crash between claim and mark
leaves the row reserved and the retry is acknowledged. A sync writes the
status without the dunning stamp, so that an old stamp stays. An assignment
over a Stripe-backed row leaves the subscription running, and its next update
resurrects the replaced row; so does an update retried after the deletion.
Two first requests create two free rows; a free checkout with
`allow_replace` stacks one; a checkout deletes the free row before the paid
one exists. A sync writes "canceled" where the code reads "cancelled". A sync
that creates a missing row takes the plan of the metadata (`stripeService.go:2604`),
which an upgrade leaves stale; the row shows the old plan until the next
update. The handler of a credit note reads the invoice, adds and saves the
whole row without a lock (1484 to 1511, `paymentRepository.go:322`): two notes
of one invoice at once lose one, and so does a note beside a recorded payment
(`SavesApart`). It takes any failure of its read for an invoice that is not
recorded, and the note is lost (1485); `RefundIsExact` does not count it.
`handleChargeRefunded` (1437), which sets a cumulative total, is left out.

*Licences.* The `created` webhook of a direct purchase is always refused (no
`user_id` metadata). A batch in `pending_payment` is never activated by its
invoice, since licence rows have no `stripe_subscription_id`. A resize and its
own `updated` event provision twice; two revocations of one licence decrement
the counter twice; a stale `updated` shrinks the batch. Assignments, resizes
and updates do not look at the batch's status. Assign locks batch then
licence, resize and revoke the other way round. A cancellation ignores the
error of its list and of each licence's save (`stripeService.go:2167`, 2183,
2307, 2322), or logs it (`bulkLicenseService.go:727`), and the batch becomes
cancelled all the same: a licence that was missed goes on to grant its plan,
and nothing comes back to it. `CancellationIsComplete` excuses exactly those.

*Plans.* A price that returns to an old amount within 24 h replays the
migration's idempotency key and gets an archived price. A worker stalled
between the creation of a price and its save reverts the pointer. A price
whose archival failed is never archived. The creation's write-back reverts
edits and can put a withdrawn plan on sale. A plan deleted while its creation
is pending leaves an active product. An update that failed and is retried may
overtake a newer one: `Mirrored` then says nothing (its premise is that the
newest entry reached Stripe last). The hook of an edit is given a second read
of the row (`genericService.go:300`) and enqueues later: two edits at once may
queue the older snapshot last. A failed enqueue is logged and swallowed
(`stripeSubscriptionPlanHook.go:116`), and so is what a crash cuts off; the
plan stays unsynchronised until its next change. Two pods are two workers.

*Scenarios.* The first step's flag is deployed under the hard-coded order 0
and its computed answer is discarded. A failed push of a step's configuration
leaves the build window open without a word; a failed `buildComplete` does
too, with a log entry (`finishBuild`, 187 to 198): `WindowCloses` tells the
two apart. The comment at 256 has findExistingSession evaluated "in the
transaction so a concurrent launch cannot slip past it". At READ COMMITTED it
can: what stops the second launch is `idx_unique_active_session`, which does
not cover `setup_failed`, so that a run that fails its setup between another
start's read and insertion stands beside the new one, and both block the slot
(without `Unread`, `OneRun` is violated). Two starts on one terminal may both
count no run of it, and the unguarded `Update` to abandoned may overwrite a
run that was completed since the read. Reprovisioning reports success though its
guarded update did nothing. A refused launch leaves its container. Several
ways to abandon a run do not delete its machine. The unassign hook skips
`setup_failed` runs, which a reprovision can revive. Flag attempts are checked,
then counted.

*Deletion.* A checkout that is paid, or a webhook that is pending, during the
deletion leaves a deleted user who is billed. A deletion that is
aborted at Casdoor has already ended subscriptions, deleted customers and
pseudonymized addresses and cards; `AbortSparesOwnData` is about the rest. A
failed pseudonymization is logged, and those data stay
(`LeavesOnlyExcused`). Most deletes of the cascade are soft: only the tokens
(`userDeletionService.go:288`) and the SSH keys leave their tables, the other
rows stay in them with the user's id, which the comments ("deletes", "removes")
do not tell. The comment that the personal organization's deletion cascades to
its members and subscription is about a database cascade, which a soft delete
does not fire. "A failure is logged but does not abort the deletion" (303) is
not so on PostgreSQL, where the failed statement has aborted the transaction
and its commit fails. A cascade that fails after the
identity is gone is never run again (the retry stops at "user not found").
The administrator's route deletes the identity only. Until Stripe's `deleted`
event has been handled, a retry asks Stripe to cancel again and is refused,
although the comment calls it safe; `EventuallyGone` shows that it heals. A
launch in flight leaves a running row without an owner; the whole-row save of
a stop writes the erased user back; a group founded after the pre-flight is
orphaned.

## 5. Proofs

TLAPS checks the following for every value of the constants that satisfies the
named assumptions of the modules (delays and bounds are naturals, launches,
licences and rows are finitely many, rows are numbered from one, managers are
not deliveries, records are typed, attachments and `None` are distinct) and,
where it is said, the environment assumptions of section 3. An invariant is
rarely inductive as stated; each entry names what it needed.

- `RulesProofs`: `LedgerTyped`, `PartsWithin`, `ScopesWithinCap`,
  `QuotesAreExact`. `WithinCap` is not inductive: the item with the generous
  cap may be dropped while the others stay. `EveryPartWithin` says that every
  part of a scope's charges fits in the cap of one of its own items. An
  admission extends it, the new item being the witness; a drop leaves fewer
  parts. The quote is exact because on each axis the gate grants launch number
  k exactly when k is below what is left divided by the need. That asks for
  sizes of positive cost: on an overdrawn scope a size that costs nothing on
  the overdrawn axis is quoted as if that axis had no cap, and refused.
  `PassesConverge`, `PausedKeepBudget` and `RevocationHolds` are the rule of
  a sync pass, over typed rows and entries; the first leaves out a container
  listed as running past its date.
- `TerminalSessionsProofs`: `SessionsTyped`; `ProtocolHolds` and
  `SumsAreCurrent`. The invariant `Protocol` joins `OneAdmission` (one
  launch per scope is in its transaction), `HeldIsCharged`, `HeldIsAdmitted`
  and `SumIsCurrent`, which alone is not inductive: it needs that nobody else
  of the scope can admit, and that what is held cannot be missed by the
  snapshot. `ProtocolImplementsLedger`: an `Admit` maps to the ledger's
  `Admit` because the sum it judged by contains all that is held; every other
  step is a `Drop` or a stutter. `AdmissionWithinCap` carries
  `ScopesWithinCap` through the refinement. `BudgetLeasesEnd`: a stale copy
  may bring an old expiry back, so the lease is an invariant of every expiry
  that is stored, held by a thread or told by tt-backend. `ReservationsEnd`
  and `SessionsChargedOnce` need to know which row owns a session id: one that
  does not is a placeholder or deleted, one that a sync adopts does, of the
  two rows of a launch at most one does, no stale copy is saved as a
  reservation, and before its POST nobody knows of a launch's container.
- `SupervisionProofs`: `TakenHandIsOnRecord`. The invariant adds `OwnId` (a
  stream is told, and knows, no id but its own), `Addressed` (a call that
  changes a role addresses the stream's own attachment) and `Logging` (an
  entry that is not about taking the hand is written only when it is not
  held; a PATCH that takes it is preceded by its entry). `OneStream` reduces a
  step to the stream that takes it. `WindowsAreBounded` tells, for each
  position of a stream, the shape of its trail so far.
- `BulkLicensesProofs`: `LicencesNotReassigned`. An assigned licence changes
  hands only through the pool: from the moment an assignment has picked a
  licence to its commit, the only other writers of that row cancel it. The
  invariant says that the assignment under way is the only one and that its
  licence is unassigned or cancelled. `Careful` is not needed. `Careful` is,
  for `TotalsMatchRows`, `CounterIsHeld` and `CancellationsComplete`: what a
  request or a webhook has read is still there when it writes (`Keeps`), since
  assignments and revocations touch distinct licences and everything else is
  alone (`Apart`); a licence that a cancellation has left behind is one of
  those it missed; a transaction moves total and counter by as many rows as it
  adds, removes or hands out (`Counted`). `AnsweredIsBilled` assumes
  `Attended`: careful managers, events in order, no overlapping deliveries and
  no crash inside a handler. Updates are then answered in turn, though any may
  be refused and come back (`Desk`, `Turns`); the newest one sent tells what
  Stripe bills (`Told`); a resize that stands between Stripe and the database,
  or was lost there, has its update to come (`Hands`); so the one that is
  answered last leaves the total that is billed (`Linked`).
- `ScenarioSessionsProofs`, assuming `Orderly`: `OneRunAtATime`,
  `RunsStayFinished`. The invariant is `Typed /\ Holding /\ OneBlocks /\
  Numbered /\ Reading`: what a request holds is an active run that no other
  request holds, one run blocks the slot, the ids given so far are bounded,
  and what a start has read stands until it inserts: a run whose setup failed
  is the one it found. The index keeps the rest apart.
  `MildStep` is the class of steps that only move blocking runs which nobody
  holds afterwards; the start and the answer, which are not mild, have lemmas
  of their own. `RowsSayWhereTheRunIs` and `GradesAreOfTheRows` add that the
  copy a request judges by is the row; `SweepSparesLiveSetups` adds ages;
  `ActiveRunsAreBuilt` follows a run, its goroutine and its container
  together. `BuildWindowsClose` needs no assumption: every exit of a start
  closes the window or has logged that it could not.
- `AccountErasureProofs`: `AbortedDeletionSparesOwnData`,
  `BuyersKeepTheirCustomer`. The invariant adds `GoneFirst` (a cascade runs
  only when the identity is gone) and `OwnTodo` (a deletion is after the
  customers of its own user); `Settled` is not needed. `DeletedIsNotBilled`
  assumes `Settled`: what a deletion has not cancelled yet it still has to do.
  `ErasureLeavesOnlyExcused` says of each step of the cascade what is left to
  it, and of each failure that is only logged what it leaves.
- `PlanSyncProofs`: `OneProductPerPlan` on any schedule: whoever creates a
  product does it under the key of the plan. With `Orderly`:
  `LivePlansAreForSale`, of which the invariant `Selling` joins who may hold a
  copy of a price with what keys give (a request that pushes all plans is
  alone with each of them); and `PlansAreMirrored`, of which `Mirroring` says
  that the newest entry of a plan tells its row unless a hook is still to
  come or the plan is `lost`, and that a product which that entry reached last
  shows it.

- `SubscriptionsProofs`: `RefundsAreExact` asks nothing of requests or of the
  order of events, and of deliveries `[]SavesApart`: it is stated as
  `Spec /\ []SavesApart => []RefundIsExact`, and is false without. The
  invariant `Exact` counts credit notes
  instead of amounts: what is refunded here is the notes issued less those
  whose handler has not added its own yet (`Refunds`); what a handler has read
  is what the row still says (`Readings`), as is the state of the event that a
  delivery has looked up (`Sightings`). One whose save failed has added
  nothing and comes back; one that dies after its work is not run again.
  `SettledIsBilled` and `FreshGrace` are false on irregular schedules. `RegularIsBilled` and
  `RegularGraceIsFresh` assume `Regular`: the assumptions of the run, that is
  orderly requests, and events in order, no two deliveries at once, one
  subscription at Stripe. Any number of rows, plans, requests, deliveries and
  events is covered; for several subscriptions nothing is claimed. The
  invariant is `Steady == Typed /\ Intake /\ Ordering /\ History /\ RowFacts /\
  Jobs`. `Intake` and `Ordering` tell which events have run; `History` says
  that what was sent is a history of the subscription, each event telling a
  state it may have moved to from the one before; by `RowFacts` the row is
  what the last event that ran has said of it, which is what the next one
  finds; and by `Jobs` what a request has read is still so when it writes. At
  rest no event is left to run, so that the row is what the history ends with:
  the subscription.

Model-checked only: every liveness property (liveness and ENABLED are out of
the prover's reach), and what is violated. Every invariant and every action
property of a passing run is a theorem.

## 6. Not modelled, and plan

- *Generic entity management, Casbin, middleware*: reflection over any entity;
  static rules.
- *Audit, email, feedback, configuration, web SSH, start-up, cron, CLI*:
  append-only logs, wiring, I/O.
- *Scenario import and export, flags, dashboards*: file formats and read-only
  queries; scripts run in containers.
- *Catalogue, capacity, history, console relay*: proxies of tt-backend.

Worth modelling next, in this order:

1. `EffectivePlan` with organization subscriptions. Their reading showed that
   `GetUserOrganizationSubscriptions` joins memberships without their
   `deleted_at` and ignores `expires_at`.
2. `Memberships`: caps of groups and organizations are checked before the
   insert, without a lock (`groups/services/groupService.go:179`).
3. `AccountTokens`: verification updates Casdoor before it claims the token,
   a resend saves a stale copy over a used one, resend limits and
   impersonation are check-then-write.
4. `GenerationJobs`: whole-row saves of stale copies and check-then-retry.
5. `TerminalBudgetHook` (its transaction ends before the insert) and the
   creation of user keys (check-then-create).

Proofs to come: `SettledIsBilled` and `FreshGrace` over several subscriptions
at Stripe, whose rows replace one another.
