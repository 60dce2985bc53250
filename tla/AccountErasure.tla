---------------------------- MODULE AccountErasure ----------------------------
(***************************************************************************)
(* The deletion of an account, over four systems that share no transaction: *)
(* Stripe (its subscriptions and customers), the billing tables, Casdoor    *)
(* (the identity) and the application's own data.  A person deletes their   *)
(* own account, or an administrator does; each call of another system is a  *)
(* step that can fail, the server can stop between two of them, Stripe's    *)
(* webhooks come back later, and the person's other requests go on.         *)
(***************************************************************************)
EXTENDS FiniteSets, Integers

CONSTANTS
    Users,
    None,
    Customers,
    Subs,          \* Stripe subscriptions
    Rows,          \* user_subscriptions
    Row,           \* their fixed columns, see RowType
    Erasers,       \* the deletions that may run side by side
    Asked,         \* what each deletion is: [user, admin]
    Busy,          \* users who also send other requests
    MaxFaults,     \* bound: failures and crashes
    MaxRequests,   \* bound: other requests
    Settled        \* payments and deletions of one person do not overlap

(* A licence of a batch has a purchaser, and no stripe_subscription_id: [sub] *)
(* is then the subscription of the batch.                                  *)
RowType == [user : Users, purchaser : Users \cup {None},
            customer : Customers, sub : Subs]

VARIABLES
    identity,  \* users Casdoor knows
    roles,     \* users with a Casbin role: the others' requests are refused
    stripe,    \* the state of each subscription at Stripe
    customer,  \* the state of each customer at Stripe
    status,    \* user_subscriptions.status
    events,    \* webhooks Stripe has not delivered yet
    data,      \* the user's rows in the other tables
    terminal,  \* the user's rows in terminals
    group,     \* whether the user owns a group
    job,       \* the deletions under way
    request,   \* the other request of each user
    excused,   \* history: what another request wrote during or after a deletion,
               \* and what a step that only logs its failure left
    faults,    \* failures so far
    asked      \* other requests so far

remoteVars == <<identity, roles, stripe, customer, events>>
localVars == <<status, data, terminal, group>>
vars == <<remoteVars, localVars, job, request, excused, faults, asked>>

(***************************************************************************)
(* "rows" is what the cascade deletes or anonymizes by user_id: terminal    *)
(* keys, scenario sessions, memberships, the personal organization,         *)
(* authorship, audit, tokens, settings; "keys" are the SSH keys.  "newRows" *)
(* and "newKeys" are the same, written by a later request.  Most of these   *)
(* deletions only set deleted_at: what they take out of every query's sight *)
(* stays in its table with the user's id, as "hidden".                      *)
(***************************************************************************)
Visible == {"rows", "newRows"}
SshKeys == {"keys", "newKeys"}
Erasable == Visible \cup SshKeys
Terminals == {"old", "new"}

NoTerminal == [state |-> "none", linked |-> FALSE]
NoJob == [pc |-> "idle", todo |-> {}, swept |-> {}, released |-> {}, unlinked |-> {}]

IsLicence(r) == Row[r].purchaser # None
RowsOf(u) == {r \in Rows : Row[r].user = u}
PayerOf(r) == IF IsLicence(r) THEN Row[r].purchaser ELSE Row[r].user

(* A customer is one payer's, and only licences of a batch share their       *)
(* subscription.                                                            *)
ASSUME ErasureAssumption ==
    /\ None \notin Users
    /\ Row \in [Rows -> RowType]
    /\ \A r, q \in Rows : Row[r].customer = Row[q].customer => PayerOf(r) = PayerOf(q)
    /\ \A r, q \in Rows : Row[r].sub = Row[q].sub /\ r # q => IsLicence(r) /\ IsLicence(q)
    /\ Asked \in [Erasers -> [user : Users, admin : BOOLEAN]]
    /\ Busy \subseteq Users
    /\ MaxFaults \in Nat /\ MaxRequests \in Nat /\ Settled \in BOOLEAN

User(e) == Asked[e].user
Deleting(u) == \E e \in Erasers : User(e) = u /\ job[e].pc # "idle"

(* Terminals a cascade has updated and not committed: other writers wait.   *)
LockedFor(e) == UNION {job[x].released \cup job[x].unlinked :
                          x \in {y \in Erasers \ {e} : User(y) = User(e)}}
Locked(u) == UNION {job[e].released \cup job[e].unlinked :
                       e \in {x \in Erasers : User(x) = u}}

GoTo(e, pc) == job' = [job EXCEPT ![e].pc = pc]
Load(e, pc, S) == job' = [job EXCEPT ![e] = [@ EXCEPT !.pc = pc, !.todo = S]]
Leave(e) == job' = [job EXCEPT ![e] = NoJob]

Init ==
    /\ identity = Users /\ roles = Users
    /\ status \in {f \in [Rows -> {"absent", "entitling", "lapsed"}] :
                      \A r \in Rows : IsLicence(r) => f[r] = "entitling"}
    /\ stripe = [s \in Subs |-> IF \E r \in Rows : Row[r].sub = s /\ status[r] # "absent"
                                THEN "live" ELSE "none"]
    /\ customer = [c \in Customers |->
                      IF \E r \in Rows : Row[r].customer = c /\ status[r] # "absent"
                      THEN "live" ELSE "none"]
    /\ events = {}
    /\ data = [u \in Users |-> {"rows", "keys", "billing"}]
    /\ terminal = [u \in Users |-> [t \in Terminals |->
                      IF t = "old" /\ u \in Busy
                      THEN [state |-> "running", linked |-> TRUE] ELSE NoTerminal]]
    /\ group \in [Users -> {"none", "owned"}]
    /\ \A u \in Users \ Busy : group[u] = "none"
    /\ job = [e \in Erasers |-> NoJob]
    /\ request = [u \in Users |-> "none"]
    /\ excused = [u \in Users |-> {}]
    /\ faults = 0 /\ asked = 0

-----------------------------------------------------------------------------
(* What was written before this deletion is its to erase.                    *)
Forget(u) == IF Deleting(u) \/ u \notin identity THEN excused ELSE [excused EXCEPT ![u] = {}]

(* AuthManagement wants a role of whoever asks for themselves, and the        *)
(* pre-flight that they own no group or shared organization.                 *)
MayBegin(e) ==
    /\ job[e].pc = "idle"
    /\ Asked[e].admin \/ (User(e) \in roles /\ group[User(e)] # "owned")
    /\ Settled => \A r \in Rows :
          PayerOf(r) = User(e) => <<"created", Row[r].sub>> \notin events

(* Faulty variant: the cascade first, then the other systems.                *)
BeginWithCascade(e) ==
    /\ MayBegin(e)
    /\ GoTo(e, IF Asked[e].admin THEN "lookup" ELSE "release")
    /\ excused' = Forget(User(e))
    /\ UNCHANGED <<remoteVars, localVars, request, faults, asked>>

(* DeleteMyAccount up to assertNoOwnedOrgsOrGroups, or the admin's route.    *)
Begin(e) ==
    /\ MayBegin(e)
    /\ GoTo(e, "lookup")
    /\ excused' = Forget(User(e))
    /\ UNCHANGED <<remoteVars, localVars, request, faults, asked>>

(* GetUserByUserId: without an identity the deletion goes no further.        *)
Lookup(e) ==
    /\ job[e].pc = "lookup"
    /\ IF User(e) \in identity THEN GoTo(e, "subs") ELSE Leave(e)
    /\ UNCHANGED <<remoteVars, localVars, request, excused, faults, asked>>

(* CancelAllActiveSubscriptionsForUser reads its list once ...               *)
LoadSubs(e) ==
    /\ job[e].pc = "subs"
    /\ Load(e, "cancel", {Row[r].sub : r \in {x \in RowsOf(User(e)) :
                                   ~IsLicence(x) /\ status[x] = "entitling"}})
    /\ UNCHANGED <<remoteVars, localVars, request, excused, faults, asked>>

(* ... and cancels one by one.  The row changes when the webhook comes back. *)
CancelSubscription(e) ==
    /\ job[e].pc = "cancel"
    /\ \E s \in job[e].todo :
         /\ stripe[s] = "live"
         /\ stripe' = [stripe EXCEPT ![s] = "cancelled"]
         /\ events' = events \cup {<<"deleted", s>>}
         /\ job' = [job EXCEPT ![e].todo = @ \ {s}]
    /\ UNCHANGED <<identity, roles, customer, localVars, request, excused, faults, asked>>

(* Stripe refuses to cancel what is cancelled, and the deletion aborts.      *)
CancelRefused(e) ==
    /\ job[e].pc = "cancel"
    /\ \E s \in job[e].todo : stripe[s] = "cancelled"
    /\ Leave(e)
    /\ UNCHANGED <<remoteVars, localVars, request, excused, faults, asked>>

(* Faulty variants: the customers of all the user's rows, licences included; *)
(* those of the user's own purchases only.                                  *)
CustomersOfRows(u) == {Row[r].customer : r \in {x \in RowsOf(u) : status[x] # "absent"}}

CustomersOfHolder(u) ==
    {Row[r].customer : r \in {x \in RowsOf(u) : status[x] # "absent" /\ ~IsLicence(x)}}

(* The customers the user owns, self-purchases and bulk purchases.           *)
OwnedCustomers(u) ==
    {Row[r].customer : r \in {x \in Rows : status[x] # "absent" /\ PayerOf(x) = u}}

(* DeleteStripeCustomersForUser *)
LoadCustomers(e) ==
    /\ job[e].pc = "cancel" /\ job[e].todo = {}
    /\ Load(e, "customers", OwnedCustomers(User(e)))
    /\ UNCHANGED <<remoteVars, localVars, request, excused, faults, asked>>

(* A missing customer is a success; Stripe cancels what a deleted one holds. *)
DeleteCustomer(e) ==
    /\ job[e].pc = "customers"
    /\ \E c \in job[e].todo :
         LET ended == {Row[r].sub : r \in {x \in Rows :
                          Row[x].customer = c /\ stripe[Row[x].sub] = "live"}}
         IN  /\ customer' = [customer EXCEPT ![c] = "deleted"]
             /\ stripe' = [s \in Subs |-> IF s \in ended THEN "cancelled" ELSE stripe[s]]
             /\ events' = events \cup ({"deleted"} \X ended)
             /\ job' = [job EXCEPT ![e].todo = @ \ {c}]
    /\ UNCHANGED <<identity, roles, localVars, request, excused, faults, asked>>

(* PseudonymizeBillingDataForUser, one transaction, best effort.             *)
Pseudonymize(e) ==
    /\ job[e].pc = "customers" /\ job[e].todo = {}
    /\ GoTo(e, "casdoor")
    /\ \/ /\ data' = [data EXCEPT ![User(e)] = @ \ {"billing"}]
          /\ UNCHANGED <<excused, faults>>
       \/ /\ faults < MaxFaults /\ faults' = faults + 1
          /\ excused' = [excused EXCEPT ![User(e)] = @ \cup {"billing"}]
          /\ UNCHANGED data
    /\ UNCHANGED <<remoteVars, status, terminal, group, request, asked>>

DeleteIdentity(e) ==
    /\ job[e].pc = "casdoor"
    /\ identity' = identity \ {User(e)}
    /\ GoTo(e, "roles")
    /\ UNCHANGED <<roles, stripe, customer, events, localVars, request, excused, faults, asked>>

(* RemoveGroupingPolicy only warns.  An administrator's deletion ends here.  *)
RemoveRoles(e) ==
    /\ job[e].pc = "roles"
    /\ IF Asked[e].admin THEN Leave(e) ELSE GoTo(e, "release")
    /\ \/ roles' = roles \ {User(e)} /\ UNCHANGED faults
       \/ faults < MaxFaults /\ faults' = faults + 1 /\ UNCHANGED roles
    /\ UNCHANGED <<identity, stripe, customer, events, localVars, request, excused, asked>>

-----------------------------------------------------------------------------
(* cascadeOCFData, one transaction.  Its statements each read what is there, *)
(* and its writes are seen when it commits.                                 *)

LinkedTerminals(u) == {t \in Terminals : terminal[u][t].linked}

(* Faulty variant: the shared helper alone, which leaves stopped terminals.  *)
RunningTerminals(u) == {t \in LinkedTerminals(u) : terminal[u][t].state = "running"}

OpenTerminals(u) == {t \in LinkedTerminals(u) : terminal[u][t].state # "deleted"}

(* terminateTerminals *)
Release(e) ==
    /\ job[e].pc = "release"
    /\ OpenTerminals(User(e)) \cap LockedFor(e) = {}
    /\ job' = [job EXCEPT ![e] =
                  [@ EXCEPT !.pc = "sweep", !.released = OpenTerminals(User(e))]]
    /\ UNCHANGED <<remoteVars, localVars, request, excused, faults, asked>>

(* deleteUserTerminalKeys ... deleteUserSettings: one statement a table, each *)
(* row seen by the one of its table.                                        *)
Sweep(e) ==
    /\ job[e].pc = "sweep"
    /\ job' = [job EXCEPT ![e] =
                  [@ EXCEPT !.pc = "keys", !.swept = data[User(e)] \cap Visible]]
    /\ UNCHANGED <<remoteVars, localVars, request, excused, faults, asked>>

(* deleteSSHKeys logs its failure and goes on, on SQLite.  PostgreSQL has     *)
(* then aborted the transaction: a Fail.                                    *)
SweepKeys(e) ==
    LET keys == data[User(e)] \cap SshKeys
    IN  /\ job[e].pc = "keys"
        /\ \/ /\ job' = [job EXCEPT ![e].pc = "unlink", ![e].swept = @ \cup keys]
              /\ UNCHANGED <<excused, faults>>
           \/ /\ faults < MaxFaults /\ faults' = faults + 1
              /\ GoTo(e, "unlink")
              /\ excused' = [excused EXCEPT ![User(e)] = @ \cup keys]
        /\ UNCHANGED <<remoteVars, localVars, request, asked>>

(* anonymizeTerminalUserID, last. *)
Unlink(e) ==
    /\ job[e].pc = "unlink"
    /\ LinkedTerminals(User(e)) \cap LockedFor(e) = {}
    /\ job' = [job EXCEPT ![e] =
                  [@ EXCEPT !.pc = "commit", !.unlinked = LinkedTerminals(User(e))]]
    /\ UNCHANGED <<remoteVars, localVars, request, excused, faults, asked>>

Commit(e) ==
    LET u == User(e)
        hidden == IF job[e].swept \cap Visible = {} THEN {} ELSE {"hidden"}
    IN  /\ job[e].pc = "commit"
        /\ data' = [data EXCEPT ![u] = (@ \ job[e].swept) \cup hidden]
        /\ terminal' = [terminal EXCEPT ![u] = [t \in Terminals |->
               [state  |-> IF t \in job[e].released THEN "deleted" ELSE @[t].state,
                linked |-> @[t].linked /\ t \notin job[e].unlinked]]]
        /\ Leave(e)
        /\ UNCHANGED <<remoteVars, status, group, request, excused, faults, asked>>

(* An error returned, or the server dies: the transaction rolls back, what   *)
(* other systems did stays done.                                            *)
Fail(e) ==
    /\ job[e].pc # "idle" /\ faults < MaxFaults
    /\ faults' = faults + 1
    /\ Leave(e)
    /\ UNCHANGED <<remoteVars, localVars, request, excused, asked>>

-----------------------------------------------------------------------------
(* TerminateUserTerminals revokes the running ones.                          *)
Revoked(u) == [t \in Terminals |->
    IF t \in RunningTerminals(u) THEN [terminal[u][t] EXCEPT !.state = "revoked"]
    ELSE terminal[u][t]]

(* A checkout is paid, with a customer made for it if there was none.        *)
Pay(r) ==
    /\ ~IsLicence(r) /\ stripe[Row[r].sub] = "none"
    /\ customer[Row[r].customer] # "deleted"
    /\ Settled => Row[r].user \in identity /\ ~Deleting(Row[r].user)
    /\ stripe' = [stripe EXCEPT ![Row[r].sub] = "live"]
    /\ customer' = [customer EXCEPT ![Row[r].customer] = "live"]
    /\ events' = events \cup {<<"created", Row[r].sub>>}
    /\ UNCHANGED <<identity, roles, localVars, job, request, excused, faults, asked>>

(* handleSubscriptionCreated *)
HandleCreated(r) ==
    /\ <<"created", Row[r].sub>> \in events
    /\ events' = events \ {<<"created", Row[r].sub>>}
    /\ status' = [status EXCEPT ![r] = "entitling"]
    /\ UNCHANGED <<identity, roles, stripe, customer, data, terminal, group,
                   job, request, excused, faults, asked>>

(* Faulty variant: the row keeps its status. *)
HandleDeletedLightly(r) ==
    /\ <<"deleted", Row[r].sub>> \in events /\ status[r] # "absent"
    /\ RunningTerminals(Row[r].user) \cap Locked(Row[r].user) = {}
    /\ events' = events \ {<<"deleted", Row[r].sub>>}
    /\ terminal' = [terminal EXCEPT ![Row[r].user] = Revoked(Row[r].user)]
    /\ UNCHANGED <<identity, roles, stripe, customer, status, data, group,
                   job, request, excused, faults, asked>>

(* handleSubscriptionDeleted: a row not there yet is an error, and Stripe    *)
(* delivers again.                                                         *)
HandleDeleted(r) ==
    /\ <<"deleted", Row[r].sub>> \in events /\ status[r] # "absent"
    /\ RunningTerminals(Row[r].user) \cap Locked(Row[r].user) = {}
    /\ events' = events \ {<<"deleted", Row[r].sub>>}
    /\ terminal' = [terminal EXCEPT ![Row[r].user] = Revoked(Row[r].user)]
    /\ status' = [status EXCEPT ![r] = "cancelled"]
    /\ UNCHANGED <<identity, roles, stripe, customer, data, group,
                   job, request, excused, faults, asked>>

-----------------------------------------------------------------------------
(* The user's other requests, let in while they have a role.  Bound: each    *)
(* writes a row that is not there yet.                                      *)

Excuse(u, x) == excused' = IF Deleting(u) \/ u \notin identity
                      THEN [excused EXCEPT ![u] = @ \cup {x}] ELSE excused

Ask(u, op) ==
    /\ u \in Busy \cap roles /\ request[u] = "none"
    /\ asked < MaxRequests /\ asked' = asked + 1
    /\ op = "stop" => terminal[u]["old"] = [state |-> "running", linked |-> TRUE]
    /\ op = "launch" => terminal[u]["new"] = NoTerminal
    /\ op = "write" => data[u] \cap {"newRows", "newKeys"} = {}
    /\ op = "found" => group[u] = "none"
    /\ request' = [request EXCEPT ![u] = op]
    /\ UNCHANGED <<remoteVars, localVars, job, excused, faults>>

Put(u, t, v) == terminal' = [terminal EXCEPT ![u][t] = v]

(* A launch: the reservation, then FinalizeReservation, which updates the    *)
(* row by id and does not write user_id.                                    *)
Reserve(u) ==
    /\ request[u] = "launch"
    /\ request' = [request EXCEPT ![u] = "launched"]
    /\ Put(u, "new", [state |-> "starting", linked |-> TRUE]) /\ Excuse(u, "new")
    /\ UNCHANGED <<remoteVars, status, data, group, job, faults, asked>>

Finalize(u) ==
    /\ request[u] = "launched" /\ "new" \notin Locked(u)
    /\ request' = [request EXCEPT ![u] = "none"]
    /\ Put(u, "new", [terminal[u]["new"] EXCEPT !.state = "running"]) /\ Excuse(u, "new")
    /\ UNCHANGED <<remoteVars, status, data, group, job, faults, asked>>

(* A stop read the whole row before; it saves the whole row.                 *)
SaveStopped(u) ==
    /\ request[u] = "stop" /\ "old" \notin Locked(u)
    /\ request' = [request EXCEPT ![u] = "none"]
    /\ Put(u, "old", [state |-> "stopped", linked |-> TRUE]) /\ Excuse(u, "old")
    /\ UNCHANGED <<remoteVars, status, data, group, job, faults, asked>>

(* Any other write that names the user: a membership, a session, a key.      *)
Write(u) ==
    /\ request[u] = "write"
    /\ request' = [request EXCEPT ![u] = "none"]
    /\ \E x \in {"newRows", "newKeys"} :
          data' = [data EXCEPT ![u] = @ \cup {x}] /\ Excuse(u, x)
    /\ UNCHANGED <<remoteVars, status, terminal, group, job, faults, asked>>

Found(u) ==
    /\ request[u] = "found"
    /\ request' = [request EXCEPT ![u] = "none"]
    /\ group' = [group EXCEPT ![u] = "owned"] /\ Excuse(u, "group")
    /\ UNCHANGED <<remoteVars, status, data, terminal, job, faults, asked>>

(* The owner deletes the group. *)
GiveUp(u) ==
    /\ group[u] = "owned" /\ u \in roles
    /\ group' = [group EXCEPT ![u] = "gone"]
    /\ UNCHANGED <<remoteVars, status, data, terminal, job, request, excused, faults, asked>>

-----------------------------------------------------------------------------
JobStep(e) ==
    \/ Lookup(e) \/ LoadSubs(e) \/ CancelSubscription(e)
    \/ CancelRefused(e) \/ LoadCustomers(e) \/ DeleteCustomer(e) \/ Pseudonymize(e)
    \/ DeleteIdentity(e) \/ RemoveRoles(e) \/ Release(e) \/ Sweep(e) \/ SweepKeys(e)
    \/ Unlink(e) \/ Commit(e)

Webhook(r) == HandleCreated(r) \/ HandleDeleted(r)

RequestStep(u) == Reserve(u) \/ Finalize(u) \/ SaveStopped(u) \/ Write(u) \/ Found(u)

Next ==
    \/ \E e \in Erasers : Begin(e) \/ JobStep(e) \/ Fail(e)
    \/ \E r \in Rows : Pay(r) \/ Webhook(r)
    \/ \E u \in Users : \/ \E op \in {"launch", "stop", "write", "found"} : Ask(u, op)
                        \/ RequestStep(u) \/ GiveUp(u)

Spec == Init /\ [][Next]_vars

(* Requests end, Stripe redelivers, and a person who asked to be deleted     *)
(* asks again, and deletes the group they own.                                *)
FairSpec ==
    /\ Spec
    /\ \A e \in Erasers : WF_vars(JobStep(e) \/ (~Asked[e].admin /\ Begin(e)))
    /\ WF_vars(\E r \in Rows : Webhook(r))
    /\ WF_vars(\E u \in Users : RequestStep(u) \/ GiveUp(u))

-----------------------------------------------------------------------------
(* Nobody without an identity is billed: each subscription they pay for is   *)
(* cancelled at Stripe, their purchases for others and the subscriptions in *)
(* dunning included ("so we never leave a deleted user who is still being    *)
(* billed").                                                               *)
NeverBilledAfter ==
    \A r \in Rows : PayerOf(r) \notin identity => stripe[Row[r].sub] # "live"

(***************************************************************************)
(* As long as the identity exists, the application's own data is as the     *)
(* person left it, whatever failed and however many deletions ran: the rows *)
(* and SSH keys are there, and no terminal was released or taken out of     *)
(* their name.  Not so at Stripe and in the billing tables: an attempt that *)
(* fails at Casdoor has ended subscriptions, deleted customers and          *)
(* pseudonymized addresses and cards.                                       *)
(***************************************************************************)
AbortSparesOwnData ==
    \A u \in identity :
        /\ {"rows", "keys"} \subseteq data[u]
        /\ \A t \in Terminals : terminal[u][t].state # "deleted"
        /\ \A t \in Terminals : terminal[u][t].linked \/ terminal[u][t] = NoTerminal

(* The customer of a purchaser is never erased with a licence's holder.      *)
PurchaserKeepsCustomer ==
    \A r \in Rows : customer[Row[r].customer] = "deleted" =>
        \E e \in Erasers : User(e) = PayerOf(r)

(***************************************************************************)
(* What a finished erasure leaves in sight in the user's name, billing data *)
(* included, was written by another request while it ran or after, or by a  *)
(* step that failed and was logged ("best-effort"): everything else is out  *)
(* of the user's name or hidden, each terminal released, and no group is    *)
(* without its owner.                                                       *)
(***************************************************************************)
LeavesOnlyExcused ==
    \A u \in Users : "rows" \notin data[u] =>
        /\ data[u] \ {"hidden"} \subseteq excused[u]
        /\ group[u] = "owned" => "group" \in excused[u]
        /\ \A t \in Terminals \ excused[u] :
              ~terminal[u][t].linked /\ terminal[u][t].state \in {"none", "deleted"}

(* A person who keeps asking is deleted in the end: no failure and no         *)
(* refusal leaves the account undeletable.                                  *)
EventuallyGone ==
    \A e \in Erasers :
        job[e].pc # "idle" /\ ~Asked[e].admin ~> User(e) \notin identity
=============================================================================
