------------------------- MODULE AccountErasureProofs -------------------------
(***************************************************************************)
(* What an interrupted deletion spares and what a completed one stops, for  *)
(* any users, purchases, deletions side by side and failures.              *)
(***************************************************************************)
EXTENDS AccountErasure, TLAPS

AfterIdentity == {"roles", "release", "sweep", "keys", "unlink", "commit"}
Data == Erasable \cup {"billing", "hidden"}
AfterStripe == {"casdoor"} \cup AfterIdentity
Places == {"idle", "lookup", "subs", "cancel", "customers"} \cup AfterStripe

JobType == [pc : Places, todo : SUBSET (Subs \cup Customers), swept : SUBSET Erasable,
            released : SUBSET Terminals, unlinked : SUBSET Terminals]

(* The sets the variables range over. *)
Typed ==
    /\ identity \subseteq Users
    /\ stripe \in [Subs -> {"none", "live", "cancelled"}]
    /\ customer \in [Customers -> {"none", "live", "deleted"}]
    /\ status \in [Rows -> {"absent", "entitling", "lapsed", "cancelled"}]
    /\ data \in [Users -> SUBSET Data]
    /\ job \in [Erasers -> JobType]

(* A cascade runs when the identity is gone. *)
GoneFirst == \A e \in Erasers : job[e].pc \in AfterIdentity => User(e) \notin identity

(* A deletion is after the customers of its own user. *)
OwnTodo == \A e \in Erasers : job[e].pc = "customers" =>
    \A c \in job[e].todo : \E r \in Rows : Row[r].customer = c /\ PayerOf(r) = User(e)

(* Its rows and keys are there as long as the identity is. *)
OwnRows == \A u \in identity : {"rows", "keys"} \subseteq data[u]

Inv == Typed /\ GoneFirst /\ OwnTodo /\ OwnRows /\ PurchaserKeepsCustomer

-----------------------------------------------------------------------------
LEMMA InitInv == Init => Inv
<1> SUFFICES ASSUME Init PROVE Inv
    OBVIOUS
<1>1. Typed
    BY ErasureAssumption
    DEF Init, Typed, JobType, Places, NoJob, AfterStripe, AfterIdentity, Terminals, Data, Erasable,
       Visible, SshKeys
<1>2. GoneFirst /\ OwnTodo
    BY DEF Init, GoneFirst, OwnTodo, NoJob, AfterIdentity
<1>3. OwnRows
    BY DEF Init, OwnRows
<1>4. PurchaserKeepsCustomer
    BY ErasureAssumption DEF Init, PurchaserKeepsCustomer, RowType
<1> QED
    BY <1>1, <1>2, <1>3, <1>4 DEF Inv

(* The three ways a job moves on keep its type. *)
LEMMA JobMoves ==
    ASSUME job \in [Erasers -> JobType], NEW e \in Erasers,
           \/ Leave(e)
           \/ \E pc \in Places : GoTo(e, pc)
           \/ \E pc \in Places, S \in SUBSET (Subs \cup Customers) : Load(e, pc, S)
    PROVE  job' \in [Erasers -> JobType]
<1>1. CASE Leave(e)
  <2>1. NoJob \in JobType
      BY DEF NoJob, JobType, Places
  <2> QED
      BY <1>1, <2>1 DEF Leave
<1>2. ASSUME NEW pc \in Places, GoTo(e, pc)
      PROVE  job' \in [Erasers -> JobType]
    BY <1>2 DEF GoTo, JobType
<1>3. ASSUME NEW pc \in Places, NEW S \in SUBSET (Subs \cup Customers), Load(e, pc, S)
      PROVE  job' \in [Erasers -> JobType]
    BY <1>3 DEF Load, JobType
<1> QED
    BY <1>1, <1>2, <1>3

(* A step of a deletion keeps the types. *)
LEMMA JobTyped ==
    ASSUME Typed, NEW e \in Erasers, Begin(e) \/ JobStep(e) \/ Fail(e)
    PROVE  Typed'
<1> USE DEF Typed
<1> User(e) \in Users
    BY ErasureAssumption DEF User
<1> {"idle", "lookup", "subs", "cancel", "customers", "casdoor", "roles",
     "release", "sweep", "keys", "unlink", "commit"} \subseteq Places
    BY DEF Places, AfterStripe, AfterIdentity
<1>1. CASE Begin(e)
    BY <1>1, JobMoves DEF Begin, remoteVars, localVars
<1>2. CASE Lookup(e) \/ CancelRefused(e) \/ RemoveRoles(e) \/ Fail(e)
  <2>1. Leave(e) \/ \E pc \in Places : GoTo(e, pc)
      BY <1>2 DEF Lookup, CancelRefused, RemoveRoles, Fail
  <2>2. UNCHANGED <<identity, stripe, customer, status, data>>
      BY <1>2 DEF Lookup, CancelRefused, RemoveRoles, Fail, remoteVars, localVars
  <2> QED
      BY <2>1, <2>2, JobMoves
<1>3. CASE LoadSubs(e)
  <2>1. PICK S : Load(e, "cancel", S) /\ S \in SUBSET Subs
      BY <1>3, ErasureAssumption DEF LoadSubs, RowsOf, RowType
  <2>2. S \in SUBSET (Subs \cup Customers)
      BY <2>1
  <2>3. job' \in [Erasers -> JobType]
      BY <2>1, <2>2, JobMoves
  <2> QED
      BY <1>3, <2>3 DEF LoadSubs, remoteVars, localVars
<1>4. CASE CancelSubscription(e)
  <2>1. PICK s \in job[e].todo :
             /\ stripe' = [stripe EXCEPT ![s] = "cancelled"]
             /\ job' = [job EXCEPT ![e].todo = @ \ {s}]
      BY <1>4 DEF CancelSubscription
  <2>2. job' \in [Erasers -> JobType]
      BY <2>1 DEF JobType
  <2> QED
      BY <1>4, <2>1, <2>2 DEF CancelSubscription, localVars
<1>5. CASE LoadCustomers(e)
  <2>1. OwnedCustomers(User(e)) \in SUBSET (Subs \cup Customers)
      BY ErasureAssumption DEF OwnedCustomers, RowType
  <2>2. job' \in [Erasers -> JobType]
      BY <1>5, <2>1, JobMoves DEF LoadCustomers
  <2> QED
      BY <1>5, <2>2 DEF LoadCustomers, remoteVars, localVars
<1>6. CASE DeleteCustomer(e)
  <2>1. PICK c \in job[e].todo :
             /\ customer' = [customer EXCEPT ![c] = "deleted"]
             /\ job' = [job EXCEPT ![e].todo = @ \ {c}]
      BY <1>6 DEF DeleteCustomer
  <2>2. job' \in [Erasers -> JobType]
      BY <2>1 DEF JobType
  <2>3. PICK ended : stripe' = [s \in Subs |-> IF s \in ended THEN "cancelled" ELSE stripe[s]]
      BY <1>6 DEF DeleteCustomer
  <2> QED
      BY <1>6, <2>1, <2>2, <2>3 DEF DeleteCustomer, localVars
<1>7. CASE Pseudonymize(e)
    BY <1>7, JobMoves DEF Pseudonymize, remoteVars
<1>8. CASE DeleteIdentity(e)
    BY <1>8, JobMoves DEF DeleteIdentity, localVars
<1>9. CASE Release(e) \/ Sweep(e) \/ SweepKeys(e) \/ Unlink(e)
  <2>1. UNCHANGED <<identity, stripe, customer, status, data>>
      BY <1>9 DEF Release, Sweep, SweepKeys, Unlink, remoteVars, localVars
  <2>2. ASSUME Release(e) PROVE job' \in [Erasers -> JobType]
      BY <2>2 DEF Release, OpenTerminals, LinkedTerminals, JobType
  <2>3. ASSUME Sweep(e) PROVE job' \in [Erasers -> JobType]
      BY <2>3 DEF Sweep, JobType, Erasable
  <2>5. ASSUME SweepKeys(e) PROVE job' \in [Erasers -> JobType]
    <3>1. CASE GoTo(e, "unlink")
        BY <3>1, JobMoves
    <3>2. CASE ~GoTo(e, "unlink")
        BY <2>5, <3>2 DEF SweepKeys, JobType, Erasable
    <3> QED
        BY <3>1, <3>2
  <2>4. ASSUME Unlink(e) PROVE job' \in [Erasers -> JobType]
      BY <2>4 DEF Unlink, LinkedTerminals, JobType
  <2> QED
      BY <1>9, <2>1, <2>2, <2>3, <2>4, <2>5
<1>10. CASE Commit(e)
    BY <1>10, JobMoves DEF Commit, remoteVars, Data
<1> QED
    BY <1>1, <1>2, <1>3, <1>4, <1>5, <1>6, <1>7, <1>8, <1>9, <1>10 DEF JobStep

(* Every step keeps the types. *)
LEMMA StepTyped ==
    ASSUME Typed, Next
    PROVE  Typed'
<1> USE DEF Typed
<1>1. ASSUME NEW r \in Rows, Pay(r) \/ Webhook(r)
      PROVE  Typed'
  <2> Row[r].user \in Users /\ Row[r].customer \in Customers /\ Row[r].sub \in Subs
      BY ErasureAssumption DEF RowType
  <2>1. CASE Pay(r)
      BY <2>1 DEF Pay, localVars
  <2>2. CASE HandleCreated(r)
      BY <2>2 DEF HandleCreated
  <2>3. CASE HandleDeleted(r)
      BY <2>3 DEF HandleDeleted
  <2> QED
      BY <1>1, <2>1, <2>2, <2>3 DEF Webhook
<1>2. ASSUME NEW u \in Users,
             \/ \E op \in {"launch", "stop", "write", "found"} : Ask(u, op)
             \/ RequestStep(u) \/ GiveUp(u)
      PROVE  Typed'
  <2>1. CASE Write(u)
      BY <2>1 DEF Write, remoteVars, Data, Erasable, Visible, SshKeys
  <2>2. ASSUME ~Write(u)
        PROVE  UNCHANGED <<identity, stripe, customer, status, data, job>>
      BY <1>2, <2>2 DEF Ask, RequestStep, Reserve, Finalize, SaveStopped, Found, GiveUp,
         remoteVars, localVars
  <2> QED
      BY <2>1, <2>2
<1> QED
    BY <1>1, <1>2, JobTyped DEF Next

(* Only a cascade takes rows and keys away, and only a deletion an identity. *)
LEMMA StepKeeps ==
    ASSUME Inv, Next
    PROVE  GoneFirst' /\ OwnTodo' /\ OwnRows' /\ PurchaserKeepsCustomer'
<1> USE ErasureAssumption DEF Inv, Typed, JobType, NoJob, AfterIdentity
<1>1. ASSUME NEW e \in Erasers, Begin(e) \/ JobStep(e) \/ Fail(e)
      PROVE  GoneFirst' /\ OwnTodo' /\ OwnRows' /\ PurchaserKeepsCustomer'
  <2> User(e) \in Users
      BY DEF User
  <2> USE DEF GoneFirst, OwnTodo, OwnRows, PurchaserKeepsCustomer
  <2>1. CASE Begin(e) \/ Lookup(e) \/ CancelRefused(e) \/ RemoveRoles(e) \/ Fail(e)
    <3>1. UNCHANGED <<identity, data, customer>>
        BY <2>1 DEF Begin, Lookup, CancelRefused, RemoveRoles, Fail, remoteVars, localVars
    <3>2. \/ Leave(e) \/ GoTo(e, "lookup") \/ GoTo(e, "subs")
          \/ job[e].pc = "roles" /\ GoTo(e, "release")
        BY <2>1 DEF Begin, Lookup, CancelRefused, RemoveRoles, Fail
    <3>3. CASE Leave(e)
        BY <3>1, <3>3 DEF Leave
    <3>4. ASSUME NEW pc \in {"lookup", "subs", "release"}, GoTo(e, pc),
                 pc = "release" => job[e].pc = "roles"
          PROVE  GoneFirst' /\ OwnTodo' /\ OwnRows' /\ PurchaserKeepsCustomer'
        BY <3>1, <3>4 DEF GoTo
    <3> QED
        BY <3>2, <3>3, <3>4
  <2>2. CASE LoadSubs(e) \/ CancelSubscription(e)
    <3>1. CASE LoadSubs(e)
        BY <3>1 DEF LoadSubs, Load, remoteVars, localVars
    <3>2. CASE CancelSubscription(e)
      <4>1. PICK s \in job[e].todo : job' = [job EXCEPT ![e].todo = @ \ {s}]
          BY <3>2 DEF CancelSubscription
      <4>2. UNCHANGED <<identity, data, customer>> /\ job[e].pc = "cancel"
          BY <3>2 DEF CancelSubscription, localVars
      <4> QED
          BY <4>1, <4>2
    <3> QED
        BY <2>2, <3>1, <3>2
  <2>3. CASE LoadCustomers(e)
    <3>1. PICK S : Load(e, "customers", S) /\ S = OwnedCustomers(User(e))
        BY <2>3 DEF LoadCustomers
    <3>2. \A c \in S : \E r \in Rows : Row[r].customer = c /\ PayerOf(r) = User(e)
        BY <3>1 DEF OwnedCustomers
    <3>3. UNCHANGED <<identity, data, customer>> /\ job[e].pc = "cancel"
        BY <2>3 DEF LoadCustomers, remoteVars, localVars
    <3> QED
        BY <3>1, <3>2, <3>3 DEF Load
  <2>4. CASE DeleteCustomer(e)
    <3> PICK c \in job[e].todo :
               /\ customer' = [customer EXCEPT ![c] = "deleted"]
               /\ job' = [job EXCEPT ![e].todo = @ \ {c}]
        BY <2>4 DEF DeleteCustomer
    <3>1. job[e].pc = "customers" /\ UNCHANGED <<identity, data>>
        BY <2>4 DEF DeleteCustomer, localVars
    <3>2. GoneFirst' /\ OwnTodo' /\ OwnRows'
        BY <3>1
    <3>3. PICK q \in Rows : Row[q].customer = c /\ PayerOf(q) = User(e)
        BY <3>1
    <3>4. PurchaserKeepsCustomer'
        BY <3>3
    <3> QED
        BY <3>2, <3>4
  <2>5. CASE Pseudonymize(e)
    <3>1. job[e].pc = "customers" /\ GoTo(e, "casdoor") /\ UNCHANGED <<identity, customer>>
        BY <2>5 DEF Pseudonymize, remoteVars
    <3>2. \A u \in Users : {"rows", "keys"} \subseteq data[u] => {"rows", "keys"} \subseteq data'[u]
        BY <2>5 DEF Pseudonymize
    <3>3. OwnRows'
        BY <3>1, <3>2
    <3> QED
        BY <3>1, <3>3 DEF GoTo
  <2>6. CASE DeleteIdentity(e)
      BY <2>6 DEF DeleteIdentity, GoTo, localVars
  <2>7. CASE Release(e) \/ Sweep(e) \/ SweepKeys(e) \/ Unlink(e)
    <3>1. CASE Release(e)
        BY <3>1 DEF Release, remoteVars, localVars
    <3>2. CASE Sweep(e)
        BY <3>2 DEF Sweep, remoteVars, localVars
    <3>3. CASE Unlink(e)
        BY <3>3 DEF Unlink, remoteVars, localVars
    <3>4. CASE SweepKeys(e)
      <4>1. job[e].pc = "keys" /\ UNCHANGED <<identity, customer, data>>
          BY <3>4 DEF SweepKeys, remoteVars, localVars
      <4>2. CASE GoTo(e, "unlink")
          BY <4>1, <4>2 DEF GoTo
      <4>3. CASE ~GoTo(e, "unlink")
        <5>1. job' = [job EXCEPT ![e].pc = "unlink", ![e].swept = @ \cup (data[User(e)] \cap SshKeys)]
            BY <3>4, <4>3 DEF SweepKeys
        <5>2. /\ \A x \in Erasers : x # e => job'[x] = job[x]
              /\ job'[e].pc = "unlink"
            BY <5>1
        <5>3. GoneFirst'
            BY <4>1, <5>2
        <5>4. OwnTodo'
          <6> SUFFICES ASSUME NEW x \in Erasers, job'[x].pc = "customers", NEW c \in job'[x].todo
                       PROVE  \E r \in Rows : Row[r].customer = c /\ PayerOf(r) = User(x)
              BY DEF User, PayerOf, IsLicence
          <6>1. x # e
              BY <5>2
          <6> QED
              BY <5>2, <6>1
        <5> QED
            BY <4>1, <5>3, <5>4
      <4> QED
          BY <4>2, <4>3
    <3> QED
        BY <2>7, <3>1, <3>2, <3>3, <3>4
  <2>8. CASE Commit(e)
      BY <2>8 DEF Commit, Leave, remoteVars
  <2> QED
      BY <1>1, <2>1, <2>2, <2>3, <2>4, <2>5, <2>6, <2>7, <2>8 DEF JobStep
<1>2. ASSUME NEW r \in Rows, Pay(r) \/ Webhook(r)
      PROVE  GoneFirst' /\ OwnTodo' /\ OwnRows' /\ PurchaserKeepsCustomer'
    BY <1>2 DEF Pay, Webhook, HandleCreated, HandleDeleted, RowType, localVars,
       GoneFirst, OwnTodo, OwnRows, PurchaserKeepsCustomer
<1>3. ASSUME NEW u \in Users,
             \/ \E op \in {"launch", "stop", "write", "found"} : Ask(u, op)
             \/ RequestStep(u) \/ GiveUp(u)
      PROVE  GoneFirst' /\ OwnTodo' /\ OwnRows' /\ PurchaserKeepsCustomer'
  <2>1. UNCHANGED <<identity, customer, job>>
      BY <1>3 DEF Ask, RequestStep, Reserve, Finalize, SaveStopped, Write, Found, GiveUp,
         remoteVars, localVars
  <2>2. \/ UNCHANGED data
        \/ \E x : data' = [data EXCEPT ![u] = @ \cup {x}]
      BY <1>3 DEF Ask, RequestStep, Reserve, Finalize, SaveStopped, Write, Found, GiveUp,
         localVars
  <2> QED
      BY <2>1, <2>2 DEF GoneFirst, OwnTodo, OwnRows, PurchaserKeepsCustomer
<1> QED
    BY <1>1, <1>2, <1>3 DEF Next

LEMMA Invariant == Spec => []Inv
<1>1. Inv /\ [Next]_vars => Inv'
  <2> SUFFICES ASSUME Inv, [Next]_vars PROVE Inv'
      OBVIOUS
  <2>1. CASE Next
      BY <2>1, StepTyped, StepKeeps DEF Inv
  <2>2. CASE UNCHANGED vars
      BY <2>2 DEF Inv, vars, remoteVars, localVars, Typed, GoneFirst, OwnTodo,
         OwnRows, PurchaserKeepsCustomer
  <2> QED
      BY <2>1, <2>2
<1> QED
    BY <1>1, InitInv, PTL DEF Spec

(* Deleting the holder of a licence never erases the customer of the buyer.   *)
THEOREM BuyersKeepTheirCustomer == Spec => []PurchaserKeepsCustomer
<1>1. Inv => PurchaserKeepsCustomer
    BY DEF Inv
<1> QED
    BY <1>1, Invariant, PTL


-----------------------------------------------------------------------------
(***************************************************************************)
(* What is paid at Stripe has a row, or a webhook that will write it; and   *)
(* what a deletion has still to end of its user's purchases: while it has   *)
(* the list of their customers, those of the customers still on it; after   *)
(* it, nothing.                                                            *)
(***************************************************************************)
Created(r) == <<"created", Row[r].sub>> \in events
Bought(u) == {r \in Rows : PayerOf(r) = u}
Billed(r) == stripe[Row[r].sub] = "live"

Paid ==
    /\ \A r \in Rows : IsLicence(r) => status[r] # "absent"
    /\ \A r \in Rows : Billed(r) => status[r] # "absent" \/ Created(r)

Unpaying(e) ==
    /\ job[e].pc # "idle" => \A r \in Bought(User(e)) : ~Created(r)
    /\ job[e].pc = "customers" => \A r \in Bought(User(e)) : Billed(r) => Row[r].customer \in job[e].todo
    /\ job[e].pc = "casdoor" => \A r \in Bought(User(e)) : ~Billed(r)

Bills == Paid /\ (\A e \in Erasers : Unpaying(e)) /\ NeverBilledAfter

(* The fixed columns. *)
LEMMA RowColumns ==
    ASSUME NEW r \in Rows
    PROVE  /\ Row[r].sub \in Subs /\ Row[r].customer \in Customers /\ Row[r].user \in Users
           /\ PayerOf(r) \in Users
BY ErasureAssumption DEF RowType, PayerOf, IsLicence

(* The events of a deletion are of another kind. *)
LEMMA OtherEvents ==
    ASSUME NEW r, NEW S, \/ events' = events
                         \/ events' = events \cup ({"deleted"} \X S)
                         \/ \E s : events' = events \cup {<<"deleted", s>>}
                         \/ \E s : events' = events \ {<<"deleted", s>>}
    PROVE  Created(r)' <=> Created(r)
<1>1. \A s : <<"created", Row[r].sub>> # <<"deleted", s>>
  OBVIOUS
<1>2. <<"created", Row[r].sub>> \notin {"deleted"} \X S
  OBVIOUS
<1> QED BY <1>1, <1>2 DEF Created

(***************************************************************************)
(* A step that makes nothing paid and queues no row keeps what is not about *)
(* the deletion that makes it.                                             *)
(***************************************************************************)
LEMMA NothingPaid ==
    ASSUME Inv, Bills, NEW e \in Erasers, status' = status, identity' \subseteq identity,
           \A r \in Rows : (Created(r)' <=> Created(r)) /\ (Billed(r)' => Billed(r)),
           \A x \in Erasers : x # e => job'[x] = job[x],
           Unpaying(e)', \A r \in Rows : PayerOf(r) \in identity \ identity' => ~Billed(r)
    PROVE  Bills'
<1>1. Paid'
  BY DEF Bills, Paid
<1>2. ASSUME NEW x \in Erasers, x # e PROVE Unpaying(x)'
  <2>1. Unpaying(x) /\ job'[x] = job[x]
    BY <1>2 DEF Bills
  <2> QED BY <2>1 DEF Unpaying, Bought
<1>3. NeverBilledAfter'
  <2>1. \A r \in Rows : PayerOf(r) \in identity \/ ~Billed(r)
    BY DEF Bills, NeverBilledAfter, Billed
  <2>2. \A r \in Rows : PayerOf(r) \notin identity' => ~Billed(r)'
    BY <2>1
  <2> QED BY <2>2 DEF NeverBilledAfter, Billed
<1> QED BY <1>1, <1>2, <1>3 DEF Bills

LEMMA JobBills ==
    ASSUME Settled, Inv, Bills, NEW e \in Erasers, Begin(e) \/ JobStep(e) \/ Fail(e)
    PROVE  Bills'
<1> DEFINE u == User(e)
<1>0. job = [x \in Erasers |-> job[x]] /\ (\A x \in Erasers : job[x] \in JobType) /\ NoJob.pc = "idle"
      /\ stripe = [s \in Subs |-> stripe[s]]
  BY DEF Inv, Typed, NoJob
<1>1. Unpaying(e)
  BY DEF Bills
<1>2. CASE Begin(e)
  <2>1. /\ UNCHANGED <<identity, stripe, events, status>>
        /\ job'[e].pc = "lookup" /\ \A x \in Erasers : x # e => job'[x] = job[x]
    BY <1>0, <1>2 DEF Begin, GoTo, remoteVars, localVars, JobType
  <2>2. \A r \in Bought(u) : ~Created(r)
    BY <1>2 DEF Begin, MayBegin, Bought, Created
  <2>3. Unpaying(e)'
    BY <2>1, <2>2 DEF Unpaying, Bought, Created
  <2> QED BY <2>1, <2>3, NothingPaid DEF Created, Billed
<1>3. CASE \/ Lookup(e) \/ CancelRefused(e) \/ RemoveRoles(e) \/ Fail(e) \/ LoadSubs(e)
           \/ Release(e) \/ Sweep(e) \/ SweepKeys(e) \/ Unlink(e) \/ Commit(e)
  <2>1. UNCHANGED <<identity, stripe, events, status>>
    BY <1>3 DEF Lookup, CancelRefused, RemoveRoles, Fail, LoadSubs, Release, Sweep, SweepKeys, Unlink, Commit,
                remoteVars, localVars
  <2>2. /\ \A x \in Erasers : x # e => job'[x] = job[x]
        /\ job'[e].pc \notin {"customers", "casdoor"}
        /\ job'[e].pc # "idle" => job[e].pc # "idle"
    <3>1. CASE Lookup(e) \/ CancelRefused(e) \/ RemoveRoles(e) \/ Fail(e) \/ Commit(e)
      BY <1>0, <3>1 DEF Lookup, CancelRefused, RemoveRoles, Fail, Commit, Leave, GoTo, JobType
    <3>2. CASE LoadSubs(e)
      BY <1>0, <3>2 DEF LoadSubs, Load, JobType
    <3>3. CASE Release(e) \/ Sweep(e) \/ SweepKeys(e) \/ Unlink(e)
      BY <1>0, <3>3 DEF Release, Sweep, SweepKeys, Unlink, GoTo, JobType
    <3> QED BY <1>3, <3>1, <3>2, <3>3
  <2>3. Unpaying(e)'
    BY <1>1, <2>1, <2>2 DEF Unpaying, Bought, Created
  <2> QED BY <2>1, <2>2, <2>3, NothingPaid DEF Created, Billed
<1>4. CASE CancelSubscription(e)
  <2>1. PICK s \in job[e].todo : /\ stripe' = [stripe EXCEPT ![s] = "cancelled"]
                                 /\ events' = events \cup {<<"deleted", s>>}
                                 /\ job' = [job EXCEPT ![e].todo = @ \ {s}]
    BY <1>4 DEF CancelSubscription
  <2>2. job[e].pc = "cancel" /\ UNCHANGED <<identity, status>>
    BY <1>4 DEF CancelSubscription, localVars
  <2>3. job'[e].pc = "cancel" /\ \A x \in Erasers : x # e => job'[x] = job[x]
    BY <1>0, <2>1, <2>2 DEF JobType
  <2>4. \A r \in Rows : (Created(r)' <=> Created(r)) /\ (Billed(r)' => Billed(r))
    BY <1>0, <2>1, OtherEvents, RowColumns DEF Billed
  <2>5. Unpaying(e)'
    BY <1>1, <2>2, <2>3, <2>4 DEF Unpaying, Bought
  <2> QED BY <2>2, <2>3, <2>4, <2>5, NothingPaid
<1>5. CASE LoadCustomers(e)
  <2>1. PICK S : Load(e, "customers", S) /\ S = OwnedCustomers(u)
    BY <1>5 DEF LoadCustomers
  <2>2. UNCHANGED <<identity, stripe, events, status>> /\ job[e].pc = "cancel"
    BY <1>5 DEF LoadCustomers, remoteVars, localVars
  <2>3. job'[e].pc = "customers" /\ job'[e].todo = S /\ \A x \in Erasers : x # e => job'[x] = job[x]
    BY <1>0, <2>1 DEF Load, JobType
  <2>4. \A r \in Bought(u) : Billed(r) => Row[r].customer \in S
    <3>1. \A r \in Bought(u) : r \in Rows /\ PayerOf(r) = u /\ ~Created(r)
      BY <1>1, <2>2 DEF Unpaying, Bought
    <3>2. \A r \in Bought(u) : Billed(r) => status[r] # "absent"
      BY <3>1 DEF Bills, Paid
    <3> QED BY <2>1, <3>1, <3>2 DEF OwnedCustomers
  <2>5. Unpaying(e)'
    BY <1>1, <2>2, <2>3, <2>4 DEF Unpaying, Bought, Created, Billed
  <2> QED BY <2>2, <2>3, <2>5, NothingPaid DEF Created, Billed
<1>6. CASE DeleteCustomer(e)
  <2>1. PICK c, ended :
           /\ c \in job[e].todo
           /\ ended = {Row[r].sub : r \in {x \in Rows : Row[x].customer = c /\ stripe[Row[x].sub] = "live"}}
           /\ stripe' = [s \in Subs |-> IF s \in ended THEN "cancelled" ELSE stripe[s]]
           /\ events' = events \cup ({"deleted"} \X ended)
           /\ job' = [job EXCEPT ![e].todo = @ \ {c}]
    BY <1>6 DEF DeleteCustomer
  <2>2. job[e].pc = "customers" /\ UNCHANGED <<identity, status>>
    BY <1>6 DEF DeleteCustomer, localVars
  <2>3. /\ job'[e].pc = "customers" /\ job'[e].todo = job[e].todo \ {c}
        /\ \A x \in Erasers : x # e => job'[x] = job[x]
    BY <1>0, <2>1, <2>2 DEF JobType
  <2>4. \A r \in Rows : /\ Created(r)' <=> Created(r)
                        /\ Billed(r)' => Billed(r) /\ Row[r].customer # c
    BY <2>1, OtherEvents, RowColumns DEF Billed
  <2>5. Unpaying(e)'
    BY <1>1, <2>2, <2>3, <2>4 DEF Unpaying, Bought
  <2> QED BY <2>2, <2>3, <2>4, <2>5, NothingPaid
<1>7. CASE Pseudonymize(e)
  <2>1. UNCHANGED <<identity, stripe, events, status>> /\ job[e].pc = "customers" /\ job[e].todo = {}
    BY <1>7 DEF Pseudonymize, remoteVars
  <2>2. job'[e].pc = "casdoor" /\ \A x \in Erasers : x # e => job'[x] = job[x]
    BY <1>0, <1>7 DEF Pseudonymize, GoTo, JobType
  <2>3. Unpaying(e)'
    BY <1>1, <2>1, <2>2 DEF Unpaying, Bought, Created, Billed
  <2> QED BY <2>1, <2>2, <2>3, NothingPaid DEF Created, Billed
<1>8. CASE DeleteIdentity(e)
  <2>1. UNCHANGED <<stripe, events, status>> /\ identity' = identity \ {u} /\ job[e].pc = "casdoor"
    BY <1>8 DEF DeleteIdentity, localVars
  <2>2. job'[e].pc = "roles" /\ \A x \in Erasers : x # e => job'[x] = job[x]
    BY <1>0, <1>8 DEF DeleteIdentity, GoTo, JobType
  <2>3. \A r \in Rows : PayerOf(r) \in identity \ identity' => ~Billed(r)
    BY <1>1, <2>1 DEF Unpaying, Bought
  <2>4. Unpaying(e)'
    BY <1>1, <2>1, <2>2 DEF Unpaying, Bought, Created
  <2> QED BY <2>1, <2>2, <2>3, <2>4, NothingPaid DEF Created, Billed
<1> QED BY <1>2, <1>3, <1>4, <1>5, <1>6, <1>7, <1>8 DEF JobStep

-----------------------------------------------------------------------------
(* A payment makes one subscription live, that of a purchase whose buyer    *)
(* exists and is not being deleted; its webhook writes the row.             *)
LEMMA PayBills ==
    ASSUME Settled, Inv, Bills, NEW r \in Rows, Pay(r)
    PROVE  Bills'
<1>1. /\ ~IsLicence(r) /\ PayerOf(r) = Row[r].user /\ PayerOf(r) \in identity /\ ~Deleting(PayerOf(r))
      /\ UNCHANGED <<identity, status, job>>
  BY DEF Pay, PayerOf, localVars
<1>2. \A q \in Rows : q # r => Row[q].sub # Row[r].sub
  BY <1>1, ErasureAssumption
<1>3. PICK s \in Subs : /\ s = Row[r].sub
                        /\ stripe' = [stripe EXCEPT ![s] = "live"]
                        /\ events' = events \cup {<<"created", s>>}
  BY RowColumns DEF Pay
<1>4. /\ Created(r)'
      /\ \A q \in Rows : q # r => (Created(q)' <=> Created(q)) /\ (Billed(q)' <=> Billed(q))
  BY <1>2, <1>3 DEF Created, Billed, Inv, Typed
<1>5. Paid'
  BY <1>1, <1>4 DEF Bills, Paid
<1>6. ASSUME NEW e \in Erasers PROVE Unpaying(e)'
  <2>1. CASE job[e].pc = "idle"
    BY <1>1, <2>1 DEF Unpaying
  <2>2. CASE job[e].pc # "idle"
    <3>1. User(e) # PayerOf(r)
      BY <1>1, <2>2 DEF Deleting
    <3>2. \A q \in Bought(User(e)) : q \in Rows /\ q # r
      BY <3>1 DEF Bought
    <3> QED BY <1>1, <1>4, <3>2 DEF Bills, Unpaying, Bought
  <2> QED BY <2>1, <2>2
<1>7. NeverBilledAfter'
  BY <1>1, <1>4 DEF Bills, NeverBilledAfter, Billed
<1> QED BY <1>5, <1>6, <1>7 DEF Bills

LEMMA WebhookBills ==
    ASSUME Inv, Bills, NEW r \in Rows, Webhook(r)
    PROVE  Bills'
<1>1. UNCHANGED <<identity, stripe, job>>
  BY DEF Webhook, HandleCreated, HandleDeleted
<1>2. PICK s, st : /\ s = Row[r].sub /\ status' = [status EXCEPT ![r] = st] /\ st # "absent"
                   /\ events' = events \ {<<"created", s>>} \/ events' = events \ {<<"deleted", s>>}
                   /\ events' = events \ {<<"deleted", s>>} => status[r] # "absent" \/ st = "entitling"
  BY DEF Webhook, HandleCreated, HandleDeleted
<1>3. \A q \in Rows : Billed(q)' <=> Billed(q)
  BY <1>1 DEF Billed
<1>4. \A q \in Rows : Created(q)' => Created(q)
  BY <1>2 DEF Created
<1>5. Paid'
  <2>1. \A q \in Rows : status'[q] = IF q = r THEN st ELSE status[q]
    BY <1>2 DEF Inv, Typed
  <2>2. ASSUME NEW q \in Rows, q # r, Created(q) PROVE status'[q] # "absent" \/ Created(q)'
    <3>1. CASE Row[q].sub = s
      <4>1. IsLicence(q)
        BY <1>2, <2>2, <3>1, ErasureAssumption
      <4> QED BY <2>1, <2>2, <4>1 DEF Bills, Paid
    <3>2. CASE Row[q].sub # s
      BY <1>2, <2>2, <3>2 DEF Created
    <3> QED BY <3>1, <3>2
  <2> QED BY <1>2, <1>3, <2>1, <2>2 DEF Bills, Paid
<1>6. \A e \in Erasers : Unpaying(e)'
  BY <1>1, <1>3, <1>4 DEF Bills, Unpaying, Bought
<1>7. NeverBilledAfter'
  BY <1>1 DEF Bills, NeverBilledAfter
<1> QED BY <1>5, <1>6, <1>7 DEF Bills

LEMMA StepBills ==
    ASSUME Settled, Inv, Bills, [Next]_vars
    PROVE  Bills'
<1>1. ASSUME UNCHANGED <<identity, stripe, events, status, job>> PROVE Bills'
  BY <1>1 DEF Bills, Paid, Unpaying, Bought, Billed, Created, NeverBilledAfter
<1>2. ASSUME NEW u \in Users, \/ \E op \in {"launch", "stop", "write", "found"} : Ask(u, op)
                              \/ RequestStep(u) \/ GiveUp(u)
      PROVE  Bills'
  BY <1>1, <1>2 DEF Ask, RequestStep, Reserve, Finalize, SaveStopped, Write, Found, GiveUp, remoteVars, localVars
<1>3. CASE UNCHANGED vars
  BY <1>1, <1>3 DEF vars, remoteVars, localVars
<1> QED BY <1>2, <1>3, JobBills, PayBills, WebhookBills DEF Next

LEMMA InitBills == Init => Bills
<1> SUFFICES ASSUME Init PROVE Bills
  OBVIOUS
<1>1. NoJob.pc = "idle" /\ events = {} /\ \A e \in Erasers : job[e] = NoJob
  BY DEF Init, NoJob
<1>2. \A e \in Erasers : Unpaying(e)
  BY <1>1 DEF Unpaying
<1>3. \A r \in Rows : IsLicence(r) => status[r] # "absent"
  BY DEF Init
<1>4. ASSUME NEW r \in Rows, Billed(r) PROVE status[r] # "absent"
  <2>1. PICK q \in Rows : Row[q].sub = Row[r].sub /\ status[q] # "absent"
    BY <1>4, RowColumns DEF Init, Billed
  <2>2. q = r \/ IsLicence(r)
    BY <2>1, ErasureAssumption
  <2> QED BY <1>3, <2>1, <2>2
<1>5. NeverBilledAfter
  BY RowColumns DEF Init, NeverBilledAfter
<1> QED BY <1>2, <1>3, <1>4, <1>5 DEF Bills, Paid

(***************************************************************************)
(* Nobody who was deleted goes on being billed, for any purchases of one's  *)
(* own and for others, deletions side by side, failures and webhooks in any *)
(* order, as long as payments and deletions of one person do not overlap.   *)
(***************************************************************************)
THEOREM DeletedIsNotBilled == ASSUME Settled PROVE Spec => []NeverBilledAfter
<1>1. Inv /\ Bills /\ [Next]_vars => Bills'
  BY StepBills
<1>2. Bills => NeverBilledAfter
  BY DEF Bills
<1> QED BY Invariant, InitBills, <1>1, <1>2, PTL DEF Spec


-----------------------------------------------------------------------------
(***************************************************************************)
(* What a cascade has left to do.  A terminal out of the user's name is     *)
(* released, unless a request that wrote late saved it after; and of what   *)
(* is not excused, the statements already run have taken all.              *)
(***************************************************************************)
States == {"none", "starting", "running", "stopped", "revoked", "deleted"}
Gone == {"none", "deleted"}
Excuses == Data \cup {"group"} \cup Terminals
Requests == {"none", "launch", "launched", "stop", "write", "found"}

TypedExcused ==
    /\ terminal \in [Users -> [Terminals -> [state : States, linked : BOOLEAN]]]
    /\ group \in [Users -> {"none", "owned", "gone"}]
    /\ request \in [Users -> Requests]
    /\ excused \in [Users -> SUBSET Excuses]

Unlinked(u, t) == ~terminal[u][t].linked
Timely(u) == Terminals \ excused[u]

(* A terminal in nobody's name is gone, or was saved late. *)
Rooted(u) ==
    /\ \A t \in Terminals : \/ terminal[u][t].linked \/ terminal[u][t].state \in Gone
                            \/ u \notin identity /\ t \in excused[u]
    /\ u \in identity => \A t \in Terminals : terminal[u][t].state # "deleted"
    /\ u \in identity /\ request[u] = "launched" => terminal[u]["new"].linked

Cascade(e) ==
    LET u == User(e)
        j == job[e]
    IN  /\ j.pc # "idle" /\ ~Asked[e].admin => (group[u] = "owned" => "group" \in excused[u])
        /\ j.pc \in {"release", "sweep", "keys", "unlink", "commit"} => ~Asked[e].admin
        /\ j.pc \in {"casdoor"} \cup AfterIdentity => data[u] \cap {"billing"} \subseteq excused[u]
        /\ j.pc \in {"keys", "unlink", "commit"} => data[u] \cap Visible \subseteq j.swept \cup excused[u]
        /\ j.pc \in {"unlink", "commit"} => data[u] \cap SshKeys \subseteq j.swept \cup excused[u]
        /\ j.pc \in {"sweep", "keys", "unlink", "commit"} => \A t \in Timely(u) :
              t \in j.released \/ Unlinked(u, t) \/ terminal[u][t].state = "deleted"
        /\ j.pc = "commit" => \A t \in Timely(u) : t \in j.unlinked \/ Unlinked(u, t)

OnlyExcused(u) ==
    "rows" \notin data[u] =>
        /\ data[u] \ {"hidden"} \subseteq excused[u]
        /\ group[u] = "owned" => "group" \in excused[u]
        /\ \A t \in Timely(u) : Unlinked(u, t) /\ terminal[u][t].state \in Gone

Erased == (\A u \in Users : Rooted(u) /\ OnlyExcused(u)) /\ \A e \in Erasers : Cascade(e)
ExcusedInv == TypedExcused /\ Erased

LEMMA NewAndOld == "new" \in Terminals /\ "old" \in Terminals
BY DEF Terminals

(* A step changes the rows of one user. *)
Others(u) ==
    \A x \in Users : x # u => /\ terminal'[x] = terminal[x] /\ group'[x] = group[x]
                              /\ data'[x] = data[x] /\ request'[x] = request[x]
                              /\ excused'[x] = excused[x]

-----------------------------------------------------------------------------
(* A request that writes when no deletion is under way, or writes late.     *)
WritesLate(u) ==
    /\ excused[u] \subseteq excused'[u]
    /\ \A t \in Terminals \ excused'[u] : terminal'[u][t] = terminal[u][t]
    /\ group'[u] = "owned" => group[u] = "owned" \/ "group" \in excused'[u]
    /\ data'[u] \subseteq data[u] \cup excused'[u]

LEMMA RequestWrites ==
    ASSUME NEW u \in Users, Inv, ExcusedInv,
           \/ \E op \in {"launch", "stop", "write", "found"} : Ask(u, op)
           \/ RequestStep(u) \/ GiveUp(u)
    PROVE  /\ TypedExcused' /\ Others(u) /\ Rooted(u)' /\ UNCHANGED <<identity, job>>
           /\ "rows" \in data'[u] <=> "rows" \in data[u]
           /\ (u \in identity /\ ~Deleting(u)) \/ WritesLate(u)
<1> DEFINE P == /\ TypedExcused' /\ Others(u) /\ Rooted(u)' /\ UNCHANGED <<identity, job>>
                /\ "rows" \in data'[u] <=> "rows" \in data[u]
                /\ (u \in identity /\ ~Deleting(u)) \/ WritesLate(u)
<1> USE NewAndOld
<1>1. TypedExcused /\ Rooted(u) /\ data \in [Users -> SUBSET Data]
  BY DEF ExcusedInv, Erased, Inv, Typed
<1>2. ASSUME NEW op \in {"launch", "stop", "write", "found"}, Ask(u, op) PROVE P
  <2>1. UNCHANGED <<identity, job, terminal, group, data, excused>> /\ request' = [request EXCEPT ![u] = op]
    BY <1>2 DEF Ask, remoteVars, localVars
  <2>2. TypedExcused' /\ Others(u)
    BY <1>1, <2>1 DEF TypedExcused, Requests, Others
  <2>3. Rooted(u)'
    BY <1>1, <2>1 DEF TypedExcused, Rooted
  <2>4. WritesLate(u)
    BY <2>1 DEF WritesLate
  <2> QED BY <2>1, <2>2, <2>3, <2>4
<1>3. ASSUME NEW x \in Excuses, Excuse(u, x)
      PROVE  /\ excused' \in [Users -> SUBSET Excuses]
             /\ excused[u] \subseteq excused'[u] /\ \A y \in Users : y # u => excused'[y] = excused[y]
             /\ (u \in identity /\ ~Deleting(u)) \/ x \in excused'[u]
  BY <1>1, <1>3 DEF Excuse, TypedExcused
<1>4. ASSUME NEW t \in Terminals, NEW s \in States \ {"deleted"}, NEW l \in BOOLEAN,
             Put(u, t, [state |-> s, linked |-> l]), Excuse(u, t),
             request' \in [Users -> Requests], \A y \in Users : y # u => request'[y] = request[y],
             UNCHANGED <<identity, job, group, data>>,
             l \/ (u \notin identity /\ t \in excused'[u]),
             u \in identity /\ request'[u] = "launched" => t = "new"
      PROVE  P
  <2>1. t \in Excuses
    BY DEF Excuses
  <2>2. /\ excused' \in [Users -> SUBSET Excuses]
        /\ excused[u] \subseteq excused'[u] /\ \A y \in Users : y # u => excused'[y] = excused[y]
        /\ (u \in identity /\ ~Deleting(u)) \/ t \in excused'[u]
    BY <1>3, <1>4, <2>1
  <2>3. /\ terminal' \in [Users -> [Terminals -> [state : States, linked : BOOLEAN]]]
        /\ terminal'[u][t] = [state |-> s, linked |-> l]
        /\ \A y \in Terminals : y # t => terminal'[u][y] = terminal[u][y]
        /\ \A y \in Users : y # u => terminal'[y] = terminal[y]
    BY <1>1, <1>4 DEF Put, TypedExcused
  <2>4. TypedExcused' /\ Others(u)
    BY <1>1, <1>4, <2>2, <2>3 DEF TypedExcused, Others
  <2>5. \A y \in Terminals : \/ terminal'[u][y].linked \/ terminal'[u][y].state \in Gone
                             \/ u \notin identity' /\ y \in excused'[u]
    <3>1. ASSUME NEW y \in Terminals, y # t
          PROVE  \/ terminal'[u][y].linked \/ terminal'[u][y].state \in Gone
                 \/ u \notin identity' /\ y \in excused'[u]
      <4>1. terminal'[u][y] = terminal[u][y] /\ identity' = identity /\ excused[u] \subseteq excused'[u]
        BY <1>4, <2>2, <2>3, <3>1
      <4> QED BY <1>1, <4>1 DEF Rooted
    <3>2. terminal'[u][t].linked \/ (u \notin identity' /\ t \in excused'[u])
      BY <1>4, <2>3
    <3> QED BY <3>1, <3>2
  <2>6. u \in identity' /\ request'[u] = "launched" => terminal'[u]["new"].linked
    BY <1>4, <2>3
  <2>7. t \in excused'[u] => WritesLate(u)
    BY <1>4, <2>2, <2>3 DEF WritesLate
  <2>8. u \in identity' => \A y \in Terminals : terminal'[u][y].state # "deleted"
    <3>1. s # "deleted" /\ identity' = identity
      BY <1>4
    <3>2. ASSUME u \in identity, NEW y \in Terminals PROVE terminal'[u][y].state # "deleted"
      <4>1. terminal[u][y].state # "deleted"
        BY <1>1, <3>2 DEF Rooted
      <4>2. terminal'[u][t].state = s
        BY <2>3
      <4> QED BY <2>3, <3>1, <4>1, <4>2
    <3> QED BY <3>1, <3>2
  <2> QED BY <1>4, <2>2, <2>4, <2>5, <2>6, <2>7, <2>8 DEF Rooted
<1>5. CASE Reserve(u)
  <2>1. request' \in [Users -> Requests] /\ \A y \in Users : y # u => request'[y] = request[y]
    BY <1>1, <1>5 DEF Reserve, TypedExcused, Requests
  <2> QED BY <1>4, <1>5, <2>1 DEF Reserve, remoteVars, States
<1>6. CASE Finalize(u)
  <2>1. /\ request' \in [Users -> Requests] /\ request'[u] = "none"
        /\ \A y \in Users : y # u => request'[y] = request[y]
    BY <1>1, <1>6 DEF Finalize, TypedExcused, Requests
  <2>2. terminal[u]["new"] \in [state : States, linked : BOOLEAN]
    BY <1>1 DEF TypedExcused
  <2>3. PICK l \in BOOLEAN : l = terminal[u]["new"].linked
    BY <2>2
  <2>4. [terminal[u]["new"] EXCEPT !.state = "running"] = [state |-> "running", linked |-> l]
    BY <2>2, <2>3
  <2>5. u \in identity => l
    BY <1>1, <1>6, <2>3 DEF Rooted, Finalize
  <2>6. (u \in identity /\ ~Deleting(u)) \/ "new" \in excused'[u]
    BY <1>3, <1>6 DEF Finalize, Excuses
  <2> QED BY <1>4, <1>6, <2>1, <2>4, <2>5, <2>6 DEF Finalize, remoteVars, States
<1>7. CASE SaveStopped(u)
  <2>1. /\ request' \in [Users -> Requests] /\ request'[u] = "none"
        /\ \A y \in Users : y # u => request'[y] = request[y]
    BY <1>1, <1>7 DEF SaveStopped, TypedExcused, Requests
  <2> QED BY <1>4, <1>7, <2>1 DEF SaveStopped, remoteVars, States
<1>8. CASE Write(u)
  <2>1. PICK x \in {"newRows", "newKeys"} :
             data' = [data EXCEPT ![u] = @ \cup {x}] /\ Excuse(u, x)
    BY <1>8 DEF Write
  <2>2. request' = [request EXCEPT ![u] = "none"] /\ UNCHANGED <<identity, job, terminal, group>>
    BY <1>8 DEF Write, remoteVars
  <2>3. x \in Excuses
    BY DEF Excuses, Data, Erasable, Visible, SshKeys
  <2>4. /\ excused' \in [Users -> SUBSET Excuses]
        /\ excused[u] \subseteq excused'[u] /\ \A y \in Users : y # u => excused'[y] = excused[y]
        /\ (u \in identity /\ ~Deleting(u)) \/ x \in excused'[u]
    BY <1>3, <2>1, <2>3
  <2>5. TypedExcused' /\ Others(u)
    BY <1>1, <2>1, <2>2, <2>4 DEF TypedExcused, Requests, Others
  <2>6. Rooted(u)'
    BY <1>1, <2>2, <2>4 DEF TypedExcused, Rooted
  <2>7. data'[u] = data[u] \cup {x}
    BY <1>1, <2>1
  <2>8. x \in excused'[u] => WritesLate(u)
    BY <2>2, <2>4, <2>7 DEF WritesLate
  <2> QED BY <2>2, <2>4, <2>5, <2>6, <2>7, <2>8
<1>9. CASE Found(u)
  <2>1. /\ request' = [request EXCEPT ![u] = "none"] /\ group' = [group EXCEPT ![u] = "owned"]
        /\ Excuse(u, "group") /\ UNCHANGED <<identity, job, terminal, data>>
    BY <1>9 DEF Found, remoteVars
  <2>2. /\ excused' \in [Users -> SUBSET Excuses]
        /\ excused[u] \subseteq excused'[u] /\ \A y \in Users : y # u => excused'[y] = excused[y]
        /\ (u \in identity /\ ~Deleting(u)) \/ "group" \in excused'[u]
    BY <1>3, <2>1 DEF Excuses
  <2>3. TypedExcused' /\ Others(u)
    BY <1>1, <2>1, <2>2 DEF TypedExcused, Requests, Others
  <2>4. Rooted(u)'
    BY <1>1, <2>1, <2>2 DEF TypedExcused, Rooted
  <2>5. "group" \in excused'[u] => WritesLate(u)
    BY <2>1, <2>2 DEF WritesLate
  <2> QED BY <2>1, <2>2, <2>3, <2>4, <2>5
<1>10. CASE GiveUp(u)
  <2>1. UNCHANGED <<identity, job, terminal, data, request, excused>> /\ group' = [group EXCEPT ![u] = "gone"]
    BY <1>10 DEF GiveUp, remoteVars
  <2>2. TypedExcused' /\ Others(u)
    BY <1>1, <2>1 DEF TypedExcused, Others
  <2>3. Rooted(u)'
    BY <1>1, <2>1 DEF Rooted
  <2>4. WritesLate(u)
    BY <1>1, <2>1 DEF WritesLate, TypedExcused
  <2> QED BY <2>1, <2>2, <2>3, <2>4
<1> QED BY <1>2, <1>5, <1>6, <1>7, <1>8, <1>9, <1>10 DEF RequestStep

LEMMA RequestKeepsExcused ==
    ASSUME NEW u \in Users, Inv, ExcusedInv,
           \/ \E op \in {"launch", "stop", "write", "found"} : Ask(u, op)
           \/ RequestStep(u) \/ GiveUp(u)
    PROVE  ExcusedInv'
<1>1. /\ TypedExcused' /\ Others(u) /\ Rooted(u)' /\ UNCHANGED <<identity, job>>
      /\ "rows" \in data'[u] <=> "rows" \in data[u]
      /\ (u \in identity /\ ~Deleting(u)) \/ WritesLate(u)
  BY RequestWrites
<1>2. ASSUME NEW x \in Users PROVE Rooted(x)' /\ OnlyExcused(x)'
  <2>1. Rooted(x) /\ OnlyExcused(x) /\ (x \in identity => "rows" \in data[x])
    BY DEF ExcusedInv, Erased, Inv, OwnRows
  <2>2. CASE x # u
    <3>1. /\ terminal'[x] = terminal[x] /\ group'[x] = group[x] /\ data'[x] = data[x]
          /\ request'[x] = request[x] /\ excused'[x] = excused[x] /\ identity' = identity
      BY <1>1, <2>2 DEF Others
    <3> QED BY <2>1, <3>1 DEF Rooted, OnlyExcused, Timely, Unlinked
  <2>3. CASE x = u /\ u \in identity
    BY <1>1, <2>1, <2>3 DEF OnlyExcused
  <2>4. CASE x = u /\ WritesLate(u)
    BY <1>1, <2>1, <2>4 DEF OnlyExcused, WritesLate, Timely, Unlinked
  <2> QED BY <1>1, <2>2, <2>3, <2>4
<1>3. ASSUME NEW e \in Erasers PROVE Cascade(e)'
  <2>1. Cascade(e) /\ User(e) \in Users /\ job' = job
    BY <1>1, ErasureAssumption DEF ExcusedInv, Erased, User
  <2>2. CASE User(e) # u
    <3>1. /\ terminal'[User(e)] = terminal[User(e)] /\ group'[User(e)] = group[User(e)]
          /\ data'[User(e)] = data[User(e)] /\ excused'[User(e)] = excused[User(e)]
      BY <1>1, <2>1, <2>2 DEF Others
    <3> QED BY <2>1, <3>1 DEF Cascade, Timely, Unlinked
  <2>3. CASE User(e) = u /\ ~Deleting(u)
    <3>1. job'[e].pc = "idle"
      BY <2>1, <2>3 DEF Deleting
    <3> QED BY <3>1 DEF Cascade, AfterIdentity
  <2>4. CASE User(e) = u /\ WritesLate(u)
    BY <2>1, <2>4 DEF Cascade, WritesLate, Timely, Unlinked
  <2> QED BY <1>1, <2>2, <2>3, <2>4
<1> QED BY <1>1, <1>2, <1>3 DEF ExcusedInv, Erased

-----------------------------------------------------------------------------
(* A revocation touches what is in the user's name and runs. *)
LEMMA WebhookKeepsExcused ==
    ASSUME NEW r \in Rows, Inv, ExcusedInv, Pay(r) \/ Webhook(r)
    PROVE  ExcusedInv'
<1> DEFINE u == Row[r].user
<1>1. u \in Users /\ TypedExcused
  BY ErasureAssumption DEF RowType, ExcusedInv
<1>2. UNCHANGED <<identity, data, group, job, request, excused>>
  BY DEF Pay, Webhook, HandleCreated, HandleDeleted, localVars
<1>3. \/ terminal' = terminal
      \/ terminal' = [terminal EXCEPT ![u] = Revoked(u)]
  BY DEF Pay, Webhook, HandleCreated, HandleDeleted, localVars
<1>4. /\ terminal' \in [Users -> [Terminals -> [state : States, linked : BOOLEAN]]]
      /\ \A x \in Users, t \in Terminals :
            /\ terminal'[x][t].linked = terminal[x][t].linked
            /\ ~terminal[x][t].linked \/ terminal[x][t].state = "deleted" =>
                  terminal'[x][t].state = terminal[x][t].state
            /\ terminal'[x][t].state = "deleted" => terminal[x][t].state = "deleted"
  <2>1. CASE terminal' = terminal
    BY <1>1, <2>1 DEF TypedExcused
  <2>2. CASE terminal' = [terminal EXCEPT ![u] = Revoked(u)]
    <3>1. /\ Revoked(u) \in [Terminals -> [state : States, linked : BOOLEAN]]
          /\ \A t \in Terminals : /\ Revoked(u)[t].linked = terminal[u][t].linked
                                  /\ ~terminal[u][t].linked \/ terminal[u][t].state = "deleted" =>
                                        Revoked(u)[t].state = terminal[u][t].state
                                  /\ Revoked(u)[t].state = "deleted" => terminal[u][t].state = "deleted"
      BY <1>1 DEF Revoked, RunningTerminals, LinkedTerminals, TypedExcused, States
    <3> QED BY <1>1, <2>2, <3>1 DEF TypedExcused
  <2> QED BY <1>3, <2>1, <2>2
<1>5. TypedExcused'
  BY <1>1, <1>2, <1>4 DEF TypedExcused
<1>6. ASSUME NEW x \in Users PROVE Rooted(x)' /\ OnlyExcused(x)'
  BY <1>2, <1>4, NewAndOld DEF ExcusedInv, Erased, Rooted, OnlyExcused, Timely, Unlinked
<1>7. ASSUME NEW e \in Erasers PROVE Cascade(e)'
  <2>1. User(e) \in Users
    BY ErasureAssumption DEF User
  <2>2. /\ \A t \in Terminals : Unlinked(User(e), t)' <=> Unlinked(User(e), t)
        /\ \A t \in Terminals : terminal[User(e)][t].state = "deleted" =>
                                  terminal'[User(e)][t].state = "deleted"
    BY <1>4, <2>1 DEF Unlinked
  <2>3. Cascade(e) /\ Timely(User(e))' = Timely(User(e)) /\ Timely(User(e)) \subseteq Terminals
    BY <1>2 DEF ExcusedInv, Erased, Timely
  <2> QED BY <1>2, <2>2, <2>3 DEF Cascade
<1> QED BY <1>5, <1>6, <1>7 DEF ExcusedInv, Erased

-----------------------------------------------------------------------------
(* A step of a deletion before its commit: the tables are as they were, but  *)
(* for billing data pseudonymized and what is left and logged.              *)
LEMMA QuietStep ==
    ASSUME ExcusedInv, NEW e \in Erasers, UNCHANGED <<terminal, group, request>>,
           identity' \subseteq identity, \A x \in Erasers : x # e => job'[x] = job[x], Cascade(e)',
           excused' \in [Users -> SUBSET Excuses],
           \A u \in Users : /\ data'[u] \subseteq data[u] /\ excused[u] \subseteq excused'[u]
                            /\ "rows" \in data'[u] <=> "rows" \in data[u]
    PROVE  ExcusedInv'
<1>1. TypedExcused'
  BY DEF ExcusedInv, TypedExcused
<1>2. ASSUME NEW u \in Users PROVE Rooted(u)' /\ OnlyExcused(u)'
  <2>1. Rooted(u) /\ OnlyExcused(u) /\ Timely(u)' \subseteq Timely(u)
    BY DEF ExcusedInv, Erased, Timely
  <2>2. Rooted(u)'
    BY <2>1 DEF Rooted
  <2>3. OnlyExcused(u)'
    BY <2>1 DEF OnlyExcused, Unlinked
  <2> QED BY <2>2, <2>3
<1>3. ASSUME NEW x \in Erasers, x # e PROVE Cascade(x)'
  <2>1. job'[x] = job[x] /\ Cascade(x) /\ User(x) \in Users
    BY <1>3, ErasureAssumption DEF ExcusedInv, Erased, User
  <2>2. Timely(User(x))' \subseteq Timely(User(x))
    BY <2>1 DEF Timely
  <2> QED BY <2>1, <2>2 DEF Cascade, Unlinked
<1> QED BY <1>1, <1>2, <1>3 DEF ExcusedInv, Erased

LEMMA JobKeepsExcused ==
    ASSUME Inv, ExcusedInv, NEW e \in Erasers, JobStep(e) \/ Fail(e), ~Commit(e)
    PROVE  ExcusedInv'
<1> DEFINE u == User(e)
<1>0. /\ job = [x \in Erasers |-> job[x]] /\ job[e] \in JobType /\ NoJob.pc = "idle"
      /\ data \in [Users -> SUBSET Data] /\ excused \in [Users -> SUBSET Excuses]
  BY DEF Inv, Typed, NoJob, ExcusedInv, TypedExcused
<1>1. Cascade(e) /\ u \in Users
  BY ErasureAssumption DEF ExcusedInv, Erased, User
<1>2. UNCHANGED <<terminal, group, request>>
  BY DEF JobStep, Lookup, LoadSubs, CancelSubscription, CancelRefused, LoadCustomers, DeleteCustomer,
         Pseudonymize, DeleteIdentity, RemoveRoles, Release, Sweep, SweepKeys, Unlink, Fail, localVars
<1>3. CASE Lookup(e) \/ CancelRefused(e) \/ RemoveRoles(e) \/ Fail(e)
  <2>1. UNCHANGED <<identity, data, excused>>
    BY <1>3 DEF Lookup, CancelRefused, RemoveRoles, Fail, remoteVars, localVars
  <2>2. \/ Leave(e)
        \/ job[e].pc # "idle" /\ GoTo(e, "subs")
        \/ job[e].pc = "roles" /\ GoTo(e, "release") /\ ~Asked[e].admin
    BY <1>3 DEF Lookup, CancelRefused, RemoveRoles, Fail
  <2>3. \A x \in Erasers : x # e => job'[x] = job[x]
    BY <1>0, <2>2 DEF Leave, GoTo
  <2>4. job'[e].pc # "idle" =>
            /\ job[e].pc # "idle" /\ job'[e].pc \in {"subs", "release"}
            /\ job'[e].pc = "release" => ~Asked[e].admin /\ job[e].pc = "roles"
    BY <1>0, <2>2 DEF Leave, GoTo, JobType
  <2>5. Cascade(e)'
    BY <1>1, <1>2, <2>1, <2>4 DEF Cascade, AfterIdentity
  <2> QED BY <1>0, <1>2, <2>1, <2>3, <2>5, QuietStep
<1>4. CASE \/ LoadSubs(e) \/ CancelSubscription(e) \/ LoadCustomers(e) \/ DeleteCustomer(e)
           \/ DeleteIdentity(e)
  <2>1. UNCHANGED <<data, excused>> /\ identity' \subseteq identity
    BY <1>4 DEF LoadSubs, CancelSubscription, LoadCustomers, DeleteCustomer, DeleteIdentity,
       remoteVars, localVars
  <2>2. /\ \A x \in Erasers : x # e => job'[x] = job[x]
        /\ job[e].pc # "idle" /\ job'[e].pc \in {"cancel", "customers", "roles"}
        /\ job'[e].pc = "roles" => job[e].pc = "casdoor"
    <3>1. CASE LoadSubs(e) \/ LoadCustomers(e)
      BY <1>0, <3>1 DEF LoadSubs, LoadCustomers, Load, JobType
    <3>2. CASE CancelSubscription(e)
      BY <1>0, <3>2 DEF CancelSubscription, JobType
    <3>3. CASE DeleteCustomer(e)
      BY <1>0, <3>3 DEF DeleteCustomer, JobType
    <3>4. CASE DeleteIdentity(e)
      BY <1>0, <3>4 DEF DeleteIdentity, GoTo, JobType
    <3> QED BY <1>4, <3>1, <3>2, <3>3, <3>4
  <2>3. Cascade(e)'
    BY <1>1, <1>2, <2>1, <2>2 DEF Cascade, AfterIdentity
  <2> QED BY <1>0, <1>2, <2>1, <2>2, <2>3, QuietStep
<1>5. CASE Pseudonymize(e)
  <2>1. identity' = identity /\ job[e].pc = "customers" /\ GoTo(e, "casdoor")
    BY <1>5 DEF Pseudonymize, remoteVars
  <2>2. job'[e].pc = "casdoor" /\ \A x \in Erasers : x # e => job'[x] = job[x]
    BY <1>0, <2>1 DEF GoTo, JobType
  <2>3. \/ data' = [data EXCEPT ![u] = @ \ {"billing"}] /\ excused' = excused
        \/ data' = data /\ excused' = [excused EXCEPT ![u] = @ \cup {"billing"}]
    BY <1>5 DEF Pseudonymize
  <2>4. "billing" \in Excuses
    BY DEF Excuses, Data
  <2>5. /\ excused' \in [Users -> SUBSET Excuses]
        /\ \A x \in Users : /\ data'[x] \subseteq data[x] /\ excused[x] \subseteq excused'[x]
                            /\ "rows" \in data'[x] <=> "rows" \in data[x]
        /\ data'[u] \cap {"billing"} \subseteq excused'[u]
    BY <1>0, <1>1, <2>3, <2>4
  <2>6. Cascade(e)'
    BY <1>1, <1>2, <2>1, <2>2, <2>5 DEF Cascade
  <2> QED BY <1>2, <2>1, <2>2, <2>5, <2>6, QuietStep
<1>6. CASE Release(e)
  <2>1. /\ UNCHANGED <<identity, data, excused>> /\ job[e].pc = "release"
        /\ job' = [job EXCEPT ![e] = [@ EXCEPT !.pc = "sweep", !.released = OpenTerminals(u)]]
    BY <1>6 DEF Release, remoteVars, localVars
  <2>2. /\ job'[e].pc = "sweep" /\ job'[e].released = OpenTerminals(u)
        /\ \A x \in Erasers : x # e => job'[x] = job[x]
    BY <1>0, <2>1 DEF JobType
  <2>3. \A t \in Terminals : t \in OpenTerminals(u) \/ Unlinked(u, t) \/ terminal[u][t].state = "deleted"
    BY DEF OpenTerminals, LinkedTerminals, Unlinked
  <2>4. Cascade(e)'
    BY <1>1, <1>2, <2>1, <2>2, <2>3 DEF Cascade, AfterIdentity, Timely, Unlinked
  <2> QED BY <1>0, <1>2, <2>1, <2>2, <2>4, QuietStep
<1>7. CASE Sweep(e)
  <2>1. /\ UNCHANGED <<identity, data, excused>> /\ job[e].pc = "sweep"
        /\ job' = [job EXCEPT ![e] = [@ EXCEPT !.pc = "keys", !.swept = data[u] \cap Visible]]
    BY <1>7 DEF Sweep, remoteVars, localVars
  <2>2. /\ job'[e].pc = "keys" /\ job'[e].swept = data[u] \cap Visible
        /\ job'[e].released = job[e].released
        /\ \A x \in Erasers : x # e => job'[x] = job[x]
    BY <1>0, <2>1 DEF JobType
  <2>3. Cascade(e)'
    BY <1>1, <1>2, <2>1, <2>2 DEF Cascade, AfterIdentity, Timely, Unlinked
  <2> QED BY <1>0, <1>2, <2>1, <2>2, <2>3, QuietStep
<1>8. CASE SweepKeys(e)
  <2>1. /\ UNCHANGED <<identity, data>> /\ job[e].pc = "keys"
        /\ \/ /\ job' = [job EXCEPT ![e].pc = "unlink", ![e].swept = @ \cup (data[u] \cap SshKeys)]
              /\ excused' = excused
           \/ /\ GoTo(e, "unlink")
              /\ excused' = [excused EXCEPT ![u] = @ \cup (data[u] \cap SshKeys)]
    BY <1>8 DEF SweepKeys, remoteVars, localVars
  <2>2. /\ job'[e].pc = "unlink" /\ job[e].swept \subseteq job'[e].swept
        /\ job'[e].released = job[e].released
        /\ \A x \in Erasers : x # e => job'[x] = job[x]
    <3>1. CASE GoTo(e, "unlink")
      BY <1>0, <3>1 DEF GoTo, JobType
    <3>2. CASE ~GoTo(e, "unlink")
      <4>1. job' = [job EXCEPT ![e].pc = "unlink", ![e].swept = @ \cup (data[u] \cap SshKeys)]
        BY <2>1, <3>2
      <4> QED BY <1>0, <4>1 DEF JobType
    <3> QED BY <3>1, <3>2
  <2>3. /\ excused' \in [Users -> SUBSET Excuses]
        /\ \A x \in Users : excused[x] \subseteq excused'[x]
    BY <1>0, <1>1, <2>1 DEF Excuses, Data, Erasable
  <2>4. data[u] \cap SshKeys \subseteq job'[e].swept \cup excused'[u]
    <3>1. CASE excused' = [excused EXCEPT ![u] = @ \cup (data[u] \cap SshKeys)]
      BY <1>0, <1>1, <3>1
    <3>2. CASE job' = [job EXCEPT ![e].pc = "unlink", ![e].swept = @ \cup (data[u] \cap SshKeys)]
      BY <1>0, <3>2 DEF JobType
    <3> QED BY <2>1, <3>1, <3>2
  <2>5. Timely(u)' \subseteq Timely(u)
    BY <1>1, <2>3 DEF Timely
  <2>6. Cascade(e)'
    BY <1>1, <1>2, <2>1, <2>2, <2>3, <2>4, <2>5 DEF Cascade, AfterIdentity, Unlinked
  <2> QED BY <1>2, <2>1, <2>2, <2>3, <2>6, QuietStep
<1>9. CASE Unlink(e)
  <2>1. /\ UNCHANGED <<identity, data, excused>> /\ job[e].pc = "unlink"
        /\ job' = [job EXCEPT ![e] = [@ EXCEPT !.pc = "commit", !.unlinked = LinkedTerminals(u)]]
    BY <1>9 DEF Unlink, remoteVars, localVars
  <2>2. /\ job'[e].pc = "commit" /\ job'[e].unlinked = LinkedTerminals(u)
        /\ job'[e].released = job[e].released /\ job'[e].swept = job[e].swept
        /\ \A x \in Erasers : x # e => job'[x] = job[x]
    BY <1>0, <2>1 DEF JobType
  <2>3. \A t \in Terminals : t \in LinkedTerminals(u) \/ Unlinked(u, t)
    BY DEF LinkedTerminals, Unlinked
  <2>4. Cascade(e)'
    BY <1>1, <1>2, <2>1, <2>2, <2>3 DEF Cascade, AfterIdentity, Timely, Unlinked
  <2> QED BY <1>0, <1>2, <2>1, <2>2, <2>4, QuietStep
<1> QED BY <1>3, <1>4, <1>5, <1>6, <1>7, <1>8, <1>9 DEF JobStep

(* A deletion that begins finds the group given up, and writes before it no  *)
(* longer count as late, if no other deletion of the user is under way.      *)
LEMMA BeginKeepsExcused ==
    ASSUME Inv, ExcusedInv, NEW e \in Erasers, Begin(e)
    PROVE  ExcusedInv'
<1> DEFINE u == User(e)
<1>1. /\ job[e].pc = "idle" /\ (Asked[e].admin \/ group[u] # "owned") /\ GoTo(e, "lookup")
      /\ excused' = Forget(u) /\ UNCHANGED <<identity, data, terminal, group, request>>
  BY DEF Begin, MayBegin, remoteVars, localVars
<1>2. u \in Users /\ TypedExcused
  BY ErasureAssumption DEF ExcusedInv, User
<1>3. job'[e].pc = "lookup" /\ \A x \in Erasers : x # e => job'[x] = job[x]
  BY <1>1 DEF GoTo, Inv, Typed, JobType
<1>4. Cascade(e)'
  BY <1>1, <1>3 DEF Cascade, AfterIdentity
<1>5. CASE Deleting(u) \/ u \notin identity
  <2>1. excused' = excused
    BY <1>1, <1>5 DEF Forget
  <2> QED BY <1>1, <1>2, <1>3, <1>4, <2>1, QuietStep DEF TypedExcused
<1>6. CASE ~Deleting(u) /\ u \in identity
  <2>1. excused' = [excused EXCEPT ![u] = {}]
    BY <1>1, <1>6 DEF Forget
  <2>2. TypedExcused' /\ \A x \in Users : x # u => excused'[x] = excused[x]
    BY <1>1, <1>2, <2>1 DEF TypedExcused
  <2>3. ASSUME NEW x \in Users PROVE Rooted(x)' /\ OnlyExcused(x)'
    <3>1. Rooted(x) /\ OnlyExcused(x) /\ "rows" \in data[u]
      BY <1>6 DEF ExcusedInv, Erased, Inv, OwnRows
    <3>2. CASE x = u
      BY <1>1, <1>6, <3>1, <3>2 DEF Rooted, OnlyExcused
    <3>3. CASE x # u
      BY <1>1, <2>2, <3>1, <3>3 DEF Rooted, OnlyExcused, Timely, Unlinked
    <3> QED BY <3>2, <3>3
  <2>4. ASSUME NEW x \in Erasers, x # e PROVE Cascade(x)'
    <3>1. job'[x] = job[x] /\ Cascade(x) /\ User(x) \in Users
      BY <1>3, <2>4, ErasureAssumption DEF ExcusedInv, Erased, User
    <3>2. CASE User(x) = u
      <4>1. job'[x].pc = "idle"
        BY <1>6, <3>1, <3>2 DEF Deleting
      <4> QED BY <4>1 DEF Cascade, AfterIdentity
    <3>3. CASE User(x) # u
      BY <1>1, <2>2, <3>1, <3>3 DEF Cascade, Timely, Unlinked
    <3> QED BY <3>2, <3>3
  <2> QED BY <1>4, <2>2, <2>3, <2>4 DEF ExcusedInv, Erased
<1> QED BY <1>5, <1>6

(* The commit: what is not late is out of the user's name, and released.    *)
LEMMA CommitKeepsExcused ==
    ASSUME Inv, ExcusedInv, NEW e \in Erasers, Commit(e)
    PROVE  ExcusedInv'
<1> DEFINE u == User(e)
<1>1. /\ job[e].pc = "commit" /\ Leave(e) /\ UNCHANGED <<identity, group, request, excused>>
      /\ data' = [data EXCEPT ![u] = (@ \ job[e].swept) \cup
               (IF job[e].swept \cap Visible = {} THEN {} ELSE {"hidden"})]
      /\ terminal' = [terminal EXCEPT ![u] = [t \in Terminals |->
               [state  |-> IF t \in job[e].released THEN "deleted" ELSE @[t].state,
                linked |-> @[t].linked /\ t \notin job[e].unlinked]]]
  BY DEF Commit, remoteVars
<1>2. /\ u \in Users /\ u \notin identity /\ TypedExcused /\ Cascade(e) /\ Rooted(u)
      /\ data \in [Users -> SUBSET Data]
  BY <1>1, ErasureAssumption DEF ExcusedInv, Erased, User, Inv, GoneFirst, AfterIdentity, Typed
<1>3. job'[e].pc = "idle" /\ \A x \in Erasers : x # e => job'[x] = job[x]
  BY <1>1 DEF Leave, Inv, Typed, NoJob
<1>4. /\ terminal' \in [Users -> [Terminals -> [state : States, linked : BOOLEAN]]]
      /\ \A t \in Terminals :
            /\ terminal'[u][t].state = IF t \in job[e].released THEN "deleted" ELSE terminal[u][t].state
            /\ terminal'[u][t].linked <=> terminal[u][t].linked /\ t \notin job[e].unlinked
      /\ \A x \in Users : x # u => terminal'[x] = terminal[x] /\ data'[x] = data[x]
      /\ data'[u] \ {"hidden"} \subseteq data[u] \ job[e].swept
  BY <1>1, <1>2 DEF TypedExcused, States
<1>5. TypedExcused'
  BY <1>1, <1>2, <1>4 DEF TypedExcused
<1>6. ASSUME NEW t \in Timely(u) PROVE Unlinked(u, t)' /\ terminal'[u][t].state \in Gone
  <2>1. /\ t \in job[e].released \/ Unlinked(u, t) \/ terminal[u][t].state = "deleted"
        /\ t \in job[e].unlinked \/ Unlinked(u, t)
        /\ t \in Terminals /\ t \notin excused[u]
    BY <1>1, <1>2 DEF Cascade, Timely
  <2>2. Unlinked(u, t) => terminal[u][t].state \in Gone
    BY <1>2, <2>1 DEF Rooted, Unlinked
  <2> QED BY <1>4, <2>1, <2>2 DEF Unlinked, Gone
<1>7. ASSUME NEW x \in Users PROVE Rooted(x)' /\ OnlyExcused(x)'
  <2>1. CASE x # u
    <3>1. terminal'[x] = terminal[x] /\ data'[x] = data[x]
      BY <1>4, <2>1
    <3> QED BY <1>1, <3>1 DEF ExcusedInv, Erased, Rooted, OnlyExcused, Timely, Unlinked
  <2>2. Rooted(u)'
    BY <1>1, <1>2, <1>6 DEF Rooted, Timely, Unlinked
  <2>3. /\ data[u] \ {"hidden"} \subseteq {"billing"} \cup Visible \cup SshKeys
        /\ data[u] \cap ({"billing"} \cup Visible \cup SshKeys) \subseteq job[e].swept \cup excused[u]
        /\ group[u] = "owned" => "group" \in excused[u]
    BY <1>1, <1>2 DEF Cascade, Data, Erasable, AfterIdentity
  <2>4. OnlyExcused(u)'
    <3>1. data'[u] \ {"hidden"} \subseteq excused[u]
      BY <1>4, <2>3
    <3> QED BY <1>1, <1>6, <2>3, <3>1 DEF OnlyExcused, Timely
  <2> QED BY <2>1, <2>2, <2>4
<1>8. ASSUME NEW x \in Erasers PROVE Cascade(x)'
  <2>1. CASE x = e
    BY <1>3, <2>1 DEF Cascade, AfterIdentity
  <2>2. CASE x # e
    <3>1. job'[x] = job[x] /\ Cascade(x) /\ User(x) \in Users
      BY <1>3, <2>2, ErasureAssumption DEF ExcusedInv, Erased, User
    <3>2. CASE User(x) = u
      <4>1. /\ data'[u] \cap {"billing"} \subseteq data[u] /\ data'[u] \cap Visible \subseteq data[u]
            /\ data'[u] \cap SshKeys \subseteq data[u]
        BY <1>4 DEF Visible, SshKeys
      <4> QED BY <1>1, <1>4, <3>1, <3>2, <4>1 DEF Cascade, Timely, Unlinked
    <3>3. CASE User(x) # u
      BY <1>1, <1>4, <3>1, <3>3 DEF Cascade, Timely, Unlinked
    <3> QED BY <3>2, <3>3
  <2> QED BY <2>1, <2>2
<1> QED BY <1>5, <1>7, <1>8 DEF ExcusedInv, Erased

LEMMA StepExcused ==
    ASSUME Inv, ExcusedInv, [Next]_vars
    PROVE  ExcusedInv'
<1>1. CASE UNCHANGED vars
  BY <1>1 DEF vars, remoteVars, localVars, ExcusedInv, Erased, TypedExcused, Rooted, OnlyExcused, Cascade,
              Timely, Unlinked
<1> QED BY <1>1, RequestKeepsExcused, WebhookKeepsExcused, JobKeepsExcused, BeginKeepsExcused, CommitKeepsExcused DEF Next

LEMMA InitExcused == Init => ExcusedInv
<1> SUFFICES ASSUME Init PROVE ExcusedInv
  OBVIOUS
<1>1. /\ excused = [u \in Users |-> {}] /\ request = [u \in Users |-> "none"]
      /\ group \in [Users -> {"none", "owned"}] /\ (\A e \in Erasers : job[e].pc = "idle")
      /\ \A u \in Users : "rows" \in data[u]
      /\ terminal = [u \in Users |-> [t \in Terminals |->
            IF t = "old" /\ u \in Busy THEN [state |-> "running", linked |-> TRUE] ELSE NoTerminal]]
  BY DEF Init, NoJob
<1>2. TypedExcused
  BY <1>1 DEF TypedExcused, NoTerminal, States, Requests
<1>3. \A u \in Users : Rooted(u) /\ OnlyExcused(u)
  BY <1>1 DEF Rooted, OnlyExcused, Gone, NoTerminal
<1>4. \A e \in Erasers : Cascade(e)
  BY <1>1 DEF Cascade, AfterIdentity
<1> QED BY <1>2, <1>3, <1>4 DEF ExcusedInv, Erased

(***************************************************************************)
(* What an erased person still has in sight, billing data included, was     *)
(* written by a request that ran while the deletion did or after it, or     *)
(* left by a step that failed and was logged: of all else no row is seen    *)
(* under their name, no terminal goes on, and no group is without an owner, *)
(* for any deletions side by side, failures and requests.                   *)
(***************************************************************************)
THEOREM ErasureLeavesOnlyExcused == Spec => []LeavesOnlyExcused
<1>1. Inv /\ ExcusedInv /\ [Next]_vars => ExcusedInv'
  BY StepExcused
<1>2. ExcusedInv => LeavesOnlyExcused
  BY DEF ExcusedInv, Erased, OnlyExcused, LeavesOnlyExcused, Timely, Unlinked, Gone
<1> QED BY Invariant, InitExcused, <1>1, <1>2, PTL DEF Spec

(***************************************************************************)
(* However many deletions of an account fail, wherever they fail, what the  *)
(* application itself keeps of the person is as it was as long as the       *)
(* identity exists: rows, SSH keys and terminals.  What they had at Stripe  *)
(* and in the billing tables may be gone by then.                           *)
(***************************************************************************)
THEOREM AbortedDeletionSparesOwnData == Spec => []AbortSparesOwnData
<1>1. Inv /\ ExcusedInv /\ [Next]_vars => ExcusedInv'
  BY StepExcused
<1>2. Inv /\ ExcusedInv => AbortSparesOwnData
  <2> SUFFICES ASSUME Inv, ExcusedInv, NEW u \in identity
               PROVE  /\ {"rows", "keys"} \subseteq data[u]
                      /\ \A t \in Terminals : terminal[u][t].state # "deleted"
                      /\ \A t \in Terminals : terminal[u][t].linked \/ terminal[u][t] = NoTerminal
    BY DEF AbortSparesOwnData
  <2>1. u \in Users /\ {"rows", "keys"} \subseteq data[u] /\ Rooted(u) /\ TypedExcused
    BY DEF Inv, Typed, OwnRows, ExcusedInv, Erased
  <2>2. ASSUME NEW t \in Terminals, ~terminal[u][t].linked PROVE terminal[u][t] = NoTerminal
    BY <2>1, <2>2 DEF Rooted, Gone, TypedExcused, NoTerminal
  <2> QED BY <2>1, <2>2 DEF Rooted
<1> QED BY Invariant, InitExcused, <1>1, <1>2, PTL DEF Spec
=============================================================================
