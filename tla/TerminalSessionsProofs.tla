----------------------- MODULE TerminalSessionsProofs -----------------------
(***************************************************************************)
(* For any users, plans, launches, threads and delays: the variables keep   *)
(* their types, the sum a launch judges by is current, the reservation      *)
(* protocol implements the ledger, so that what a scope admits fits in a    *)
(* cap; budget is leased for one window, no reservation outlives its launch *)
(* and a settled session is charged once.                                  *)
(***************************************************************************)
EXTENDS TerminalSessions, FiniteSetTheorems, TLAPS

(* What is proved of budgets, for the rows of terminals.  Nothing is quoted, *)
(* and no session is looked at by itself.                                  *)
Proved == INSTANCE RulesProofs WITH
    Item <- RowIds, ScopeOf <- RowScope, PlanOf <- RowPlan,
    CPU <- RowCPU, Mem <- RowMem, charged <- held,
    Caps <- {}, Catalog <- {}, Unlimited <- 0, entry <- cont

(***************************************************************************)
(* Typing.  The rules of TerminalRow map rows to rows.                     *)
(***************************************************************************)
LEMMA StoppedIsRow ==
    ASSUME NEW r \in Row, NEW d \in Nat, NEW t \in Nat
    PROVE  MarkSessionStopped(r, d, t) \in Row
<1> DEFINE paused == [r EXCEPT !.state = "stopped"]
           until  == IF d > 0 THEN d ELSE IF r.known THEN t + SessionLen ELSE r.expiresAt
<1>1. paused \in Row
  BY DEF Row, RowState
<1>2. r.expiresAt \in Nat /\ t + SessionLen \in Nat
  BY ClockAssumption DEF Row
<1>3. until \in Nat
  BY <1>2
<1>4. [paused EXCEPT !.expiresAt = until] \in Row
  <2> HIDE DEF paused, until
  <2> QED BY <1>1, <1>3 DEF Row
<1> QED BY <1>4 DEF MarkSessionStopped

(* A sync pass (SyncUserSessions, step 5a) maps rows to rows. *)
LEMMA ReconciledIsRow ==
    ASSUME NEW r \in Row, NEW c \in Entry, NEW t \in Nat
    PROVE  Reconcile(r, c, t) \in Row
<1> DEFINE dated == ExpireByDate(AdoptStatus(r.state, c), c, t)
           datedRow == [r EXCEPT !.state = dated]
<1>1. dated \in RowState
  BY DEF ExpireByDate, AdoptStatus, StatusState, Row, RowState
<1>2. datedRow \in Row
  BY <1>1 DEF Row
<1>3. [datedRow EXCEPT !.state = c.st] \in Row
  BY <1>2 DEF Row, RowState, Entry
<1>4. c.idleUntil \in Nat
  BY DEF Entry
<1>5. MarkSessionStopped(datedRow, c.idleUntil, t) \in Row
  BY <1>2, <1>4, StoppedIsRow
<1> QED BY <1>2, <1>3, <1>5 DEF Reconcile

(* The row a launch reserves and its adopted twin are rows of the table. *)
LEMMA MineIsRowId ==
    ASSUME NEW l \in Launches
    PROVE  Mine(l) \in RowIds /\ Twin(Mine(l)) \in RowIds
BY DEF Mine, Twin, RowIds

(* What is still held stays a set of rows. *)
LEMMA HoldingTyped ==
    ASSUME held \subseteq RowIds, NEW new \in SUBSET RowIds, Holding(new)
    PROVE  held' \subseteq RowIds
BY DEF Holding

(* The containers that a stop, a deletion and a start leave. *)
LEMMA EndsAreContainers ==
    ASSUME StoreTypeOK, NEW l \in Launches
    PROVE  Stopped(l) \in Container /\ Destroyed \in Container /\ Started \in Container
<1>1. cont[l] \in Container
  BY DEF StoreTypeOK
<1>2. [cont[l] EXCEPT !.st = "stopped"] \in Container
  BY <1>1 DEF Container
<1>3. now + IdleLen \in Nat /\ now + SessionLen \in Nat
  BY ClockAssumption DEF StoreTypeOK
<1>4. Stopped(l) \in Container
  <2> DEFINE off == [cont[l] EXCEPT !.st = "stopped"]
  <2>1. [off EXCEPT !.idleUntil = now + IdleLen] \in Container
    <3> HIDE DEF off
    <3>1. off \in Container
      BY <1>2 DEF off
    <3> QED BY <3>1, <1>3 DEF Container
  <2> QED BY <2>1 DEF Stopped
<1>5. Destroyed \in Container /\ Started \in Container
  BY <1>3 DEF Destroyed, Started, Container
<1> QED BY <1>4, <1>5

(* tt-backend and the clock. *)
LEMMA BackendTyped ==
    ASSUME StoreTypeOK, \/ \E l \in Launches : BackendStep(l)
                        \/ Tick
    PROVE  StoreTypeOK'
<1>1. held' \subseteq RowIds
  BY HoldingTyped DEF StoreTypeOK, BackendStep, Tick
<1>2. now' \in Nat /\ row' \in [RowIds -> Row]
  BY DEF StoreTypeOK, BackendStep, Tick
<1>3. cont' \in [Launches -> Container]
  <2>1. CASE Tick
    BY <2>1 DEF Tick, StoreTypeOK
  <2>2. ASSUME NEW l \in Launches, BackendStep(l) PROVE cont' \in [Launches -> Container]
    <3>1. Stopped(l) \in Container /\ Destroyed \in Container /\ Started \in Container
      BY EndsAreContainers
    <3>2. [cont[l] EXCEPT !.st = "gone"] \in Container
      BY DEF StoreTypeOK, Container
    <3> QED BY <2>2, <3>1, <3>2
        DEF StoreTypeOK, BackendStep, Boot, AutoStop, Reap, Purge
  <2> QED BY <2>1, <2>2
<1> QED BY <1>1, <1>2, <1>3 DEF StoreTypeOK

(* The launches. *)
LEMMA LaunchTyped ==
    ASSUME StoreTypeOK, ComposerTypeOK, NEW l \in Launches, LaunchStep(l)
    PROVE  StoreTypeOK' /\ ComposerTypeOK'
<1>1. held' \subseteq RowIds
  <2>1. \E new \in {{}, {Mine(l)}} : Holding(new)
    BY DEF LaunchStep, Begin, Lock, ReadScope, LockRows, Admit, Reject, PostSession,
           Answered, Finalize, Release, Crash
  <2> QED BY <2>1, MineIsRowId, HoldingTyped DEF StoreTypeOK
<1>2. now' = now
  BY DEF LaunchStep, Begin, Lock, ReadScope, LockRows, Admit, Reject, PostSession,
         Answered, Finalize, Release, Crash
<1>3. expires[l] \in Nat /\ cont[l].expiresAt \in Nat
  BY DEF ComposerTypeOK, StoreTypeOK, Container
<1>4. row' \in [RowIds -> Row]
  <2>1. NoRow \in Row /\ Reservation(l) \in Row
    BY <1>3 DEF NoRow, Reservation, Row, RowState
  <2>2. [state |-> "running", sid |-> "real", expiresAt |-> expires[l], known |-> TRUE]
          \in Row
    BY <1>3 DEF Row, RowState
  <2>3. CASE UNCHANGED row
    BY <2>3 DEF StoreTypeOK
  <2>4. CASE Admit(l) \/ Release(l)
    BY <2>1, <2>4, MineIsRowId DEF StoreTypeOK, Admit, Release, Put
  <2>5. CASE Finalize(l)
    BY <2>1, <2>2, <2>5, MineIsRowId DEF StoreTypeOK, Finalize
  <2> QED
    BY <2>3, <2>4, <2>5 DEF LaunchStep, Begin, Lock, ReadScope, LockRows, Reject,
       PostSession, Answered, Crash
<1>5. cont' \in [Launches -> Container]
  BY DEF StoreTypeOK, LaunchStep, Begin, Lock, ReadScope, LockRows, Admit, Reject,
         PostSession, Answered, Finalize, Release, Crash, Container
<1>6. phase' \in [Launches -> Phases]
  BY DEF ComposerTypeOK, LaunchStep, Begin, Lock, ReadScope, LockRows, Admit, Reject,
         PostSession, Answered, Finalize, Release, Crash, GoTo, Leave, Phases,
         InTransaction, InFlight, Ended
<1>7. expires' \in [Launches -> Nat] /\ deadline' \in [Launches -> Nat]
  BY <1>3, ComposerAssumption
  DEF ComposerTypeOK, StoreTypeOK, LaunchStep, Begin, Lock, ReadScope, LockRows, Admit,
      Reject, PostSession, Answered, Finalize, Release, Crash, Leave
<1>8. seen' \in [Launches -> SUBSET RowIds]
  BY DEF ComposerTypeOK, LaunchStep, Begin, Lock, ReadScope, LockRows, Admit, Reject,
         PostSession, Answered, Finalize, Release, Crash, Leave, ScopeRows
<1> QED BY <1>1, <1>2, <1>4, <1>5, <1>6, <1>7, <1>8 DEF StoreTypeOK, ComposerTypeOK

(* The rows a thread holds, and those it will hold. *)
LEMMA SomeOfSmaller ==
    ASSUME NEW f, NEW K, NEW V, SomeOf(f, K, V), NEW x
    PROVE  SomeOf([y \in DOMAIN f \ {x} |-> f[y]], K, V)
BY DEF SomeOf

(* A handler that rewrites one row in its hands still holds typed rows. *)
LEMMA SomeOfUpdated ==
    ASSUME NEW f, NEW K, NEW V, SomeOf(f, K, V), NEW x \in DOMAIN f, NEW v \in V
    PROVE  SomeOf([f EXCEPT ![x] = v], K, V)
BY DEF SomeOf

(* A thread that serves nothing holds no row and no entry. *)
LEMMA EmptyIsSomeOf == ASSUME NEW K, NEW V PROVE SomeOf(Empty, K, V)
BY DEF SomeOf, Empty

(* One thread changes its own entry of a table of partial functions. *)
LEMMA OneThread ==
    ASSUME NEW table, table = [q \in Procs |-> table[q]], NEW K, NEW V,
           \A q \in Procs : SomeOf(table[q], K, V),
           NEW p \in Procs, NEW f, SomeOf(f, K, V),
           NEW new, new = [table EXCEPT ![p] = f]
    PROVE  new = [q \in Procs |-> new[q]] /\ \A q \in Procs : SomeOf(new[q], K, V)
<1>1. new = [q \in Procs |-> IF q = p THEN f ELSE table[q]]
  OBVIOUS
<1> QED BY <1>1

(* A handler that returns leaves its thread idle and typed. *)
LEMMA FinishTyped ==
    ASSUME ProcTypeOK, NEW p \in Procs, Finish(p)
    PROVE  ProcTypeOK'
<1>1. job' \in [Procs -> Job]
  BY DEF ProcTypeOK, Finish, Idle, Job
<1>2. writes' = [q \in Procs |-> writes'[q]] /\ \A q \in Procs : SomeOf(writes'[q], RowIds, Row)
  BY EmptyIsSomeOf, OneThread DEF ProcTypeOK, Finish
<1>3. reply' = [q \in Procs |-> reply'[q]] /\ \A q \in Procs : SomeOf(reply'[q], Launches, Entry)
  BY EmptyIsSomeOf, OneThread DEF ProcTypeOK, Finish
<1> QED BY <1>1, <1>2, <1>3 DEF ProcTypeOK

(* What a stop, a resume or a deletion makes of a row and of a container. *)
LEMMA WrittenIsRow ==
    ASSUME NEW op, NEW id, NEW r \in Row, NEW c \in Container, now \in Nat
    PROVE  Written(op, id, r, c) \in Row
<1>1. c.idleUntil \in Nat /\ c.expiresAt \in Nat
  BY DEF Container
<1>2. MarkSessionStopped(r, c.idleUntil, now) \in Row
  BY <1>1, StoppedIsRow
<1>3. [r EXCEPT !.state = "deleted"] \in Row
  BY DEF Row, RowState
<1>4. [r EXCEPT !.state = "running", !.expiresAt = c.expiresAt] \in Row
  <2> DEFINE up == [r EXCEPT !.state = "running"]
  <2>1. up \in Row
    BY DEF Row, RowState
  <2>2. [up EXCEPT !.expiresAt = c.expiresAt] \in Row
    <3> HIDE DEF up
    <3> QED BY <2>1, <1>1 DEF Row
  <2> QED BY <2>2
<1> QED BY <1>2, <1>3, <1>4 DEF Written

(* What a call of tt-backend leaves is a container. *)
LEMMA EffectIsContainer ==
    ASSUME StoreTypeOK, NEW op, NEW l \in Launches
    PROVE  Effect(op, l) \in Container
BY EndsAreContainers DEF Effect, StoreTypeOK

(* A row belongs to a launch. *)
LEMMA LaunchOfTyped ==
    ASSUME NEW id \in RowIds PROVE LaunchOf(id) \in Launches
BY DEF LaunchOf, RowIds

(* A handler that goes on to save leaves a typed row in its hands. *)
LEMMA ToSaveTyped ==
    ASSUME ProcTypeOK, now \in Nat, NEW p \in Procs, NEW id \in DOMAIN writes[p],
           NEW c \in Container, ToSave(p, id, c)
    PROVE  ProcTypeOK'
<1> DEFINE r == Written(job[p].op, id, writes[p][id], c)
           f == [writes[p] EXCEPT ![id] = r]
<1>1. SomeOf(writes[p], RowIds, Row)
  BY DEF ProcTypeOK
<1>2. r \in Row
  <2>1. writes[p][id] \in Row
    BY <1>1 DEF SomeOf
  <2> QED BY <2>1, WrittenIsRow
<1>3. SomeOf(f, RowIds, Row)
  <2> HIDE DEF r
  <2> QED BY <1>1, <1>2, SomeOfUpdated
<1>4. writes' = [writes EXCEPT ![p] = f]
  BY DEF ToSave
<1>5. writes' = [q \in Procs |-> writes'[q]] /\ \A q \in Procs : SomeOf(writes'[q], RowIds, Row)
  <2> HIDE DEF f
  <2> QED BY <1>3, <1>4, OneThread DEF ProcTypeOK
<1>6. job' \in [Procs -> Job]
  BY DEF ProcTypeOK, ToSave, SetJob, Job, Ops
<1> QED BY <1>5, <1>6 DEF ProcTypeOK, ToSave

(* The handlers of the lifecycle. *)
LEMMA LifecycleTyped ==
    ASSUME StoreTypeOK, ProcTypeOK, NEW p \in Procs, LifecycleStep(p)
    PROVE  StoreTypeOK' /\ ProcTypeOK'
<1>0. /\ now \in Nat /\ row \in [RowIds -> Row] /\ cont \in [Launches -> Container]
      /\ held \subseteq RowIds
  BY DEF StoreTypeOK
<1>1. SomeOf(writes[p], RowIds, Row) /\ SomeOf(reply[p], Launches, Entry) /\ job[p] \in Job
  BY DEF ProcTypeOK
<1>2. ASSUME NEW op \in {"stop", "resume", "delete", "validate"}, NEW id \in RowIds,
             ReadRow(p, op, id)
      PROVE  StoreTypeOK' /\ ProcTypeOK'
  <2> DEFINE f == [x \in {id} |-> row[id]]
  <2>1. SomeOf(f, RowIds, Row)
    BY <1>0 DEF SomeOf
  <2>2. writes' = [q \in Procs |-> writes'[q]] /\ \A q \in Procs : SomeOf(writes'[q], RowIds, Row)
    <3>1. writes' = [writes EXCEPT ![p] = f]
      BY <1>2 DEF ReadRow
    <3> HIDE DEF f
    <3> QED BY <2>1, <3>1, OneThread DEF ProcTypeOK
  <2>3. job' \in [Procs -> Job]
    BY <1>2 DEF ReadRow, SetJob, Job, Ops, ProcTypeOK
  <2>4. StoreTypeOK'
    BY <1>0, <1>2, HoldingTyped DEF ReadRow, StoreTypeOK
  <2> QED BY <1>2, <2>2, <2>3, <2>4 DEF ReadRow, ProcTypeOK
<1>3. ASSUME NEW id \in RowIds, CallBackend(p, id)
      PROVE  StoreTypeOK' /\ ProcTypeOK'
  <2> DEFINE l == LaunchOf(id)
             c == Effect(job[p].op, l)
  <2>1. l \in Launches /\ c \in Container
    BY LaunchOfTyped, EffectIsContainer
  <2>2. StoreTypeOK'
    <3>1. cont' = [cont EXCEPT ![l] = c]
      BY <1>3 DEF CallBackend
    <3> HIDE DEF c, l
    <3> QED BY <1>0, <1>3, <2>1, <3>1, HoldingTyped DEF CallBackend, StoreTypeOK
  <2>3. ProcTypeOK'
    BY <1>0, <1>3, <2>1, FinishTyped, ToSaveTyped DEF CallBackend
  <2> QED BY <2>2, <2>3
<1>4. ASSUME NEW id \in RowIds, CallFails(p, id)
      PROVE  StoreTypeOK' /\ ProcTypeOK'
  <2> DEFINE l == LaunchOf(id)
             c == [cont[l] EXCEPT !.idleUntil = 0]
             e == Effect(job[p].op, l)
  <2>1. l \in Launches /\ e \in Container
    BY LaunchOfTyped, EffectIsContainer
  <2>2. c \in Container
    <3> HIDE DEF l
    <3> QED BY <1>0, <2>1 DEF Container
  <2>3. StoreTypeOK'
    <3>1. UNCHANGED cont \/ cont' = [cont EXCEPT ![l] = e]
      BY <1>4 DEF CallFails
    <3> HIDE DEF e, l
    <3> QED BY <1>0, <1>4, <2>1, <3>1, HoldingTyped DEF CallFails, StoreTypeOK
  <2>4. ProcTypeOK'
    BY <1>0, <1>4, <2>2, FinishTyped, ToSaveTyped DEF CallFails
  <2> QED BY <2>3, <2>4
<1>5. ASSUME NEW id \in RowIds, SaveRow(p, id)
      PROVE  StoreTypeOK' /\ ProcTypeOK'
  <2>1. writes[p][id] \in Row
    BY <1>1, <1>5 DEF SomeOf, SaveRow
  <2>2. row' \in [RowIds -> Row]
    BY <1>0, <1>5, <2>1 DEF SaveRow, Put
  <2>3. StoreTypeOK'
    BY <1>0, <1>5, <2>2, HoldingTyped DEF SaveRow, StoreTypeOK
  <2> DEFINE f == [x \in DOMAIN writes[p] \ {id} |-> writes[p][x]]
  <2>4. SomeOf(f, RowIds, Row)
    BY <1>1, SomeOfSmaller
  <2>5. writes' = [q \in Procs |-> writes'[q]] /\ \A q \in Procs : SomeOf(writes'[q], RowIds, Row)
    <3>1. writes' = [writes EXCEPT ![p] = f]
      BY <1>5 DEF SaveRow
    <3> HIDE DEF f
    <3> QED BY <2>4, <3>1, OneThread DEF ProcTypeOK
  <2> QED BY <1>5, <2>3, <2>5 DEF SaveRow, ProcTypeOK
<1>6. ASSUME NEW u \in Users, NEW o \in Orgs \cup {None}, ReadRunning(p, u, o)
      PROVE  StoreTypeOK' /\ ProcTypeOK'
  <2> DEFINE found == {id \in RowsOf(u) : /\ RunningDisplay(row[id], now)
                                          /\ o = None \/ OrgOf(id) = o}
             f == [id \in found |-> [row[id] EXCEPT !.state = "revoked"]]
  <2>1. found \subseteq RowIds
    BY DEF RowsOf
  <2>2. SomeOf(f, RowIds, Row)
    <3> HIDE DEF found
    <3>1. \A id \in found : [row[id] EXCEPT !.state = "revoked"] \in Row
      BY <1>0, <2>1 DEF Row, RowState
    <3> QED BY <2>1, <3>1 DEF SomeOf
  <2>3. writes' = [q \in Procs |-> writes'[q]] /\ \A q \in Procs : SomeOf(writes'[q], RowIds, Row)
    <3>1. writes' = [writes EXCEPT ![p] = f]
      BY <1>6 DEF ReadRunning
    <3> HIDE DEF f
    <3> QED BY <2>2, <3>1, OneThread DEF ProcTypeOK
  <2>4. job' \in [Procs -> Job]
    BY <1>6 DEF ReadRunning, SetJob, Job, Ops, ProcTypeOK
  <2>5. StoreTypeOK'
    BY <1>0, <1>6, HoldingTyped DEF ReadRunning, StoreTypeOK
  <2> QED BY <1>6, <2>3, <2>4, <2>5 DEF ReadRunning, ProcTypeOK
<1>7. ASSUME Return(p) \/ Abort(p)
      PROVE  StoreTypeOK' /\ ProcTypeOK'
  <2>1. StoreTypeOK'
    BY <1>0, <1>7, HoldingTyped DEF Return, Abort, StoreTypeOK
  <2> QED BY <1>7, <2>1, FinishTyped DEF Return, Abort
<1> QED BY <1>2, <1>3, <1>4, <1>5, <1>6, <1>7 DEF LifecycleStep

(* The sync. *)
LEMMA SyncTyped ==
    ASSUME StoreTypeOK, ProcTypeOK, NEW p \in Procs, SyncStep(p)
    PROVE  StoreTypeOK' /\ ProcTypeOK'
<1>0. /\ now \in Nat /\ row \in [RowIds -> Row] /\ cont \in [Launches -> Container]
      /\ held \subseteq RowIds
  BY DEF StoreTypeOK
<1>1. SomeOf(reply[p], Launches, Entry)
  BY DEF ProcTypeOK
<1>2. ASSUME NEW u \in Users, ListSessions(p, u)
      PROVE  StoreTypeOK' /\ ProcTypeOK'
  <2>1. PICK L \in SUBSET Listed(u) : reply' = [reply EXCEPT ![p] = [l \in L |-> cont[l]]]
    BY <1>2 DEF ListSessions
  <2> DEFINE f == [l \in L |-> cont[l]]
  <2>2. SomeOf(f, Launches, Entry)
    <3>1. \A l \in Listed(u) : l \in Launches /\ cont[l] \in Entry
      BY <1>0 DEF Listed, Container, Entry
    <3> QED BY <3>1 DEF SomeOf
  <2>3. reply' = [q \in Procs |-> reply'[q]] /\ \A q \in Procs : SomeOf(reply'[q], Launches, Entry)
    <3>1. reply' = [reply EXCEPT ![p] = f]
      BY <2>1
    <3> HIDE DEF f
    <3> QED BY <2>2, <3>1, OneThread DEF ProcTypeOK
  <2>4. job' \in [Procs -> Job]
    BY <1>2 DEF ListSessions, Job, Ops, ProcTypeOK
  <2>5. StoreTypeOK'
    BY <1>0, <1>2, HoldingTyped DEF ListSessions, StoreTypeOK
  <2> QED BY <1>2, <2>3, <2>4, <2>5 DEF ListSessions, ProcTypeOK
<1>3. ASSUME ReadRows(p)
      PROVE  StoreTypeOK' /\ ProcTypeOK'
  <2> DEFINE u == job[p].user
             api == reply[p]
             dirty == {id \in RowsOf(u) : Dirty(id, api)}
             missing == {l \in DOMAIN api :
                           /\ StatusState(api[l]) = "running"
                           /\ \A id \in RowsOf(u) : Owns(id) => LaunchOf(id) # l}
             f == [id \in dirty |-> Synced(id, api)]
             g == [l \in missing |-> api[l]]
  <2>1. \A id \in RowIds : Synced(id, api) \in Row
    <3> SUFFICES ASSUME NEW id \in RowIds PROVE Synced(id, api) \in Row
      OBVIOUS
    <3>1. CASE Matches(id, api)
      <4>1. api[LaunchOf(id)] \in Entry
        BY <1>1, <3>1 DEF Matches, SomeOf
      <4> HIDE DEF api
      <4>2. Reconcile(row[id], api[LaunchOf(id)], now) \in Row
        BY <1>0, <4>1, ReconciledIsRow
      <4> QED BY <3>1, <4>2 DEF Synced
    <3>2. CASE ~Matches(id, api)
      <4>1. [row[id] EXCEPT !.state = "deleted"] \in Row
        BY <1>0 DEF Row, RowState
      <4> HIDE DEF api
      <4> QED BY <3>2, <4>1 DEF Synced
    <3> QED BY <3>1, <3>2
  <2>2. dirty \subseteq RowIds
    BY DEF RowsOf
  <2>3. SomeOf(f, RowIds, Row)
    <3> HIDE DEF dirty, api
    <3> QED BY <2>1, <2>2 DEF SomeOf
  <2>4. missing \subseteq DOMAIN api
    OBVIOUS
  <2>5. SomeOf(g, Launches, Entry)
    <3> HIDE DEF missing
    <3> QED BY <1>1, <2>4 DEF SomeOf
  <2>6. writes' = [q \in Procs |-> writes'[q]] /\ \A q \in Procs : SomeOf(writes'[q], RowIds, Row)
    <3>1. writes' = [writes EXCEPT ![p] = f]
      BY <1>3 DEF ReadRows
    <3> HIDE DEF f
    <3> QED BY <2>3, <3>1, OneThread DEF ProcTypeOK
  <2>7. reply' = [q \in Procs |-> reply'[q]] /\ \A q \in Procs : SomeOf(reply'[q], Launches, Entry)
    <3>1. reply' = [reply EXCEPT ![p] = g]
      BY <1>3 DEF ReadRows
    <3> HIDE DEF g
    <3> QED BY <2>5, <3>1, OneThread DEF ProcTypeOK
  <2>8. job' \in [Procs -> Job]
    BY <1>3 DEF ReadRows, SetJob, Job, Ops, ProcTypeOK
  <2>9. StoreTypeOK'
    BY <1>0, <1>3, HoldingTyped DEF ReadRows, StoreTypeOK
  <2> QED BY <2>6, <2>7, <2>8, <2>9 DEF ProcTypeOK
<1>4. ASSUME NEW l \in Launches, AdoptSession(p, l)
      PROVE  StoreTypeOK' /\ ProcTypeOK'
  <2> DEFINE c == reply[p][l]
             r == [state |-> c.st, sid |-> "real", expiresAt |-> c.expiresAt,
                   known |-> FALSE]
             f == [x \in DOMAIN reply[p] \ {l} |-> reply[p][x]]
  <2>1. c \in Entry
    BY <1>1, <1>4 DEF AdoptSession, SomeOf
  <2>2. r \in Row
    <3> HIDE DEF c
    <3> QED BY <2>1 DEF Entry, Row, RowState
  <2>3. row' \in [RowIds -> Row]
    <3>1. UNCHANGED row \/ Put(<<l, "adopted">>, r)
      BY <1>4 DEF AdoptSession
    <3> HIDE DEF r
    <3> QED BY <1>0, <2>2, <3>1 DEF Put
  <2>4. StoreTypeOK'
    BY <1>0, <1>4, <2>3, HoldingTyped DEF AdoptSession, StoreTypeOK
  <2>5. SomeOf(f, Launches, Entry)
    BY <1>1, SomeOfSmaller
  <2>6. reply' = [q \in Procs |-> reply'[q]] /\ \A q \in Procs : SomeOf(reply'[q], Launches, Entry)
    <3>1. reply' = [reply EXCEPT ![p] = f]
      BY <1>4 DEF AdoptSession
    <3> HIDE DEF f
    <3> QED BY <2>5, <3>1, OneThread DEF ProcTypeOK
  <2> QED BY <1>4, <2>4, <2>6 DEF AdoptSession, ProcTypeOK
<1> QED BY <1>2, <1>3, <1>4 DEF SyncStep

(* Every reachable state is typed. *)
THEOREM SessionsTyped == Spec => []TypeOK
<1>1. Init => TypeOK
  <2> SUFFICES ASSUME Init PROVE TypeOK
    OBVIOUS
  <2>1. StoreTypeOK
    BY DEF Init, StoreInit, StoreTypeOK, NoRow, Row, RowState, Container
  <2>2. ComposerTypeOK
    BY DEF Init, ComposerInit, ComposerTypeOK, Phases
  <2>3. ProcTypeOK
    <3>1. /\ job \in [Procs -> Job]
          /\ writes = [p \in Procs |-> writes[p]]
          /\ reply = [p \in Procs |-> reply[p]]
      BY DEF Init, ProcInit, Idle, Job
    <3>2. \A p \in Procs : SomeOf(writes[p], RowIds, Row) /\ SomeOf(reply[p], Launches, Entry)
      BY EmptyIsSomeOf DEF Init, ProcInit
    <3> QED BY <3>1, <3>2 DEF ProcTypeOK
  <2> QED BY <2>1, <2>2, <2>3 DEF TypeOK
<1>2. TypeOK /\ [Next]_vars => TypeOK'
  <2> SUFFICES ASSUME TypeOK, [Next]_vars PROVE TypeOK'
    OBVIOUS
  <2>0. StoreTypeOK /\ ComposerTypeOK /\ ProcTypeOK
    BY DEF TypeOK
  <2>1. ASSUME NEW l \in Launches, LaunchStep(l), UNCHANGED procVars PROVE TypeOK'
    BY <2>0, <2>1, LaunchTyped DEF TypeOK, ProcTypeOK, procVars
  <2>2. ASSUME NEW p \in Procs, LifecycleStep(p) \/ SyncStep(p), UNCHANGED launchVars
        PROVE  TypeOK'
    BY <2>0, <2>2, LifecycleTyped, SyncTyped DEF TypeOK, ComposerTypeOK, launchVars
  <2>3. ASSUME \/ \E l \in Launches : BackendStep(l)
               \/ Tick,
               UNCHANGED <<launchVars, procVars>>
        PROVE  TypeOK'
    BY <2>0, <2>3, BackendTyped
    DEF TypeOK, ComposerTypeOK, ProcTypeOK, launchVars, procVars
  <2>4. CASE UNCHANGED vars
    BY <2>0, <2>4 DEF TypeOK, StoreTypeOK, ComposerTypeOK, ProcTypeOK, vars, storeVars,
                      launchVars, procVars
  <2> QED BY <2>1, <2>2, <2>3, <2>4 DEF Next
<1> QED BY <1>1, <1>2, PTL DEF Spec

-----------------------------------------------------------------------------
(***************************************************************************)
(* The reservation protocol.  SumIsCurrent needs that one launch per scope  *)
(* is in its transaction, and that what is held is still charged; that a    *)
(* launch adds a new item to the ledger needs that it has not held its row  *)
(* before.                                                                 *)
(***************************************************************************)
OneAdmission ==
    \A l, m \in Launches :
        (/\ phase[l] \in InTransaction /\ phase[m] \in InTransaction
         /\ Request[l].scope = Request[m].scope) => l = m

HeldIsCharged == \A id \in held : Counted(id)

HeldIsAdmitted ==
    \A l \in Launches :
        phase[l] \in {"idle", "waiting"} \cup InTransaction => Mine(l) \notin held

Protocol == OneAdmission /\ HeldIsCharged /\ HeldIsAdmitted /\ SumIsCurrent

(* The steps that admit nothing only drop charges. *)
LEMMA OthersDrop ==
    ASSUME NEW new \in SUBSET RowIds, Holding(new)
    PROVE  held' \subseteq held \cup new /\ HeldIsCharged'
BY DEF Holding, HeldIsCharged, Counted

(* A scope sums all that it holds. *)
LEMMA HeldIsSummed ==
    ASSUME TypeOK, HeldIsCharged, NEW l \in Launches
    PROVE  HeldBy(Request[l].scope) \subseteq ScopeRows(l)
<1> SUFFICES ASSUME NEW id \in held, RowScope[id] = Request[l].scope
             PROVE  id \in ScopeRows(l)
  BY DEF HeldBy
<1>1. id \in RowIds /\ Counted(id) /\ LaunchOf(id) \in Launches
  BY LaunchOfTyped DEF TypeOK, StoreTypeOK, HeldIsCharged
<1>2. Request[LaunchOf(id)].scope = Request[l].scope
  BY <1>1 DEF RowScope
<1>3. UserOf(id) \in Population(Request[l].scope)
  BY <1>1, <1>2, RequestAssumption DEF UserOf
<1> QED BY <1>1, <1>3 DEF ScopeRows

(* A step of another handler, of tt-backend or of the clock. *)
LEMMA ElsewhereKeeps ==
    ASSUME Protocol, Holding({}), UNCHANGED launchVars
    PROVE  Protocol' /\ held' \subseteq held
<1>1. held' \subseteq held /\ HeldIsCharged'
  BY OthersDrop
<1>2. OneAdmission' /\ HeldIsAdmitted'
  BY <1>1 DEF Protocol, OneAdmission, HeldIsAdmitted, launchVars
<1>3. SumIsCurrent'
  BY <1>1 DEF Protocol, SumIsCurrent, HeldBy, launchVars
<1> QED BY <1>1, <1>2, <1>3 DEF Protocol

(* A launch enters its transaction through the lock only. *)
LEMMA OneAdmissionKept ==
    ASSUME TypeOK, OneAdmission, NEW l \in Launches, NEW p, GoTo(l, p),
           \/ p \notin InTransaction
           \/ phase[l] \in InTransaction
           \/ Holder(Request[l].scope) = {}
    PROVE  OneAdmission'
<1> SUFFICES ASSUME NEW m \in Launches, NEW n \in Launches,
                    phase'[m] \in InTransaction, phase'[n] \in InTransaction,
                    Request[m].scope = Request[n].scope
             PROVE  m = n
  BY DEF OneAdmission
<1>1. phase' = [phase EXCEPT ![l] = p] /\ DOMAIN phase = Launches
  BY DEF GoTo, TypeOK, ComposerTypeOK
<1>2. CASE phase[l] \in InTransaction \/ p \notin InTransaction
  BY <1>1, <1>2 DEF OneAdmission
<1>3. CASE Holder(Request[l].scope) = {}
  BY <1>1, <1>3 DEF OneAdmission, Holder
<1> QED BY <1>2, <1>3

(* The launches that did not move keep a current sum. *)
LEMMA SumIsCurrentKept ==
    ASSUME TypeOK, SumIsCurrent, NEW l \in Launches, NEW p, GoTo(l, p),
           held' \subseteq held, NEW S, seen' = [seen EXCEPT ![l] = S],
           p \in {"read", "summed"} => HeldBy(Request[l].scope)' \subseteq S
    PROVE  SumIsCurrent'
<1> SUFFICES ASSUME NEW m \in Launches, phase'[m] \in {"read", "summed"}
             PROVE  HeldBy(Request[m].scope)' \subseteq seen'[m]
  BY DEF SumIsCurrent
<1>1. /\ phase' = [phase EXCEPT ![l] = p] /\ DOMAIN phase = Launches
      /\ seen' = [seen EXCEPT ![l] = S] /\ DOMAIN seen = Launches
  BY DEF GoTo, TypeOK, ComposerTypeOK
<1>2. CASE m = l
  BY <1>1, <1>2
<1>3. CASE m # l
  BY <1>1, <1>3 DEF SumIsCurrent, HeldBy
<1> QED BY <1>2, <1>3

(* A launch that moves without admitting. *)
LEMMA MoveKeeps ==
    ASSUME TypeOK, Protocol, NEW l \in Launches, NEW p, GoTo(l, p), Holding({}),
           \/ p \notin InTransaction
           \/ phase[l] \in InTransaction
           \/ phase[l] = "waiting" /\ Holder(Request[l].scope) = {},
           p = "waiting" => phase[l] = "idle",
           p # "idle",
           NEW S, seen' = [seen EXCEPT ![l] = S],
           p \in {"read", "summed"} => HeldBy(Request[l].scope)' \subseteq S
    PROVE  Protocol' /\ held' \subseteq held
<1>1. held' \subseteq held /\ HeldIsCharged'
  BY OthersDrop
<1>2. OneAdmission'
  BY OneAdmissionKept DEF Protocol
<1>3. HeldIsAdmitted'
  BY <1>1 DEF Protocol, HeldIsAdmitted, Mine, GoTo, TypeOK, ComposerTypeOK
<1>4. SumIsCurrent'
  BY <1>1, SumIsCurrentKept DEF Protocol
<1> QED BY <1>1, <1>2, <1>3, <1>4 DEF Protocol

(* The SELECT ... FOR UPDATE of a launch: its sum is current when it is made. *)
LEMMA ReadKeeps ==
    ASSUME TypeOK, Protocol, NEW l \in Launches, ReadScope(l) \/ LockRows(l)
    PROVE  Protocol' /\ held' \subseteq held
<1>1. Holding({})
  BY DEF ReadScope, LockRows
<1>2. held' \subseteq held /\ HeldIsCharged
  BY <1>1, OthersDrop DEF Protocol
<1>3. HeldBy(Request[l].scope)' \subseteq HeldBy(Request[l].scope)
  BY <1>2 DEF HeldBy
<1>4. CASE ReadScope(l)
  <2>1. HeldBy(Request[l].scope)' \subseteq ScopeRows(l)
    BY <1>2, <1>3, HeldIsSummed
  <2>2. /\ GoTo(l, "read") /\ phase[l] \in InTransaction
        /\ seen' = [seen EXCEPT ![l] = ScopeRows(l)]
    BY <1>4 DEF ReadScope, InTransaction
  <2> QED BY <1>1, <2>1, <2>2, MoveKeeps
<1>5. CASE LockRows(l)
  <2> DEFINE S == {id \in seen[l] : Counted(id)}
  <2>1. HeldBy(Request[l].scope)' \subseteq S
    BY <1>2, <1>3, <1>5 DEF LockRows, Protocol, SumIsCurrent, HeldIsCharged, HeldBy
  <2>2. /\ GoTo(l, "summed") /\ phase[l] \in InTransaction
        /\ seen' = [seen EXCEPT ![l] = S]
    BY <1>5 DEF LockRows, InTransaction, TypeOK, ComposerTypeOK
  <2> HIDE DEF S
  <2> QED BY <1>1, <2>1, <2>2, MoveKeeps
<1> QED BY <1>4, <1>5

(* A launch that leaves its transaction without admitting keeps Protocol. *)
LEMMA LeaveKeeps ==
    ASSUME TypeOK, Protocol, NEW l \in Launches, NEW p \in Ended, Leave(l, p), Holding({})
    PROVE  Protocol' /\ held' \subseteq held
<1>1. p \notin InTransaction /\ p \notin {"idle", "waiting", "read", "summed"}
  BY DEF InTransaction, Ended
<1>2. GoTo(l, p) /\ seen' = [seen EXCEPT ![l] = {}]
  BY DEF Leave
<1> QED BY <1>1, <1>2, MoveKeeps

(* Every step of a launch other than its admission keeps Protocol. *)
LEMMA QuietLaunchKeeps ==
    ASSUME TypeOK, Protocol, NEW l \in Launches, LaunchStep(l), ~Admit(l)
    PROVE  Protocol' /\ held' \subseteq held
<1>0. seen = [seen EXCEPT ![l] = seen[l]]
  BY DEF TypeOK, ComposerTypeOK
<1>1. CASE Begin(l)
  BY <1>0, <1>1, MoveKeeps DEF Begin, InTransaction
<1>2. CASE Lock(l)
  BY <1>0, <1>2, MoveKeeps DEF Lock
<1>3. CASE ReadScope(l) \/ LockRows(l)
  BY <1>3, ReadKeeps
<1>4. CASE Reject(l)
  BY <1>4, LeaveKeeps DEF Reject, Ended
<1>5. CASE PostSession(l)
  BY <1>0, <1>5, MoveKeeps DEF PostSession, InTransaction
<1>6. CASE Answered(l)
  BY <1>0, <1>6, MoveKeeps DEF Answered, InTransaction
<1>7. CASE Finalize(l)
  BY <1>7, LeaveKeeps DEF Finalize, Ended
<1>8. CASE Release(l)
  BY <1>8, LeaveKeeps DEF Release, Ended
<1>9. CASE Crash(l)
  BY <1>9, LeaveKeeps DEF Crash, Ended
<1> QED BY <1>1, <1>2, <1>3, <1>4, <1>5, <1>6, <1>7, <1>8, <1>9 DEF LaunchStep

(* What is assumed of budgets holds of the rows. *)
LEMMA RowsAreItems ==
    Proved!LedgerAssumption /\ Proved!QuoteAssumption /\ Proved!WindowAssumption
<1>1. \A id \in RowIds : LaunchOf(id) \in Launches
  BY LaunchOfTyped
<1>2. Proved!LedgerAssumption
  BY <1>1, RequestAssumption DEF Proved!LedgerAssumption, RowCPU, RowMem, RowPlan
<1>3. Proved!QuoteAssumption
  BY DEF Proved!QuoteAssumption
<1>4. Proved!WindowAssumption
  BY ClockAssumption DEF Proved!WindowAssumption
<1> QED BY <1>2, <1>3, <1>4

(* The laws of Total hold of them. *)
LEMMA RowTotals ==
    ASSUME NEW S, IsFiniteSet(S), NEW cost, \A x \in S : cost[x] \in Nat, NEW T \in SUBSET S
    PROVE  /\ Total(S, cost) \in Nat /\ Total(T, cost) \in Nat
           /\ Total(T, cost) <= Total(S, cost)
<1>1. \A Z : Proved!Total(Z, cost) = Total(Z, cost)
  BY DEF Total, Units, Cardinality, Proved!Total, Proved!Units, Proved!Cardinality
<1>2. Proved!IsFiniteSet(S)
  BY DEF IsFiniteSet, Proved!IsFiniteSet
<1> QED BY <1>1, <1>2, RowsAreItems, Proved!TotalMonotone

(* The admission.  What the scope holds is within what was summed, so the   *)
(* request fits beside it, and the others of the scope are not summing.    *)
LEMMA FitsBesideFewer ==
    ASSUME NEW l \in Launches, NEW S \in SUBSET RowIds, NEW T \in SUBSET S,
           FitsBeside(l, S)
    PROVE  FitsBeside(l, T)
<1> DEFINE r == Request[l]
<1>1. /\ r.cpu \in Nat /\ r.mem \in Nat /\ r.maxCPU \in Int /\ r.maxMem \in Int
      /\ \A id \in RowIds : RowCPU[id] \in Nat /\ RowMem[id] \in Nat
  BY RequestAssumption, LaunchOfTyped DEF RowCPU, RowMem
<1>2. IsFiniteSet(S)
  <2>1. IsFiniteSet({"reserved", "adopted"})
    <3>1. IsFiniteSet({"reserved"} \cup {"adopted"})
      BY FS_Singleton, FS_AddElement
    <3>2. {"reserved"} \cup {"adopted"} = {"reserved", "adopted"}
      OBVIOUS
    <3> QED BY <3>1, <3>2
  <2>2. IsFiniteSet(RowIds)
    BY <2>1, LaunchesAssumption, FS_Product DEF RowIds
  <2> QED BY <2>2, FS_Subset
<1>3. /\ Total(S, RowCPU) \in Nat /\ Total(T, RowCPU) \in Nat
      /\ Total(S, RowMem) \in Nat /\ Total(T, RowMem) \in Nat
      /\ Total(T, RowCPU) <= Total(S, RowCPU) /\ Total(T, RowMem) <= Total(S, RowMem)
  BY <1>1, <1>2, RowTotals
<1>4. /\ ~Exceeds(r.maxCPU, Total(S, RowCPU), r.cpu)
      /\ ~Exceeds(r.maxMem, Total(S, RowMem), r.mem)
  BY DEF FitsBeside, Allowed, Reason, Usage
<1>5. /\ ~Exceeds(r.maxCPU, Total(T, RowCPU), r.cpu)
      /\ ~Exceeds(r.maxMem, Total(T, RowMem), r.mem)
  <2> HIDE DEF r
  <2> QED BY <1>1, <1>3, <1>4 DEF Exceeds
<1> QED BY <1>5 DEF FitsBeside, Allowed, Reason, Usage

(* The insert of an admission keeps Protocol. *)
LEMMA AdmitKeeps ==
    ASSUME TypeOK, Protocol, NEW l \in Launches, Admit(l)
    PROVE  Protocol' /\ held' \subseteq held \cup {Mine(l)}
<1>1. held' \subseteq held \cup {Mine(l)} /\ HeldIsCharged'
  BY MineIsRowId, OthersDrop DEF Admit
<1>2. OneAdmission'
  <2>1. GoTo(l, "reserved") /\ "reserved" \notin InTransaction
    BY DEF Admit, InTransaction
  <2> QED BY <2>1, OneAdmissionKept DEF Protocol
<1>3. HeldIsAdmitted'
  BY <1>1 DEF Protocol, HeldIsAdmitted, Admit, GoTo, Mine, InTransaction, TypeOK,
              ComposerTypeOK
<1>4. SumIsCurrent'
  <2> SUFFICES ASSUME NEW m \in Launches, phase'[m] \in {"read", "summed"}
               PROVE  HeldBy(Request[m].scope)' \subseteq seen'[m]
    BY DEF SumIsCurrent
  <2>1. m # l /\ phase[m] = phase'[m] /\ seen'[m] = seen[m]
    BY DEF Admit, GoTo, TypeOK, ComposerTypeOK
  <2>2. Request[m].scope # Request[l].scope
    BY <2>1 DEF Protocol, OneAdmission, Admit, InTransaction
  <2>3. RowScope[Mine(l)] = Request[l].scope
    BY MineIsRowId DEF RowScope, Mine, LaunchOf
  <2>4. HeldBy(Request[m].scope)' \subseteq HeldBy(Request[m].scope)
    BY <1>1, <2>2, <2>3 DEF HeldBy
  <2> QED BY <2>1, <2>4 DEF Protocol, SumIsCurrent
<1> QED BY <1>1, <1>2, <1>3, <1>4 DEF Protocol

(* The ledger counts as the engine does. *)
LEMMA LedgerTotal ==
    ASSUME NEW S, NEW cost
    PROVE  Ledger!Total(S, cost) = Total(S, cost)
BY DEF Ledger!Total, Ledger!Units, Ledger!Cardinality, Total, Units, Cardinality

(* An admission is one of the ledger, unless the reservation is overdue when *)
(* it is inserted and charges nothing.                                     *)
LEMMA AdmitIsLedgerAdmit ==
    ASSUME TypeOK, Protocol, NEW l \in Launches, Admit(l)
    PROVE  held' \subseteq held \/ Ledger!Admit(Mine(l))
<1> DEFINE x == Mine(l)
<1>1. x \in RowIds /\ x \notin held
  BY MineIsRowId DEF Protocol, HeldIsAdmitted, Admit, InTransaction
<1>2. \A id \in held : id # x => OccupiesSlot(row'[id], now')
  BY DEF Admit, Put, Protocol, HeldIsCharged, Counted, TypeOK, StoreTypeOK
<1>3. held' \subseteq held \/ held' = held \cup {x}
  BY <1>1, <1>2 DEF Admit, Holding
<1>4. /\ RowCPU[x] = Request[l].cpu /\ RowMem[x] = Request[l].mem
      /\ RowScope[x] = Request[l].scope
      /\ RowPlan[x] = [maxCPU |-> Request[l].maxCPU, maxMem |-> Request[l].maxMem]
  BY <1>1 DEF Mine, LaunchOf, RowCPU, RowMem, RowScope, RowPlan
<1>5. FitsBeside(l, HeldBy(Request[l].scope))
  <2>1. FitsBeside(l, seen[l]) /\ HeldBy(Request[l].scope) \subseteq seen[l]
    BY DEF Admit, Protocol, SumIsCurrent
  <2>2. seen[l] \in SUBSET RowIds
    BY DEF TypeOK, ComposerTypeOK
  <2> QED BY <2>1, <2>2, FitsBesideFewer
<1>6. Ledger!Fits(x)
  <2>1. Ledger!ChargedTo(RowScope[x]) = HeldBy(Request[l].scope)
    BY <1>4 DEF Ledger!ChargedTo, HeldBy
  <2> HIDE DEF x
  <2> QED BY <1>4, <1>5, <2>1, LedgerTotal
      DEF Ledger!Fits, Ledger!Allowed, Ledger!Reason, Ledger!Exceeds, Ledger!Usage,
          FitsBeside, Allowed, Reason, Exceeds, Usage
<1> QED BY <1>1, <1>3, <1>6 DEF Ledger!Admit

-----------------------------------------------------------------------------
(* The invariant, and the step of the ledger that every step is. *)
LEMMA ProtocolStep ==
    ASSUME TypeOK, Protocol, [Next]_vars
    PROVE  Protocol' /\ [Ledger!Next]_held
<1>1. held' \subseteq held => Ledger!Next
  BY DEF Ledger!Next, Ledger!Drop
<1>2. ASSUME NEW l \in Launches, LaunchStep(l)
      PROVE  Protocol' /\ [Ledger!Next]_held
  <2>1. CASE Admit(l)
    BY <1>1, <2>1, MineIsRowId, AdmitKeeps, AdmitIsLedgerAdmit DEF Ledger!Next
  <2>2. CASE ~Admit(l)
    BY <1>1, <1>2, <2>2, QuietLaunchKeeps
  <2> QED BY <2>1, <2>2
<1>3. ASSUME NEW p \in Procs, LifecycleStep(p) \/ SyncStep(p), UNCHANGED launchVars
      PROVE  Protocol' /\ [Ledger!Next]_held
  <2>1. Holding({})
    BY <1>3 DEF LifecycleStep, ReadRow, CallBackend, CallFails, SaveRow, ReadRunning,
                Return, Abort, SyncStep, ListSessions, ReadRows, AdoptSession
  <2> QED BY <1>1, <1>3, <2>1, ElsewhereKeeps
<1>4. ASSUME (\E l \in Launches : BackendStep(l)) \/ Tick, UNCHANGED launchVars
      PROVE  Protocol' /\ [Ledger!Next]_held
  BY <1>1, <1>4, ElsewhereKeeps DEF BackendStep, Tick
<1>5. CASE UNCHANGED vars
  BY <1>5 DEF Protocol, OneAdmission, HeldIsCharged, HeldIsAdmitted, SumIsCurrent,
              HeldBy, Counted, vars, storeVars, launchVars
<1> QED BY <1>2, <1>3, <1>4, <1>5 DEF Next

(* An empty table satisfies Protocol. *)
LEMMA ProtocolInit == Init => Protocol
BY DEF Init, StoreInit, ComposerInit, Protocol, OneAdmission, HeldIsCharged,
       HeldIsAdmitted, SumIsCurrent, HeldBy, InTransaction

(* Every reachable state of the reservation protocol satisfies Protocol. *)
THEOREM ProtocolHolds == Spec => []Protocol
<1>1. TypeOK /\ Protocol /\ [Next]_vars => Protocol'
  BY ProtocolStep
<1> QED BY <1>1, ProtocolInit, SessionsTyped, PTL DEF Spec

(* The sum a launch judges by is current. *)
THEOREM SumsAreCurrent == Spec => []SumIsCurrent
<1>1. Protocol => SumIsCurrent
  BY DEF Protocol
<1> QED BY <1>1, ProtocolHolds, PTL

(* The reservation protocol implements the ledger. *)
THEOREM ProtocolImplementsLedger == Spec => LedgerSpec
<1>1. Init => Ledger!Init
  BY DEF Init, StoreInit, Ledger!Init
<1>2. TypeOK /\ Protocol /\ [Next]_vars => [Ledger!Next]_held
  BY ProtocolStep
<1> QED BY <1>1, <1>2, SessionsTyped, ProtocolHolds, PTL
    DEF Spec, LedgerSpec, Ledger!Spec

(* The rows that a scope admitted and still holds fit in a cap of theirs.   *)
(* Proof: they are the items of a ledger, which keeps every part of a scope *)
(* within a cap.                                                           *)
THEOREM AdmissionWithinCap == Spec => []AdmittedWithinCap
<1>1. Proved!LedgerAssumption /\ Proved!QuoteAssumption /\ Proved!WindowAssumption
  BY RowsAreItems
<1>2. Ledger!Spec => Proved!Spec
  <2>1. Ledger!Init => Proved!Init
    BY DEF Ledger!Init, Proved!Init
  <2>2. [Ledger!Next]_held => [Proved!Next]_held
    BY DEF Ledger!Next, Ledger!Drop, Ledger!Admit, Ledger!Fits, Ledger!ChargedTo,
           Ledger!Allowed, Ledger!Reason, Ledger!Exceeds, Ledger!Usage, Ledger!Total,
           Ledger!Units, Ledger!Cardinality,
           Proved!Next, Proved!Drop, Proved!Admit, Proved!Fits, Proved!ChargedTo,
           Proved!Allowed, Proved!Reason, Proved!Exceeds, Proved!Usage, Proved!Total,
           Proved!Units, Proved!Cardinality
  <2> QED BY <2>1, <2>2, PTL DEF Ledger!Spec, Proved!Spec
<1>3. Proved!Spec => []Proved!WithinCap
  BY <1>1, Proved!ScopesWithinCap
<1>4. Proved!WithinCap => AdmittedWithinCap
  <2>1. ASSUME NEW S, NEW cost PROVE Proved!Total(S, cost) = Ledger!Total(S, cost)
    BY DEF Ledger!Total, Ledger!Units, Ledger!Cardinality, Proved!Total, Proved!Units,
           Proved!Cardinality
  <2>2. ASSUME NEW x, NEW S, Proved!Within(x, S) PROVE Ledger!Within(x, S)
    BY <2>1, <2>2 DEF Proved!Within, Ledger!Within
  <2>3. \A s : Proved!ChargedTo(s) = HeldBy(s)
    BY DEF Proved!ChargedTo, HeldBy
  <2> QED BY <2>2, <2>3 DEF Proved!WithinCap, AdmittedWithinCap, HeldBy
<1> QED BY <1>2, <1>3, <1>4, ProtocolImplementsLedger, PTL DEF LedgerSpec

-----------------------------------------------------------------------------
(***************************************************************************)
(* Leases.  Every expiry that is stored, held by a thread or told by        *)
(* tt-backend is at most one window away: what a stale copy brings back was *)
(* within a window of an earlier time.                                     *)
(***************************************************************************)
Leased(e, t) == \E window \in {SessionLen, IdleLen, ReservationTTL} : e <= t + window
LeasedEntry(c, t) == Leased(c.expiresAt, t) /\ Leased(c.idleUntil, t)

StoreLeased ==
    /\ \A id \in RowIds : Leased(row[id].expiresAt, now)
    /\ \A l \in Launches : LeasedEntry(cont[l], now)

HandsLeased ==
    \A p \in Procs :
        /\ \A id \in DOMAIN writes[p] : Leased(writes[p][id].expiresAt, now)
        /\ \A l \in DOMAIN reply[p] : LeasedEntry(reply[p][l], now)

Lease == StoreLeased /\ HandsLeased /\ \A l \in Launches : Leased(expires[l], now)

(* The windows that begin now, and time passing. *)
LEMMA LeaseLaws ==
    ASSUME NEW t \in Nat
    PROVE  /\ Leased(0, t) /\ Leased(t + SessionLen, t)
           /\ Leased(t + IdleLen, t) /\ Leased(t + ReservationTTL, t)
           /\ \A e \in Nat : Leased(e, t) => Leased(e, t + 1)
BY ClockAssumption, ComposerAssumption DEF Leased

(* markSessionStopped leaves a lease. *)
LEMMA StoppedLeased ==
    ASSUME NEW r \in Row, NEW d \in Nat, NEW t \in Nat, Leased(r.expiresAt, t), Leased(d, t)
    PROVE  Leased(MarkSessionStopped(r, d, t).expiresAt, t)
<1> DEFINE until == IF d > 0 THEN d ELSE IF r.known THEN t + SessionLen ELSE r.expiresAt
<1>1. Leased(until, t)
  BY LeaseLaws
<1>2. MarkSessionStopped(r, d, t).expiresAt = until
  BY DEF MarkSessionStopped, Row
<1> QED BY <1>1, <1>2

(* And so does a sync pass. *)
LEMMA ReconciledLeased ==
    ASSUME NEW r \in Row, NEW c \in Entry, NEW t \in Nat,
           Leased(r.expiresAt, t), LeasedEntry(c, t)
    PROVE  Leased(Reconcile(r, c, t).expiresAt, t)
<1> DEFINE dated == ExpireByDate(AdoptStatus(r.state, c), c, t)
           datedRow == [r EXCEPT !.state = dated]
<1>1. dated \in RowState
  BY DEF ExpireByDate, AdoptStatus, StatusState, Row, RowState
<1>2. datedRow \in Row /\ datedRow.expiresAt = r.expiresAt
  BY <1>1 DEF Row
<1>3. [datedRow EXCEPT !.state = c.st].expiresAt = r.expiresAt
  <2> HIDE DEF datedRow
  <2> QED BY <1>2 DEF Row
<1>4. c.idleUntil \in Nat
  BY DEF Entry
<1>5. Leased(MarkSessionStopped(datedRow, c.idleUntil, t).expiresAt, t)
  <2> HIDE DEF datedRow
  <2> QED BY <1>2, <1>4, StoppedLeased DEF LeasedEntry
<1> QED BY <1>2, <1>3, <1>5 DEF Reconcile

(* What a stop, a resume or a deletion writes. *)
LEMMA WrittenLeased ==
    ASSUME NEW op, NEW id, NEW r \in Row, NEW c \in Container, now \in Nat,
           Leased(r.expiresAt, now), LeasedEntry(c, now)
    PROVE  Leased(Written(op, id, r, c).expiresAt, now)
<1>1. c.idleUntil \in Nat /\ c.expiresAt \in Nat
  BY DEF Container
<1>2. Leased(MarkSessionStopped(r, c.idleUntil, now).expiresAt, now)
  BY <1>1, StoppedLeased DEF LeasedEntry
<1>3. [r EXCEPT !.state = "deleted"].expiresAt = r.expiresAt
  BY DEF Row
<1>4. [r EXCEPT !.state = "running", !.expiresAt = c.expiresAt].expiresAt = c.expiresAt
  BY DEF Row
<1> QED BY <1>2, <1>3, <1>4 DEF Written, LeasedEntry

(* The containers that a stop, a deletion and a start leave. *)
LEMMA EndsLeased ==
    ASSUME StoreTypeOK, StoreLeased, NEW l \in Launches
    PROVE  /\ LeasedEntry(Stopped(l), now) /\ LeasedEntry(Destroyed, now)
           /\ LeasedEntry(Started, now)
           /\ \A op : LeasedEntry(Effect(op, l), now)
<1>1. /\ Leased(0, now) /\ Leased(now + SessionLen, now) /\ Leased(now + IdleLen, now)
      /\ LeasedEntry(cont[l], now)
  BY LeaseLaws DEF StoreTypeOK, StoreLeased
<1>2. LeasedEntry(Stopped(l), now)
  <2>1. /\ Stopped(l).expiresAt = cont[l].expiresAt
        /\ Stopped(l).idleUntil = now + IdleLen
    BY DEF Stopped, StoreTypeOK, Container
  <2> QED BY <1>1, <2>1 DEF LeasedEntry
<1>3. LeasedEntry(Destroyed, now) /\ LeasedEntry(Started, now)
  BY <1>1 DEF LeasedEntry, Destroyed, Started
<1> QED BY <1>1, <1>2, <1>3 DEF Effect

(* One thread changes what it holds. *)
LEMMA HandsKept ==
    ASSUME ProcTypeOK, HandsLeased, now' = now, NEW p \in Procs,
           NEW f, writes' = [writes EXCEPT ![p] = f],
           NEW g, reply' = [reply EXCEPT ![p] = g],
           \A id \in DOMAIN f : Leased(f[id].expiresAt, now),
           \A l \in DOMAIN g : LeasedEntry(g[l], now)
    PROVE  HandsLeased'
<1>1. \A q \in Procs : /\ writes'[q] = IF q = p THEN f ELSE writes[q]
                       /\ reply'[q] = IF q = p THEN g ELSE reply[q]
  BY DEF ProcTypeOK
<1> QED BY <1>1 DEF HandsLeased

(* tt-backend and the clock. *)
LEMMA BackendKeepsLease ==
    ASSUME TypeOK, Lease, UNCHANGED <<launchVars, procVars>>,
           (\E l \in Launches : BackendStep(l)) \/ Tick
    PROVE  Lease'
<1>0. StoreTypeOK /\ ComposerTypeOK /\ ProcTypeOK /\ StoreLeased /\ HandsLeased
  BY DEF TypeOK, Lease
<1>1. CASE Tick
  <2>1. /\ now' = now + 1 /\ now \in Nat /\ UNCHANGED <<row, cont, writes, reply, expires>>
    BY <1>0, <1>1 DEF Tick, StoreTypeOK, launchVars, procVars
  <2>2. /\ \A id \in RowIds : row[id].expiresAt \in Nat
        /\ \A l \in Launches : /\ cont[l].expiresAt \in Nat /\ cont[l].idleUntil \in Nat
                               /\ expires[l] \in Nat
    BY <1>0 DEF StoreTypeOK, ComposerTypeOK, Row, Container
  <2>3. \A p \in Procs :
           /\ \A id \in DOMAIN writes[p] : writes[p][id].expiresAt \in Nat
           /\ \A l \in DOMAIN reply[p] : reply[p][l].expiresAt \in Nat /\ reply[p][l].idleUntil \in Nat
    BY <1>0 DEF ProcTypeOK, SomeOf, Row, Entry
  <2> QED BY <2>1, <2>2, <2>3, LeaseLaws DEF Lease, StoreLeased, HandsLeased, LeasedEntry
<1>2. ASSUME NEW l \in Launches, BackendStep(l) PROVE Lease'
  <2>1. /\ LeasedEntry(Stopped(l), now) /\ LeasedEntry(Destroyed, now)
        /\ LeasedEntry(Started, now)
    BY <1>0, EndsLeased
  <2>2. LeasedEntry([cont[l] EXCEPT !.st = "gone"], now)
    BY <1>0 DEF StoreTypeOK, Container, StoreLeased, LeasedEntry
  <2>3. \A m \in Launches : LeasedEntry(cont'[m], now)
    BY <1>0, <1>2, <2>1, <2>2
    DEF BackendStep, Boot, AutoStop, Reap, Purge, StoreTypeOK, StoreLeased
  <2>4. UNCHANGED <<now, row, writes, reply, expires>>
    BY <1>2 DEF BackendStep, launchVars, procVars
  <2> QED BY <2>3, <2>4 DEF Lease, StoreLeased, HandsLeased
<1> QED BY <1>1, <1>2

(* The launches. *)
LEMMA LaunchKeepsLease ==
    ASSUME TypeOK, Lease, NEW l \in Launches, LaunchStep(l), UNCHANGED procVars
    PROVE  Lease'
<1>0. StoreTypeOK /\ ComposerTypeOK /\ ProcTypeOK /\ StoreLeased /\ HandsLeased
  BY DEF TypeOK, Lease
<1>1. now' = now /\ now \in Nat
  BY <1>0 DEF StoreTypeOK, LaunchStep, Begin, Lock, ReadScope, LockRows, Admit, Reject,
              PostSession, Answered, Finalize, Release, Crash
<1>2. HandsLeased'
  BY <1>0, <1>1 DEF HandsLeased, procVars
<1>3. Leased(0, now) /\ Leased(now + ReservationTTL, now) /\ Leased(cont[l].expiresAt, now)
      /\ Leased(expires[l], now)
  BY <1>1, LeaseLaws DEF Lease, StoreLeased, LeasedEntry
<1>4. \A m \in Launches : Leased(expires'[m], now)
  BY <1>0, <1>3 DEF ComposerTypeOK, Lease, LaunchStep, Begin, Lock, ReadScope, LockRows,
     Admit, Reject, PostSession, Answered, Finalize, Release, Crash, Leave
<1>5. \A id \in RowIds : Leased(row'[id].expiresAt, now)
  <2>1. NoRow.expiresAt = 0 /\ Reservation(l).expiresAt = expires[l]
    BY DEF NoRow, Reservation
  <2>2. CASE UNCHANGED row
    BY <1>0, <2>2 DEF StoreLeased
  <2>3. CASE Admit(l) \/ Release(l)
    BY <1>0, <1>3, <2>1, <2>3, MineIsRowId DEF StoreTypeOK, StoreLeased, Admit, Release, Put
  <2>4. CASE Finalize(l)
    BY <1>0, <1>3, <2>1, <2>4, MineIsRowId DEF StoreTypeOK, StoreLeased, Finalize
  <2> QED
    BY <2>2, <2>3, <2>4 DEF LaunchStep, Begin, Lock, ReadScope, LockRows, Reject,
       PostSession, Answered, Crash
<1>6. \A m \in Launches : LeasedEntry(cont'[m], now)
  <2>1. CASE UNCHANGED cont
    BY <1>0, <2>1 DEF StoreLeased
  <2>2. CASE PostSession(l)
    BY <1>0, <2>2 DEF PostSession, StoreTypeOK, Container, StoreLeased, LeasedEntry
  <2> QED BY <2>1, <2>2 DEF LaunchStep, Begin, Lock, ReadScope, LockRows, Admit, Reject,
             Answered, Finalize, Release, Crash
<1> QED BY <1>1, <1>2, <1>4, <1>5, <1>6 DEF Lease, StoreLeased

(* A handler that goes on to save holds a leased row. *)
LEMMA ToSaveLeased ==
    ASSUME StoreTypeOK, ProcTypeOK, HandsLeased, now' = now, NEW p \in Procs,
           NEW id \in DOMAIN writes[p], NEW c \in Container, LeasedEntry(c, now), ToSave(p, id, c)
    PROVE  HandsLeased'
<1> DEFINE r == Written(job[p].op, id, writes[p][id], c)
           f == [writes[p] EXCEPT ![id] = r]
<1>1. writes[p][id] \in Row /\ now \in Nat
  BY DEF ProcTypeOK, SomeOf, StoreTypeOK
<1>2. Leased(r.expiresAt, now)
  BY <1>1, WrittenLeased DEF HandsLeased
<1>3. \A x \in DOMAIN f : Leased(f[x].expiresAt, now)
  <2>1. \A x \in DOMAIN writes[p] : Leased(writes[p][x].expiresAt, now)
    BY DEF HandsLeased
  <2> HIDE DEF r
  <2> QED BY <1>2, <2>1
<1>4. writes' = [writes EXCEPT ![p] = f] /\ reply' = [reply EXCEPT ![p] = reply[p]]
  BY DEF ToSave, ProcTypeOK
<1> HIDE DEF f
<1> QED BY <1>3, <1>4, HandsKept DEF HandsLeased

(* A handler that returns holds nothing. *)
LEMMA FinishLeased ==
    ASSUME ProcTypeOK, HandsLeased, now' = now, NEW p \in Procs, Finish(p)
    PROVE  HandsLeased'
<1>1. DOMAIN Empty = {}
  BY DEF Empty
<1> QED BY <1>1, HandsKept DEF Finish

(* The lifecycle's handlers. *)
LEMMA LifecycleKeepsLease ==
    ASSUME TypeOK, Lease, NEW p \in Procs, LifecycleStep(p), UNCHANGED launchVars
    PROVE  Lease'
<1>0. /\ StoreTypeOK /\ ProcTypeOK /\ StoreLeased /\ HandsLeased
      /\ now \in Nat /\ row \in [RowIds -> Row] /\ cont \in [Launches -> Container]
  BY DEF TypeOK, StoreTypeOK, Lease
<1>1. now' = now
  BY DEF LifecycleStep, ReadRow, CallBackend, CallFails, SaveRow, ReadRunning, Return, Abort
<1>2. SUFFICES StoreLeased' /\ HandsLeased'
  BY <1>1 DEF Lease, launchVars
<1>3. ASSUME UNCHANGED <<row, cont>> PROVE StoreLeased'
  BY <1>0, <1>1, <1>3 DEF StoreLeased
<1>4. reply = [reply EXCEPT ![p] = reply[p]] /\ \A l \in DOMAIN reply[p] : LeasedEntry(reply[p][l], now)
  BY <1>0 DEF ProcTypeOK, HandsLeased
<1>5. ASSUME NEW op, NEW id \in RowIds, ReadRow(p, op, id)
      PROVE  StoreLeased' /\ HandsLeased'
  <2> DEFINE f == [x \in {id} |-> row[id]]
  <2>1. \A x \in DOMAIN f : Leased(f[x].expiresAt, now)
    BY <1>0 DEF StoreLeased
  <2>2. writes' = [writes EXCEPT ![p] = f] /\ reply' = [reply EXCEPT ![p] = reply[p]]
    BY <1>4, <1>5 DEF ReadRow
  <2> HIDE DEF f
  <2>3. HandsLeased'
    BY <1>0, <1>1, <1>4, <2>1, <2>2, HandsKept
  <2> QED BY <1>3, <1>5, <2>3 DEF ReadRow
<1>6. ASSUME NEW id \in RowIds, CallBackend(p, id) \/ CallFails(p, id)
      PROVE  StoreLeased' /\ HandsLeased'
  <2> DEFINE l == LaunchOf(id)
             e == Effect(job[p].op, l)
             c == [cont[l] EXCEPT !.idleUntil = 0]
  <2>1. l \in Launches /\ e \in Container /\ LeasedEntry(e, now) /\ LeasedEntry(cont[l], now)
    BY <1>0, LaunchOfTyped, EffectIsContainer, EndsLeased DEF StoreLeased
  <2>2. c \in Container /\ LeasedEntry(c, now)
    <3> HIDE DEF l
    <3>1. c \in Container /\ c.idleUntil = 0 /\ c.expiresAt = cont[l].expiresAt
      BY <1>0, <2>1 DEF Container
    <3> QED BY <1>0, <2>1, <3>1, LeaseLaws DEF LeasedEntry
  <2>3. /\ UNCHANGED row
        /\ UNCHANGED cont \/ cont' = [cont EXCEPT ![l] = e]
        /\ Finish(p) \/ ToSave(p, id, e) \/ ToSave(p, id, c)
        /\ id \in DOMAIN writes[p]
    BY <1>6 DEF CallBackend, CallFails
  <2> HIDE DEF l, e, c
  <2>4. StoreLeased'
    BY <1>0, <1>1, <2>1, <2>3 DEF StoreLeased
  <2>5. HandsLeased'
    BY <1>0, <1>1, <2>1, <2>2, <2>3, FinishLeased, ToSaveLeased
  <2> QED BY <2>4, <2>5
<1>7. ASSUME NEW id \in RowIds, SaveRow(p, id)
      PROVE  StoreLeased' /\ HandsLeased'
  <2> DEFINE f == [x \in DOMAIN writes[p] \ {id} |-> writes[p][x]]
  <2>1. \A x \in DOMAIN writes[p] : Leased(writes[p][x].expiresAt, now)
    BY <1>0 DEF HandsLeased
  <2>2. id \in DOMAIN writes[p] /\ cont' = cont /\ (UNCHANGED row \/ Put(id, writes[p][id]))
    BY <1>7 DEF SaveRow
  <2>3. StoreLeased'
    BY <1>0, <1>1, <2>1, <2>2 DEF StoreLeased, Put
  <2>4. \A x \in DOMAIN f : Leased(f[x].expiresAt, now)
    BY <2>1
  <2>5. writes' = [writes EXCEPT ![p] = f] /\ reply' = [reply EXCEPT ![p] = reply[p]]
    BY <1>4, <1>7 DEF SaveRow
  <2> HIDE DEF f
  <2> QED BY <1>0, <1>1, <1>4, <2>3, <2>4, <2>5, HandsKept
<1>8. ASSUME NEW u \in Users, NEW o, ReadRunning(p, u, o)
      PROVE  StoreLeased' /\ HandsLeased'
  <2> DEFINE found == {id \in RowsOf(u) : /\ RunningDisplay(row[id], now)
                                          /\ o = None \/ OrgOf(id) = o}
             f == [id \in found |-> [row[id] EXCEPT !.state = "revoked"]]
  <2>1. found \subseteq RowIds
    BY DEF RowsOf
  <2>2. \A id \in RowIds : [row[id] EXCEPT !.state = "revoked"].expiresAt = row[id].expiresAt
    BY <1>0 DEF Row
  <2>3. \A x \in DOMAIN f : Leased(f[x].expiresAt, now)
    <3> HIDE DEF found
    <3> QED BY <1>0, <2>1, <2>2 DEF StoreLeased
  <2>4. writes' = [writes EXCEPT ![p] = f] /\ reply' = [reply EXCEPT ![p] = reply[p]]
    BY <1>4, <1>8 DEF ReadRunning
  <2> HIDE DEF f
  <2>5. HandsLeased'
    BY <1>0, <1>1, <1>4, <2>3, <2>4, HandsKept
  <2> QED BY <1>3, <1>8, <2>5 DEF ReadRunning
<1>9. ASSUME Return(p) \/ Abort(p)
      PROVE  StoreLeased' /\ HandsLeased'
  BY <1>0, <1>1, <1>3, <1>9, FinishLeased DEF Return, Abort
<1> QED BY <1>5, <1>6, <1>7, <1>8, <1>9 DEF LifecycleStep

(* The sync. *)
LEMMA SyncKeepsLease ==
    ASSUME TypeOK, Lease, NEW p \in Procs, SyncStep(p), UNCHANGED launchVars
    PROVE  Lease'
<1>0. /\ StoreTypeOK /\ ProcTypeOK /\ StoreLeased /\ HandsLeased
      /\ now \in Nat /\ row \in [RowIds -> Row] /\ cont \in [Launches -> Container]
  BY DEF TypeOK, StoreTypeOK, Lease
<1>1. now' = now
  BY DEF SyncStep, ListSessions, ReadRows, AdoptSession
<1>2. SUFFICES StoreLeased' /\ HandsLeased'
  BY <1>1 DEF Lease, launchVars
<1>3. /\ SomeOf(reply[p], Launches, Entry)
      /\ writes = [writes EXCEPT ![p] = writes[p]]
      /\ \A x \in DOMAIN writes[p] : Leased(writes[p][x].expiresAt, now)
      /\ \A l \in DOMAIN reply[p] : LeasedEntry(reply[p][l], now)
  BY <1>0 DEF ProcTypeOK, HandsLeased
<1>4. ASSUME NEW u \in Users, ListSessions(p, u)
      PROVE  StoreLeased' /\ HandsLeased'
  <2>1. PICK L \in SUBSET Listed(u) : reply' = [reply EXCEPT ![p] = [l \in L |-> cont[l]]]
    BY <1>4 DEF ListSessions
  <2> DEFINE g == [l \in L |-> cont[l]]
  <2>2. \A l \in DOMAIN g : LeasedEntry(g[l], now)
    BY <1>0 DEF Listed, StoreLeased
  <2>3. reply' = [reply EXCEPT ![p] = g] /\ writes' = [writes EXCEPT ![p] = writes[p]]
    BY <1>3, <1>4, <2>1 DEF ListSessions
  <2> HIDE DEF g
  <2>4. HandsLeased'
    BY <1>0, <1>1, <1>3, <2>2, <2>3, HandsKept
  <2>5. StoreLeased'
    BY <1>0, <1>1, <1>4 DEF ListSessions, StoreLeased
  <2> QED BY <2>4, <2>5
<1>5. ASSUME ReadRows(p)
      PROVE  StoreLeased' /\ HandsLeased'
  <2> DEFINE u == job[p].user
             api == reply[p]
             dirty == {id \in RowsOf(u) : Dirty(id, api)}
             missing == {l \in DOMAIN api :
                           /\ StatusState(api[l]) = "running"
                           /\ \A id \in RowsOf(u) : Owns(id) => LaunchOf(id) # l}
             f == [id \in dirty |-> Synced(id, api)]
             g == [l \in missing |-> api[l]]
  <2>1. \A id \in RowIds : Leased(Synced(id, api).expiresAt, now)
    <3> SUFFICES ASSUME NEW id \in RowIds PROVE Leased(Synced(id, api).expiresAt, now)
      OBVIOUS
    <3>0. row[id] \in Row /\ Leased(row[id].expiresAt, now)
      BY <1>0 DEF StoreLeased
    <3>1. CASE Matches(id, api)
      <4>1. api[LaunchOf(id)] \in Entry /\ LeasedEntry(api[LaunchOf(id)], now)
        BY <1>3, <3>1 DEF Matches, SomeOf
      <4> HIDE DEF api
      <4> QED BY <1>0, <3>0, <3>1, <4>1, ReconciledLeased DEF Synced
    <3>2. CASE ~Matches(id, api)
      <4>1. [row[id] EXCEPT !.state = "deleted"].expiresAt = row[id].expiresAt
        BY <3>0 DEF Row
      <4> HIDE DEF api
      <4> QED BY <3>0, <3>2, <4>1 DEF Synced
    <3> QED BY <3>1, <3>2
  <2>2. dirty \subseteq RowIds /\ missing \subseteq DOMAIN api
    BY DEF RowsOf
  <2>3. \A x \in DOMAIN f : Leased(f[x].expiresAt, now)
    <3> HIDE DEF dirty, api
    <3> QED BY <2>1, <2>2
  <2>4. \A l \in DOMAIN g : LeasedEntry(g[l], now)
    <3> HIDE DEF missing
    <3> QED BY <1>3, <2>2
  <2>5. writes' = [writes EXCEPT ![p] = f] /\ reply' = [reply EXCEPT ![p] = g]
    BY <1>5 DEF ReadRows
  <2> HIDE DEF f, g
  <2>6. HandsLeased'
    BY <1>0, <1>1, <2>3, <2>4, <2>5, HandsKept
  <2>7. StoreLeased'
    BY <1>0, <1>1, <1>5 DEF ReadRows, StoreLeased
  <2> QED BY <2>6, <2>7
<1>6. ASSUME NEW l \in Launches, AdoptSession(p, l)
      PROVE  StoreLeased' /\ HandsLeased'
  <2> DEFINE c == reply[p][l]
             r == [state |-> c.st, sid |-> "real", expiresAt |-> c.expiresAt,
                   known |-> FALSE]
             g == [x \in DOMAIN reply[p] \ {l} |-> reply[p][x]]
  <2>1. Leased(r.expiresAt, now)
    BY <1>3, <1>6 DEF AdoptSession, LeasedEntry
  <2>2. StoreLeased'
    <3>1. (UNCHANGED row \/ Put(<<l, "adopted">>, r)) /\ UNCHANGED cont
      BY <1>6 DEF AdoptSession
    <3> HIDE DEF r
    <3> QED BY <1>0, <1>1, <2>1, <3>1 DEF Put, StoreLeased
  <2>3. \A x \in DOMAIN g : LeasedEntry(g[x], now)
    BY <1>3
  <2>4. reply' = [reply EXCEPT ![p] = g] /\ writes' = [writes EXCEPT ![p] = writes[p]]
    BY <1>3, <1>6 DEF AdoptSession
  <2> HIDE DEF g
  <2> QED BY <1>0, <1>1, <1>3, <2>2, <2>3, <2>4, HandsKept
<1> QED BY <1>4, <1>5, <1>6 DEF SyncStep

(* Budget is leased: no stale copy, resumption or stop gives more than one  *)
(* window.                                                                 *)
THEOREM BudgetLeasesEnd == Spec => []BudgetIsLeased
<1>1. Init => Lease
  <2> SUFFICES ASSUME Init PROVE Lease
    OBVIOUS
  <2>1. now = 0 /\ Leased(0, now)
    BY LeaseLaws DEF Init, StoreInit
  <2>2. StoreLeased /\ \A l \in Launches : Leased(expires[l], now)
    BY <2>1 DEF Init, StoreInit, ComposerInit, StoreLeased, NoRow, LeasedEntry
  <2>3. HandsLeased
    BY DEF Init, ProcInit, HandsLeased, Empty
  <2> QED BY <2>2, <2>3 DEF Lease
<1>2. TypeOK /\ Lease /\ [Next]_vars => Lease'
  <2> SUFFICES ASSUME TypeOK, Lease, [Next]_vars PROVE Lease'
    OBVIOUS
  <2>1. CASE UNCHANGED vars
    BY <2>1 DEF Lease, StoreLeased, HandsLeased, vars, storeVars, launchVars, procVars
  <2> QED BY <2>1, LaunchKeepsLease, LifecycleKeepsLease, SyncKeepsLease, BackendKeepsLease
          DEF Next
<1>3. Lease => BudgetIsLeased
  <2> SUFFICES ASSUME Lease, NEW id \in RowIds
               PROVE  \E window \in {SessionLen, IdleLen, ReservationTTL} :
                         row[id].expiresAt <= now + window
    BY DEF BudgetIsLeased
  <2> QED BY DEF Lease, StoreLeased, Leased
<1> QED BY <1>1, <1>2, <1>3, SessionsTyped, PTL DEF Spec

-----------------------------------------------------------------------------
(***************************************************************************)
(* One charge per session.  A row that owns no session_id is a placeholder  *)
(* or one that was deleted, the rows that a sync adopts own one, and of the *)
(* two rows of a launch at most one does; a stale copy is never saved as a  *)
(* reservation.  Before its POST nobody knows of the container of a launch. *)
(***************************************************************************)
Adopted(l) == <<l, "adopted">>

Proper(id, r) ==
    /\ r.sid = "reserving" => r.state \in {"absent", "starting", "deleted"}
    /\ r.sid = "reserving" /\ id = Adopted(LaunchOf(id)) => r.state = "absent"
    /\ r.sid = "real" => r.state # "starting"

Unposted(l) == phase[l] \in {"idle", "waiting", "reserved"} \cup InTransaction

RowsProper ==
    /\ \A id \in RowIds : Proper(id, row[id]) /\ ~(Owns(id) /\ Owns(Twin(id)))
    /\ \A l \in Launches : Unposted(l) => ~Present(Adopted(l))

(* Only rows that own their session_id are read for a stop or a resumption. *)
CopyProper(step, id, r) ==
    Proper(id, r) /\ r.state # "starting" /\ (step = "read" => r.sid = "real")

CopiesProper ==
    \A p \in Procs :
        /\ \A id \in DOMAIN writes[p] : CopyProper(job[p].step, id, writes[p][id])
        /\ \A l \in Launches : Unposted(l) =>
              l \notin DOMAIN reply[p] /\ Adopted(l) \notin DOMAIN writes[p]

BackendUnaware == \A l \in Launches : Unposted(l) => cont[l].st = "none"

Placed == RowsProper /\ CopiesProper /\ BackendUnaware /\ NoStrayReservation

(* The two rows of a launch. *)
LEMMA TwoRows ==
    /\ \A l \in Launches : /\ Mine(l) \in RowIds /\ Adopted(l) \in RowIds
                           /\ LaunchOf(Mine(l)) = l /\ LaunchOf(Adopted(l)) = l
                           /\ Twin(Mine(l)) = Adopted(l) /\ Twin(Adopted(l)) = Mine(l)
                           /\ Mine(l) # Adopted(l)
    /\ \A id \in RowIds : /\ LaunchOf(id) \in Launches /\ Twin(id) \in RowIds
                          /\ Twin(Twin(id)) = id /\ Twin(id) # id
                          /\ id = Mine(LaunchOf(id)) \/ id = Adopted(LaunchOf(id))
BY DEF RowIds, Mine, Adopted, LaunchOf, Twin

(* The rules of TerminalRow keep the session_id, and reserve nothing. *)
LEMMA StoppedOwns ==
    ASSUME NEW r \in Row, NEW d, NEW t
    PROVE  MarkSessionStopped(r, d, t).sid = r.sid /\ MarkSessionStopped(r, d, t).state = "stopped"
BY DEF MarkSessionStopped, Row

LEMMA ReconciledOwns ==
    ASSUME NEW r \in Row, NEW c \in Entry, NEW t \in Nat, r.state # "starting"
    PROVE  Reconcile(r, c, t).sid = r.sid /\ Reconcile(r, c, t).state # "starting"
<1> DEFINE dated == ExpireByDate(AdoptStatus(r.state, c), c, t)
           datedRow == [r EXCEPT !.state = dated]
<1>1. dated \in RowState /\ dated # "starting" /\ c.st # "starting"
  BY DEF ExpireByDate, AdoptStatus, StatusState, Row, RowState, Entry
<1>2. datedRow \in Row /\ datedRow.sid = r.sid /\ datedRow.state = dated
  BY <1>1 DEF Row
<1>3. [datedRow EXCEPT !.state = c.st].sid = r.sid /\ [datedRow EXCEPT !.state = c.st].state = c.st
  <2> HIDE DEF datedRow
  <2> QED BY <1>2 DEF Row
<1>4. /\ MarkSessionStopped(datedRow, c.idleUntil, t).sid = r.sid
      /\ MarkSessionStopped(datedRow, c.idleUntil, t).state = "stopped"
  <2> HIDE DEF datedRow
  <2> QED BY <1>2, StoppedOwns
<1> QED BY <1>1, <1>2, <1>3, <1>4 DEF Reconcile

LEMMA WrittenOwns ==
    ASSUME NEW op, NEW id, NEW r \in Row, NEW c
    PROVE  /\ Written(op, id, r, c).sid = r.sid
           /\ Written(op, id, r, c).state \in {"stopped", "running", "deleted"}
BY StoppedOwns DEF Written, Row

(* A handler, or a sync, writes one row. *)
LEMMA PutProper ==
    ASSUME TypeOK, Placed, UNCHANGED phase, NEW id \in RowIds, NEW r \in Row,
           row' = [row EXCEPT ![id] = r],
           Proper(id, r), r.state # "starting",
           r.sid = "real" => ~Owns(Twin(id)),
           id = Adopted(LaunchOf(id)) => ~Unposted(LaunchOf(id))
    PROVE  RowsProper' /\ NoStrayReservation'
<1>1. \A x \in RowIds : row'[x] = IF x = id THEN r ELSE row[x]
  BY DEF TypeOK, StoreTypeOK
<1>2. \A x \in RowIds : Proper(x, row'[x]) /\ ~(Owns(x) /\ Owns(Twin(x)))'
  <2> SUFFICES ASSUME NEW x \in RowIds
               PROVE  Proper(x, row'[x]) /\ ~(Owns(x) /\ Owns(Twin(x)))'
    OBVIOUS
  <2>1. Twin(x) \in RowIds /\ Twin(Twin(x)) = x
    BY TwoRows
  <2>2. Proper(x, row[x]) /\ ~(Owns(x) /\ Owns(Twin(x)))
    BY DEF Placed, RowsProper
  <2>3. CASE x = id
    <3>1. Twin(x) # id
      BY <2>3, TwoRows
    <3> QED BY <1>1, <2>1, <2>3, <3>1 DEF Owns, Present
  <2>4. CASE x # id /\ Twin(x) = id
    BY <1>1, <2>1, <2>2, <2>4 DEF Owns, Present
  <2>5. CASE x # id /\ Twin(x) # id
    BY <1>1, <2>1, <2>2, <2>5 DEF Owns, Present
  <2> QED BY <2>3, <2>4, <2>5
<1>3. \A l \in Launches : Unposted(l)' => ~Present(Adopted(l))'
  <2> SUFFICES ASSUME NEW l \in Launches, Unposted(l) PROVE ~Present(Adopted(l))'
    BY DEF Unposted
  <2>1. Adopted(l) \in RowIds /\ LaunchOf(Adopted(l)) = l /\ ~Present(Adopted(l))
    BY TwoRows DEF Placed, RowsProper
  <2>2. Adopted(l) # id
    BY <2>1
  <2> QED BY <1>1, <2>1, <2>2 DEF Present
<1> QED BY <1>1, <1>2, <1>3 DEF RowsProper, NoStrayReservation, Placed

(* And what is left alone. *)
LEMMA RowsKept ==
    ASSUME Placed, UNCHANGED <<row, phase>>
    PROVE  RowsProper' /\ NoStrayReservation'
BY DEF Placed, RowsProper, NoStrayReservation, Unposted, Owns, Present

(* One thread changes what it holds. *)
LEMMA CopiesKept ==
    ASSUME ProcTypeOK, CopiesProper, UNCHANGED phase, NEW p \in Procs,
           NEW f, writes' = [writes EXCEPT ![p] = f],
           NEW g, reply' = [reply EXCEPT ![p] = g],
           \A q \in Procs : q # p => job'[q] = job[q],
           \A id \in DOMAIN f : CopyProper(job'[p].step, id, f[id]),
           \A l \in Launches : Unposted(l) => l \notin DOMAIN g /\ Adopted(l) \notin DOMAIN f
    PROVE  CopiesProper'
<1>1. \A q \in Procs : /\ writes'[q] = IF q = p THEN f ELSE writes[q]
                       /\ reply'[q] = IF q = p THEN g ELSE reply[q]
  BY DEF ProcTypeOK
<1>2. \A l : Unposted(l)' <=> Unposted(l)
  BY DEF Unposted
<1>3. SUFFICES ASSUME NEW q \in Procs
               PROVE  /\ \A id \in DOMAIN writes'[q] : CopyProper(job'[q].step, id, writes'[q][id])
                      /\ \A l \in Launches : Unposted(l) =>
                            l \notin DOMAIN reply'[q] /\ Adopted(l) \notin DOMAIN writes'[q]
  BY <1>2 DEF CopiesProper
<1>4. CASE q = p
  BY <1>1, <1>4
<1>5. CASE q # p
  BY <1>1, <1>5 DEF CopiesProper
<1> QED BY <1>4, <1>5

(* A handler that returns. *)
LEMMA FinishProper ==
    ASSUME ProcTypeOK, CopiesProper, UNCHANGED phase, NEW p \in Procs, Finish(p)
    PROVE  CopiesProper'
<1>1. DOMAIN Empty = {} /\ \A q \in Procs : q # p => job'[q] = job[q]
  BY DEF Empty, Finish, ProcTypeOK
<1> QED BY <1>1, CopiesKept DEF Finish

(* A handler that goes on to save. *)
LEMMA ToSaveProper ==
    ASSUME TypeOK, CopiesProper, UNCHANGED phase, NEW p \in Procs,
           job[p].step = "read", NEW id \in DOMAIN writes[p], NEW c, ToSave(p, id, c)
    PROVE  CopiesProper'
<1> DEFINE r == Written(job[p].op, id, writes[p][id], c)
           f == [writes[p] EXCEPT ![id] = r]
<1>0. ProcTypeOK
  BY DEF TypeOK
<1>1. writes[p][id] \in Row /\ CopyProper("read", id, writes[p][id])
  BY <1>0 DEF ProcTypeOK, SomeOf, CopiesProper
<1>2. r.sid = "real" /\ r.state \in {"stopped", "running", "deleted"}
  BY <1>1, WrittenOwns DEF CopyProper
<1>3. CopyProper("save", id, r)
  BY <1>2 DEF CopyProper, Proper
<1>4. job'[p].step = "save" /\ \A q \in Procs : q # p => job'[q] = job[q]
  BY <1>0 DEF ToSave, SetJob, ProcTypeOK
<1>5. \A x \in DOMAIN writes[p] : CopyProper("save", x, writes[p][x])
  BY DEF CopiesProper, CopyProper
<1>6. \A x \in DOMAIN f : CopyProper("save", x, f[x])
  <2> HIDE DEF r
  <2> QED BY <1>3, <1>5
<1>7. writes' = [writes EXCEPT ![p] = f] /\ reply' = [reply EXCEPT ![p] = reply[p]]
  BY <1>0 DEF ToSave, ProcTypeOK
<1>8. \A l \in Launches : Unposted(l) => l \notin DOMAIN reply[p] /\ Adopted(l) \notin DOMAIN f
  BY DEF CopiesProper
<1> HIDE DEF f
<1> QED BY <1>0, <1>4, <1>6, <1>7, <1>8, CopiesKept

(* The lifecycle's handlers. *)
LEMMA LifecyclePlaced ==
    ASSUME TypeOK, Placed, NEW p \in Procs, LifecycleStep(p), UNCHANGED launchVars
    PROVE  Placed'
<1>0. /\ StoreTypeOK /\ ProcTypeOK /\ RowsProper /\ CopiesProper /\ BackendUnaware
      /\ row \in [RowIds -> Row] /\ cont \in [Launches -> Container] /\ now \in Nat
  BY DEF TypeOK, StoreTypeOK, Placed
<1>1. UNCHANGED phase /\ \A l : Unposted(l)' <=> Unposted(l)
  BY DEF launchVars, Unposted
<1>2. ASSUME UNCHANGED cont PROVE BackendUnaware'
  BY <1>0, <1>1, <1>2 DEF BackendUnaware
<1>3. /\ reply = [reply EXCEPT ![p] = reply[p]]
      /\ \A l \in Launches : Unposted(l) => /\ l \notin DOMAIN reply[p]
                                            /\ Adopted(l) \notin DOMAIN writes[p]
                                            /\ ~Present(Adopted(l))
  BY <1>0 DEF ProcTypeOK, CopiesProper, RowsProper
<1>4. ASSUME NEW op, NEW id \in RowIds, ReadRow(p, op, id)
      PROVE  Placed'
  <2> DEFINE f == [x \in {id} |-> row[id]]
  <2>1. CopyProper("read", id, row[id]) /\ Present(id)
    BY <1>0, <1>4 DEF ReadRow, Owns, RowsProper, CopyProper, Proper
  <2>2. /\ \A x \in DOMAIN f : CopyProper("read", x, f[x])
        /\ \A l \in Launches : Unposted(l) => Adopted(l) \notin DOMAIN f
    BY <1>3, <2>1
  <2>3. writes' = [writes EXCEPT ![p] = f] /\ reply' = [reply EXCEPT ![p] = reply[p]]
    BY <1>3, <1>4 DEF ReadRow
  <2>4. job'[p].step = "read" /\ \A q \in Procs : q # p => job'[q] = job[q]
    BY <1>0, <1>4 DEF ReadRow, SetJob, ProcTypeOK
  <2> HIDE DEF f
  <2>5. CopiesProper'
    <3>1. \A x \in DOMAIN f : CopyProper(job'[p].step, x, f[x])
      BY <2>2, <2>4, Zenon
    <3> QED BY <1>0, <1>1, <1>3, <2>2, <2>3, <2>4, <3>1, CopiesKept
  <2>6. UNCHANGED <<row, cont>>
    BY <1>4 DEF ReadRow
  <2> QED BY <1>1, <1>2, <2>5, <2>6, RowsKept DEF Placed
<1>5. ASSUME NEW id \in RowIds, CallBackend(p, id) \/ CallFails(p, id)
      PROVE  Placed'
  <2> DEFINE l == LaunchOf(id)
  <2>1. /\ UNCHANGED row
        /\ job[p].step = "read" /\ id \in DOMAIN writes[p]
        /\ Finish(p) \/ \E c : ToSave(p, id, c)
    BY <1>5 DEF CallBackend, CallFails
  <2>2. UNCHANGED cont \/ (Live(l) /\ \E e : cont' = [cont EXCEPT ![l] = e])
    BY <1>0, <1>5 DEF CallBackend, CallFails, Effect
  <2>3. BackendUnaware'
    <3>1. l \in Launches
      BY TwoRows
    <3> HIDE DEF l
    <3> QED BY <1>0, <1>1, <2>2, <3>1 DEF BackendUnaware, Live
  <2>4. CopiesProper'
    BY <1>0, <1>1, <2>1, FinishProper, ToSaveProper
  <2> QED BY <1>1, <2>1, <2>3, <2>4, RowsKept DEF Placed
<1>6. ASSUME NEW id \in RowIds, SaveRow(p, id)
      PROVE  Placed'
  <2> DEFINE f == [x \in DOMAIN writes[p] \ {id} |-> writes[p][x]]
             r == writes[p][id]
  <2>1. id \in DOMAIN writes[p] /\ job[p].step = "save" /\ UNCHANGED <<cont, job, reply>>
    BY <1>6 DEF SaveRow
  <2>2. \A x \in DOMAIN writes[p] : CopyProper(job[p].step, x, writes[p][x])
    BY <1>0 DEF CopiesProper
  <2>3. r \in Row /\ Proper(id, r) /\ r.state # "starting"
    BY <1>0, <2>1, <2>2 DEF ProcTypeOK, SomeOf, CopyProper
  <2>4. id = Adopted(LaunchOf(id)) => ~Unposted(LaunchOf(id))
    BY <1>3, <2>1, TwoRows
  <2>5. UNCHANGED row \/ (row' = [row EXCEPT ![id] = r] /\ ~(r.sid = "real" /\ Owns(Twin(id))))
    BY <1>6 DEF SaveRow, Put
  <2>6. RowsProper' /\ NoStrayReservation'
    <3> HIDE DEF r
    <3> QED BY <1>1, <2>3, <2>4, <2>5, PutProper, RowsKept
  <2>7. writes' = [writes EXCEPT ![p] = f] /\ reply' = [reply EXCEPT ![p] = reply[p]]
    BY <1>3, <1>6 DEF SaveRow
  <2>8. /\ \A x \in DOMAIN f : CopyProper(job'[p].step, x, f[x])
        /\ DOMAIN f \subseteq DOMAIN writes[p]
    BY <2>1, <2>2
  <2> HIDE DEF f
  <2>9. CopiesProper'
    BY <1>0, <1>1, <1>3, <2>1, <2>7, <2>8, CopiesKept
  <2> QED BY <1>2, <2>1, <2>6, <2>9 DEF Placed
<1>7. ASSUME NEW u \in Users, NEW o, ReadRunning(p, u, o)
      PROVE  Placed'
  <2> DEFINE found == {id \in RowsOf(u) : /\ RunningDisplay(row[id], now)
                                          /\ o = None \/ OrgOf(id) = o}
             f == [id \in found |-> [row[id] EXCEPT !.state = "revoked"]]
  <2>1. \A id \in found : id \in RowIds /\ Present(id) /\ row[id].state = "running"
    BY DEF RowsOf, RunningDisplay
  <2>2. \A id \in found : CopyProper("save", id, [row[id] EXCEPT !.state = "revoked"])
    <3> SUFFICES ASSUME NEW id \in found
                 PROVE  CopyProper("save", id, [row[id] EXCEPT !.state = "revoked"])
      OBVIOUS
    <3>1. row[id] \in Row /\ Proper(id, row[id]) /\ row[id].state = "running"
      BY <1>0, <2>1 DEF RowsProper
    <3>2. row[id].sid = "real"
      BY <3>1 DEF Row, Proper
    <3> QED BY <3>1, <3>2 DEF Row, CopyProper, Proper
  <2>3. /\ \A x \in DOMAIN f : CopyProper("save", x, f[x])
        /\ \A l \in Launches : Unposted(l) => Adopted(l) \notin DOMAIN f
    <3> HIDE DEF found
    <3> QED BY <1>3, <2>1, <2>2
  <2>4. writes' = [writes EXCEPT ![p] = f] /\ reply' = [reply EXCEPT ![p] = reply[p]]
    BY <1>3, <1>7 DEF ReadRunning
  <2>5. job'[p].step = "save" /\ \A q \in Procs : q # p => job'[q] = job[q]
    BY <1>0, <1>7 DEF ReadRunning, SetJob, ProcTypeOK
  <2> HIDE DEF f
  <2>6. CopiesProper'
    <3>1. \A x \in DOMAIN f : CopyProper(job'[p].step, x, f[x])
      BY <2>3, <2>5, Zenon
    <3> QED BY <1>0, <1>1, <1>3, <2>3, <2>4, <2>5, <3>1, CopiesKept
  <2>7. UNCHANGED <<row, cont>>
    BY <1>7 DEF ReadRunning
  <2> QED BY <1>1, <1>2, <2>6, <2>7, RowsKept DEF Placed
<1>8. ASSUME Return(p) \/ Abort(p)
      PROVE  Placed'
  BY <1>0, <1>1, <1>2, <1>8, FinishProper, RowsKept DEF Return, Abort, Placed
<1> QED BY <1>4, <1>5, <1>6, <1>7, <1>8 DEF LifecycleStep

(* The sync. *)
LEMMA SyncPlaced ==
    ASSUME TypeOK, Placed, NEW p \in Procs, SyncStep(p), UNCHANGED launchVars
    PROVE  Placed'
<1>0. /\ StoreTypeOK /\ ProcTypeOK /\ RowsProper /\ CopiesProper /\ BackendUnaware
      /\ row \in [RowIds -> Row] /\ cont \in [Launches -> Container] /\ now \in Nat
  BY DEF TypeOK, StoreTypeOK, Placed
<1>1. UNCHANGED phase /\ \A l : Unposted(l)' <=> Unposted(l)
  BY DEF launchVars, Unposted
<1>2. BackendUnaware'
  <2>1. UNCHANGED cont
    BY DEF SyncStep, ListSessions, ReadRows, AdoptSession
  <2> QED BY <1>0, <1>1, <2>1 DEF BackendUnaware
<1>3. /\ writes = [writes EXCEPT ![p] = writes[p]]
      /\ SomeOf(reply[p], Launches, Entry)
      /\ \A x \in DOMAIN writes[p] : CopyProper(job[p].step, x, writes[p][x])
      /\ \A l \in Launches : Unposted(l) => /\ l \notin DOMAIN reply[p]
                                            /\ Adopted(l) \notin DOMAIN writes[p]
                                            /\ ~Present(Adopted(l))
  BY <1>0 DEF ProcTypeOK, CopiesProper, RowsProper
<1>4. ASSUME NEW u \in Users, ListSessions(p, u)
      PROVE  Placed'
  <2>1. PICK L \in SUBSET Listed(u) : reply' = [reply EXCEPT ![p] = [l \in L |-> cont[l]]]
    BY <1>4 DEF ListSessions
  <2> DEFINE g == [l \in L |-> cont[l]]
  <2>2. \A l \in Launches : Unposted(l) => l \notin DOMAIN g
    BY <1>0 DEF Listed, BackendUnaware
  <2>3. reply' = [reply EXCEPT ![p] = g] /\ writes' = [writes EXCEPT ![p] = writes[p]]
    BY <1>3, <1>4, <2>1 DEF ListSessions
  <2>4. job'[p].step = "listed" /\ \A q \in Procs : q # p => job'[q] = job[q]
    BY <1>0, <1>4 DEF ListSessions, ProcTypeOK
  <2>5. \A x \in DOMAIN writes[p] : CopyProper("listed", x, writes[p][x])
    BY <1>3 DEF CopyProper
  <2> HIDE DEF g
  <2>6. CopiesProper'
    <3>1. \A x \in DOMAIN writes[p] : CopyProper(job'[p].step, x, writes[p][x])
      BY <2>4, <2>5, Zenon
    <3> QED BY <1>0, <1>1, <1>3, <2>2, <2>3, <2>4, <2>5, <3>1, CopiesKept
  <2>7. UNCHANGED row
    BY <1>4 DEF ListSessions
  <2> QED BY <1>1, <1>2, <2>6, <2>7, RowsKept DEF Placed
<1>5. ASSUME ReadRows(p)
      PROVE  Placed'
  <2> DEFINE u == job[p].user
             api == reply[p]
             dirty == {id \in RowsOf(u) : Dirty(id, api)}
             missing == {l \in DOMAIN api :
                           /\ StatusState(api[l]) = "running"
                           /\ \A id \in RowsOf(u) : Owns(id) => LaunchOf(id) # l}
             f == [id \in dirty |-> Synced(id, api)]
             g == [l \in missing |-> api[l]]
  <2>1. ASSUME NEW id \in RowIds, Present(id) PROVE CopyProper("save", id, Synced(id, api))
    <3>0. row[id] \in Row /\ Proper(id, row[id]) /\ row[id].state # "absent"
      BY <1>0, <2>1 DEF RowsProper, Present
    <3>1. CASE Matches(id, api)
      <4>1. api[LaunchOf(id)] \in Entry /\ row[id].sid = "real" /\ row[id].state # "starting"
        BY <1>3, <3>0, <3>1 DEF Matches, SomeOf, Proper
      <4> HIDE DEF api
      <4>2. /\ Reconcile(row[id], api[LaunchOf(id)], now).sid = "real"
            /\ Reconcile(row[id], api[LaunchOf(id)], now).state # "starting"
        BY <1>0, <3>0, <4>1, ReconciledOwns
      <4> QED BY <3>1, <4>2 DEF Synced, CopyProper, Proper
    <3>2. CASE ~Matches(id, api)
      <4>1. /\ [row[id] EXCEPT !.state = "deleted"].sid = row[id].sid
            /\ [row[id] EXCEPT !.state = "deleted"].state = "deleted"
        BY <3>0 DEF Row
      <4> HIDE DEF api
      <4> QED BY <3>0, <3>2, <4>1 DEF Synced, CopyProper, Proper
    <3> QED BY <3>1, <3>2
  <2>2. missing \subseteq DOMAIN api /\ \A id \in dirty : id \in RowIds /\ Present(id)
    BY DEF RowsOf
  <2>3. /\ \A x \in DOMAIN f : CopyProper("save", x, f[x])
        /\ \A l \in Launches : Unposted(l) => l \notin DOMAIN g /\ Adopted(l) \notin DOMAIN f
    <3> HIDE DEF dirty, missing
    <3> QED BY <1>3, <2>1, <2>2
  <2>4. writes' = [writes EXCEPT ![p] = f] /\ reply' = [reply EXCEPT ![p] = g]
    BY <1>5 DEF ReadRows
  <2>5. job'[p].step = "save" /\ \A q \in Procs : q # p => job'[q] = job[q]
    BY <1>0, <1>5 DEF ReadRows, SetJob, ProcTypeOK
  <2> HIDE DEF f, g
  <2>6. CopiesProper'
    BY <1>0, <1>1, <2>3, <2>4, <2>5, CopiesKept
  <2>7. UNCHANGED row
    BY <1>5 DEF ReadRows
  <2> QED BY <1>1, <1>2, <2>6, <2>7, RowsKept DEF Placed
<1>6. ASSUME NEW l \in Launches, AdoptSession(p, l)
      PROVE  Placed'
  <2> DEFINE c == reply[p][l]
             r == [state |-> c.st, sid |-> "real", expiresAt |-> c.expiresAt,
                   known |-> FALSE]
             id == Adopted(l)
             g == [x \in DOMAIN reply[p] \ {l} |-> reply[p][x]]
  <2>1. l \in DOMAIN reply[p] /\ c \in Entry
    BY <1>3, <1>6 DEF AdoptSession, SomeOf
  <2>2. r \in Row /\ r.state # "starting" /\ Proper(id, r)
    <3> HIDE DEF c
    <3> QED BY <2>1 DEF Entry, Row, RowState, Proper
  <2>3. id \in RowIds /\ LaunchOf(id) = l /\ ~Unposted(l)
    BY <1>3, <2>1, TwoRows
  <2>4. UNCHANGED row \/ (row' = [row EXCEPT ![id] = r] /\ ~Owns(Twin(id)))
    BY <1>6 DEF AdoptSession, Put, Adopted
  <2>5. RowsProper' /\ NoStrayReservation'
    <3> HIDE DEF r, id
    <3> QED BY <1>1, <2>2, <2>3, <2>4, PutProper, RowsKept
  <2>6. reply' = [reply EXCEPT ![p] = g] /\ writes' = [writes EXCEPT ![p] = writes[p]]
    BY <1>3, <1>6 DEF AdoptSession
  <2>7. DOMAIN g \subseteq DOMAIN reply[p] /\ UNCHANGED job
    BY <1>6 DEF AdoptSession
  <2> HIDE DEF g
  <2>8. CopiesProper'
    BY <1>0, <1>1, <1>3, <2>6, <2>7, CopiesKept
  <2> QED BY <1>2, <2>5, <2>8 DEF Placed
<1> QED BY <1>4, <1>5, <1>6 DEF SyncStep

(* tt-backend and the clock. *)
LEMMA BackendPlaced ==
    ASSUME TypeOK, Placed, UNCHANGED <<launchVars, procVars>>,
           (\E l \in Launches : BackendStep(l)) \/ Tick
    PROVE  Placed'
<1>1. UNCHANGED <<row, phase, job, writes, reply>> /\ \A l : Unposted(l)' <=> Unposted(l)
  BY DEF BackendStep, Tick, launchVars, procVars, Unposted
<1>2. RowsProper' /\ NoStrayReservation' /\ CopiesProper'
  BY <1>1, RowsKept DEF Placed, CopiesProper
<1>3. \A l \in Launches : cont[l].st = "none" => cont'[l].st = "none"
  BY DEF TypeOK, StoreTypeOK, BackendStep, Boot, AutoStop, Reap, Purge, Tick
<1>4. BackendUnaware'
  BY <1>1, <1>3 DEF Placed, BackendUnaware
<1> QED BY <1>2, <1>4 DEF Placed

(* A launch that moves without writing its row. *)
LEMMA MovePlaced ==
    ASSUME TypeOK, Placed, NEW l \in Launches, NEW p, GoTo(l, p),
           UNCHANGED <<row, cont, procVars>>,
           p \in {"waiting"} \cup InTransaction => phase[l] \in {"idle", "waiting"} \cup InTransaction,
           p # "idle" /\ p # "reserved",
           phase[l] \in InFlight \cup {"crashed"} => p \in InFlight \cup {"crashed"}
    PROVE  Placed'
<1>1. \A m \in Launches : phase'[m] = IF m = l THEN p ELSE phase[m]
  BY DEF GoTo, TypeOK, ComposerTypeOK
<1>2. \A m \in Launches : Unposted(m)' => Unposted(m)
  BY <1>1 DEF Unposted
<1>3. RowsProper'
  BY <1>2 DEF Placed, RowsProper, Owns, Present
<1>4. NoStrayReservation'
  BY <1>1, TwoRows DEF Placed, NoStrayReservation
<1>5. CopiesProper' /\ BackendUnaware'
  BY <1>2 DEF Placed, CopiesProper, BackendUnaware, procVars
<1> QED BY <1>3, <1>4, <1>5 DEF Placed

(* A launch that writes its rows. *)
LEMMA SettlePlaced ==
    ASSUME TypeOK, Placed, NEW l \in Launches, UNCHANGED procVars,
           Admit(l) \/ PostSession(l) \/ Finalize(l) \/ Release(l)
    PROVE  Placed'
<1> DEFINE live == [state |-> "running", sid |-> "real",
                    expiresAt |-> expires[l], known |-> TRUE]
<1>0. /\ row \in [RowIds -> Row] /\ cont \in [Launches -> Container]
      /\ phase \in [Launches -> Phases] /\ RowsProper /\ NoStrayReservation
  BY DEF TypeOK, StoreTypeOK, ComposerTypeOK, Placed
<1>1. /\ \A m \in Launches : m # l => phase'[m] = phase[m] /\ cont'[m] = cont[m]
      /\ \/ phase'[l] = "reserved" /\ phase[l] = "summed" /\ UNCHANGED cont
         \/ phase'[l] = "posting"
         \/ phase'[l] = "done"
         \/ phase'[l] = "failed"
  BY <1>0 DEF Admit, PostSession, Finalize, Release, GoTo, Leave
<1>2. \A m \in Launches : Unposted(m)' => Unposted(m)
  BY <1>1 DEF Unposted, InTransaction
<1>3. CopiesProper' /\ BackendUnaware'
  BY <1>1, <1>2 DEF Placed, CopiesProper, BackendUnaware, procVars, Unposted, InTransaction
<1>4. /\ Mine(l) \in RowIds /\ Adopted(l) \in RowIds /\ Mine(l) # Adopted(l)
      /\ Twin(Mine(l)) = Adopted(l) /\ Twin(Adopted(l)) = Mine(l)
      /\ LaunchOf(Mine(l)) = l /\ LaunchOf(Adopted(l)) = l
  BY TwoRows
<1>5. \A id \in RowIds : id # Mine(l) /\ id # Adopted(l) =>
         /\ LaunchOf(id) # l /\ Twin(id) \in RowIds
         /\ Twin(id) # Mine(l) /\ Twin(id) # Adopted(l)
         /\ LaunchOf(id) \in Launches /\ row'[id] = row[id]
  <2>1. \A id \in RowIds : id # Mine(l) /\ id # Adopted(l) => row'[id] = row[id]
    BY <1>0, <1>4 DEF Admit, PostSession, Finalize, Release, Put
  <2> QED BY <2>1, TwoRows
<1>6. /\ Proper(Mine(l), row'[Mine(l)]) /\ Proper(Adopted(l), row'[Adopted(l)])
      /\ ~(row'[Mine(l)].state # "absent" /\ row'[Mine(l)].sid = "real"
            /\ row'[Adopted(l)].state # "absent" /\ row'[Adopted(l)].sid = "real")
      /\ row'[Adopted(l)].state # "starting"
      /\ row'[Mine(l)].state = "starting" => phase'[l] \in InFlight
      /\ Unposted(l)' => row'[Adopted(l)].state = "absent"
  <2>1. /\ Proper(Mine(l), row[Mine(l)]) /\ Proper(Adopted(l), row[Adopted(l)])
        /\ ~(Owns(Mine(l)) /\ Owns(Adopted(l)))
        /\ Unposted(l) => row[Adopted(l)].state = "absent"
        /\ row[Adopted(l)] \in Row /\ row[Mine(l)] \in Row
    BY <1>0, <1>4 DEF RowsProper, Present
  <2>2. row[Adopted(l)].state # "starting"
    BY <1>4, <2>1 DEF Proper, Row
  <2>3. CASE Admit(l)
    <3>1. /\ row'[Mine(l)] = Reservation(l) /\ row'[Adopted(l)] = row[Adopted(l)]
          /\ phase[l] = "summed" /\ phase'[l] = "reserved"
      BY <1>0, <1>4, <2>3 DEF Admit, Put, GoTo
    <3> QED BY <1>4, <2>1, <2>2, <3>1
        DEF Reservation, Proper, InFlight, Unposted, InTransaction
  <2>4. CASE PostSession(l)
    <3>1. UNCHANGED row /\ phase'[l] = "posting"
      BY <1>0, <2>4 DEF PostSession, GoTo
    <3> QED BY <2>1, <2>2, <3>1 DEF InFlight, Unposted, InTransaction, Owns, Present
  <2>5. CASE Finalize(l)
    <3>1. /\ phase'[l] = "done"
          /\ \/ row'[Mine(l)] = NoRow /\ row'[Adopted(l)] = live
             \/ row'[Mine(l)] = live /\ row'[Adopted(l)] = row[Adopted(l)] /\ ~Owns(Adopted(l))
             \/ row'[Mine(l)] = row[Mine(l)] /\ row'[Adopted(l)] = row[Adopted(l)]
                /\ ~Present(Mine(l))
      BY <1>0, <1>4, <2>5 DEF Finalize, Leave, GoTo
    <3> QED BY <1>4, <2>1, <2>2, <3>1 DEF NoRow, Proper, Unposted, InTransaction, Owns, Present
  <2>6. CASE Release(l)
    <3>1. /\ row'[Mine(l)] = NoRow /\ row'[Adopted(l)] = row[Adopted(l)]
          /\ phase'[l] = "failed"
      BY <1>0, <1>4, <2>6 DEF Release, Put, Leave, GoTo
    <3> QED BY <1>4, <2>1, <2>2, <3>1 DEF NoRow, Proper, Unposted, InTransaction, Owns, Present
  <2> QED BY <2>3, <2>4, <2>5, <2>6
<1>7. RowsProper'
  <2>1. \A id \in RowIds : Proper(id, row'[id]) /\ ~(Owns(id) /\ Owns(Twin(id)))'
    <3> SUFFICES ASSUME NEW id \in RowIds
                 PROVE  Proper(id, row'[id]) /\ ~(Owns(id) /\ Owns(Twin(id)))'
      OBVIOUS
    <3>1. CASE id = Mine(l) \/ id = Adopted(l)
      BY <1>4, <1>6, <3>1 DEF Owns, Present
    <3>2. CASE id # Mine(l) /\ id # Adopted(l)
      BY <1>0, <1>5, <3>2 DEF Owns, Present, RowsProper
    <3> QED BY <3>1, <3>2
  <2>2. \A m \in Launches : Unposted(m)' => ~Present(Adopted(m))'
    <3> SUFFICES ASSUME NEW m \in Launches, Unposted(m)' PROVE ~Present(Adopted(m))'
      OBVIOUS
    <3>1. CASE m = l
      BY <1>6, <3>1 DEF Present
    <3>2. CASE m # l
      <4>1. Adopted(m) \in RowIds /\ Adopted(m) # Mine(l) /\ Adopted(m) # Adopted(l)
        BY <1>4, <3>2, TwoRows
      <4> QED BY <1>0, <1>2, <1>5, <4>1 DEF Present, RowsProper
    <3> QED BY <3>1, <3>2
  <2> QED BY <2>1, <2>2 DEF RowsProper
<1>8. NoStrayReservation'
  <2> SUFFICES ASSUME NEW id \in RowIds, row'[id].state = "starting"
               PROVE  phase'[LaunchOf(id)] \in InFlight \cup {"crashed"}
    BY DEF NoStrayReservation
  <2>1. CASE id = Mine(l) \/ id = Adopted(l)
    BY <1>4, <1>6, <2>1
  <2>2. CASE id # Mine(l) /\ id # Adopted(l)
    BY <1>0, <1>1, <1>5, <2>2 DEF NoStrayReservation
  <2> QED BY <2>1, <2>2
<1> QED BY <1>3, <1>7, <1>8 DEF Placed

(* Every step keeps the rows and the copies in their places. *)
LEMMA PlacedStep ==
    ASSUME TypeOK, Placed, [Next]_vars
    PROVE  Placed'
<1>1. ASSUME NEW l \in Launches, LaunchStep(l), UNCHANGED procVars PROVE Placed'
  <2>1. CASE Begin(l) \/ Lock(l) \/ ReadScope(l) \/ LockRows(l) \/ Answered(l)
    <3>1. \E p \in {"waiting", "answered"} \cup InTransaction :
             /\ GoTo(l, p) /\ UNCHANGED <<row, cont>>
             /\ IF p = "answered" THEN phase[l] = "posting"
                ELSE phase[l] \in {"idle", "waiting"} \cup InTransaction
      BY <2>1 DEF Begin, Lock, ReadScope, LockRows, Answered, InTransaction
    <3> QED BY <1>1, <3>1, MovePlaced DEF InTransaction, InFlight
  <2>2. CASE Reject(l) \/ Crash(l)
    <3>1. \E p \in {"rejected", "crashed"} :
             /\ GoTo(l, p) /\ UNCHANGED <<row, cont>>
             /\ p = "rejected" => phase[l] = "summed"
      BY <2>2 DEF Reject, Crash, Leave
    <3> QED BY <1>1, <3>1, MovePlaced DEF InTransaction, InFlight
  <2> QED BY <1>1, <2>1, <2>2, SettlePlaced DEF LaunchStep
<1>2. CASE UNCHANGED vars
  BY <1>2 DEF Placed, RowsProper, CopiesProper, BackendUnaware, NoStrayReservation, Owns,
              Present, Unposted, vars, storeVars, launchVars, procVars
<1> QED BY <1>1, <1>2, LifecyclePlaced, SyncPlaced, BackendPlaced DEF Next

(* Every reachable state keeps the rows and the copies in their places. *)
THEOREM RowsPlaced == Spec => []Placed
<1>1. Init => Placed
  BY TwoRows DEF Init, StoreInit, ComposerInit, ProcInit, Placed, RowsProper, CopiesProper,
     BackendUnaware, NoStrayReservation, Proper, NoRow, Owns, Present, Empty
<1>2. TypeOK /\ Placed /\ [Next]_vars => Placed'
  BY PlacedStep
<1> QED BY <1>1, <1>2, SessionsTyped, PTL DEF Spec

(* No reservation outlives its launch, whatever stale copy is saved over it. *)
THEOREM ReservationsEnd == Spec => []NoStrayReservation
<1>1. Placed => NoStrayReservation
  BY DEF Placed
<1> QED BY <1>1, RowsPlaced, PTL

(* A settled launch is charged once: of its two rows one at most owns the   *)
(* session, and the other one counts as a reservation only.                *)
THEOREM SessionsChargedOnce == Spec => []ChargedOnce
<1>1. TypeOK /\ Placed => ChargedOnce
  <2> SUFFICES ASSUME TypeOK, Placed, NEW l \in Launches,
                      Counted(Mine(l)), Counted(Adopted(l))
               PROVE  phase[l] \in {"posting", "answered", "crashed"}
    BY DEF ChargedOnce, Mine, Adopted
  <2>1. /\ Mine(l) \in RowIds /\ Adopted(l) \in RowIds /\ Mine(l) # Adopted(l)
        /\ Twin(Mine(l)) = Adopted(l) /\ LaunchOf(Mine(l)) = l /\ LaunchOf(Adopted(l)) = l
    BY TwoRows
  <2>2. /\ Proper(Mine(l), row[Mine(l)]) /\ Proper(Adopted(l), row[Adopted(l)])
        /\ ~(Owns(Mine(l)) /\ Owns(Adopted(l))) /\ ~Unposted(l)
        /\ row[Mine(l)] \in Row /\ row[Adopted(l)] \in Row
        /\ row[Mine(l)].state \in TerminalStatesOccupyingSlot
        /\ row[Adopted(l)].state \in TerminalStatesOccupyingSlot
    BY <2>1 DEF Placed, RowsProper, TypeOK, StoreTypeOK, Counted, OccupiesSlot, Present,
                TerminalStatesOccupyingSlot
  <2>3. Owns(Adopted(l))
    BY <2>1, <2>2 DEF Proper, Row, Owns, Present, TerminalStatesOccupyingSlot
  <2>4. row[Mine(l)].state = "starting"
    BY <2>2, <2>3 DEF Proper, Row, Owns, Present, TerminalStatesOccupyingSlot
  <2> QED BY <2>1, <2>2, <2>4 DEF Placed, NoStrayReservation, Unposted, InFlight
<1> QED BY <1>1, RowsPlaced, SessionsTyped, PTL
=============================================================================
