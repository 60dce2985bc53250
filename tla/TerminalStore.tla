--------------------------- MODULE TerminalStore ---------------------------
(***************************************************************************)
(* What the terminal handlers of OCF Core share: the clock, the `terminals` *)
(* table, and tt-backend, the external service that runs the containers.    *)
(* Every action of the modules that extend this one moves `held` with the   *)
(* table, through Holding.                                                 *)
(***************************************************************************)
EXTENDS TerminalRow, FiniteSets

CONSTANTS
    Launches,      \* the launch requests; a launch names its container
    Users, Orgs,
    None,          \* no organization, no user
    Members,       \* [Orgs -> SUBSET Users], organization_members
    Request,       \* what each launch asks, and the plan that resolves
    IdleLen,       \* tt-backend's idle window of a stopped container
    ContainersEnd, \* bound: do containers also stop and die by themselves?
    MaxTime        \* bound: the end of the clock

(* Whose terminals a scope sums: one user's, or those of all the members. *)
Population(s) == IF s \in Orgs THEN Members[s] ELSE {s}

ASSUME LaunchesAssumption == IsFiniteSet(Launches)

ASSUME ClockAssumption ==
    SessionLen \in Nat /\ IdleLen \in Nat /\ MaxTime \in Nat

(* The scope is an organization for an organization's plan, else the user. *)
ASSUME RequestAssumption ==
    /\ Request \in [Launches ->
          [user : Users, org : Orgs \cup {None}, persistent : BOOLEAN,
           cpu : Nat, mem : Nat,
           scope : Users \cup Orgs, maxCPU : Int, maxMem : Int]]
    /\ \A l \in Launches : Request[l].user \in Population(Request[l].scope)

(***************************************************************************)
(* A launch inserts the "reserved" row; a sync that finds its container     *)
(* without a row inserts the "adopted" one.                                *)
(***************************************************************************)
RowIds == Launches \X {"reserved", "adopted"}

LaunchOf(id) == id[1]
Twin(id) == <<id[1], IF id[2] = "reserved" THEN "adopted" ELSE "reserved">>
UserOf(id) == Request[LaunchOf(id)].user

RowCPU == [id \in RowIds |-> Request[LaunchOf(id)].cpu]
RowMem == [id \in RowIds |-> Request[LaunchOf(id)].mem]
RowScope == [id \in RowIds |-> Request[LaunchOf(id)].scope]
RowPlan == [id \in RowIds |-> [maxCPU |-> Request[LaunchOf(id)].maxCPU,
                               maxMem |-> Request[LaunchOf(id)].maxMem]]

VARIABLES
    now,       \* the clock of the application server
    row,       \* the terminals table, [RowIds -> Row]
    cont,      \* tt-backend's containers, [Launches -> Container]
    held       \* history: rows charged without interruption since admission

storeVars == <<now, row, cont, held>>

Counted(id) == OccupiesSlot(row[id], now)
Present(id) == row[id].state # "absent"
Owns(id) == Present(id) /\ row[id].sid = "real"
RowsOf(u) == {id \in RowIds : UserOf(id) = u /\ Present(id)}
OrgOf(id) == IF row[id].known THEN Request[LaunchOf(id)].org ELSE None

(* Each step keeps, of what was held, what is still charged. *)
Holding(new) == held' = {id \in held \cup new : OccupiesSlot(row'[id], now')}

Put(id, r) == row' = [row EXCEPT ![id] = r]

StoreInit ==
    /\ now = 0
    /\ row = [id \in RowIds |-> NoRow]
    /\ cont = [l \in Launches |-> [st |-> "none", expiresAt |-> 0, idleUntil |-> 0]]
    /\ held = {}

-----------------------------------------------------------------------------
(* tt-backend (external): containers boot, stop when idle or expired, and   *)
(* are reaped; a deleted one is still listed until it is purged.  Nobody    *)
(* reads the dates of a deleted container, and it keeps none.              *)

Live(l) == cont[l].st \in {"running", "stopped"}
Stopped(l) == [cont[l] EXCEPT !.st = "stopped", !.idleUntil = now + IdleLen]
Destroyed == [st |-> "deleted", expiresAt |-> 0, idleUntil |-> 0]
Started == [st |-> "running", expiresAt |-> now + SessionLen, idleUntil |-> 0]

Boot(l) ==
    /\ cont[l].st = "building"
    /\ cont' = [cont EXCEPT ![l] = Started]

AutoStop(l) ==
    /\ cont[l].st = "running"
    /\ cont' = [cont EXCEPT ![l] = Stopped(l)]

Reap(l) ==
    /\ \/ cont[l].st = "stopped" /\ now >= cont[l].idleUntil
       \/ cont[l].st = "running" /\ now >= cont[l].expiresAt /\ ~Request[l].persistent
    /\ cont' = [cont EXCEPT ![l] = Destroyed]

Purge(l) ==
    /\ cont[l].st = "deleted"
    /\ cont' = [cont EXCEPT ![l].st = "gone"]

BackendStep(l) ==
    /\ Boot(l) \/ (ContainersEnd /\ (AutoStop(l) \/ Reap(l) \/ Purge(l)))
    /\ UNCHANGED <<now, row>>
    /\ Holding({})

Tick ==
    /\ now < MaxTime
    /\ now' = now + 1
    /\ UNCHANGED <<row, cont>>
    /\ Holding({})

StoreTypeOK ==
    /\ now \in Nat
    /\ row \in [RowIds -> Row]
    /\ cont \in [Launches -> Container]
    /\ held \subseteq RowIds
=============================================================================
