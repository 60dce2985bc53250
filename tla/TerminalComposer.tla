-------------------------- MODULE TerminalComposer --------------------------
(***************************************************************************)
(* terminalComposer: a launch reserves its CPU and memory in a transaction  *)
(* under the advisory lock of its budget scope, POSTs /sessions outside it, *)
(* then finalizes the reserved row, or releases it.  A database statement   *)
(* or transaction is one step, a call of tt-backend another.               *)
(***************************************************************************)
EXTENDS TerminalStore, BudgetEngine

CONSTANTS
    ReservationTTL,        \* reservationTTL
    SessionCreateTimeout,  \* sessionCreateTimeout
    LaunchBy               \* bound: the latest time a launch begins

ASSUME ComposerAssumption ==
    ReservationTTL \in Nat /\ SessionCreateTimeout \in Nat /\ LaunchBy \in Nat

VARIABLES
    phase,     \* where a launch is
    expires,   \* reservation.ExpiresAt of a launch
    deadline,  \* when the POST of a launch times out
    seen       \* the rows a launch has read, then locked FOR UPDATE

launchVars == <<phase, expires, deadline, seen>>

InTransaction == {"locked", "read", "summed"}
InFlight == {"reserved", "posting", "answered"}
Ended == {"done", "rejected", "failed", "crashed"}
Phases == {"idle", "waiting"} \cup InTransaction \cup InFlight \cup Ended

(* The row a launch owns before the container has a session_id. *)
Mine(l) == <<l, "reserved">>

(* A row read FOR UPDATE blocks its writers until that launch decides. *)
RowLocked(id) == \E l \in Launches : phase[l] = "summed" /\ id \in seen[l]

(* Faulty variants: row locks alone; a lock that a crash does not free. *)
NoAdvisoryLock(s) == {}

LeakedLock(s) == {l \in Launches : /\ phase[l] \in InTransaction \cup {"crashed"}
                                   /\ Request[l].scope = s}

(* The advisory lock of a scope, keyed on the organization or the user. *)
Holder(s) == {l \in Launches : phase[l] \in InTransaction /\ Request[l].scope = s}

GoTo(l, p) == phase' = [phase EXCEPT ![l] = p]

(* The request returns, and its local variables go with it. *)
Leave(l, p) ==
    /\ GoTo(l, p)
    /\ expires' = [expires EXCEPT ![l] = 0]
    /\ deadline' = [deadline EXCEPT ![l] = 0]
    /\ seen' = [seen EXCEPT ![l] = {}]

ComposerInit ==
    /\ phase = [l \in Launches |-> "idle"]
    /\ expires = [l \in Launches |-> 0]
    /\ deadline = [l \in Launches |-> 0]
    /\ seen = [l \in Launches |-> {}]

-----------------------------------------------------------------------------
(* reserveBudget builds the row, its expiry included, before the lock. *)
Begin(l) ==
    /\ phase[l] = "idle" /\ now <= LaunchBy
    /\ GoTo(l, "waiting")
    /\ expires' = [expires EXCEPT ![l] = now + ReservationTTL]
    /\ UNCHANGED <<now, row, cont, deadline, seen>>
    /\ Holding({})

(* EnforceBudgetTx, pg_advisory_xact_lock on the scope. *)
Lock(l) ==
    /\ phase[l] = "waiting"
    /\ Holder(Request[l].scope) = {}
    /\ GoTo(l, "locked")
    /\ UNCHANGED <<now, row, cont, expires, deadline, seen>>
    /\ Holding({})

(* Faulty variant: an organization's pool is summed over the one user.       *)
OwnRows(l) == {id \in RowIds : UserOf(id) = Request[l].user /\ Counted(id)}

ScopeRows(l) ==
    {id \in RowIds : UserOf(id) \in Population(Request[l].scope) /\ Counted(id)}

(***************************************************************************)
(* lockAndSumActiveResources, a SELECT ... FOR UPDATE: the rows of the      *)
(* scope in the statement's snapshot, and, once their writers are out of    *)
(* the way, those of them that still count.                                *)
(***************************************************************************)
ReadScope(l) ==
    /\ phase[l] = "locked"
    /\ GoTo(l, "read")
    /\ seen' = [seen EXCEPT ![l] = ScopeRows(l)]
    /\ UNCHANGED <<now, row, cont, expires, deadline>>
    /\ Holding({})

LockRows(l) ==
    /\ phase[l] = "read"
    /\ \A id \in seen[l] : ~RowLocked(id)
    /\ GoTo(l, "summed")
    /\ seen' = [seen EXCEPT ![l] = {id \in @ : Counted(id)}]
    /\ UNCHANGED <<now, row, cont, expires, deadline>>
    /\ Holding({})

FitsBeside(l, S) ==
    Allowed([maxCPU |-> Request[l].maxCPU, maxMem |-> Request[l].maxMem],
            Usage(S, RowCPU, RowMem),
            [cpu |-> Request[l].cpu, mem |-> Request[l].mem])

Reservation(l) == [state |-> "starting", sid |-> "reserving",
                   expiresAt |-> expires[l], known |-> TRUE]

(* The request fits: CreateReservation, and the commit frees the locks. *)
Admit(l) ==
    /\ phase[l] = "summed"
    /\ FitsBeside(l, seen[l])
    /\ GoTo(l, "reserved")
    /\ Put(Mine(l), Reservation(l))
    /\ seen' = [seen EXCEPT ![l] = {}]
    /\ UNCHANGED <<now, cont, expires, deadline>>
    /\ Holding({Mine(l)})

Reject(l) ==
    /\ phase[l] = "summed"
    /\ ~FitsBeside(l, seen[l])
    /\ Leave(l, "rejected")
    /\ UNCHANGED <<now, row, cont>>
    /\ Holding({})

(* POST /sessions, outside the lock and bounded by sessionCreateTimeout. *)
PostSession(l) ==
    /\ phase[l] = "reserved"
    /\ GoTo(l, "posting")
    /\ deadline' = [deadline EXCEPT ![l] = now + SessionCreateTimeout]
    /\ cont' = [cont EXCEPT ![l].st = "building"]
    /\ UNCHANGED <<now, row, expires, seen>>
    /\ Holding({})

(* The answer overwrites reservation.ExpiresAt with the container's. *)
Answered(l) ==
    /\ phase[l] = "posting"
    /\ cont[l].st \notin {"none", "building"}
    /\ now <= deadline[l]
    /\ GoTo(l, "answered")
    /\ expires' = [expires EXCEPT ![l] = cont[l].expiresAt]
    /\ deadline' = [deadline EXCEPT ![l] = 0]
    /\ UNCHANGED <<now, row, cont, seen>>
    /\ Holding({})

(* Faulty variant: the placeholder stays beside the row that was restored. *)
FinalizeKeepingBoth(l) ==
    LET other == Twin(Mine(l))
        live  == [state |-> "running", sid |-> "real",
                  expiresAt |-> expires[l], known |-> TRUE]
    IN  /\ phase[l] = "answered"
        /\ Put(IF Owns(other) THEN other ELSE Mine(l), live)
        /\ Leave(l, "done")
        /\ UNCHANGED <<now, cont>>
        /\ Holding({})

(***************************************************************************)
(* FinalizeReservation.  If another row already owns the session_id, that   *)
(* row becomes the live session and the placeholder is hard-deleted;        *)
(* otherwise the placeholder is promoted, by id and whatever its state.     *)
(***************************************************************************)
Finalize(l) ==
    LET other == Twin(Mine(l))
        live  == [state |-> "running", sid |-> "real",
                  expiresAt |-> expires[l], known |-> TRUE]
    IN  /\ phase[l] = "answered"
        /\ ~RowLocked(Mine(l)) /\ ~RowLocked(other)
        /\ row' = IF Owns(other) THEN [row EXCEPT ![other] = live, ![Mine(l)] = NoRow]
                  ELSE IF Present(Mine(l)) THEN [row EXCEPT ![Mine(l)] = live]
                  ELSE row
        /\ Leave(l, "done")
        /\ UNCHANGED <<now, cont>>
        /\ Holding({})

(* Faulty variant: an error path that does not release. *)
ReturnUnreleased(l) ==
    /\ phase[l] \in {"posting", "answered"}
    /\ Leave(l, "failed")
    /\ UNCHANGED <<now, row, cont>>
    /\ Holding({})

(***************************************************************************)
(* The POST fails, times out or answers badly, or the finalize fails:       *)
(* releaseReservation hard-deletes the row.  The container may be up.       *)
(***************************************************************************)
Release(l) ==
    /\ phase[l] \in {"posting", "answered"}
    /\ ~RowLocked(Mine(l))
    /\ Put(Mine(l), NoRow)
    /\ Leave(l, "failed")
    /\ UNCHANGED <<now, cont>>
    /\ Holding({})

(***************************************************************************)
(* The server dies, the transaction aborts (PostgreSQL breaks a deadlock of *)
(* row locks this way), or the release itself fails.                       *)
(***************************************************************************)
Crash(l) ==
    /\ phase[l] \in {"waiting"} \cup InTransaction \cup InFlight
    /\ Leave(l, "crashed")
    /\ UNCHANGED <<now, row, cont>>
    /\ Holding({})

LaunchStep(l) ==
    \/ Begin(l) \/ Lock(l) \/ ReadScope(l) \/ LockRows(l) \/ Admit(l) \/ Reject(l)
    \/ PostSession(l) \/ Answered(l) \/ Finalize(l) \/ Release(l) \/ Crash(l)

ComposerTypeOK ==
    /\ phase \in [Launches -> Phases]
    /\ expires \in [Launches -> Nat]
    /\ deadline \in [Launches -> Nat]
    /\ seen \in [Launches -> SUBSET RowIds]
=============================================================================
