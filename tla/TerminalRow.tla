---------------------------- MODULE TerminalRow ----------------------------
(***************************************************************************)
(* One row of the `terminals` table and the pure rules the handlers share: *)
(* which rows count against a budget, which rows are shown as running, and *)
(* how a row is rewritten when tt-backend's view of its container arrives. *)
(***************************************************************************)
EXTENDS Integers

CONSTANTS
    SessionLen     \* the plan's MaxSessionDurationMinutes, in clock ticks

(* models.TerminalState; "absent" is the row that is not in the table. *)
RowState == {"absent", "starting", "running", "stopped", "deleted", "revoked"}

(***************************************************************************)
(* A row carries a placeholder session_id until it is finalized; "known" is *)
(* false for a row that a sync recreated from tt-backend's list, which has  *)
(* neither an organization_id nor a subscription_plan_id.                  *)
(***************************************************************************)
Row == [state : RowState, sid : {"reserving", "real"}, expiresAt : Nat,
        known : BOOLEAN]

NoRow == [state |-> "absent", sid |-> "reserving", expiresAt |-> 0,
          known |-> FALSE]

(* tt-backend's record of a container.  "gone" has left its session list. *)
Container == [st : {"none", "building", "running", "stopped", "deleted", "gone"},
              expiresAt : Nat, idleUntil : Nat]

(* One that its session list returns. *)
Entry == [st : {"running", "stopped", "deleted"}, expiresAt : Nat, idleUntil : Nat]

TerminalStatesOccupyingSlot == {"running", "stopped", "starting"}

(* Faulty variant: without the expires_at clause. *)
OccupiesSlotByState(r, t) == r.state \in TerminalStatesOccupyingSlot

(* OccupiesSlotScope: the row consumes its owner's capacity at time t. *)
OccupiesSlot(r, t) ==
    r.state \in TerminalStatesOccupyingSlot /\ r.expiresAt > t

(* RunningDisplayScope: the row is a session the user can interact with. *)
RunningDisplay(r, t) == r.state = "running" /\ r.expiresAt > t

(* ValidateSessionAccess(checkAPI = false): the verdict of the local gate. *)
LocalVerdict(r, persistent, t) ==
    CASE r.state = "deleted"            -> "expired"
      [] r.state \notin {"running", "deleted"} -> r.state
      [] r.state = "running" /\ t <= r.expiresAt -> "active"
      [] r.state = "running" /\ t > r.expiresAt ->
            IF persistent THEN "stopped" ELSE "expired"

-----------------------------------------------------------------------------
(* Faulty variants: the expiry stays at the creation deadline; the plan      *)
(* window is added to the old expiry.                                      *)
MarkStoppedStale(r, idleUntil, t) == [r EXCEPT !.state = "stopped"]

MarkStoppedExtending(r, idleUntil, t) ==
    [r EXCEPT !.state = "stopped",
              !.expiresAt = IF idleUntil > 0 THEN idleUntil ELSE @ + SessionLen]

(***************************************************************************)
(* markSessionStopped: the expiry becomes the idle deadline tt-backend      *)
(* announced (0 when it announced none), else a fresh plan window for a     *)
(* row that knows its plan, else it is left alone.                         *)
(***************************************************************************)
MarkSessionStopped(r, idleUntil, t) ==
    [r EXCEPT !.state = "stopped",
              !.expiresAt = IF idleUntil > 0 THEN idleUntil
                            ELSE IF r.known THEN t + SessionLen ELSE @]

(* Faulty variant: a local pause withstands even the end of the container. *)
StoppedWithstandsAll(local, target) == local \notin {"revoked", "stopped"}

(* The local states a sync may not overwrite, judged against the target. *)
StateChangeAllowed(local, target) ==
    CASE local = "revoked" -> FALSE
      [] local = "stopped" -> target = "deleted"
      [] OTHER             -> TRUE

(* SessionStatus of an API entry: 0 (active) unless the session is deleted. *)
StatusState(c) == IF c.st = "deleted" THEN "deleted" ELSE "running"

(***************************************************************************)
(* SyncUserSessions step 5a for a row and its API entry.  Three writes in   *)
(* a row: the state derived from the numeric status, the expiry by date,    *)
(* and the lifecycle state.  Each one reads what the previous one left.     *)
(***************************************************************************)
AdoptStatus(local, c) ==
    IF StateChangeAllowed(local, StatusState(c)) THEN StatusState(c) ELSE local

ExpiredByDate(c, t) == t > c.expiresAt /\ StatusState(c) = "running"

ExpireByDate(local, c, t) == IF ExpiredByDate(c, t) THEN "deleted" ELSE local

(* Faulty variant: the stopped branch does not spare revoked rows. *)
ReconcileUnguarded(r, c, t) ==
    LET dated == ExpireByDate(AdoptStatus(r.state, c), c, t)
        row   == [r EXCEPT !.state = dated]
    IN  IF c.st = "stopped"
        THEN MarkSessionStopped(row, c.idleUntil, t)
        ELSE IF StateChangeAllowed(dated, c.st)
        THEN [row EXCEPT !.state = c.st]
        ELSE row

(* The whole rewrite: the lifecycle write has the last word. *)
Reconcile(r, c, t) ==
    LET dated == ExpireByDate(AdoptStatus(r.state, c), c, t)
        row   == [r EXCEPT !.state = dated]
    IN  IF c.st = "stopped" /\ dated # "revoked"
        THEN MarkSessionStopped(row, c.idleUntil, t)
        ELSE IF StateChangeAllowed(dated, c.st)
        THEN [row EXCEPT !.state = c.st]
        ELSE row

(* needsUpdate: an entry past its date is saved even when nothing changed. *)
NeedsUpdate(r, c, t) == ExpiredByDate(c, t) \/ Reconcile(r, c, t) # r
=============================================================================
