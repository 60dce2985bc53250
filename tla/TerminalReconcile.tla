-------------------------- MODULE TerminalReconcile --------------------------
(***************************************************************************)
(* One session seen by successive syncs.  tt-backend moves the container,   *)
(* the clock runs, billing may revoke the row, and a sync pass rewrites the *)
(* row by TerminalRow!Reconcile.  TerminalSessions interleaves the steps of *)
(* a sync with everything else; here a pass is one step, and what is looked *)
(* at is the rule itself, over every row and every entry it can be given.   *)
(***************************************************************************)
EXTENDS TerminalRow

CONSTANTS IdleLen, MaxTime

(* Windows are lengths of time. *)
ASSUME WindowAssumption == SessionLen \in Nat /\ IdleLen \in Nat

VARIABLES now, row, entry

sessionVars == <<now, row, entry>>

(* A launch has just been finalized, or a sync has just adopted a container. *)
SessionInit ==
    /\ now = 0
    /\ row \in [state : {"running"}, sid : {"real"}, expiresAt : {SessionLen},
                known : BOOLEAN]
    /\ entry = [st |-> "running", expiresAt |-> SessionLen, idleUntil |-> 0]

(* Steps 5a, and 5b for a session that has left the list. *)
Rewritten(r) == IF entry.st = "gone" THEN [r EXCEPT !.state = "deleted"]
                ELSE Reconcile(r, entry, now)

(* SyncUserSessions for this session. *)
Pass ==
    /\ row' = Rewritten(row)
    /\ UNCHANGED <<now, entry>>

(* TerminateUserTerminals. *)
Revoke ==
    /\ RunningDisplay(row, now)
    /\ row' = [row EXCEPT !.state = "revoked"]
    /\ UNCHANGED <<now, entry>>

(* StopSession and DeleteSession when tt-backend does not answer: the row    *)
(* alone records the intention.                                            *)
WriteAlone ==
    /\ row' \in {MarkSessionStopped(row, 0, now), [row EXCEPT !.state = "deleted"]}
    /\ LocalVerdict(row, TRUE, now) = "active"
    /\ UNCHANGED <<now, entry>>

(* tt-backend (external): stops with or without an idle deadline, resumes   *)
(* what was stopped, destroys, and at last leaves it out of the list.      *)
Move ==
    /\ \/ /\ entry.st = "running"
          /\ \E d \in {0, now + IdleLen} :
                entry' = [entry EXCEPT !.st = "stopped", !.idleUntil = d]
       \/ /\ entry.st = "stopped"
          /\ entry' = [st |-> "running", expiresAt |-> now + SessionLen, idleUntil |-> 0]
       \/ /\ entry.st \in {"running", "stopped"}
          /\ entry' = [entry EXCEPT !.st = "deleted"]
       \/ /\ entry.st = "deleted"
          /\ entry' = [entry EXCEPT !.st = "gone"]
    /\ UNCHANGED <<now, row>>

Tick ==
    /\ now < MaxTime
    /\ now' = now + 1
    /\ UNCHANGED <<row, entry>>

SessionNext == Pass \/ Revoke \/ WriteAlone \/ Move \/ Tick

SessionSpec == SessionInit /\ [][SessionNext]_sessionVars

-----------------------------------------------------------------------------
Passed == Rewritten(row)

(***************************************************************************)
(* tt-backend is the source of truth: after a pass the row has the state of *)
(* the container.  A revoked row keeps its own, and so does a paused row     *)
(* whose container is still listed as running before its date.  Nothing is   *)
(* said of a container that is listed as running past its date: the comment  *)
(* on the expiry by date wants the row erased, the lifecycle write of the    *)
(* same pass makes it running again.                                        *)
(***************************************************************************)
ListedPastDate == entry.st = "running" /\ now > entry.expiresAt

ConvergesToBackend ==
    \/ Passed.state = (IF entry.st = "gone" THEN "deleted" ELSE entry.st)
    \/ row.state = "revoked" /\ entry.st # "gone"
    \/ row.state = "stopped" /\ entry.st = "running"
    \/ ListedPastDate

(***************************************************************************)
(* A session that stopped by itself keeps its budget while it can be        *)
(* resumed: the pass that learns of the stop also moves the expiry, which   *)
(* has usually passed by then.                                             *)
(***************************************************************************)
StoppedKeepsBudget ==
    (entry.st = "stopped" /\ entry.idleUntil > now /\ row.state # "revoked")
        => OccupiesSlot(Passed, now)

(***************************************************************************)
(* Until its container's date a revoked row stays revoked, whatever state   *)
(* tt-backend lists for the container that nobody destroyed.               *)
(***************************************************************************)
RevokedHolds ==
    [][row.state = "revoked" /\ entry.st # "gone" /\ now <= entry.expiresAt
          => row'.state = "revoked"]_sessionVars
=============================================================================
