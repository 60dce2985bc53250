------------------------- MODULE TerminalLifecycle -------------------------
(***************************************************************************)
(* The handlers that read rows, may call tt-backend, and save the rows:     *)
(* terminalLifecycleService (stop, resume, delete, validate) and the        *)
(* revocation of payment/services/terminalCleanup.  A row is saved whole    *)
(* (gorm Save) from the copy that was read, and inserted if it has vanished *)
(* in between.                                                             *)
(***************************************************************************)
EXTENDS TerminalComposer

CONSTANT Procs    \* threads serving these handlers and the sync

VARIABLES
    job,       \* what a thread is serving
    writes,    \* the rows a thread has still to save, as it will save them
    reply      \* the API entries a sync holds

procVars == <<job, writes, reply>>

Ops == {"stop", "resume", "delete", "validate", "revoke", "sync"}

Job == [op : Ops \cup {"idle"}, step : {"idle", "read", "listed", "save"},
        user : Users \cup {None}]

Idle == [op |-> "idle", step |-> "idle", user |-> None]
Empty == [x \in {} |-> NoRow]

ProcInit ==
    /\ job = [p \in Procs |-> Idle]
    /\ writes = [p \in Procs |-> Empty]
    /\ reply = [p \in Procs |-> Empty]

SetJob(p, op, step) ==
    job' = [job EXCEPT ![p] = [op |-> op, step |-> step, user |-> None]]

Finish(p) == /\ job' = [job EXCEPT ![p] = Idle]
             /\ writes' = [writes EXCEPT ![p] = Empty]
             /\ reply' = [reply EXCEPT ![p] = Empty]

-----------------------------------------------------------------------------
(* What RequireTerminalAccess[AllowStopped] and the handler let through. *)
Admissible(op) == IF op \in {"resume", "delete"} THEN {"active", "stopped"}
                  ELSE {"active"}

ReadRow(p, op, id) ==
    /\ job[p] = Idle
    /\ Owns(id)
    /\ LocalVerdict(row[id], Request[LaunchOf(id)].persistent, now) \in Admissible(op)
    /\ SetJob(p, op, "read")
    /\ writes' = [writes EXCEPT ![p] = [x \in {id} |-> row[id]]]
    /\ UNCHANGED <<now, row, cont, reply>>
    /\ Holding({})

(* The container after a stop, resume or delete that reached tt-backend. *)
Effect(op, l) ==
    CASE op = "stop"   -> IF Request[l].persistent THEN Stopped(l) ELSE Destroyed
      [] op = "resume" -> Started
      [] op = "delete" -> Destroyed
      [] OTHER         -> cont[l]

(* The row a handler will save once tt-backend has answered. *)
Written(op, id, r, c) ==
    CASE op = "stop" /\ Request[LaunchOf(id)].persistent ->
            MarkSessionStopped(r, c.idleUntil, now)
      [] op = "resume" -> [r EXCEPT !.state = "running", !.expiresAt = c.expiresAt]
      [] OTHER -> [r EXCEPT !.state = "deleted"]

ToSave(p, id, c) ==
    /\ SetJob(p, job[p].op, "save")
    /\ writes' = [writes EXCEPT ![p][id] = Written(job[p].op, id, @, c)]
    /\ UNCHANGED reply

(* A validation writes only when tt-backend no longer knows the instance. *)
CallBackend(p, id) ==
    LET op == job[p].op
        l  == LaunchOf(id)
    IN  /\ job[p].step = "read" /\ id \in DOMAIN writes[p]
        /\ op = "validate" \/ Live(l)
        /\ cont' = [cont EXCEPT ![l] = Effect(op, l)]
        /\ IF op = "validate" /\ Live(l) THEN Finish(p)
           ELSE ToSave(p, id, Effect(op, l))
        /\ UNCHANGED <<now, row>>
        /\ Holding({})

(***************************************************************************)
(* tt-backend answers with an error, with or without having acted.  Stop    *)
(* and delete write the row all the same; resume and validate give up.      *)
(***************************************************************************)
CallFails(p, id) ==
    LET op == job[p].op
        l  == LaunchOf(id)
    IN  /\ job[p].step = "read" /\ id \in DOMAIN writes[p]
        /\ \/ UNCHANGED cont
           \/ Live(l) /\ cont' = [cont EXCEPT ![l] = Effect(op, l)]
        /\ IF op \in {"resume", "validate"} THEN Finish(p)
           ELSE ToSave(p, id, [cont[l] EXCEPT !.idleUntil = 0])
        /\ UNCHANGED <<now, row>>
        /\ Holding({})

(***************************************************************************)
(* TerminateUserTerminals: the running rows of a user that carry the        *)
(* organization, or all of them.  tt-backend is not told.                  *)
(***************************************************************************)
ReadRunning(p, u, o) ==
    LET found == {id \in RowsOf(u) : /\ RunningDisplay(row[id], now)
                                     /\ o = None \/ OrgOf(id) = o}
    IN  /\ job[p] = Idle
        /\ SetJob(p, "revoke", "save")
        /\ writes' = [writes EXCEPT ![p] =
                        [id \in found |-> [row[id] EXCEPT !.state = "revoked"]]]
        /\ UNCHANGED <<now, row, cont, reply>>
        /\ Holding({})

-----------------------------------------------------------------------------
(***************************************************************************)
(* UpdateTerminalSession: gorm Save of the whole row.  The unique index on  *)
(* session_id refuses it when the other row of the launch owns the id, and  *)
(* the caller logs the error.                                              *)
(***************************************************************************)
SaveRow(p, id) ==
    /\ job[p].step = "save" /\ id \in DOMAIN writes[p]
    /\ ~RowLocked(id)
    /\ IF writes[p][id].sid = "real" /\ Owns(Twin(id)) THEN UNCHANGED row
       ELSE Put(id, writes[p][id])
    /\ writes' = [writes EXCEPT ![p] = [x \in DOMAIN @ \ {id} |-> @[x]]]
    /\ UNCHANGED <<now, cont, job, reply>>
    /\ Holding({})

Return(p) ==
    /\ job[p].step = "save" /\ DOMAIN writes[p] = {} /\ DOMAIN reply[p] = {}
    /\ Finish(p)
    /\ UNCHANGED <<now, row, cont>>
    /\ Holding({})

(* The request is abandoned: a crash, or an error of the database. *)
Abort(p) ==
    /\ job[p] # Idle
    /\ Finish(p)
    /\ UNCHANGED <<now, row, cont>>
    /\ Holding({})

LifecycleStep(p) ==
    \/ \E op \in {"stop", "resume", "delete", "validate"}, id \in RowIds :
          ReadRow(p, op, id)
    \/ \E id \in RowIds : CallBackend(p, id) \/ CallFails(p, id) \/ SaveRow(p, id)
    \/ \E u \in Users, o \in Orgs \cup {None} : ReadRunning(p, u, o)
    \/ Return(p) \/ Abort(p)

(* A thread holds some rows still to save, and some entries still to adopt. *)
SomeOf(f, Keys, Values) == DOMAIN f \subseteq Keys /\ f \in [DOMAIN f -> Values]

ProcTypeOK ==
    /\ job \in [Procs -> Job]
    /\ writes = [p \in Procs |-> writes[p]]
    /\ reply = [p \in Procs |-> reply[p]]
    /\ \A p \in Procs : /\ SomeOf(writes[p], RowIds, Row)
                       /\ SomeOf(reply[p], Launches, Entry)
=============================================================================
