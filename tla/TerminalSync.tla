---------------------------- MODULE TerminalSync ----------------------------
(***************************************************************************)
(* terminalSyncService.SyncUserSessions: list the containers of a user, read *)
(* the user's rows, then bring the rows to what the list says.  The list,   *)
(* the reading and every save are separate steps, with no transaction       *)
(* around them.                                                            *)
(***************************************************************************)
EXTENDS TerminalLifecycle

CONSTANT ListFailures   \* may the query of an instance type fail?

Listed(u) == {l \in Launches : /\ Request[l].user = u
                               /\ cont[l].st \in {"running", "stopped", "deleted"}}

(* getAllSessionsFromAllInstanceTypes skips an instance type that fails. *)
ListSessions(p, u) ==
    /\ job[p] = Idle
    /\ \E L \in SUBSET Listed(u) :
          /\ ListFailures \/ L = Listed(u)
          /\ reply' = [reply EXCEPT ![p] = [l \in L |-> cont[l]]]
    /\ job' = [job EXCEPT ![p] = [op |-> "sync", step |-> "listed", user |-> u]]
    /\ UNCHANGED <<now, row, cont, writes>>
    /\ Holding({})

(* The row of the snapshot that carries an API entry, and its new value. *)
Matches(id, api) == row[id].sid = "real" /\ LaunchOf(id) \in DOMAIN api

Synced(id, api) ==
    IF Matches(id, api) THEN Reconcile(row[id], api[LaunchOf(id)], now)
    ELSE [row[id] EXCEPT !.state = "deleted"]

Dirty(id, api) ==
    IF Matches(id, api) THEN NeedsUpdate(row[id], api[LaunchOf(id)], now)
    ELSE row[id].state # "deleted"

(* Steps 5a and 5b, and the active containers that have no row. *)
ReadRows(p) ==
    LET u       == job[p].user
        api     == reply[p]
        dirty   == {id \in RowsOf(u) : Dirty(id, api)}
        missing == {l \in DOMAIN api :
                      /\ StatusState(api[l]) = "running"
                      /\ \A id \in RowsOf(u) : Owns(id) => LaunchOf(id) # l}
    IN  /\ job[p].step = "listed"
        /\ SetJob(p, "sync", "save")
        /\ writes' = [writes EXCEPT ![p] = [id \in dirty |-> Synced(id, api)]]
        /\ reply' = [reply EXCEPT ![p] = [l \in missing |-> api[l]]]
        /\ UNCHANGED <<now, row, cont>>
        /\ Holding({})

(* CreateTerminalSessionFromAPI: no budget check, idempotent on session_id. *)
AdoptSession(p, l) ==
    LET id == <<l, "adopted">>
        c  == reply[p][l]
    IN  /\ job[p].step = "save" /\ l \in DOMAIN reply[p]
        /\ IF Owns(id) \/ Owns(Twin(id)) THEN UNCHANGED row
           ELSE Put(id, [state |-> c.st, sid |-> "real",
                         expiresAt |-> c.expiresAt, known |-> FALSE])
        /\ reply' = [reply EXCEPT ![p] = [x \in DOMAIN @ \ {l} |-> @[x]]]
        /\ UNCHANGED <<now, cont, job, writes>>
        /\ Holding({})

SyncStep(p) ==
    \/ \E u \in Users : ListSessions(p, u)
    \/ ReadRows(p)
    \/ \E l \in Launches : AdoptSession(p, l)
=============================================================================
