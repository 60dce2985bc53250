-------------------------- MODULE TerminalSessions --------------------------
(***************************************************************************)
(* Terminal sessions of OCF Core, composed: launches (TerminalComposer),    *)
(* lifecycle and revocation (TerminalLifecycle), sync (TerminalSync) and    *)
(* tt-backend (TerminalStore) interleave over one `terminals` table.        *)
(***************************************************************************)
EXTENDS TerminalSync

vars == <<storeVars, launchVars, procVars>>

Init == StoreInit /\ ComposerInit /\ ProcInit

Next ==
    \/ \E l \in Launches : LaunchStep(l) /\ UNCHANGED procVars
    \/ \E p \in Procs : (LifecycleStep(p) \/ SyncStep(p)) /\ UNCHANGED launchVars
    \/ \E l \in Launches : BackendStep(l) /\ UNCHANGED <<launchVars, procVars>>
    \/ Tick /\ UNCHANGED <<launchVars, procVars>>

Spec == Init /\ [][Next]_vars

(***************************************************************************)
(* Time passes, and the statements of a launch that can run are run: a      *)
(* transaction waits for a lock in PostgreSQL's queue, and the HTTP client  *)
(* gives up on a POST at its deadline.  Nothing is asked of tt-backend, of  *)
(* the sync (which only users trigger) or of the other handlers.            *)
(***************************************************************************)
Serve(l) ==
    /\ ReadScope(l) \/ Admit(l) \/ Reject(l) \/ PostSession(l) \/ Answered(l)
    /\ UNCHANGED procVars

(* The last tick stands for any later time. *)
Overdue(l) == phase[l] = "posting" /\ (now > deadline[l] \/ now = MaxTime)

Acquire(l) ==
    /\ Lock(l) \/ LockRows(l) \/ Finalize(l) \/ (Overdue(l) /\ Release(l))
    /\ UNCHANGED procVars

FairSpec ==
    /\ Spec
    /\ WF_vars(Tick /\ UNCHANGED <<launchVars, procVars>>)
    /\ \A l \in Launches : WF_vars(Serve(l)) /\ SF_vars(Acquire(l))

-----------------------------------------------------------------------------
(* Every variable keeps its type: partial functions included. *)
TypeOK == StoreTypeOK /\ ComposerTypeOK /\ ProcTypeOK

HeldBy(s) == {id \in held : RowScope[id] = s}

Ledger == INSTANCE BudgetLedger WITH
    Item <- RowIds, ScopeOf <- RowScope, PlanOf <- RowPlan,
    CPU <- RowCPU, Mem <- RowMem, charged <- held

(***************************************************************************)
(* EnforceBudgetTx is race-free: whatever the interleaving of launches and  *)
(* handlers, the rows that a scope admitted and that have been charged ever *)
(* since fit in the caps of a plan that admitted one of them.              *)
(***************************************************************************)
AdmittedWithinCap ==
    \A s \in Users \cup Orgs :
        HeldBy(s) # {} => \E id \in HeldBy(s) : Ledger!Within(id, HeldBy(s))

(***************************************************************************)
(* The lock, the snapshot, the row locks and the insert amount to one       *)
(* atomic admission: the protocol implements the ledger.                   *)
(***************************************************************************)
LedgerSpec == Ledger!Spec

(***************************************************************************)
(* Between the sum of a launch and its verdict nothing is added to what its *)
(* scope has admitted: every such row is among those it summed.            *)
(***************************************************************************)
SumIsCurrent ==
    \A l \in Launches :
        phase[l] \in {"read", "summed"} => HeldBy(Request[l].scope) \subseteq seen[l]

(***************************************************************************)
(* A session is charged twice, as a reservation and as a row that a sync    *)
(* created for its container, only while its launch is undecided or was cut *)
(* short: after FinalizeReservation or releaseReservation it is not.        *)
(***************************************************************************)
ChargedOnce ==
    \A l \in Launches :
        Counted(<<l, "reserved">>) /\ Counted(<<l, "adopted">>) =>
            phase[l] \in {"posting", "answered", "crashed"}

(***************************************************************************)
(* No reservation outlives its launch, even when stale copies of its row    *)
(* are saved over it: a `starting` row belongs to a launch in flight, or to *)
(* one that crashed and left it to its TTL.                                *)
(***************************************************************************)
NoStrayReservation ==
    \A id \in RowIds :
        row[id].state = "starting" => phase[LaunchOf(id)] \in InFlight \cup {"crashed"}

(***************************************************************************)
(* Budget is leased, never given: no handler, stale copy or resumption lets *)
(* a row be charged for longer than one window of the plan, of the backend  *)
(* or of a reservation without a new write.                                *)
(***************************************************************************)
BudgetIsLeased ==
    \A id \in RowIds : Counted(id) =>
        \E window \in {SessionLen, IdleLen, ReservationTTL} :
            row[id].expiresAt <= now + window

-----------------------------------------------------------------------------
(***************************************************************************)
(* An abandoned reservation frees its budget without a sweeper: no row      *)
(* counts as `starting` for ever, whatever happens to its launch.          *)
(***************************************************************************)
ReservationResolves ==
    \A id \in RowIds :
        (row[id].state = "starting" /\ Counted(id)) ~>
            ~(row[id].state = "starting" /\ Counted(id))

(***************************************************************************)
(* Every launch that asks for budget gets a verdict and comes to an end,    *)
(* however the launches of its scope contend, crash or time out.           *)
(***************************************************************************)
EveryLaunchEnds == \A l \in Launches : phase[l] = "waiting" ~> phase[l] \in Ended

-----------------------------------------------------------------------------
(* What the comments of the code claim, and the code does not do. *)

(***************************************************************************)
(* "BEFORE the container is provisioned, so concurrent starts serialise on  *)
(* the scope and cannot overshoot": the launches whose own rows are charged *)
(* in a scope's population fit in the largest cap on CPU of the scope.      *)
(***************************************************************************)
StartsCannotOvershoot ==
    \A l \in Launches :
        (\A m \in Launches : Request[m].scope = Request[l].scope
                             /\ 0 < Request[m].maxCPU
                             /\ Request[m].maxCPU <= Request[l].maxCPU)
            => Total({id \in ScopeRows(l) : id = Mine(LaunchOf(id))}, RowCPU)
                  <= Request[l].maxCPU
=============================================================================
