-------------------------- MODULE ScenarioSessions --------------------------
(***************************************************************************)
(* The runs of one scenario by one learner: the scenario_sessions rows with *)
(* their step progress, the containers they are bound to, the requests of   *)
(* the learner and the trainer, the goroutines that prepare a step and the  *)
(* sweeps that release what a crash left behind.  Launching, stopping and   *)
(* deleting a container are single steps here; they are the subject of      *)
(* TerminalSessions.                                                       *)
(***************************************************************************)
EXTENDS Integers, FiniteSetsExt

CONSTANTS
    Ids,          \* the sessions that can be created
    Machines,     \* the containers that can be started
    Requests,     \* the requests that can be under way at once
    Launchers,    \* those of them that only start runs
    Scenarios,    \* kind: the type of each step, by its order; scripted, slow: the steps
                  \* with a script, and with one that runs in a goroutine; traps: crash_traps
    SetupBudget,  \* bgScriptTimeoutStep0
    StepBudget,   \* MaxBackgroundTimeoutSeconds
    ReapMargin,   \* stuckProvisioningReapMargin
    MaxFaults,    \* how often the server dies or a window cannot be closed
    Orderly       \* BOOLEAN: nothing else writes the row while it is being started or
                  \* answered, and nothing a start under way cannot see comes in its way

ASSUME ScenarioAssumption ==
    /\ Ids \subseteq Nat \ {0} /\ Machines \subseteq Nat \ {0}
    /\ \A c \in Scenarios : /\ DOMAIN c.kind \subseteq Nat /\ c.traps \in BOOLEAN
                            /\ c.slow \subseteq c.scripted /\ c.scripted \subseteq DOMAIN c.kind
    /\ SetupBudget \in Nat /\ StepBudget \in Nat /\ ReapMargin \in Nat

VARIABLES
    scenario,  \* what the trainer wrote: it does not change
    ses,       \* the session rows; age counts from updated_at; told and cut are not
               \* columns: the learner's last request ended in an error or with the
               \* server, and the start of the run did
    progress,  \* their step progress
    machine,   \* the containers: whether the features held for building are still
               \* attached (logged: their removal failed), which scripts ran and which
               \* flags were placed
    jobs,      \* the goroutines: what each has still to do
    req,       \* what each request has in its hands
    faults

vars == <<scenario, ses, progress, machine, jobs, req, faults>>

Steps == DOMAIN scenario.kind
First == Min(Steps)
Blank == [status |-> "locked", score |-> 0]
NoSession == [status |-> "none", term |-> 0, step |-> First, grade |-> 0, age |-> 0,
              told |-> FALSE, cut |-> FALSE]
NoMachine == [state |-> "none", window |-> "shut", built |-> {}, flags |-> {}]
Idle == [op |-> "idle", id |-> 0, term |-> 0, step |-> First, mem |-> [k \in Steps |-> Blank]]

(* blockingSessionStatuses, the statuses the other writers match, and the rest. *)
Blocking == {"active", "provisioning", "setup_failed"}
Abandonable == {"active", "provisioning"}
Reprovisionable == {"active", "setup_failed"}
Finished == {"completed", "abandoned"}

Init ==
    /\ scenario \in Scenarios
    /\ ses = [i \in Ids |-> NoSession]
    /\ progress = [i \in Ids |-> [k \in Steps |-> Blank]]
    /\ machine = [m \in Machines |-> NoMachine]
    /\ jobs = {}
    /\ req = [p \in Requests |-> Idle]
    /\ faults = 0

-----------------------------------------------------------------------------
At(p, op) == req[p].op = op
Go(p, r) == req' = [req EXCEPT ![p] = r]
Sessions == {i \in Ids : ses[i].status # "none"}
InState(S) == {i \in Ids : ses[i].status \in S}
Running(m) == m # 0 /\ machine[m].state = "running"
Later(k) == {n \in Steps : n > k}
Flags == {k \in Steps : scenario.kind[k] = "flag"}
Job(i, op, k) == [id |-> i, op |-> op, step |-> k]
Busy(i) == \E j \in jobs : j.id = i

(* The requests whose last write carries no guard on the status; those that *)
(* go by the step that was current when they began.                        *)
Held(i) == \E p \in Requests : req[p].op \in {"begin", "answer"} /\ req[p].id = i
Spared(i) == Orderly => ~Held(i)
Alone(i) == Orderly => \A p \in Requests : req[p].id = i => At(p, "delete")

(* The starts between their read of the rows and their insertion that did not *)
(* find i: idx_unique_active_session does not cover a run that failed its setup. *)
Unread(i) == Orderly => \A p \in Requests : At(p, "found") => req[p].id = i
Unaimed(m) == Orderly => \A p \in Requests : req[p].term # m

(***************************************************************************)
(* One write of a status.  idx_unique_active_session refuses a second       *)
(* active or provisioning row, and the error is logged and dropped.         *)
(***************************************************************************)
Fits(i, status) == status \in Abandonable => InState(Abandonable) \subseteq {i}
Written(s, status) ==
    [s EXCEPT !.status = status, !.age = 0, !.told = @ /\ status \notin Finished]
Setting(i, status) == [ses EXCEPT ![i] = Written(@, status)]
Abandoning(S) == [i \in Ids |-> IF i \in S THEN Written(ses[i], "abandoned") ELSE ses[i]]
Transition(i, from, to) ==
    /\ to = "setup_failed" => Unread(i)
    /\ ses' = IF ses[i].status \in from /\ Fits(i, to) THEN Setting(i, to) ELSE ses

(* What a script and what deploySingleFlagToContainer leave in the container. *)
Prepared(ms, m, k) == IF k \in scenario.scripted THEN [ms EXCEPT ![m].built = @ \cup {k}] ELSE ms
Placed(ms, m, k) == IF k \in Flags /\ ~scenario.traps /\ ms[m].state = "running"
                    THEN [ms EXCEPT ![m].flags = @ \cup {k}] ELSE ms

-----------------------------------------------------------------------------
(* A container for a new run; LaunchScenario holds features for building. *)
NextMachine == CHOOSE m \in Machines : machine[m].state = "none" /\ \A n \in Machines : n < m => machine[n].state # "none"
Started(window) == [machine EXCEPT ![NextMachine] = [NoMachine EXCEPT !.state = "running", !.window = window]]
NextId == Max(Sessions \cup {0}) + 1
Untaken == \E m \in Machines : machine[m].state = "none"

Launch(p) ==
    /\ At(p, "idle")
    /\ Untaken /\ NextId \in Ids
    /\ machine' = Started("open")
    /\ Go(p, [Idle EXCEPT !.op = "start", !.term = NextMachine])
    /\ UNCHANGED <<scenario, ses, progress, jobs, faults>>

(* The start endpoint takes a terminal of the learner, whatever its state. *)
StartOn(p, m) ==
    /\ At(p, "idle")
    /\ machine[m].state # "none" /\ Unaimed(m) /\ NextId \in Ids
    /\ Go(p, [Idle EXCEPT !.op = "start", !.term = m])
    /\ UNCHANGED <<scenario, ses, progress, machine, jobs, faults>>

(* BulkStartScenario abandons what the learner has and starts a container. *)
BulkStart(p) ==
    /\ At(p, "idle")
    /\ Untaken /\ NextId \in Ids
    /\ machine' = Started("shut")
    /\ Go(p, [Idle EXCEPT !.op = "start", !.term = NextMachine])
    /\ IF InState(Blocking) = {} THEN UNCHANGED ses
       ELSE \E i \in InState(Blocking) : Spared(i) /\ ses' = Setting(i, "abandoned")
    /\ UNCHANGED <<scenario, progress, jobs, faults>>

(***************************************************************************)
(* The transaction of StartScenario: one run per container for ever, one    *)
(* run at a time; a run whose container is gone or broken makes way.  It    *)
(* reads what is committed at each statement, so the two reads are steps of *)
(* their own; its writes are seen by the others at the commit only.         *)
(***************************************************************************)
Resumable(i) == ses[i].status # "setup_failed" /\ Running(ses[i].term)
Fresh == [k \in Steps |-> [Blank EXCEPT !.status = IF k = First THEN "active" ELSE "locked"]]

(* Faulty variant: a run whose setup failed does not stand in the way. *)
WayWithoutFailed == InState(Abandonable)
Way == InState(Blocking)

(* The container must never have been bound to a run. *)
Count(p) ==
    /\ At(p, "start")
    /\ Go(p, IF \E i \in Sessions : ses[i].term = req[p].term THEN Idle ELSE [req[p] EXCEPT !.op = "count"])
    /\ UNCHANGED <<scenario, ses, progress, machine, jobs, faults>>

(* findExistingSession: the run that stands in the way, if there is one. *)
Find(p) ==
    /\ At(p, "count")
    /\ IF Way = {} THEN Go(p, [req[p] EXCEPT !.op = "found", !.id = 0])
       ELSE \E i \in Way : IF Resumable(i) THEN Go(p, Idle)
                            ELSE Spared(i) /\ Go(p, [req[p] EXCEPT !.op = "found", !.id = i])
    /\ UNCHANGED <<scenario, ses, progress, machine, jobs, faults>>

(* The run found is abandoned, with no guard on its status, and the new one  *)
(* created: the index refuses it beside another that starts or runs.         *)
Insert(p) ==
    LET gone == Ids \cap {req[p].id} IN
    /\ At(p, "found")
    /\ InState(Abandonable) \subseteq gone /\ NextId \in Ids
    /\ ses' = [Abandoning(gone) EXCEPT ![NextId] = [NoSession EXCEPT !.status = "active", !.term = req[p].term]]
    /\ progress' = [progress EXCEPT ![NextId] = Fresh]
    /\ Go(p, [req[p] EXCEPT !.op = "begin", !.id = NextId])
    /\ UNCHANGED <<scenario, machine, jobs, faults>>

(* The index refuses, or the database fails: everything is rolled back. *)
RollBack(p) ==
    /\ At(p, "found")
    /\ Go(p, Idle)
    /\ UNCHANGED <<scenario, ses, progress, machine, jobs, faults>>

(***************************************************************************)
(* After it: the challenge configuration of a scenario with crash traps is  *)
(* pushed, then the scripts are handed to a goroutine; without scripts the  *)
(* flag of order 0 is deployed and the window is closed at once.            *)
(***************************************************************************)
Configured(m) == IF scenario.traps THEN [machine EXCEPT ![m].flags = Flags] ELSE machine

(* finishBuild takes the features back; a failure to do so is only logged. *)
Finishing(ms, m) ==
    \/ machine' = [ms EXCEPT ![m].window = "shut"] /\ UNCHANGED faults
    \/ /\ faults < MaxFaults
       /\ faults' = faults + 1
       /\ machine' = [ms EXCEPT ![m].window = IF @ = "open" THEN "logged" ELSE @]

Begin(p) ==
    LET i == req[p].id
        m == req[p].term
    IN
    /\ At(p, "begin")
    /\ \/ /\ scenario.traps /\ Flags # {}
          /\ ses' = [ses EXCEPT ![i].cut = TRUE]
          /\ UNCHANGED <<machine, jobs, faults>>
       \/ IF First \in scenario.scripted
          THEN /\ ses' = IF Fits(i, "provisioning") THEN Setting(i, "provisioning") ELSE ses
               /\ jobs' = jobs \cup {Job(i, "setup", First)}
               /\ machine' = Configured(m)
               /\ UNCHANGED faults
          ELSE /\ Finishing(Placed(Configured(m), m, 0), m)
               /\ UNCHANGED <<ses, jobs>>
    /\ Go(p, Idle)
    /\ UNCHANGED <<scenario, progress>>

-----------------------------------------------------------------------------
(***************************************************************************)
(* runStep0Setup runs the scenario's setup script and then the first step's;*)
(* every one of its writes is guarded, and whatever happens finishBuild is  *)
(* called.  A script can succeed in a running container only.              *)
(***************************************************************************)
Becomes(j, op) == jobs' = (jobs \ {j}) \cup {[j EXCEPT !.op = op]}
Ends(j) == jobs' = jobs \ {j}

SetupEnds(j) ==
    LET i == j.id IN
    /\ j.op = "setup"
    /\ \/ /\ Running(ses[i].term)
          /\ Transition(i, {"provisioning"}, "provisioning")
          /\ Becomes(j, "first")
       \/ /\ Transition(i, {"provisioning"}, "setup_failed")
          /\ Becomes(j, "stop")
    /\ UNCHANGED machine

(* The flag of order 0 is deployed, whatever the first order is; its failure is only logged. *)
FirstEnds(j) ==
    LET i == j.id
        m == ses[i].term
    IN
    /\ j.op = "first"
    /\ \/ /\ Running(m)
          /\ machine' \in {Prepared(machine, m, First), Placed(Prepared(machine, m, First), m, 0)}
          /\ Transition(i, {"provisioning"}, "active")
          /\ Becomes(j, "close")
       \/ /\ Transition(i, {"provisioning"}, "setup_failed")
          /\ Becomes(j, "stop")
          /\ UNCHANGED machine

(* tryStopTerminal: StopSession abandons the runs bound to the container; *)
(* its failure is only logged.                                            *)
Stopped(m) == [machine EXCEPT ![m].state = IF @ = "running" THEN "stopped" ELSE @]
Unbound(m) == Abandoning({i \in InState(Abandonable) : ses[i].term = m})
TriesStop(m) ==
    \/ /\ \A i \in Ids : ses[i].term = m => Spared(i)
       /\ machine' = Stopped(m)
       /\ ses' = Unbound(m)
    \/ UNCHANGED <<machine, ses>>

(* Faulty variant: a failed start returns without closing the window. *)
StopsAndForgets(j) ==
    /\ j.op \in {"stop", "trap"}
    /\ TriesStop(ses[j.id].term)
    /\ Ends(j)

StopsTerminal(j) ==
    /\ j.op \in {"stop", "trap"}
    /\ TriesStop(ses[j.id].term)
    /\ IF j.op = "stop" THEN Becomes(j, "close") ELSE Ends(j)

CloseWindow(j) ==
    /\ j.op = "close"
    /\ Finishing(machine, ses[j.id].term)
    /\ Ends(j)
    /\ UNCHANGED ses

(***************************************************************************)
(* runStepProvisioning: the flag is deployed even when the script failed,   *)
(* and either failure is one.                                              *)
(***************************************************************************)
(* Faulty variant: a failed script is noticed only when the flag did not land. *)
ProvisionedAnyway(m, k) ==
    /\ Running(m)
    /\ machine' \in {Placed(machine, m, k), Placed(Prepared(machine, m, k), m, k)}

Provisioned(m, k) ==
    /\ Running(m)
    /\ machine' = Placed(Prepared(machine, m, k), m, k)

HalfProvisioned(m, k) ==
    machine' \in {machine} \cup IF Running(m) THEN {Prepared(machine, m, k), Placed(machine, m, k)} ELSE {}

(* runAsyncStepProvisioning leaves the container running when it fails. *)
StepEnds(j) ==
    LET i == j.id IN
    /\ j.op = "step"
    /\ \/ /\ Provisioned(ses[i].term, j.step)
          /\ Transition(i, {"provisioning"}, "active")
       \/ /\ HalfProvisioned(ses[i].term, j.step)
          /\ Transition(i, {"provisioning"}, "setup_failed")
    /\ Ends(j)

JobStep ==
    /\ \E j \in jobs :
          \/ (SetupEnds(j) \/ FirstEnds(j) \/ StopsTerminal(j) \/ StepEnds(j)) /\ UNCHANGED faults
          \/ CloseWindow(j)
    /\ UNCHANGED <<scenario, progress, req>>

(* Faulty variant: the guard is forgotten. *)
StartsAsyncAnyhow(i, k, from) ==
    /\ ses' = Setting(i, "provisioning")
    /\ jobs' = jobs \cup {Job(i, "step", k)}

(* startAsyncStepProvisioning: guarded, and no goroutine without the guard. *)
StartsAsync(i, k, from) ==
    IF ses[i].status \in from /\ Fits(i, "provisioning")
    THEN /\ ses' = Setting(i, "provisioning")
         /\ jobs' = jobs \cup {Job(i, "step", k)}
    ELSE UNCHANGED <<ses, jobs>>

-----------------------------------------------------------------------------
(***************************************************************************)
(* VerifyCurrentStep, SubmitFlag and SubmitQuiz load the session with its   *)
(* progress, and refuse one that is not active.                             *)
(***************************************************************************)
Answer(p, i) ==
    /\ At(p, "idle") /\ p \notin Launchers
    /\ ses[i].status = "active" /\ Alone(i)
    /\ Go(p, [op |-> "answer", id |-> i, term |-> ses[i].term, step |-> ses[i].step, mem |-> progress[i]])
    /\ UNCHANGED <<scenario, ses, progress, machine, jobs, faults>>

(* The verify script or the flag says no, the flag is locked out, or the *)
(* container does not answer: only counters of attempts change.         *)
WrongAnswer(p) ==
    /\ At(p, "answer")
    /\ scenario.kind[req[p].step] \in {"terminal", "flag"}
    /\ Go(p, Idle)
    /\ UNCHANGED <<scenario, ses, progress, machine, jobs, faults>>

(* ComputeWeightedGradeFromLoaded, as a sum of steps rather than a percentage. *)
Weight(pr, k) == IF scenario.kind[k] = "quiz" THEN pr[k].score ELSE IF pr[k].status = "completed" THEN 1 ELSE 0
Grade(pr) == MapThenSumSet(LAMBDA k : Weight(pr, k), Steps)

(* Faulty variant: the score of the quiz is stored but not mirrored. *)
MirroredWithoutScore(pr, k, score) == [pr EXCEPT ![k].status = "completed"]

(* The step just answered, as the caller mirrors it onto the copy it graded from. *)
Mirrored(pr, k, score) == [pr EXCEPT ![k].status = "completed", ![k].score = score]

(* Faulty variant: the loop over the ordered steps keeps the last later one. *)
FollowingLast(k) == Max(Later(k))

(* The step after k: the smallest later order. *)
Following(k) == Min(Later(k))

(***************************************************************************)
(* The transaction of a right answer, advanceToNextStep in it: its writes   *)
(* name the step that was loaded and carry no guard on the status.          *)
(***************************************************************************)
RightAnswer(p) ==
    LET r == req[p]
        i == r.id
        k == r.step
        done(pr, score) == [pr EXCEPT ![k].status = "completed", ![k].score = score]
    IN
    /\ At(p, "answer")
    /\ \E score \in IF scenario.kind[k] = "quiz" THEN {0, 1} ELSE {0} :
          IF Later(k) = {}
          THEN /\ progress' = [progress EXCEPT ![i] = done(@, score)]
               /\ ses' = [Setting(i, "completed") EXCEPT ![i].grade = Grade(Mirrored(r.mem, k, score))]
               /\ Go(p, Idle)
          ELSE /\ progress' = [progress EXCEPT ![i] = [n \in Steps |->
                                  IF n = Following(k) THEN [done(@, score)[n] EXCEPT !.status = "active"]
                                  ELSE done(@, score)[n]]]
               /\ ses' = [ses EXCEPT ![i].step = Following(k), ![i].age = 0, ![i].told = FALSE]
               /\ Go(p, [r EXCEPT !.op = "transition", !.step = Following(k), !.mem = Idle.mem])
    /\ UNCHANGED <<scenario, machine, jobs, faults>>

(***************************************************************************)
(* After the commit, provisionNextStep: nothing to do, a goroutine, or the  *)
(* work inline, whose failure is reported with the answer.                  *)
(***************************************************************************)
StepTransition(p) ==
    LET r == req[p]
        i == r.id
        k == r.step
    IN
    /\ At(p, "transition") /\ Spared(i)
    /\ IF k \in scenario.slow THEN StartsAsync(i, k, {"active"}) /\ UNCHANGED machine
       ELSE IF k \in scenario.scripted \cup Flags
       THEN /\ UNCHANGED jobs
            /\ \/ Provisioned(r.term, k) /\ UNCHANGED ses
               \/ HalfProvisioned(r.term, k) /\ ses' = [ses EXCEPT ![i].told = TRUE]
       ELSE UNCHANGED <<ses, machine, jobs>>
    /\ Go(p, Idle)
    /\ UNCHANGED <<scenario, progress, faults>>

(***************************************************************************)
(* ReprovisionCurrentStep: at once to provisioning with a goroutine, or     *)
(* inline first and the outcome recorded after, if the row still allows it. *)
(***************************************************************************)
Reprovision(p, i) ==
    LET k == ses[i].step IN
    /\ At(p, "idle") /\ p \notin Launchers
    /\ ses[i].status \in Reprovisionable /\ Alone(i)
    /\ k \in scenario.scripted
    /\ IF k \in scenario.slow
       THEN StartsAsync(i, k, Reprovisionable) /\ UNCHANGED req
       ELSE /\ Go(p, [Idle EXCEPT !.op = "retry", !.id = i, !.term = ses[i].term, !.step = k])
            /\ UNCHANGED <<ses, jobs>>
    /\ UNCHANGED <<scenario, progress, machine, faults>>

Reprovisioned(p) ==
    LET r == req[p] IN
    /\ At(p, "retry") /\ Spared(r.id)
    /\ \/ Provisioned(r.term, r.step) /\ Transition(r.id, Reprovisionable, "active")
       \/ HalfProvisioned(r.term, r.step) /\ Transition(r.id, Reprovisionable, "setup_failed")
    /\ Go(p, Idle)
    /\ UNCHANGED <<scenario, progress, jobs, faults>>

(* The learner gives up; the controller then deletes the container. *)
Abandon(p, i) ==
    /\ At(p, "idle") /\ p \notin Launchers
    /\ ses[i].status \in Abandonable
    /\ Spared(i)
    /\ ses' = Setting(i, "abandoned")
    /\ Go(p, [Idle EXCEPT !.op = "delete", !.id = i, !.term = ses[i].term])
    /\ UNCHANGED <<scenario, progress, machine, jobs, faults>>

DeletesTerminal(p) ==
    LET m == req[p].term IN
    /\ At(p, "delete")
    /\ \A i \in Ids : ses[i].term = m => Spared(i)
    /\ machine' = [machine EXCEPT ![m] = [NoMachine EXCEPT !.state = "deleted"]]
    /\ ses' = Unbound(m)
    /\ Go(p, Idle)
    /\ UNCHANGED <<scenario, progress, jobs, faults>>

RequestStep ==
    \E p \in Requests :
       \/ Launch(p) \/ BulkStart(p) \/ Count(p) \/ Find(p) \/ Insert(p) \/ RollBack(p) \/ Begin(p)
       \/ \E m \in Machines : StartOn(p, m)
       \/ WrongAnswer(p) \/ RightAnswer(p) \/ StepTransition(p) \/ Reprovisioned(p) \/ DeletesTerminal(p)
       \/ \E i \in Ids : Answer(p, i) \/ Reprovision(p, i) \/ Abandon(p, i)

-----------------------------------------------------------------------------
(* The assignment is removed, or the trainer resets the group's sessions. *)
Unassign ==
    /\ InState(Abandonable) # {}
    /\ \A i \in InState(Abandonable) : Spared(i)
    /\ ses' = Abandoning(InState(Abandonable))
    /\ UNCHANGED <<scenario, progress, machine, jobs, req, faults>>

(* EndCrashTrapRun: the shell of a scenario with crash traps was killed. *)
Killed(i) ==
    /\ scenario.traps
    /\ Running(ses[i].term)
    /\ ses[i].status \in Abandonable
    /\ Spared(i)
    /\ ses' = Setting(i, "abandoned")
    /\ jobs' = jobs \cup {Job(i, "trap", ses[i].step)}
    /\ UNCHANGED <<scenario, progress, machine, req, faults>>

(* The user stops or resumes a container, or it lapses and a sync says so;   *)
(* before it has a run, or once that has ended, nothing reads whether it runs. *)
Matters(m) == \E i \in InState(Blocking) : ses[i].term = m

StopMachine(m) ==
    /\ Running(m) /\ Matters(m)
    /\ \A i \in Ids : ses[i].term = m => Spared(i)
    /\ machine' = Stopped(m)
    /\ ses' = Unbound(m)
    /\ UNCHANGED <<scenario, progress, jobs, req, faults>>

MachineLapses(m) ==
    /\ Running(m) /\ Matters(m)
    /\ machine' = Stopped(m)
    /\ UNCHANGED <<scenario, ses, progress, jobs, req, faults>>

ResumeMachine(m) ==
    /\ machine[m].state = "stopped" /\ Matters(m)
    /\ machine' = [machine EXCEPT ![m].state = "running"]
    /\ UNCHANGED <<scenario, ses, progress, jobs, req, faults>>

(* CleanupZombieScenarioSessions: active runs whose container does not run. *)
Zombies == {i \in InState({"active"}) : ~Running(ses[i].term)}

SweepZombies ==
    /\ Zombies # {}
    /\ \A i \in Zombies : Spared(i)
    /\ ses' = Abandoning(Zombies)
    /\ UNCHANGED <<scenario, progress, machine, jobs, req, faults>>

-----------------------------------------------------------------------------
(* CleanupStuckProvisioningSessions. *)
LongestSetup == Max({SetupBudget, StepBudget})
(* Faulty variant: the budget of the first step is taken for the longest. *)
StuckAfterSetup == SetupBudget + ReapMargin
StuckAfter == LongestSetup + ReapMargin

(* Faulty variant: the sweep knows only the phases of the first setup. *)
StuckInSetup(i) == ses[i].status = "provisioning" /\ ses[i].step = First /\ ses[i].age > StuckAfter

Stuck(i) == ses[i].status = "provisioning" /\ ses[i].age > StuckAfter

SweepStuck ==
    /\ \E i \in Ids : Stuck(i)
    /\ \A i \in Ids : Stuck(i) => Unread(i)
    /\ ses' = [i \in Ids |-> IF Stuck(i) THEN [ses[i] EXCEPT !.status = "setup_failed", !.age = 0] ELSE ses[i]]
    /\ UNCHANGED <<scenario, progress, machine, jobs, req, faults>>

(* A script is stopped at its timeout, and the margin covers what the goroutine does after it. *)
Budget(j) == IF j.op = "step" THEN StepBudget ELSE SetupBudget
Scripts == {j \in jobs : j.op \in {"setup", "first", "step"}}

Tick ==
    /\ \E i \in Ids : ses[i].status = "provisioning" /\ ses[i].age <= StuckAfter
    /\ \A j \in Scripts : ses[j.id].status = "provisioning" => ses[j.id].age < Budget(j) + ReapMargin
    /\ ses' = [i \in Ids |-> IF ses[i].status = "provisioning" /\ ses[i].age <= StuckAfter
                             THEN [ses[i] EXCEPT !.age = @ + 1] ELSE ses[i]]
    /\ UNCHANGED <<scenario, progress, machine, jobs, req, faults>>

(* The server dies with something in hand: goroutines and requests go, the rows stay. *)
Crash ==
    /\ faults < MaxFaults
    /\ jobs # {} \/ \E p \in Requests : ~At(p, "idle")
    /\ faults' = faults + 1
    /\ jobs' = {}
    /\ req' = [p \in Requests |-> Idle]
    /\ ses' = [i \in Ids |->
                 [ses[i] EXCEPT !.told = @ \/ \E p \in Requests : req[p].op # "idle" /\ req[p].id = i,
                                !.cut = @ \/ (\E p \in Requests : At(p, "begin") /\ req[p].id = i)
                                          \/ \E j \in jobs : j.id = i /\ j.op \in {"setup", "first", "stop", "close"}]]
    /\ UNCHANGED <<scenario, progress, machine>>

SweepStep == SweepZombies \/ SweepStuck
MachineStep == \E m \in Machines : StopMachine(m) \/ MachineLapses(m) \/ ResumeMachine(m)

Next ==
    \/ RequestStep \/ JobStep \/ SweepStep \/ MachineStep
    \/ Unassign \/ Tick \/ Crash
    \/ \E i \in Ids : Killed(i)

Spec == Init /\ [][Next]_vars

(* The clock runs, the sweep is a ticker and every goroutine ends: one of them moves on; *)
(* a transaction ends.                                                                  *)
FairSpec ==
    /\ Spec
    /\ WF_vars(Tick \/ SweepStuck \/ JobStep)
    /\ \A p \in Requests : WF_vars(Insert(p) \/ RollBack(p))

-----------------------------------------------------------------------------
(***************************************************************************)
(* A learner has one run of a scenario at a time: whatever sweeps, retries  *)
(* and crashes do, two rows never block the slot together, so the run that  *)
(* findExistingSession finds first is the only one.                         *)
(***************************************************************************)
OneRun == Cardinality(InState(Blocking)) <= 1

(***************************************************************************)
(* The rows of the steps say where the run is: the steps before the current *)
(* one are completed, it is active, the later ones are locked, and in a     *)
(* completed run all are completed.                                         *)
(***************************************************************************)
ProgressIsPrefix ==
    \A i \in Sessions : \A k \in Steps :
       progress[i][k].status = IF ses[i].status = "completed" \/ k < ses[i].step THEN "completed"
                               ELSE IF k = ses[i].step THEN "active" ELSE "locked"

(***************************************************************************)
(* The grade stored at completion, computed from the copy loaded before the *)
(* last answer, is the grade of the rows.                                   *)
(***************************************************************************)
GradeIsTheRows ==
    \A i \in InState({"completed"}) : ses[i].grade = Grade(progress[i])

(***************************************************************************)
(* A run that says active can be played: the script of its current step ran *)
(* and, from the second step on, its flag is in place, unless a request is  *)
(* still preparing it or the learner was told that this failed.  The        *)
(* comments of provisionNextStep and of ReprovisionCurrentStep say so.      *)
(***************************************************************************)
PlayableIsBuilt ==
    \A i \in InState({"active"}) :
       LET m == ses[i].term
           k == ses[i].step
       IN \/ ~Running(m) \/ ses[i].told \/ ses[i].cut
          \/ \E p \in Requests : req[p].op \in {"begin", "transition", "retry"} /\ req[p].id = i
          \/ /\ k \in scenario.scripted => k \in machine[m].built
             /\ k \in Flags /\ k # First => k \in machine[m].flags

(***************************************************************************)
(* No run keeps the features its container was given for building without a *)
(* word: once the start is over, whether it succeeded, failed or was        *)
(* abandoned on the way, they are removed, or their removal failed and this *)
(* was logged.  (finishBuild: on every exit from setup, best effort.)       *)
(***************************************************************************)
WindowCloses ==
    \A i \in Sessions :
       \/ ses[i].cut \/ Busy(i)
       \/ \E p \in Requests : At(p, "begin") /\ req[p].id = i
       \/ ses[i].term = 0 \/ machine[ses[i].term].window # "open"

(***************************************************************************)
(* A run that ended stays ended: no goroutine that outlives it, no retry    *)
(* and no sweep brings it back.                                             *)
(***************************************************************************)
FinishedIsFinal ==
    [][\A i \in Ids : ses[i].status \in Finished => ses'[i].status = ses[i].status]_vars

(***************************************************************************)
(* The sweep of stuck runs never writes off one whose script still runs.    *)
(***************************************************************************)
LiveSetupNotReaped ==
    [][SweepStuck => \A j \in Scripts : ses'[j.id] = ses[j.id]]_vars

(***************************************************************************)
(* A run does not stay in provisioning: its goroutine ends, or the sweep    *)
(* releases it after a crash, so that the learner can start again.          *)
(***************************************************************************)
StuckIsReleased ==
    []<>(InState({"provisioning"}) = {})

=============================================================================
