----------------------- MODULE ScenarioSessionsProofs -----------------------
(***************************************************************************)
(* For any scenarios, sessions, containers, requests, budgets and crashes.  *)
(* With the requests orderly: a learner has one run at a time, and a run    *)
(* that ended stays ended (a write of a status is either guarded by the     *)
(* status it replaces or made by a request that holds the row); the rows of *)
(* the steps say where the run is, and its grade is theirs; the sweep of    *)
(* stuck runs spares those whose script still runs; and a run that says     *)
(* active can be played.  Whether or not they are orderly: no container     *)
(* keeps the features it was given for building untried.                   *)
(***************************************************************************)
EXTENDS ScenarioSessions, FiniteSetTheorems, WellFoundedInduction, TLAPS

(* The columns of a row and what a request has in its hands. *)
IsSession(s) == DOMAIN s = {"status", "term", "step", "grade", "age", "told", "cut"}
IsRequest(r) == DOMAIN r = {"op", "id", "term", "step", "mem"}

Typed ==
    /\ ses = [i \in Ids |-> ses[i]] /\ \A i \in Ids : IsSession(ses[i])
    /\ req = [p \in Requests |-> req[p]] /\ \A p \in Requests : IsRequest(req[p])

(* Request p has the row of session i to itself. *)
Holds(p, i) == req[p].op \in {"begin", "answer"} /\ req[p].id = i

(***************************************************************************)
(* The strengthening: what is held is an active run, by one request; and    *)
(* the sessions that were created have bounded numbers, so that the next    *)
(* number is free.                                                         *)
(***************************************************************************)
Holding ==
    /\ \A p \in Requests : req[p].op \in {"begin", "answer"} =>
          req[p].id \in Ids /\ ses[req[p].id].status = "active"
    /\ \A p, q \in Requests, i \in Ids : Holds(p, i) /\ Holds(q, i) => p = q

OneBlocks == \A i, j \in InState(Blocking) : i = j

Numbered == \E n \in Nat : \A i \in Sessions : i <= n

(* What the start of p has read and not yet written still stands: a run whose *)
(* setup failed is the one it found, and the one it found is nobody else's.   *)
Aims(p, i) == At(p, "found") /\ req[p].id = i

Reading ==
    \A p \in Requests, i \in Ids :
       /\ At(p, "found") /\ ses[i].status = "setup_failed" => req[p].id = i
       /\ Aims(p, i) => /\ ses[i].status \in Blocking \cup {"abandoned"}
                        /\ \A q \in Requests : ~Holds(q, i)

Inv == Typed /\ Holding /\ OneBlocks /\ Numbered /\ Reading

(***************************************************************************)
(* A step that only moves blocking runs that nobody holds afterwards, made  *)
(* by a request that holds nothing afterwards, or by none; a run that fails *)
(* its setup is none that a start did not see, one that is completed none   *)
(* that a start is about to abandon.                                       *)
(***************************************************************************)
RowsMild ==
    /\ ses' = [i \in Ids |-> ses'[i]]
    /\ \A i \in Ids :
          /\ IsSession(ses'[i])
          /\ \/ ses'[i].status = ses[i].status
             \/ /\ ses[i].status \in Blocking
                /\ ses'[i].status \in Blocking \cup Finished
                /\ \A p \in Requests : ~Holds(p, i)'
                /\ ses'[i].status = "setup_failed" => Unread(i)
                /\ ses'[i].status = "completed" => \A p \in Requests : ~Aims(p, i)

HandsMild ==
    /\ req' = [p \in Requests |-> req'[p]]
    /\ \A p \in Requests :
          /\ IsRequest(req'[p])
          /\ req'[p] = req[p] \/ req'[p].op \notin {"begin", "answer", "found"}

(* What FinishedIsFinal says of one step. *)
Kept == \A i \in Ids : ses[i].status \in Finished => ses'[i].status = ses[i].status

-----------------------------------------------------------------------------
(* A mild step keeps the invariant. *)
LEMMA MildStep ==
    ASSUME Inv, Orderly, RowsMild, HandsMild
    PROVE  Inv' /\ Kept
<1>1. Typed'
  BY DEF Typed, RowsMild, HandsMild
<1>2. \A p \in Requests, i \in Ids : Holds(p, i)' => Holds(p, i)
  BY DEF HandsMild, Holds
<1>3. Holding'
  <2>1. ASSUME NEW p \in Requests, (req[p].op \in {"begin", "answer"})'
        PROVE  (req[p].id \in Ids /\ ses[req[p].id].status = "active")'
    <3>1. req'[p] = req[p] /\ req[p].op \in {"begin", "answer"}
      BY <2>1 DEF HandsMild
    <3>2. req[p].id \in Ids /\ ses[req[p].id].status = "active"
      BY <3>1 DEF Inv, Holding
    <3>3. Holds(p, req[p].id)'
      BY <2>1, <3>1 DEF Holds
    <3> QED BY <3>1, <3>2, <3>3 DEF RowsMild
  <2>2. ASSUME NEW p \in Requests, NEW q \in Requests, NEW i \in Ids, (Holds(p, i) /\ Holds(q, i))'
        PROVE  p = q
    BY <1>2, <2>2 DEF Inv, Holding
  <2> QED BY <2>1, <2>2 DEF Holding
<1>4. OneBlocks'
  BY DEF RowsMild, Inv, OneBlocks, InState
<1>5. Sessions' \subseteq Sessions
  BY DEF RowsMild, Sessions, Blocking
<1>6. Numbered'
  BY <1>5 DEF Inv, Numbered
<1>7. Kept
  BY DEF RowsMild, Kept, Blocking, Finished
<1>8. Reading'
  <2>1. \A p \in Requests : At(p, "found")' => req'[p] = req[p] /\ At(p, "found")
    BY DEF HandsMild, At
  <2>2. ASSUME NEW p \in Requests, NEW i \in Ids, (At(p, "found") /\ ses[i].status = "setup_failed")'
        PROVE  req'[p].id = i
    <3>1. ses[i].status = "setup_failed" \/ Unread(i)
      BY <2>2 DEF RowsMild
    <3>2. req[p].id = i
      BY <2>1, <2>2, <3>1 DEF Inv, Reading, Unread
    <3> QED BY <2>1, <2>2, <3>2
  <2>3. ASSUME NEW p \in Requests, NEW i \in Ids, Aims(p, i)'
        PROVE  (ses[i].status \in Blocking \cup {"abandoned"})' /\ \A q \in Requests : ~Holds(q, i)'
    <3>1. Aims(p, i)
      BY <2>1, <2>3 DEF Aims
    <3>2. ses[i].status \in Blocking \cup {"abandoned"} /\ \A q \in Requests : ~Holds(q, i)
      BY <3>1 DEF Inv, Reading
    <3>3. ses'[i].status \in Blocking \cup {"abandoned"}
      BY <3>1, <3>2 DEF RowsMild, Finished, Blocking
    <3> QED BY <1>2, <3>2, <3>3 DEF Blocking
  <2> QED BY <2>2, <2>3 DEF Reading
<1> QED BY <1>1, <1>3, <1>4, <1>6, <1>7, <1>8 DEF Inv

(* A write keeps the columns and sets the status. *)
LEMMA WrittenStatus ==
    ASSUME NEW s, IsSession(s), NEW st
    PROVE  IsSession(Written(s, st)) /\ Written(s, st).status = st
BY DEF IsSession, Written

(* The write of one row. *)
LEMMA SettingRows ==
    ASSUME Typed, NEW i, NEW st
    PROVE  /\ Setting(i, st) = [k \in Ids |-> Setting(i, st)[k]]
           /\ \A k \in Ids : /\ IsSession(Setting(i, st)[k])
                             /\ \/ Setting(i, st)[k] = ses[k]
                                \/ k = i /\ Setting(i, st)[k].status = st
<1> DEFINE new == Written(ses[i], st)
<1>1. Setting(i, st) = [ses EXCEPT ![i] = new]
  BY DEF Setting
<1>2. i \in Ids => IsSession(new) /\ new.status = st
  BY WrittenStatus DEF Typed
<1> HIDE DEF new
<1> QED BY <1>1, <1>2 DEF Typed

(* Abandoning a set of rows. *)
LEMMA AbandoningRows ==
    ASSUME Typed, NEW S
    PROVE  /\ Abandoning(S) = [k \in Ids |-> Abandoning(S)[k]]
           /\ \A k \in Ids : /\ IsSession(Abandoning(S)[k])
                             /\ \/ Abandoning(S)[k] = ses[k]
                                \/ k \in S /\ Abandoning(S)[k].status = "abandoned"
<1>1. \A k \in Ids : Abandoning(S)[k] = IF k \in S THEN Written(ses[k], "abandoned") ELSE ses[k]
  BY DEF Abandoning
<1>2. \A k \in Ids : IsSession(Written(ses[k], "abandoned")) /\ Written(ses[k], "abandoned").status = "abandoned"
  BY WrittenStatus DEF Typed
<1>3. Abandoning(S) = [k \in Ids |-> Abandoning(S)[k]]
  BY DEF Abandoning
<1> QED BY <1>1, <1>2, <1>3 DEF Typed

(* Abandoning blocking runs that are spared of requests is mild. *)
LEMMA AbandoningIsMild ==
    ASSUME Inv, Orderly, HandsMild, NEW S, ses' = Abandoning(S),
           \A i \in S : ses[i].status \in Blocking /\ Spared(i)
    PROVE  RowsMild
<1>1. \A i \in S : \A p \in Requests : ~Holds(p, i)'
  BY DEF Spared, Held, Holds, HandsMild
<1> QED BY <1>1, AbandoningRows DEF Inv, RowsMild, Finished

(* So is a guarded transition of such a run, *)
LEMMA SettingIsMild ==
    ASSUME Inv, Orderly, HandsMild, NEW i, NEW st \in Blocking \cup {"abandoned"},
           ses' = Setting(i, st), i \in Ids => ses[i].status \in Blocking /\ Spared(i),
           st = "setup_failed" => Unread(i)
    PROVE  RowsMild
<1>1. i \in Ids => \A p \in Requests : ~Holds(p, i)'
  BY DEF Spared, Held, Holds, HandsMild
<1>2. st \in Blocking \cup Finished /\ st # "completed"
  BY DEF Blocking, Finished
<1> QED BY <1>1, <1>2, SettingRows DEF Inv, RowsMild

(* and no write at all. *)
LEMMA SameIsMild ==
    ASSUME Inv, ses' = ses
    PROVE  RowsMild
BY DEF Inv, Typed, RowsMild

(* A run in provisioning is held by nobody. *)
LEMMA ProvisioningIsFree ==
    ASSUME Inv, NEW i \in Ids, ses[i].status # "active"
    PROVE  Spared(i)
BY DEF Inv, Holding, Spared, Held

(* The guarded transition of a row: refused, it leaves the row alone. *)
LEMMA TransitionIsMild ==
    ASSUME Inv, Orderly, HandsMild, NEW i, NEW from \in SUBSET Blocking,
           NEW to \in Blocking, Transition(i, from, to),
           "active" \in from => Spared(i)
    PROVE  RowsMild
<1>1. CASE ses' = ses
  BY <1>1, SameIsMild
<1>2. CASE ses[i].status \in from /\ ses' = Setting(i, to)
  <2>1. i \in Ids => Spared(i)
    BY <1>2, ProvisioningIsFree
  <2>2. to = "setup_failed" => Unread(i)
    BY DEF Transition
  <2> QED BY <1>2, <2>1, <2>2, SettingIsMild
<1> QED BY <1>1, <1>2 DEF Transition

-----------------------------------------------------------------------------
(* A request that goes on without holding a row. *)
LEMMA GoIsMild ==
    ASSUME Typed, NEW p \in Requests, NEW r, Go(p, r), IsRequest(r),
           r.op \notin {"begin", "answer", "found"}
    PROVE  HandsMild
BY DEF Typed, Go, HandsMild

(* Nothing happens in the requests' hands. *)
LEMMA SameHandsAreMild ==
    ASSUME Typed, req' = req
    PROVE  HandsMild
BY DEF Typed, HandsMild

(* The idle request. *)
LEMMA IdleIsRequest == IsRequest(Idle) /\ Idle.op = "idle"
BY DEF IsRequest, Idle

(* What a request that lets go of its row has written is its own affair. *)
LEMMA OwnRowIsMild ==
    ASSUME Inv, HandsMild, NEW p \in Requests, NEW i \in Ids, Holds(p, i), ~Holds(p, i)',
           ses' = [k \in Ids |-> ses'[k]], IsSession(ses'[i]),
           ses'[i].status \in (Blocking \cup Finished) \ {"setup_failed"},
           \A k \in Ids \ {i} : ses'[k] = ses[k]
    PROVE  RowsMild
<1>1. ses[i].status \in Blocking /\ \A q \in Requests : ~Aims(q, i)
  BY DEF Holds, Inv, Holding, Blocking, Reading
<1>2. \A q \in Requests : ~Holds(q, i)'
  BY DEF Inv, Holding, Holds, HandsMild
<1> QED BY <1>1, <1>2 DEF Inv, Typed, RowsMild

(* The columns that are not the status. *)
LEMMA ColumnsAreMild ==
    ASSUME Inv, ses' = [k \in Ids |-> ses'[k]],
           \A k \in Ids : IsSession(ses'[k]) /\ ses'[k].status = ses[k].status
    PROVE  RowsMild
BY DEF RowsMild

-----------------------------------------------------------------------------
(* The goroutines. *)
LEMMA JobIsMild ==
    ASSUME Inv, Orderly, JobStep
    PROVE  RowsMild /\ HandsMild
<1>1. HandsMild
  BY SameHandsAreMild DEF Inv, JobStep
<1>2. PICK j \in jobs : SetupEnds(j) \/ FirstEnds(j) \/ StopsTerminal(j) \/ CloseWindow(j) \/ StepEnds(j)
  BY DEF JobStep
<1>3. CASE SetupEnds(j) \/ FirstEnds(j) \/ StepEnds(j)
  <2>1. PICK to \in {"provisioning", "active", "setup_failed"} : Transition(j.id, {"provisioning"}, to)
    BY <1>3 DEF SetupEnds, FirstEnds, StepEnds
  <2> QED BY <1>1, <2>1, TransitionIsMild DEF Blocking
<1>4. CASE StopsTerminal(j)
  <2> DEFINE S == {i \in InState(Abandonable) : ses[i].term = ses[j.id].term}
  <2>1. CASE ses' = ses
    BY <1>1, <2>1, SameIsMild
  <2>2. CASE ses' = Abandoning(S) /\ \A i \in Ids : ses[i].term = ses[j.id].term => Spared(i)
    <3>1. \A i \in S : ses[i].status \in Blocking /\ Spared(i)
      BY <2>2 DEF InState, Abandonable, Blocking
    <3> QED BY <1>1, <2>2, <3>1, AbandoningIsMild
  <2> QED BY <1>4, <2>1, <2>2 DEF StopsTerminal, TriesStop, Unbound
<1>5. CASE CloseWindow(j)
  BY <1>1, <1>5, SameIsMild DEF CloseWindow
<1> QED BY <1>1, <1>2, <1>3, <1>4, <1>5

(* The sweeps, the trainer, the containers, the clock and a crash. *)
LEMMA OthersAreMild ==
    ASSUME Inv, Orderly,
           SweepStep \/ MachineStep \/ Unassign \/ Tick \/ Crash \/ \E i \in Ids : Killed(i)
    PROVE  RowsMild /\ HandsMild
<1>1. CASE SweepZombies
  <2>1. HandsMild
    BY <1>1, SameHandsAreMild DEF Inv, SweepZombies
  <2>2. \A i \in Zombies : ses[i].status \in Blocking /\ Spared(i)
    BY <1>1 DEF SweepZombies, Zombies, InState, Blocking
  <2> QED BY <1>1, <2>1, <2>2, AbandoningIsMild DEF SweepZombies
<1>2. CASE SweepStuck
  <2>1. HandsMild
    BY <1>2, SameHandsAreMild DEF Inv, SweepStuck
  <2>2. \A i \in Ids : Stuck(i) => ses[i].status = "provisioning" /\ \A p \in Requests : ~Holds(p, i)'
    BY <2>1, ProvisioningIsFree DEF Stuck, Inv, Holding, Holds, HandsMild
  <2>3. ses' = [i \in Ids |-> IF Stuck(i) THEN [ses[i] EXCEPT !.status = "setup_failed", !.age = 0] ELSE ses[i]]
    BY <1>2 DEF SweepStuck
  <2>4. \A i \in Ids : /\ IsSession([ses[i] EXCEPT !.status = "setup_failed", !.age = 0])
                       /\ [ses[i] EXCEPT !.status = "setup_failed", !.age = 0].status = "setup_failed"
    BY DEF Inv, Typed, IsSession
  <2>5. \A i \in Ids : Stuck(i) => Unread(i)
    BY <1>2 DEF SweepStuck
  <2>6. RowsMild
    BY <2>2, <2>3, <2>4, <2>5 DEF Inv, Typed, RowsMild, Blocking
  <2> QED BY <2>1, <2>6
<1>3. CASE MachineStep
  <2>1. HandsMild
    BY <1>3, SameHandsAreMild DEF Inv, MachineStep, StopMachine, MachineLapses, ResumeMachine
  <2>2. CASE ses' = ses
    BY <2>1, <2>2, SameIsMild
  <2>3. ASSUME NEW m \in Machines, StopMachine(m) PROVE RowsMild
    <3> DEFINE S == {i \in InState(Abandonable) : ses[i].term = m}
    <3>1. ses' = Abandoning(S)
      BY <2>3 DEF StopMachine, Unbound
    <3>2. \A i \in S : ses[i].status \in Blocking /\ Spared(i)
      BY <2>3 DEF StopMachine, InState, Abandonable, Blocking
    <3> QED BY <2>1, <3>1, <3>2, AbandoningIsMild
  <2> QED BY <1>3, <2>1, <2>2, <2>3 DEF MachineStep, MachineLapses, ResumeMachine
<1>4. CASE Unassign
  <2>1. HandsMild
    BY <1>4, SameHandsAreMild DEF Inv, Unassign
  <2>2. \A i \in InState(Abandonable) : ses[i].status \in Blocking /\ Spared(i)
    BY <1>4 DEF Unassign, InState, Abandonable, Blocking
  <2> QED BY <1>4, <2>1, <2>2, AbandoningIsMild DEF Unassign
<1>5. CASE Tick
  <2>1. HandsMild
    BY <1>5, SameHandsAreMild DEF Inv, Tick
  <2>2. \A i \in Ids : /\ IsSession([ses[i] EXCEPT !.age = @ + 1])
                       /\ [ses[i] EXCEPT !.age = @ + 1].status = ses[i].status
    BY DEF Inv, Typed, IsSession
  <2>3. RowsMild
    BY <1>5, <2>2, ColumnsAreMild DEF Tick, Inv, Typed
  <2> QED BY <2>1, <2>3
<1>6. CASE Crash
  <2>1. HandsMild
    BY <1>6, IdleIsRequest DEF Crash, HandsMild
  <2>2. \A i \in Ids : \A a, b : /\ IsSession([ses[i] EXCEPT !.told = a, !.cut = b])
                                 /\ [ses[i] EXCEPT !.told = a, !.cut = b].status = ses[i].status
    BY DEF Inv, Typed, IsSession
  <2> DEFINE toldThen(i) == ses[i].told \/ \E p \in Requests : req[p].op # "idle" /\ req[p].id = i
             cutThen(i) == \/ ses[i].cut
                           \/ \E p \in Requests : At(p, "begin") /\ req[p].id = i
                           \/ \E j \in jobs : j.id = i /\ j.op \in {"setup", "first", "stop", "close"}
  <2>3. ses' = [i \in Ids |-> [ses[i] EXCEPT !.told = toldThen(i), !.cut = cutThen(i)]]
    BY <1>6 DEF Crash
  <2> HIDE DEF toldThen, cutThen
  <2>4. RowsMild
    BY <2>2, <2>3, ColumnsAreMild
  <2> QED BY <2>1, <2>4
<1>7. ASSUME NEW i \in Ids, Killed(i) PROVE RowsMild /\ HandsMild
  <2>1. HandsMild
    BY <1>7, SameHandsAreMild DEF Inv, Killed
  <2>2. ses[i].status \in Blocking /\ Spared(i) /\ ses' = Setting(i, "abandoned")
    BY <1>7 DEF Killed, Abandonable, Blocking
  <2> QED BY <2>1, <2>2, SettingIsMild DEF Finished
<1> QED BY <1>1, <1>2, <1>3, <1>4, <1>5, <1>6, <1>7 DEF SweepStep

-----------------------------------------------------------------------------
(* Putting a run in the hands of a goroutine. *)
LEMMA StartsAsyncIsMild ==
    ASSUME Inv, Orderly, HandsMild, NEW i, NEW k, NEW from \in SUBSET Blocking,
           StartsAsync(i, k, from), Spared(i)
    PROVE  RowsMild
<1>1. CASE ses' = ses
  BY <1>1, SameIsMild
<1>2. CASE ses[i].status \in from /\ ses' = Setting(i, "provisioning")
  BY <1>2, SettingIsMild DEF Blocking
<1> QED BY <1>1, <1>2 DEF StartsAsync

(* The end of StartScenario, by the request that holds the new run. *)
LEMMA BeginIsMild ==
    ASSUME Inv, NEW p \in Requests, Begin(p)
    PROVE  RowsMild /\ HandsMild
<1>1. PICK i \in Ids : i = req[p].id
  BY DEF Begin, At, Inv, Holding
<1>a. Go(p, Idle) /\ Holds(p, i)
  BY <1>1 DEF Begin, At, Holds
<1>2. HandsMild /\ ~Holds(p, i)'
  BY <1>a, GoIsMild, IdleIsRequest DEF Inv, Typed, Go, Holds
<1> DEFINE new == [ses[i] EXCEPT !.cut = TRUE]
<1>3. IsSession(new) /\ new.status = ses[i].status
  BY <1>1 DEF Inv, Typed, IsSession
<1>4. \/ ses' = [ses EXCEPT ![i] = new]
      \/ ses' = Setting(i, "provisioning")
      \/ ses' = ses
  BY <1>1 DEF Begin
<1> HIDE DEF new
<1>5. CASE ses' = [ses EXCEPT ![i] = new]
  BY <1>1, <1>2, <1>3, <1>5, ColumnsAreMild DEF Inv, Typed
<1>6. CASE ses' = Setting(i, "provisioning")
  <2>1. /\ ses' = [k \in Ids |-> ses'[k]] /\ IsSession(ses'[i])
        /\ \A k \in Ids \ {i} : ses'[k] = ses[k]
    BY <1>1, <1>6, SettingRows DEF Inv
  <2>2. ses'[i].status \in (Blocking \cup Finished) \ {"setup_failed"}
    BY <1>6, SettingRows, <1>a DEF Inv, Holds, Holding, Blocking
  <2>3. RowsMild
    BY <1>a, <1>2, <2>1, <2>2, OwnRowIsMild
  <2> QED BY <1>2, <2>3
<1>7. CASE ses' = ses
  BY <1>2, <1>7, SameIsMild
<1> QED BY <1>2, <1>4, <1>5, <1>6, <1>7

(* A right answer, by the request that holds the run. *)
LEMMA RightAnswerIsMild ==
    ASSUME Inv, NEW p \in Requests, RightAnswer(p)
    PROVE  RowsMild /\ HandsMild
<1>0. PICK i \in Ids : i = req[p].id
  BY DEF RightAnswer, At, Inv, Holding
<1> DEFINE next(k) == [req[p] EXCEPT !.op = "transition", !.step = k, !.mem = Idle.mem]
           moved(k) == [ses[i] EXCEPT !.step = k, !.age = 0, !.told = FALSE]
           graded(g) == [Setting(i, "completed")[i] EXCEPT !.grade = g]
<1>1. Holds(p, i) /\ i \in Ids /\ ses[i].status = "active"
  BY <1>0 DEF RightAnswer, At, Holds, Inv, Holding
<1>2. \/ Go(p, Idle) /\ \E g : ses' = [Setting(i, "completed") EXCEPT ![i].grade = g]
      \/ \E k : Go(p, next(k)) /\ ses' = [ses EXCEPT ![i].step = k, ![i].age = 0, ![i].told = FALSE]
  BY <1>0 DEF RightAnswer
<1>3. \A k : IsRequest(next(k)) /\ next(k).op = "transition"
  BY DEF Inv, Typed, IsRequest
<1>4. \A k : IsSession(moved(k)) /\ moved(k).status = "active"
  BY <1>1 DEF Inv, Typed, IsSession
<1>5. \A g : IsSession(graded(g)) /\ graded(g).status = "completed"
  <2>1. IsSession(Setting(i, "completed")[i]) /\ Setting(i, "completed")[i].status = "completed"
    BY <1>1, WrittenStatus DEF Inv, Typed, Setting
  <2> QED BY <2>1 DEF IsSession
<1>6. ASSUME NEW g, Go(p, Idle), ses' = [Setting(i, "completed") EXCEPT ![i].grade = g]
      PROVE  RowsMild /\ HandsMild
  <2>1. HandsMild /\ ~Holds(p, i)'
    BY <1>1, <1>6, GoIsMild, IdleIsRequest DEF Inv, Typed, Go, Holds
  <2>2. ses' = [Setting(i, "completed") EXCEPT ![i] = graded(g)]
    BY <1>6
  <2>3. /\ Setting(i, "completed") = [k \in Ids |-> Setting(i, "completed")[k]]
        /\ \A k \in Ids \ {i} : Setting(i, "completed")[k] = ses[k]
    BY <1>1, SettingRows DEF Inv
  <2> HIDE DEF graded
  <2>4. /\ ses' = [k \in Ids |-> ses'[k]] /\ ses'[i] = graded(g)
        /\ \A k \in Ids \ {i} : ses'[k] = ses[k]
    BY <1>1, <2>2, <2>3
  <2>5. IsSession(ses'[i]) /\ ses'[i].status \in (Blocking \cup Finished) \ {"setup_failed"}
    BY <1>5, <2>4 DEF Finished
  <2>6. RowsMild
    BY <1>1, <2>1, <2>4, <2>5, OwnRowIsMild
  <2> QED BY <2>1, <2>6
<1>7. ASSUME NEW k, Go(p, next(k)), ses' = [ses EXCEPT ![i].step = k, ![i].age = 0, ![i].told = FALSE]
      PROVE  RowsMild /\ HandsMild
  <2>1. HandsMild
    <3> HIDE DEF next
    <3> QED BY <1>3, <1>7, GoIsMild DEF Inv
  <2>2. ses' = [ses EXCEPT ![i] = moved(k)]
    BY <1>1, <1>7 DEF Inv, Typed
  <2> HIDE DEF moved
  <2>3. RowsMild
    BY <1>1, <1>4, <2>2, ColumnsAreMild DEF Inv, Typed
  <2> QED BY <2>1, <2>3
<1> QED BY <1>2, <1>6, <1>7

(* A request that takes no run, finds none or lets one go. *)
OtherRequest(p) ==
    \/ Launch(p) \/ BulkStart(p) \/ Count(p) \/ RollBack(p) \/ WrongAnswer(p) \/ StepTransition(p)
    \/ Reprovisioned(p) \/ DeletesTerminal(p)
    \/ \E m \in Machines : StartOn(p, m)
    \/ \E i \in Ids : Reprovision(p, i) \/ Abandon(p, i)

LEMMA OtherRequestIsMild ==
    ASSUME Inv, Orderly, NEW p \in Requests, OtherRequest(p)
    PROVE  RowsMild /\ HandsMild
<1> DEFINE begun(m) == [Idle EXCEPT !.op = "start", !.term = m]
           retry(i, m, k) == [Idle EXCEPT !.op = "retry", !.id = i, !.term = m, !.step = k]
           delete(i, m) == [Idle EXCEPT !.op = "delete", !.id = i, !.term = m]
           counted == [req[p] EXCEPT !.op = "count"]
<1>1. /\ \A m : IsRequest(begun(m)) /\ begun(m).op = "start"
      /\ \A i, m, k : IsRequest(retry(i, m, k)) /\ retry(i, m, k).op = "retry"
      /\ \A i, m : IsRequest(delete(i, m)) /\ delete(i, m).op = "delete"
      /\ IsRequest(counted) /\ counted.op = "count"
  BY IdleIsRequest DEF IsRequest, Inv, Typed
<1>2. /\ Launch(p) => Go(p, begun(NextMachine))
      /\ BulkStart(p) => Go(p, begun(NextMachine))
      /\ Count(p) => Go(p, Idle) \/ Go(p, counted)
      /\ RollBack(p) \/ WrongAnswer(p) \/ StepTransition(p) \/ Reprovisioned(p) \/ DeletesTerminal(p)
            => Go(p, Idle)
      /\ \A m : StartOn(p, m) => Go(p, begun(m))
      /\ \A i : Reprovision(p, i) => req' = req \/ Go(p, retry(i, ses[i].term, ses[i].step))
      /\ \A i : Abandon(p, i) => Go(p, delete(i, ses[i].term))
  BY DEF Launch, BulkStart, Count, RollBack, WrongAnswer, StepTransition, Reprovisioned, DeletesTerminal,
         StartOn, Reprovision, Abandon
<1> HIDE DEF begun, retry, delete, counted
<1>3. HandsMild
  BY <1>1, <1>2, GoIsMild, SameHandsAreMild, IdleIsRequest DEF OtherRequest, Inv
<1>4. CASE ses' = ses
  BY <1>3, <1>4, SameIsMild
<1>5. CASE BulkStart(p)
  <2>1. CASE ses' = ses
    BY <1>3, <2>1, SameIsMild
  <2>2. ASSUME NEW i \in InState(Blocking), Spared(i), ses' = Setting(i, "abandoned") PROVE RowsMild
    BY <1>3, <2>2, SettingIsMild DEF InState, Finished
  <2> QED BY <1>3, <1>5, <2>1, <2>2 DEF BulkStart
<1>6. CASE StepTransition(p)
  <2>1. PICK i : i = req[p].id
    OBVIOUS
  <2>2. Spared(i)
    BY <1>6, <2>1 DEF StepTransition
  <2> DEFINE new == [ses[i] EXCEPT !.told = TRUE]
  <2>3. i \in Ids => IsSession(new) /\ new.status = ses[i].status
    BY DEF Inv, Typed, IsSession
  <2>4. \/ ses' = ses
        \/ ses' = [ses EXCEPT ![i] = new]
        \/ \E k : StartsAsync(i, k, {"active"})
    BY <1>6, <2>1 DEF StepTransition
  <2> HIDE DEF new
  <2>5. CASE ses' = [ses EXCEPT ![i] = new]
    BY <1>3, <2>3, <2>5, ColumnsAreMild DEF Inv, Typed
  <2>6. ASSUME NEW k, StartsAsync(i, k, {"active"}) PROVE RowsMild
    BY <1>3, <2>2, <2>6, StartsAsyncIsMild DEF Blocking
  <2> QED BY <1>3, <1>4, <2>4, <2>5, <2>6
<1>7. CASE Reprovisioned(p)
  <2>1. PICK i : i = req[p].id
    OBVIOUS
  <2>2. Spared(i)
    BY <1>7, <2>1 DEF Reprovisioned
  <2>3. PICK to \in {"active", "setup_failed"} : Transition(i, Reprovisionable, to)
    BY <1>7, <2>1 DEF Reprovisioned
  <2> QED BY <1>3, <2>2, <2>3, TransitionIsMild DEF Reprovisionable, Blocking
<1>8. CASE DeletesTerminal(p)
  <2>1. PICK m : m = req[p].term
    OBVIOUS
  <2> DEFINE S == {i \in InState(Abandonable) : ses[i].term = m}
  <2>2. ses' = Abandoning(S)
    BY <1>8, <2>1 DEF DeletesTerminal, Unbound
  <2>3. \A i \in S : ses[i].status \in Blocking /\ Spared(i)
    BY <1>8, <2>1 DEF DeletesTerminal, InState, Abandonable, Blocking
  <2> QED BY <1>3, <2>2, <2>3, AbandoningIsMild
<1>9. ASSUME NEW i \in Ids, Reprovision(p, i) PROVE RowsMild /\ HandsMild
  <2>1. Spared(i)
    BY <1>9 DEF Reprovision, Alone, Spared, Held, At
  <2>2. ses' = ses \/ \E k : StartsAsync(i, k, Reprovisionable)
    BY <1>9 DEF Reprovision
  <2>3. ASSUME NEW k, StartsAsync(i, k, Reprovisionable) PROVE RowsMild
    BY <1>3, <2>1, <2>3, StartsAsyncIsMild DEF Reprovisionable, Blocking
  <2> QED BY <1>3, <1>4, <2>2, <2>3
<1>10. ASSUME NEW i \in Ids, Abandon(p, i) PROVE RowsMild /\ HandsMild
  <2>1. ses[i].status \in Blocking /\ Spared(i) /\ ses' = Setting(i, "abandoned")
    BY <1>10 DEF Abandon, Abandonable, Blocking
  <2> QED BY <1>3, <2>1, SettingIsMild DEF Finished
<1>11. Launch(p) \/ Count(p) \/ RollBack(p) \/ WrongAnswer(p) \/ (\E m \in Machines : StartOn(p, m))
          => ses' = ses
  BY DEF Launch, Count, RollBack, WrongAnswer, StartOn
<1> QED BY <1>4, <1>5, <1>6, <1>7, <1>8, <1>9, <1>10, <1>11 DEF OtherRequest

-----------------------------------------------------------------------------
(* An answer takes hold of an active run that no request has in its hands. *)
LEMMA AnswerKeeps ==
    ASSUME Inv, Orderly, NEW p \in Requests, NEW i \in Ids, Answer(p, i)
    PROVE  Inv' /\ Kept
<1>1. PICK r : Go(p, r) /\ IsRequest(r) /\ r.op = "answer" /\ r.id = i
  <2> DEFINE new == [op |-> "answer", id |-> i, term |-> ses[i].term, step |-> ses[i].step, mem |-> progress[i]]
  <2>1. Go(p, new)
    BY DEF Answer
  <2> QED BY <2>1 DEF IsRequest
<1>2. ses' = ses /\ ses[i].status = "active"
  BY DEF Answer
<1>3. req' = [q \in Requests |-> IF q = p THEN r ELSE req[q]]
  BY <1>1 DEF Go, Inv, Typed
<1>4. \A q \in Requests : ~Holds(q, i)
  BY DEF Answer, Alone, At, Holds
<1>5. Typed'
  BY <1>1, <1>2, <1>3 DEF Inv, Typed
<1>6. Holding'
  <2>1. \A q \in Requests, k \in Ids : Holds(q, k)' => (q = p /\ k = i) \/ (q # p /\ Holds(q, k))
    BY <1>1, <1>3 DEF Holds
  <2>2. \A q \in Requests : (req[q].op \in {"begin", "answer"})' =>
           (req[q].id \in Ids /\ ses[req[q].id].status = "active")'
    BY <1>1, <1>2, <1>3 DEF Inv, Holding
  <2>3. \A q, q2 \in Requests, k \in Ids : (Holds(q, k) /\ Holds(q2, k))' => q = q2
    BY <1>4, <2>1 DEF Inv, Holding
  <2> QED BY <2>2, <2>3 DEF Holding
<1>7. (OneBlocks /\ Numbered)' /\ Kept
  BY <1>2 DEF Inv, OneBlocks, Numbered, InState, Sessions, Kept
<1>8. Reading'
  <2>1. \A q \in Requests : At(q, "found")' => At(q, "found") /\ req'[q] = req[q]
    BY <1>1, <1>3 DEF At
  <2>2. \A q \in Requests : ~Aims(q, i)
    BY DEF Answer, Alone, At, Aims
  <2>3. \A q \in Requests, k \in Ids : Holds(q, k)' => k = i \/ Holds(q, k)
    BY <1>1, <1>3 DEF Holds
  <2>4. \A q \in Requests, k \in Ids : Aims(q, k)' => Aims(q, k)
    BY <2>1 DEF Aims
  <2> QED BY <1>2, <2>1, <2>2, <2>3, <2>4 DEF Inv, Reading
<1> QED BY <1>5, <1>6, <1>7, <1>8 DEF Inv

-----------------------------------------------------------------------------
(* The order the well-founded minimum goes by. *)
LEMMA LessThanRelation == OpToRel(<, Nat) = {ss \in Nat \X Nat : ss[1] < ss[2]}
BY DEF OpToRel

(* A set of numbers with a bound has a greatest one: the least of its bounds. *)
LEMMA MaxIsGreatest ==
    ASSUME NEW S \in SUBSET Nat, S # {}, NEW n \in Nat, \A i \in S : i <= n
    PROVE  Max(S) \in S /\ \A i \in S : i <= Max(S)
<1> DEFINE Bounds == {b \in Nat : \A i \in S : i <= b}
<1>1. PICK b \in Bounds : \A a \in Bounds : ~(<<a, b>> \in OpToRel(<, Nat))
  <2>1. Bounds \in SUBSET Nat /\ Bounds # {}
    OBVIOUS
  <2> HIDE DEF Bounds
  <2> QED BY <2>1, WFMin, NatLessThanWellFounded
<1>2. \A a \in Bounds : ~(a < b)
  <2>1. \A a \in Bounds : <<a, b>> \notin {ss \in Nat \X Nat : ss[1] < ss[2]}
    BY <1>1, LessThanRelation
  <2> QED BY <2>1
<1>3. b \in S
  <2> SUFFICES ASSUME b \notin S PROVE FALSE
    OBVIOUS
  <2>1. b \in Nat /\ \A i \in S : i <= b
    OBVIOUS
  <2>2. \A i \in S : i \in Nat /\ i # b
    OBVIOUS
  <2>3. PICK i \in S : TRUE
    OBVIOUS
  <2>4. b - 1 \in Nat /\ \A j \in S : j <= b - 1
    BY <2>1, <2>2, <2>3
  <2>5. b - 1 \in Bounds /\ b - 1 < b
    BY <2>1, <2>4
  <2> HIDE DEF Bounds
  <2> QED BY <1>2, <2>5
<1>4. \A i \in S : b >= i
  OBVIOUS
<1>5. Max(S) \in S /\ \A i \in S : Max(S) >= i
  BY <1>3, <1>4 DEF Max
<1>6. \A i \in S : i \in Nat
  OBVIOUS
<1> QED BY <1>5, <1>6

(* The next number is greater than those of the sessions that were created. *)
LEMMA NextIdIsFree ==
    ASSUME Numbered
    PROVE  NextId \in Nat /\ \A i \in Sessions : i < NextId
<1> DEFINE S == Sessions \cup {0}
<1>1. S \in SUBSET Nat /\ S # {}
  <2>1. \A i \in Ids : i \in Nat
    BY ScenarioAssumption
  <2>2. \A i \in Sessions : i \in Nat
    BY <2>1 DEF Sessions
  <2> QED BY <2>2
<1>2. PICK n \in Nat : \A i \in S : i <= n
  BY DEF Numbered
<1> HIDE DEF S
<1>3. Max(S) \in S /\ \A i \in S : i <= Max(S)
  BY <1>1, <1>2, MaxIsGreatest
<1>4. Max(S) \in Nat
  BY <1>1, <1>3
<1>5. NextId = Max(S) + 1
  BY DEF NextId, S
<1>6. \A i \in Sessions : i \in S /\ i \in Nat
  BY <1>1 DEF S
<1> QED BY <1>3, <1>4, <1>5, <1>6

(***************************************************************************)
(* What the start reads: the one blocking run, if there is one.             *)
(***************************************************************************)
LEMMA FindKeeps ==
    ASSUME Inv, Orderly, NEW p \in Requests, Find(p)
    PROVE  Inv' /\ Kept
<1>1. ses' = ses
  BY DEF Find
<1>2. CASE Go(p, Idle)
  <2>1. HandsMild
    BY <1>2, GoIsMild, IdleIsRequest DEF Inv
  <2> QED BY <1>1, <2>1, SameIsMild, MildStep
<1>3. ASSUME NEW id, Go(p, [req[p] EXCEPT !.op = "found", !.id = id]),
             Way \subseteq {id},
             id \in Ids => id \in Way /\ Spared(id)
      PROVE  Inv' /\ Kept
  <2> DEFINE hand == [req[p] EXCEPT !.op = "found", !.id = id]
  <2>1. IsRequest(hand) /\ hand.op = "found" /\ hand.id = id
    BY DEF IsRequest, Inv, Typed
  <2>2. Go(p, hand)
    BY <1>3
  <2> HIDE DEF hand
  <2>3. req' = [q \in Requests |-> IF q = p THEN hand ELSE req[q]]
    BY <2>2 DEF Go, Inv, Typed
  <2>4. Typed'
    BY <1>1, <2>1, <2>3 DEF Inv, Typed
  <2>5. \A q \in Requests : (req[q].op \in {"begin", "answer"})' => req[q].op \in {"begin", "answer"} /\ req'[q] = req[q]
    BY <2>1, <2>3
  <2>6. \A q \in Requests, i \in Ids : Holds(q, i)' => Holds(q, i)
    BY <2>5 DEF Holds
  <2>7. Holding'
    BY <1>1, <2>5, <2>6 DEF Inv, Holding
  <2>8. (OneBlocks /\ Numbered)' /\ Kept
    BY <1>1 DEF Inv, OneBlocks, Numbered, InState, Sessions, Kept
  <2>9. ASSUME NEW q \in Requests, NEW i \in Ids, At(q, "found")', ses[i].status = "setup_failed"
        PROVE  req'[q].id = i
    <3>1. i \in Way
      BY <2>9 DEF Way, InState, Blocking
    <3>2. CASE q = p
      BY <1>3, <2>1, <2>3, <3>1, <3>2
    <3>3. CASE q # p
      BY <2>3, <2>9, <3>3 DEF Inv, Reading, At
    <3> QED BY <3>2, <3>3
  <2>10. ASSUME NEW q \in Requests, NEW i \in Ids, Aims(q, i)'
         PROVE  ses[i].status \in Blocking \cup {"abandoned"} /\ \A q2 \in Requests : ~Holds(q2, i)
    <3>1. CASE q = p
      <4>1. i = id
        BY <2>1, <2>3, <2>10, <3>1 DEF Aims
      <4> QED BY <1>3, <4>1 DEF Way, InState, Spared, Held, Holds
    <3>2. CASE q # p
      BY <2>3, <2>10, <3>2 DEF Inv, Reading, Aims, At
    <3> QED BY <3>1, <3>2
  <2>11. Reading'
    BY <1>1, <2>6, <2>9, <2>10 DEF Reading
  <2> QED BY <2>4, <2>7, <2>8, <2>11 DEF Inv
<1>4. CASE Way = {} /\ Go(p, [req[p] EXCEPT !.op = "found", !.id = 0])
  <2>1. 0 \notin Ids
    BY ScenarioAssumption
  <2> QED BY <1>3, <1>4, <2>1
<1>5. ASSUME NEW i \in Way, Spared(i), Go(p, [req[p] EXCEPT !.op = "found", !.id = i])
      PROVE  Inv' /\ Kept
  <2>1. Way \subseteq {i}
    BY DEF Inv, OneBlocks, Way
  <2> QED BY <1>3, <1>5, <2>1
<1>6. \/ Go(p, Idle)
      \/ Way = {} /\ Go(p, [req[p] EXCEPT !.op = "found", !.id = 0])
      \/ \E i \in Way : Spared(i) /\ Go(p, [req[p] EXCEPT !.op = "found", !.id = i])
  BY DEF Find
<1> QED BY <1>2, <1>4, <1>5, <1>6

(***************************************************************************)
(* What it writes: the new row takes the slot that the only blocking one,   *)
(* if there was one, gave up.                                              *)
(***************************************************************************)
LEMMA InsertKeeps ==
    ASSUME Inv, Orderly, NEW p \in Requests, Insert(p)
    PROVE  Inv' /\ Kept
<1> DEFINE gone == Ids \cap {req[p].id}
<1>1. /\ \A i \in gone : Aims(p, i)
      /\ \A i \in gone : ses[i].status \in Blocking \cup {"abandoned"} /\ \A q \in Requests : ~Holds(q, i)
  BY DEF Insert, Inv, Reading, Aims
<1>2. Way \subseteq gone
  <2>1. \A i \in Ids : ses[i].status = "setup_failed" => i \in gone
    BY DEF Insert, Inv, Reading
  <2>2. InState(Abandonable) \subseteq gone
    BY DEF Insert
  <2> QED BY <2>1, <2>2 DEF Way, InState, Blocking, Abandonable
<1>4. /\ NextId \in Ids
      /\ ses' = [Abandoning(gone) EXCEPT ![NextId] = [NoSession EXCEPT !.status = "active", !.term = req[p].term]]
      /\ Go(p, [req[p] EXCEPT !.op = "begin", !.id = NextId])
  BY DEF Insert
<1> HIDE DEF gone
<1> QED
  <2>1. PICK n \in Ids : n = NextId
    BY <1>4
  <2>2. n \in Nat /\ n \notin Sessions /\ \A i \in Sessions : i < n
    BY <2>1, NextIdIsFree DEF Inv
  <2>3. ses[n].status = "none"
    BY <2>1, <2>2 DEF Sessions
  <2> DEFINE row == [NoSession EXCEPT !.status = "active", !.term = req[p].term]
             hand == [req[p] EXCEPT !.op = "begin", !.id = n]
  <2>4. IsSession(row) /\ row.status = "active"
    BY DEF IsSession, NoSession
  <2>5. IsRequest(hand) /\ hand.op = "begin" /\ hand.id = n
    BY DEF IsRequest, Inv, Typed
  <2>6. ses' = [Abandoning(gone) EXCEPT ![n] = row] /\ Go(p, hand)
    BY <1>4, <2>1
  <2> HIDE DEF row, hand
  <2>7. /\ ses' = [i \in Ids |-> ses'[i]] /\ ses'[n] = row
        /\ \A i \in Ids : IsSession(ses'[i])
        /\ \A i \in Ids \ {n} : ses'[i] = ses[i] \/ (i \in gone /\ ses'[i].status = "abandoned")
    BY <2>1, <2>4, <2>6, AbandoningRows DEF Inv
  <2>8. req' = [q \in Requests |-> IF q = p THEN hand ELSE req[q]]
    BY <2>6 DEF Go, Inv, Typed
  <2>9. Typed'
    BY <2>5, <2>7, <2>8 DEF Inv, Typed
  <2>10. ASSUME NEW i \in Ids \ {n} PROVE ses'[i].status \notin Blocking
    <3>1. CASE i \in gone
      <4>1. Abandoning(gone)[i].status = "abandoned"
        BY <3>1, WrittenStatus DEF Abandoning, Inv, Typed
      <4>2. ses'[i] = Abandoning(gone)[i]
        BY <2>6 DEF Abandoning
      <4> QED BY <4>1, <4>2 DEF Blocking
    <3>2. CASE i \notin gone
      <4>1. ses'[i] = ses[i]
        BY <2>7, <3>2
      <4> QED BY <1>2, <3>2, <4>1 DEF Way, InState
    <3> QED BY <3>1, <3>2
  <2>11. OneBlocks'
    BY <2>10 DEF OneBlocks, InState
  <2>12. \A i \in gone : \A q \in Requests : ~Holds(q, i)
    BY <1>1
  <2>13. \A q \in Requests : ~Holds(q, n)
    BY <2>3 DEF Inv, Holding, Holds
  <2>14. Holding'
    <3>1. \A q \in Requests, i \in Ids : Holds(q, i)' => (q = p /\ i = n) \/ (q # p /\ Holds(q, i))
      BY <2>5, <2>8 DEF Holds
    <3>2. ASSUME NEW q \in Requests, (req[q].op \in {"begin", "answer"})'
          PROVE  (req[q].id \in Ids /\ ses[req[q].id].status = "active")'
      <4>1. CASE q = p
        BY <2>4, <2>5, <2>7, <2>8, <4>1
      <4>2. CASE q # p
        <5>1. req'[q] = req[q]
          BY <2>8, <4>2
        <5>2. PICK i \in Ids : i = req[q].id /\ ses[i].status = "active" /\ Holds(q, i)
          BY <3>2, <5>1 DEF Inv, Holding, Holds
        <5>3. i # n /\ i \notin gone
          BY <2>12, <2>13, <5>2
        <5> QED BY <2>7, <5>1, <5>2, <5>3
      <4> QED BY <4>1, <4>2
    <3>3. \A q, q2 \in Requests, i \in Ids : (Holds(q, i) /\ Holds(q2, i))' => q = q2
      BY <2>13, <3>1 DEF Inv, Holding
    <3> QED BY <3>2, <3>3 DEF Holding
  <2>15. Numbered'
    <3>1. \A i \in Sessions' : i \in Sessions \/ i = n
      BY <1>1, <2>7 DEF Sessions, Blocking
    <3>2. \A i \in Sessions' : i \in Nat /\ i <= n
      BY <2>2, <3>1, ScenarioAssumption DEF Sessions
    <3> QED BY <2>2, <3>2 DEF Numbered
  <2>16. Kept
    BY <1>1, <2>3, <2>7 DEF Kept, Way, InState, Blocking, Finished
  <2>17. Reading'
    <3>1. \A q \in Requests : At(q, "found")' => q # p /\ req'[q] = req[q] /\ At(q, "found")
      BY <2>5, <2>8 DEF At
    <3>2. ASSUME NEW q \in Requests, NEW i \in Ids, At(q, "found")', (ses[i].status = "setup_failed")'
          PROVE  req'[q].id = i
      <4>1. i # n /\ ses'[i].status \in Blocking
        BY <2>4, <2>7, <3>2 DEF Blocking
      <4> QED BY <2>10, <4>1
    <3>3. ASSUME NEW q \in Requests, NEW i \in Ids, Aims(q, i)'
          PROVE  (ses[i].status \in Blocking \cup {"abandoned"})' /\ \A q2 \in Requests : ~Holds(q2, i)'
      <4>1. Aims(q, i)
        BY <3>1, <3>3 DEF Aims
      <4>2. ses[i].status \in Blocking \cup {"abandoned"} /\ \A q2 \in Requests : ~Holds(q2, i)
        BY <4>1 DEF Inv, Reading
      <4>3. i # n
        BY <2>3, <4>2 DEF Blocking
      <4>4. \A q2 \in Requests : ~Holds(q2, i)'
        BY <2>5, <2>8, <4>2, <4>3 DEF Holds
      <4>5. ses'[i].status \in Blocking \cup {"abandoned"}
        BY <2>7, <4>2, <4>3
      <4> QED BY <4>4, <4>5
    <3> QED BY <3>2, <3>3 DEF Reading
  <2> QED BY <2>9, <2>11, <2>14, <2>15, <2>16, <2>17 DEF Inv

-----------------------------------------------------------------------------
(* Every step keeps the invariant and the runs that ended. *)
LEMMA StepKeeps ==
    ASSUME Inv, Orderly, [Next]_vars
    PROVE  Inv' /\ Kept
<1>1. CASE UNCHANGED vars
  <2>1. HandsMild
    BY <1>1, SameHandsAreMild DEF vars, Inv
  <2> QED BY <1>1, <2>1, SameIsMild, MildStep DEF vars
<1>2. CASE JobStep
  BY <1>2, JobIsMild, MildStep
<1>3. CASE SweepStep \/ MachineStep \/ Unassign \/ Tick \/ Crash \/ \E i \in Ids : Killed(i)
  BY <1>3, OthersAreMild, MildStep
<1>4. CASE RequestStep
  <2>1. PICK p \in Requests : \/ OtherRequest(p) \/ Begin(p) \/ RightAnswer(p) \/ Find(p) \/ Insert(p)
                              \/ \E i \in Ids : Answer(p, i)
    BY <1>4 DEF RequestStep, OtherRequest
  <2>2. CASE OtherRequest(p)
    BY <2>2, OtherRequestIsMild, MildStep
  <2>3. CASE Begin(p)
    BY <2>3, BeginIsMild, MildStep
  <2>4. CASE RightAnswer(p)
    BY <2>4, RightAnswerIsMild, MildStep
  <2>5. CASE Find(p)
    BY <2>5, FindKeeps
  <2>6. CASE Insert(p)
    BY <2>6, InsertKeeps
  <2>7. CASE \E i \in Ids : Answer(p, i)
    BY <2>7, AnswerKeeps
  <2> QED BY <2>1, <2>2, <2>3, <2>4, <2>5, <2>6, <2>7
<1> QED BY <1>1, <1>2, <1>3, <1>4 DEF Next

(* Nothing was created yet. *)
LEMMA InitHolds == Init => Inv
<1> SUFFICES ASSUME Init PROVE Inv
  OBVIOUS
<1>1. IsSession(NoSession) /\ NoSession.status = "none"
  BY DEF IsSession, NoSession
<1>2. Typed
  BY <1>1, IdleIsRequest DEF Init, Typed
<1>3. Holding /\ Reading
  BY IdleIsRequest DEF Init, Holding, Holds, Reading, Aims, At
<1>4. InState(Blocking) = {} /\ Sessions = {}
  BY <1>1 DEF Init, InState, Sessions, Blocking
<1> QED BY <1>2, <1>3, <1>4 DEF Inv, OneBlocks, Numbered

(* The invariant of the specification. *)
LEMMA Invariant == ASSUME Orderly PROVE Spec => []Inv
<1>1. Inv /\ [Next]_vars => Inv'
  BY StepKeeps
<1> QED BY InitHolds, <1>1, PTL DEF Spec

(* At most one member is what a cardinality of at most one says. *)
LEMMA AtMostOne == OneBlocks => OneRun
<1> SUFFICES ASSUME OneBlocks PROVE OneRun
  OBVIOUS
<1>1. CASE InState(Blocking) = {}
  BY <1>1, FS_EmptySet DEF OneRun
<1>2. CASE \E i : InState(Blocking) = {i}
  <2>1. Cardinality(InState(Blocking)) = 1
    BY <1>2, FS_Singleton
  <2> QED BY <2>1 DEF OneRun
<1> QED BY <1>1, <1>2 DEF OneBlocks

(***************************************************************************)
(* A learner never has two runs of a scenario: whatever the sessions, the   *)
(* containers, the starts that read and insert in any order, the other      *)
(* requests under way and the crashes, as long as nothing else writes a row *)
(* that a request is starting or answering, and no run that a start did not *)
(* find fails its setup before that start has inserted its own.             *)
(***************************************************************************)
THEOREM OneRunAtATime == ASSUME Orderly PROVE Spec => []OneRun
<1>1. Inv => OneRun
  BY AtMostOne DEF Inv
<1> QED BY Invariant, <1>1, PTL

(***************************************************************************)
(* A run that was completed or abandoned stays so, on the same assumption.  *)
(***************************************************************************)
THEOREM RunsStayFinished == ASSUME Orderly PROVE Spec => FinishedIsFinal
<1>1. Inv /\ [Next]_vars => [Kept]_vars
  BY StepKeeps
<1>2. Spec => [][Kept]_vars
  BY Invariant, <1>1, PTL DEF Spec
<1>3. Kept <=> \A i \in Ids : ses[i].status \in Finished => ses'[i].status = ses[i].status
  BY DEF Kept
<1> QED BY <1>2 DEF FinishedIsFinal, Kept

-----------------------------------------------------------------------------
(***************************************************************************)
(* What a step does to a row that exists: it stays bound to its container   *)
(* and stays cut off (Steady); its clock stands still or starts again, and  *)
(* starts again when it enters provisioning (Rested); its step and grade    *)
(* stay, and it is not completed (Settled).                                *)
(***************************************************************************)
Steady(s, t) ==
    /\ IsSession(t) /\ t.term = s.term
    /\ s.cut => t.cut
    /\ t.status = "none" <=> s.status = "none"

Rested(s, t) ==
    \/ t.age = 0
    \/ t.age = s.age /\ (t.status = "provisioning" => s.status = "provisioning")

Settled(s, t) ==
    /\ t.step = s.step /\ t.grade = s.grade
    /\ t.status = "completed" => s.status = "completed"
    /\ s.told => t.told \/ t.status \in Finished

Smooth(s, t) == Steady(s, t) /\ Rested(s, t) /\ Settled(s, t)

RowsSteady == ses' = [i \in Ids |-> ses'[i]] /\ \A i \in Ids : Steady(ses[i], ses'[i])
RowsRested == \A i \in Ids : Rested(ses[i], ses'[i])
RowsSettled == \A i \in Ids : Settled(ses[i], ses'[i])
RowsSmooth == RowsSteady /\ RowsRested /\ RowsSettled

(* No write at all is smooth. *)
LEMMA SameRows ==
    ASSUME Typed, ses' = ses
    PROVE  RowsSmooth
BY DEF Typed, RowsSmooth, RowsSteady, RowsRested, RowsSettled, Steady, Rested, Settled

(* So is the write of a row's columns, *)
LEMMA OneRow ==
    ASSUME NEW i, NEW new, Typed, ses' = [ses EXCEPT ![i] = new],
           i \in Ids => Smooth(ses[i], new)
    PROVE  RowsSmooth
<1>1. ses' = [k \in Ids |-> ses'[k]] /\ \A k \in Ids : ses'[k] = IF k = i THEN new ELSE ses[k]
  BY DEF Typed
<1>2. \A k \in Ids : Smooth(ses[k], ses[k])
  BY DEF Typed, Smooth, Steady, Rested, Settled
<1>3. \A k \in Ids : Smooth(ses[k], ses'[k])
  BY <1>1, <1>2
<1> QED BY <1>1, <1>3 DEF RowsSmooth, RowsSteady, RowsRested, RowsSettled, Smooth

(* of a status, *)
LEMMA WrittenIsSmooth ==
    ASSUME NEW s, NEW st, IsSession(s), s.status # "none", st \notin {"none", "completed"}
    PROVE  Smooth(s, Written(s, st))
<1>1. /\ IsSession(Written(s, st)) /\ Written(s, st).status = st /\ Written(s, st).age = 0
      /\ Written(s, st).term = s.term /\ Written(s, st).step = s.step
      /\ Written(s, st).grade = s.grade /\ Written(s, st).cut = s.cut
      /\ s.told => Written(s, st).told \/ st \in Finished
  BY DEF Written, IsSession
<1> QED BY <1>1 DEF Smooth, Steady, Rested, Settled

LEMMA SettingSmooth ==
    ASSUME NEW i, NEW st, Typed, ses' = Setting(i, st), st \notin {"none", "completed"},
           i \in Ids => ses[i].status # "none"
    PROVE  RowsSmooth
<1> DEFINE new == Written(ses[i], st)
<1>1. ses' = [ses EXCEPT ![i] = new]
  BY DEF Setting
<1>2. i \in Ids => Smooth(ses[i], new)
  BY WrittenIsSmooth DEF Typed
<1> HIDE DEF new
<1> QED BY <1>1, <1>2, OneRow

(* guarded or not, *)
LEMMA TransitionSmooth ==
    ASSUME NEW i, NEW from, NEW to, Typed, Transition(i, from, to),
           "none" \notin from, to \notin {"none", "completed"}
    PROVE  RowsSmooth
<1>1. CASE ses' = ses
  BY <1>1, SameRows
<1>2. CASE ses[i].status \in from /\ ses' = Setting(i, to)
  BY <1>2, SettingSmooth
<1> QED BY <1>1, <1>2 DEF Transition

LEMMA StartsAsyncSmooth ==
    ASSUME NEW i, NEW k, NEW from, Typed, StartsAsync(i, k, from), "none" \notin from
    PROVE  RowsSmooth
<1>1. CASE ses' = ses
  BY <1>1, SameRows
<1>2. CASE ses[i].status \in from /\ ses' = Setting(i, "provisioning")
  BY <1>2, SettingSmooth
<1> QED BY <1>1, <1>2 DEF StartsAsync

(* and of many. *)
LEMMA AbandoningSmooth ==
    ASSUME NEW S, Typed, ses' = Abandoning(S), \A i \in S : ses[i].status # "none"
    PROVE  RowsSmooth
<1>1. \A k \in Ids : Smooth(ses[k], ses[k])
  BY DEF Typed, Smooth, Steady, Rested, Settled
<1>2. \A k \in Ids : k \in S => Smooth(ses[k], Written(ses[k], "abandoned"))
  BY WrittenIsSmooth DEF Typed
<1>3. \A k \in Ids : ses'[k] = IF k \in S THEN Written(ses[k], "abandoned") ELSE ses[k]
  BY DEF Abandoning
<1>4. ses' = [k \in Ids |-> ses'[k]]
  BY DEF Abandoning
<1>5. \A k \in Ids : Smooth(ses[k], ses'[k])
  BY <1>1, <1>2, <1>3
<1> QED BY <1>4, <1>5 DEF RowsSmooth, RowsSteady, RowsRested, RowsSettled, Smooth

-----------------------------------------------------------------------------
(* A container that was started is never taken for a new one, what was      *)
(* detached from it stays detached, and what was put into it stays in it,   *)
(* until it is deleted for good.                                           *)
IsMachine(c) == DOMAIN c = {"state", "window", "built", "flags"}
Lasting(c, d) ==
    \/ d.state = "deleted"
    \/ c.state # "deleted" /\ c.built \subseteq d.built /\ c.flags \cap Flags \subseteq d.flags
Aging(c, d) ==
    /\ IsMachine(d)
    /\ c.state # "none" => d.state # "none" /\ (d.window = "open" => c.window = "open") /\ Lasting(c, d)
MachinesTyped == machine = [m \in Machines |-> machine[m]] /\ \A m \in Machines : IsMachine(machine[m])
MachinesAge == machine' = [m \in Machines |-> machine'[m]] /\ \A m \in Machines : Aging(machine[m], machine'[m])

LEMMA SameMachines ==
    ASSUME MachinesTyped, machine' = machine
    PROVE  MachinesAge
BY DEF MachinesTyped, MachinesAge, Aging, Lasting

LEMMA OneMachine ==
    ASSUME NEW m, NEW c, MachinesTyped, machine' = [machine EXCEPT ![m] = c],
           m \in Machines => Aging(machine[m], c)
    PROVE  MachinesAge
BY DEF MachinesTyped, MachinesAge, Aging, Lasting

(* Scripts and flags leave the state and the window alone. *)
Furnished(ms, m, e) ==
    /\ e = [n \in Machines |-> e[n]]
    /\ \A n \in Machines : /\ IsMachine(e[n]) /\ e[n].state = ms[n].state /\ e[n].window = ms[n].window
                           /\ ms[n].built \subseteq e[n].built /\ ms[n].flags \cap Flags \subseteq e[n].flags

LEMMA PreparedFurnishes ==
    ASSUME NEW ms, NEW m, NEW k, ms = [n \in Machines |-> ms[n]],
           \A n \in Machines : IsMachine(ms[n])
    PROVE  Furnished(ms, m, Prepared(ms, m, k))
<1> DEFINE new == [ms[m] EXCEPT !.built = @ \cup {k}]
<1>1. Prepared(ms, m, k) = ms \/ Prepared(ms, m, k) = [ms EXCEPT ![m] = new]
  BY DEF Prepared
<1>2. m \in Machines => /\ IsMachine(new) /\ new.state = ms[m].state /\ new.window = ms[m].window
                        /\ ms[m].built \subseteq new.built /\ ms[m].flags \cap Flags \subseteq new.flags
  BY DEF IsMachine
<1> HIDE DEF new
<1>3. CASE Prepared(ms, m, k) = ms
  BY <1>3 DEF Furnished
<1>4. ASSUME NEW e, e = [ms EXCEPT ![m] = new] PROVE Furnished(ms, m, e)
  BY <1>2, <1>4 DEF Furnished
<1> QED BY <1>1, <1>3, <1>4

LEMMA PlacedFurnishes ==
    ASSUME NEW ms, NEW m, NEW k, ms = [n \in Machines |-> ms[n]],
           \A n \in Machines : IsMachine(ms[n])
    PROVE  Furnished(ms, m, Placed(ms, m, k))
<1> DEFINE new == [ms[m] EXCEPT !.flags = @ \cup {k}]
<1>1. Placed(ms, m, k) = ms \/ Placed(ms, m, k) = [ms EXCEPT ![m] = new]
  BY DEF Placed
<1>2. m \in Machines => /\ IsMachine(new) /\ new.state = ms[m].state /\ new.window = ms[m].window
                        /\ ms[m].built \subseteq new.built /\ ms[m].flags \cap Flags \subseteq new.flags
  BY DEF IsMachine
<1> HIDE DEF new
<1>3. CASE Placed(ms, m, k) = ms
  BY <1>3 DEF Furnished
<1>4. ASSUME NEW e, e = [ms EXCEPT ![m] = new] PROVE Furnished(ms, m, e)
  BY <1>2, <1>4 DEF Furnished
<1> QED BY <1>1, <1>3, <1>4

LEMMA BothFurnish ==
    ASSUME NEW m, NEW k, NEW n, MachinesTyped
    PROVE  Furnished(machine, m, Placed(Prepared(machine, m, k), m, n))
<1>1. Furnished(machine, m, Prepared(machine, m, k))
  BY PreparedFurnishes DEF MachinesTyped
<1>2. PICK ms : ms = Prepared(machine, m, k)
  OBVIOUS
<1>3. Furnished(ms, m, Placed(ms, m, n))
  BY <1>1, <1>2, PlacedFurnishes DEF Furnished
<1>4. Furnished(machine, m, Placed(ms, m, n))
  BY <1>1, <1>2, <1>3 DEF Furnished
<1> QED BY <1>2, <1>4

LEMMA FurnishedAges ==
    ASSUME NEW m, Furnished(machine, m, machine')
    PROVE  MachinesAge
BY DEF Furnished, MachinesAge, Aging, Lasting

LEMMA ProvisionedAges ==
    ASSUME NEW m, NEW k, MachinesTyped, Provisioned(m, k) \/ HalfProvisioned(m, k)
    PROVE  MachinesAge
<1>1. \/ machine' = machine \/ machine' = Prepared(machine, m, k)
      \/ machine' = Placed(machine, m, k) \/ machine' = Placed(Prepared(machine, m, k), m, k)
  BY DEF Provisioned, HalfProvisioned
<1>2. CASE machine' = machine
  BY <1>2, SameMachines
<1>3. CASE machine' = Prepared(machine, m, k)
  BY <1>3, PreparedFurnishes, FurnishedAges DEF MachinesTyped
<1>4. CASE machine' = Placed(machine, m, k)
  BY <1>4, PlacedFurnishes, FurnishedAges DEF MachinesTyped
<1>5. CASE machine' = Placed(Prepared(machine, m, k), m, k)
  BY <1>5, BothFurnish, FurnishedAges
<1> QED BY <1>1, <1>2, <1>3, <1>4, <1>5

(* The next container is one that was not started. *)
LEMMA NextMachineIsNew ==
    ASSUME Untaken
    PROVE  NextMachine \in Machines /\ machine[NextMachine].state = "none"
<1> DEFINE S == {m \in Machines : machine[m].state = "none"}
<1>1. S \in SUBSET Nat /\ S # {}
  BY ScenarioAssumption DEF Untaken
<1> HIDE DEF S
<1>2. PICK m \in S : \A n \in S : ~(<<n, m>> \in OpToRel(<, Nat))
  BY <1>1, WFMin, NatLessThanWellFounded
<1>3. \A n \in S : ~(n < m)
  <2>1. \A n \in S : <<n, m>> \notin {ss \in Nat \X Nat : ss[1] < ss[2]}
    BY <1>2, LessThanRelation
  <2> QED BY <1>1, <2>1
<1>4. m \in Machines /\ machine[m].state = "none" /\ \A n \in Machines : n < m => machine[n].state # "none"
  BY <1>2, <1>3 DEF S
<1> QED BY <1>4 DEF NextMachine

LEMMA StartedAges ==
    ASSUME NEW window, MachinesTyped, Untaken, machine' = Started(window)
    PROVE  MachinesAge /\ NextMachine \in Machines /\ machine'[NextMachine].state = "running"
<1> DEFINE new == [NoMachine EXCEPT !.state = "running", !.window = window]
<1>1. NextMachine \in Machines /\ machine[NextMachine].state = "none"
  BY NextMachineIsNew
<1>2. IsMachine(new) /\ new.state = "running"
  BY DEF NoMachine, IsMachine
<1>3. machine' = [machine EXCEPT ![NextMachine] = new]
  BY DEF Started
<1> HIDE DEF new
<1>4. Aging(machine[NextMachine], new)
  BY <1>1, <1>2 DEF Aging
<1>5. MachinesAge
  BY <1>3, <1>4, OneMachine
<1>6. machine'[NextMachine] = new
  BY <1>1, <1>3 DEF MachinesTyped
<1> QED BY <1>1, <1>2, <1>5, <1>6

LEMMA StoppedAges ==
    ASSUME NEW m, MachinesTyped, machine' = Stopped(m)
    PROVE  MachinesAge
<1> DEFINE new == [machine[m] EXCEPT !.state = IF @ = "running" THEN "stopped" ELSE @]
<1>1. machine' = [machine EXCEPT ![m] = new]
  BY DEF Stopped
<1>2. m \in Machines => Aging(machine[m], new)
  BY DEF MachinesTyped, Aging, Lasting, IsMachine
<1> HIDE DEF new
<1> QED BY <1>1, <1>2, OneMachine

-----------------------------------------------------------------------------
(* The goroutines write smoothly, *)
LEMMA JobSmooth ==
    ASSUME Typed, JobStep
    PROVE  RowsSmooth
<1>1. PICK j \in jobs : SetupEnds(j) \/ FirstEnds(j) \/ StopsTerminal(j) \/ CloseWindow(j) \/ StepEnds(j)
  BY DEF JobStep
<1>2. CASE SetupEnds(j) \/ FirstEnds(j) \/ StepEnds(j)
  <2>1. PICK to \in {"provisioning", "active", "setup_failed"} : Transition(j.id, {"provisioning"}, to)
    BY <1>2 DEF SetupEnds, FirstEnds, StepEnds
  <2> QED BY <2>1, TransitionSmooth
<1>3. CASE StopsTerminal(j)
  <2> DEFINE S == {i \in InState(Abandonable) : ses[i].term = ses[j.id].term}
  <2>1. ses' = Abandoning(S) \/ ses' = ses
    BY <1>3 DEF StopsTerminal, TriesStop, Unbound
  <2>2. \A i \in S : ses[i].status # "none"
    BY DEF InState, Abandonable
  <2> QED BY <2>1, <2>2, AbandoningSmooth, SameRows
<1>4. CASE CloseWindow(j)
  BY <1>4, SameRows DEF CloseWindow
<1> QED BY <1>1, <1>2, <1>3, <1>4

(* and so do the sweeps, the trainer, the containers and a crash; *)
LEMMA OthersSmooth ==
    ASSUME Typed, SweepStep \/ MachineStep \/ Unassign \/ Crash \/ \E i \in Ids : Killed(i)
    PROVE  RowsSmooth
<1>1. CASE SweepZombies
  BY <1>1, AbandoningSmooth DEF SweepZombies, Zombies, InState
<1>2. CASE SweepStuck
  <2> DEFINE reaped(s) == [s EXCEPT !.status = "setup_failed", !.age = 0]
  <2>1. \A i \in Ids : Stuck(i) => Smooth(ses[i], reaped(ses[i]))
    BY DEF Typed, IsSession, Stuck, Smooth, Steady, Rested, Settled
  <2>2. \A i \in Ids : Smooth(ses[i], ses[i])
    BY DEF Typed, Smooth, Steady, Rested, Settled
  <2>3. ses' = [i \in Ids |-> IF Stuck(i) THEN reaped(ses[i]) ELSE ses[i]]
    BY <1>2 DEF SweepStuck
  <2> HIDE DEF reaped
  <2>4. ses' = [i \in Ids |-> ses'[i]] /\ \A i \in Ids : Smooth(ses[i], ses'[i])
    BY <2>1, <2>2, <2>3
  <2> QED BY <2>4 DEF RowsSmooth, RowsSteady, RowsRested, RowsSettled, Smooth
<1>3. CASE MachineStep
  <2>1. CASE ses' = ses
    BY <2>1, SameRows
  <2>2. ASSUME NEW m \in Machines, StopMachine(m) PROVE RowsSmooth
    BY <2>2, AbandoningSmooth DEF StopMachine, Unbound, InState, Abandonable
  <2> QED BY <1>3, <2>1, <2>2 DEF MachineStep, MachineLapses, ResumeMachine
<1>4. CASE Unassign
  BY <1>4, AbandoningSmooth DEF Unassign, InState, Abandonable
<1>5. CASE Crash
  <2> DEFINE toldThen(i) == ses[i].told \/ \E p \in Requests : req[p].op # "idle" /\ req[p].id = i
             cutThen(i) == \/ ses[i].cut
                           \/ \E p \in Requests : At(p, "begin") /\ req[p].id = i
                           \/ \E j \in jobs : j.id = i /\ j.op \in {"setup", "first", "stop", "close"}
  <2>1. \A i \in Ids : (ses[i].told => toldThen(i)) /\ (ses[i].cut => cutThen(i))
    OBVIOUS
  <2>2. \A i \in Ids : \A a, b : (ses[i].told => a) /\ (ses[i].cut => b) =>
           Smooth(ses[i], [ses[i] EXCEPT !.told = a, !.cut = b])
    BY DEF Typed, IsSession, Smooth, Steady, Rested, Settled
  <2>3. ses' = [i \in Ids |-> [ses[i] EXCEPT !.told = toldThen(i), !.cut = cutThen(i)]]
    BY <1>5 DEF Crash
  <2> HIDE DEF toldThen, cutThen
  <2>4. ses' = [i \in Ids |-> ses'[i]] /\ \A i \in Ids : Smooth(ses[i], ses'[i])
    BY <2>1, <2>2, <2>3
  <2> QED BY <2>4 DEF RowsSmooth, RowsSteady, RowsRested, RowsSettled, Smooth
<1>6. ASSUME NEW i \in Ids, Killed(i) PROVE RowsSmooth
  BY <1>6, SettingSmooth DEF Killed, Abandonable
<1> QED BY <1>1, <1>2, <1>3, <1>4, <1>5, <1>6 DEF SweepStep

(* the clock moves nothing but the age, *)
LEMMA TickSettled ==
    ASSUME Typed, Tick
    PROVE  RowsSteady /\ RowsSettled
<1>1. \A i \in Ids : \A a : Steady(ses[i], [ses[i] EXCEPT !.age = a]) /\ Settled(ses[i], [ses[i] EXCEPT !.age = a])
  BY DEF Typed, IsSession, Steady, Settled
<1>2. \A i \in Ids : Steady(ses[i], ses[i]) /\ Settled(ses[i], ses[i])
  BY DEF Typed, Steady, Settled
<1>3. ses' = [i \in Ids |-> IF ses[i].status = "provisioning" /\ ses[i].age <= StuckAfter
                             THEN [ses[i] EXCEPT !.age = ses[i].age + 1] ELSE ses[i]]
  BY DEF Tick
<1>4. ses' = [i \in Ids |-> ses'[i]] /\ \A i \in Ids : Steady(ses[i], ses'[i]) /\ Settled(ses[i], ses'[i])
  BY <1>1, <1>2, <1>3
<1> QED BY <1>4 DEF RowsSteady, RowsSettled

-----------------------------------------------------------------------------
(* What a request with r in its hands knows: its run and its container      *)
(* exist, and a run that is being started is bound to the container.        *)
Fit(r) ==
    /\ r.op \in {"begin", "answer", "transition"} => r.id \in Ids /\ ses[r.id].status # "none"
    /\ r.op = "found" /\ r.id \in Ids => ses[r.id].status # "none"
    /\ r.op \in {"start", "count", "found", "begin"} => r.term \in Machines /\ machine[r.term].state # "none"
    /\ r.op = "begin" => ses[r.id].term = r.term

HandsKnown == \A p \in Requests : Fit(req[p])

(* The requests write smoothly, except at the start and the right answer, *)
LEMMA RequestSmooth ==
    ASSUME Typed, HandsKnown, NEW p \in Requests,
           OtherRequest(p) \/ Begin(p) \/ Find(p) \/ \E i \in Ids : Answer(p, i)
    PROVE  RowsSmooth
<1>1. CASE ses' = ses
  BY <1>1, SameRows
<1>2. CASE BulkStart(p)
  <2>1. ASSUME NEW i \in InState(Blocking), ses' = Setting(i, "abandoned") PROVE RowsSmooth
    BY <2>1, SettingSmooth DEF InState, Blocking
  <2> QED BY <1>1, <1>2, <2>1 DEF BulkStart
<1>3. CASE Begin(p)
  <2>1. PICK i \in Ids : i = req[p].id /\ ses[i].status # "none"
    BY <1>3 DEF Begin, At, HandsKnown, Fit
  <2> DEFINE new == [ses[i] EXCEPT !.cut = TRUE]
  <2>2. ses' = [ses EXCEPT ![i] = new] \/ ses' = Setting(i, "provisioning") \/ ses' = ses
    BY <1>3, <2>1 DEF Begin
  <2>3. Smooth(ses[i], new)
    BY DEF Typed, IsSession, Smooth, Steady, Rested, Settled
  <2> HIDE DEF new
  <2>4. CASE ses' = [ses EXCEPT ![i] = new]
    BY <2>3, <2>4, OneRow
  <2>5. CASE ses' = Setting(i, "provisioning")
    BY <2>1, <2>5, SettingSmooth
  <2> QED BY <1>1, <2>2, <2>4, <2>5
<1>4. CASE StepTransition(p)
  <2>1. PICK i : i = req[p].id
    OBVIOUS
  <2> DEFINE new == [ses[i] EXCEPT !.told = TRUE]
  <2>2. \/ ses' = ses
        \/ ses' = [ses EXCEPT ![i] = new]
        \/ \E k : StartsAsync(i, k, {"active"})
    BY <1>4, <2>1 DEF StepTransition
  <2>3. i \in Ids => Smooth(ses[i], new)
    BY DEF Typed, IsSession, Smooth, Steady, Rested, Settled
  <2> HIDE DEF new
  <2>4. CASE ses' = [ses EXCEPT ![i] = new]
    BY <2>3, <2>4, OneRow
  <2>5. ASSUME NEW k, StartsAsync(i, k, {"active"}) PROVE RowsSmooth
    BY <2>5, StartsAsyncSmooth
  <2> QED BY <1>1, <2>2, <2>4, <2>5
<1>5. CASE Reprovisioned(p)
  <2>1. PICK i : i = req[p].id
    OBVIOUS
  <2>2. PICK to \in {"active", "setup_failed"} : Transition(i, Reprovisionable, to)
    BY <1>5, <2>1 DEF Reprovisioned
  <2> QED BY <2>2, TransitionSmooth DEF Reprovisionable
<1>6. CASE DeletesTerminal(p)
  <2>1. PICK m : m = req[p].term
    OBVIOUS
  <2> DEFINE S == {i \in InState(Abandonable) : ses[i].term = m}
  <2>2. ses' = Abandoning(S)
    BY <1>6, <2>1 DEF DeletesTerminal, Unbound
  <2>3. \A i \in S : ses[i].status # "none"
    BY DEF InState, Abandonable
  <2> QED BY <2>2, <2>3, AbandoningSmooth
<1>7. ASSUME NEW i \in Ids, Reprovision(p, i) PROVE RowsSmooth
  <2>1. ses' = ses \/ \E k : StartsAsync(i, k, Reprovisionable)
    BY <1>7 DEF Reprovision
  <2>2. ASSUME NEW k, StartsAsync(i, k, Reprovisionable) PROVE RowsSmooth
    BY <2>2, StartsAsyncSmooth DEF Reprovisionable
  <2> QED BY <1>1, <2>1, <2>2
<1>8. ASSUME NEW i \in Ids, Abandon(p, i) PROVE RowsSmooth
  BY <1>8, SettingSmooth DEF Abandon, Abandonable
<1>9. \/ Launch(p) \/ Count(p) \/ Find(p) \/ RollBack(p) \/ WrongAnswer(p)
      \/ (\E m \in Machines : StartOn(p, m)) \/ (\E i \in Ids : Answer(p, i))
      => ses' = ses
  BY DEF Launch, Count, Find, RollBack, WrongAnswer, StartOn, Answer
<1> QED BY <1>1, <1>2, <1>3, <1>4, <1>5, <1>6, <1>7, <1>8, <1>9 DEF OtherRequest

(* which moves on to the next step or completes the run. *)
LEMMA RightAnswerSteady ==
    ASSUME Typed, HandsKnown, NEW p \in Requests, RightAnswer(p)
    PROVE  RowsSteady /\ RowsRested
<1>1. PICK i \in Ids : i = req[p].id /\ ses[i].status # "none"
  BY DEF RightAnswer, At, HandsKnown, Fit
<1>2. PICK new : /\ ses' = [ses EXCEPT ![i] = new] /\ Steady(ses[i], new) /\ Rested(ses[i], new)
  <2>1. \/ \E g : ses' = [Setting(i, "completed") EXCEPT ![i].grade = g]
        \/ \E k : ses' = [ses EXCEPT ![i].step = k, ![i].age = 0, ![i].told = FALSE]
    BY <1>1 DEF RightAnswer
  <2>2. ASSUME NEW g, ses' = [Setting(i, "completed") EXCEPT ![i].grade = g]
        PROVE  \E new : ses' = [ses EXCEPT ![i] = new] /\ Steady(ses[i], new) /\ Rested(ses[i], new)
    <3> DEFINE w == Written(ses[i], "completed")
               new == [w EXCEPT !.grade = g]
    <3>1. /\ IsSession(w) /\ w.status = "completed" /\ w.age = 0
          /\ w.term = ses[i].term /\ w.cut = ses[i].cut
      BY DEF Written, Typed, IsSession
    <3>2. Setting(i, "completed") = [ses EXCEPT ![i] = w]
      BY DEF Setting
    <3> HIDE DEF w
    <3>3. ses' = [ses EXCEPT ![i] = new]
      BY <2>2, <3>2 DEF Typed
    <3>4. Steady(ses[i], new) /\ Rested(ses[i], new)
      BY <1>1, <3>1 DEF IsSession, Steady, Rested
    <3> QED BY <3>3, <3>4
  <2>3. ASSUME NEW k, ses' = [ses EXCEPT ![i].step = k, ![i].age = 0, ![i].told = FALSE]
        PROVE  \E new : ses' = [ses EXCEPT ![i] = new] /\ Steady(ses[i], new) /\ Rested(ses[i], new)
    <3> DEFINE new == [ses[i] EXCEPT !.step = k, !.age = 0, !.told = FALSE]
    <3>1. ses' = [ses EXCEPT ![i] = new]
      BY <2>3 DEF Typed
    <3>2. Steady(ses[i], new) /\ Rested(ses[i], new)
      BY DEF Typed, IsSession, Steady, Rested
    <3> QED BY <3>1, <3>2
  <2> QED BY <2>1, <2>2, <2>3
<1>3. \A k \in Ids : Steady(ses[k], ses[k]) /\ Rested(ses[k], ses[k])
  BY DEF Typed, Steady, Rested
<1>4. ses' = [k \in Ids |-> ses'[k]] /\ \A k \in Ids : ses'[k] = IF k = i THEN new ELSE ses[k]
  BY <1>2 DEF Typed
<1> QED BY <1>2, <1>3, <1>4 DEF RowsSteady, RowsRested

-----------------------------------------------------------------------------
(* Once it was tried, the window is not open: it is shut, or its failure is logged. *)
LEMMA FinishingCloses ==
    ASSUME NEW ms, NEW m, Finishing(ms, m)
    PROVE  \E w : w # "open" /\ machine' = [ms EXCEPT ![m].window = w]
<1> DEFINE kept == IF ms[m].window = "open" THEN "logged" ELSE ms[m].window
<1>1. kept # "open" /\ (machine' = [ms EXCEPT ![m].window = "shut"] \/ machine' = [ms EXCEPT ![m].window = kept])
  BY DEF Finishing
<1> HIDE DEF kept
<1> QED BY <1>1

(* Every step lets the containers age. *)
LEMMA BeginAges ==
    ASSUME MachinesTyped, NEW p, Begin(p)
    PROVE  MachinesAge
<1>1. PICK m : m = req[p].term
  OBVIOUS
<1>2. PICK c : c = Configured(m)
  OBVIOUS
<1>3. Furnished(machine, m, c)
  <2> DEFINE new == [machine[m] EXCEPT !.flags = Flags]
  <2>1. c = machine \/ c = [machine EXCEPT ![m] = new]
    BY <1>2 DEF Configured
  <2>2. m \in Machines => /\ IsMachine(new) /\ new.state = machine[m].state /\ new.window = machine[m].window
                          /\ machine[m].built \subseteq new.built /\ machine[m].flags \cap Flags \subseteq new.flags
    BY DEF MachinesTyped, IsMachine
  <2> HIDE DEF new
  <2> QED BY <2>1, <2>2 DEF Furnished, MachinesTyped
<1>4. PICK d : d = Placed(c, m, 0)
  OBVIOUS
<1>5. Furnished(machine, m, d)
  <2>1. Furnished(c, m, d)
    BY <1>3, <1>4, PlacedFurnishes DEF Furnished
  <2> QED BY <1>3, <2>1 DEF Furnished
<1>6. machine' = machine \/ machine' = c \/ Finishing(d, m)
  BY <1>1, <1>2, <1>4 DEF Begin
<1>7. CASE machine' = machine
  BY <1>7, SameMachines
<1>8. CASE machine' = c
  BY <1>3, <1>8, FurnishedAges
<1>9. CASE Finishing(d, m)
  <2>1. PICK w : w # "open" /\ machine' = [d EXCEPT ![m].window = w]
    BY <1>9, FinishingCloses
  <2> DEFINE new == [d[m] EXCEPT !.window = w]
  <2>2. machine' = [d EXCEPT ![m] = new]
    BY <2>1
  <2>3. m \in Machines => /\ IsMachine(new) /\ new.state = d[m].state /\ new.window # "open"
                          /\ new.built = d[m].built /\ new.flags = d[m].flags
    BY <1>5, <2>1 DEF Furnished, IsMachine
  <2> HIDE DEF new
  <2> QED BY <1>5, <2>2, <2>3 DEF Furnished, MachinesAge, Aging, Lasting
<1> QED BY <1>6, <1>7, <1>8, <1>9

LEMMA JobAges ==
    ASSUME MachinesTyped, JobStep
    PROVE  MachinesAge
<1>1. PICK j \in jobs : SetupEnds(j) \/ FirstEnds(j) \/ StopsTerminal(j) \/ CloseWindow(j) \/ StepEnds(j)
  BY DEF JobStep
<1>2. PICK m : m = ses[j.id].term
  OBVIOUS
<1>3. CASE SetupEnds(j)
  BY <1>3, SameMachines DEF SetupEnds
<1>4. CASE FirstEnds(j)
  <2>1. \/ machine' = machine
        \/ machine' = Prepared(machine, m, First) \/ machine' = Placed(Prepared(machine, m, First), m, 0)
    BY <1>2, <1>4 DEF FirstEnds
  <2>2. CASE machine' = machine
    BY <2>2, SameMachines
  <2>3. CASE machine' = Prepared(machine, m, First)
    BY <2>3, PreparedFurnishes, FurnishedAges DEF MachinesTyped
  <2>4. CASE machine' = Placed(Prepared(machine, m, First), m, 0)
    BY <2>4, BothFurnish, FurnishedAges
  <2> QED BY <2>1, <2>2, <2>3, <2>4
<1>5. CASE StopsTerminal(j)
  <2>1. machine' = Stopped(m) \/ machine' = machine
    BY <1>2, <1>5 DEF StopsTerminal, TriesStop
  <2> QED BY <2>1, StoppedAges, SameMachines
<1>6. CASE CloseWindow(j)
  <2>1. PICK w : w # "open" /\ machine' = [machine EXCEPT ![m].window = w]
    <3>1. Finishing(machine, m)
      BY <1>2, <1>6 DEF CloseWindow
    <3> QED BY <3>1, FinishingCloses
  <2> DEFINE new == [machine[m] EXCEPT !.window = w]
  <2>2. machine' = [machine EXCEPT ![m] = new]
    BY <2>1
  <2>3. m \in Machines => Aging(machine[m], new)
    BY <2>1 DEF MachinesTyped, IsMachine, Aging, Lasting
  <2> HIDE DEF new
  <2> QED BY <2>2, <2>3, OneMachine
<1>7. CASE StepEnds(j)
  <2>1. Provisioned(m, j.step) \/ HalfProvisioned(m, j.step)
    BY <1>2, <1>7 DEF StepEnds
  <2> QED BY <2>1, ProvisionedAges
<1> QED BY <1>1, <1>3, <1>4, <1>5, <1>6, <1>7

LEMMA RequestAges ==
    ASSUME MachinesTyped, NEW p,
           OtherRequest(p) \/ RightAnswer(p) \/ Find(p) \/ Insert(p) \/ \E i \in Ids : Answer(p, i)
    PROVE  MachinesAge
<1>1. CASE machine' = machine
  BY <1>1, SameMachines
<1>2. CASE Launch(p) \/ BulkStart(p)
  <2>1. PICK window : Untaken /\ machine' = Started(window)
    BY <1>2 DEF Launch, BulkStart
  <2> QED BY <2>1, StartedAges
<1>3. PICK m, k : m = req[p].term /\ k = req[p].step
  OBVIOUS
<1>4. CASE StepTransition(p) \/ Reprovisioned(p)
  <2>1. machine' = machine \/ Provisioned(m, k) \/ HalfProvisioned(m, k)
    BY <1>3, <1>4 DEF StepTransition, Reprovisioned
  <2> QED BY <1>1, <2>1, ProvisionedAges
<1>5. CASE DeletesTerminal(p)
  <2> DEFINE new == [NoMachine EXCEPT !.state = "deleted"]
  <2>1. machine' = [machine EXCEPT ![m] = new]
    BY <1>3, <1>5 DEF DeletesTerminal
  <2>2. IsMachine(new) /\ new.state = "deleted" /\ new.window # "open"
    BY DEF NoMachine, IsMachine
  <2> HIDE DEF new
  <2>3. Aging(machine[m], new)
    BY <2>2 DEF Aging, Lasting
  <2> QED BY <2>1, <2>3, OneMachine
<1>6. \/ Count(p) \/ Find(p) \/ Insert(p) \/ RollBack(p) \/ WrongAnswer(p) \/ RightAnswer(p)
      \/ \E m2 \in Machines : StartOn(p, m2)
      \/ \E i \in Ids : Answer(p, i) \/ Reprovision(p, i) \/ Abandon(p, i)
      => machine' = machine
  BY DEF Count, Find, Insert, RollBack, WrongAnswer, RightAnswer, StartOn, Answer, Reprovision, Abandon
<1> QED BY <1>1, <1>2, <1>4, <1>5, <1>6 DEF OtherRequest

LEMMA OthersAge ==
    ASSUME MachinesTyped,
           SweepStep \/ MachineStep \/ Unassign \/ Tick \/ Crash \/ \E i \in Ids : Killed(i)
    PROVE  MachinesAge
<1>1. ASSUME NEW m \in Machines, StopMachine(m) \/ MachineLapses(m) PROVE MachinesAge
  BY <1>1, StoppedAges DEF StopMachine, MachineLapses
<1>2. ASSUME NEW m \in Machines, ResumeMachine(m) PROVE MachinesAge
  <2> DEFINE new == [machine[m] EXCEPT !.state = "running"]
  <2>1. machine' = [machine EXCEPT ![m] = new]
    BY <1>2 DEF ResumeMachine
  <2>2. Aging(machine[m], new)
    BY <1>2 DEF ResumeMachine, MachinesTyped, IsMachine, Aging, Lasting
  <2> HIDE DEF new
  <2> QED BY <2>1, <2>2, OneMachine
<1>3. SweepStep \/ Unassign \/ Tick \/ Crash \/ (\E i \in Ids : Killed(i)) => machine' = machine
  BY DEF SweepStep, SweepZombies, SweepStuck, Unassign, Tick, Crash, Killed
<1> QED BY <1>1, <1>2, <1>3, SameMachines DEF MachineStep

-----------------------------------------------------------------------------
(***************************************************************************)
(* A window that is open has somebody to close it: the request that starts  *)
(* the run, or the goroutine it hands the run to; a crash takes both, and   *)
(* cuts the run off.                                                       *)
(***************************************************************************)
IsJob(j) == DOMAIN j = {"id", "op", "step"}
JobsTyped == \A j \in jobs : IsJob(j)
Building(i) == \E j \in jobs : j.id = i /\ j.op \in {"setup", "first", "stop", "close"}
Beginning(i) == \E p \in Requests : At(p, "begin") /\ req[p].id = i
Minded(i) == ses[i].cut \/ Building(i) \/ Beginning(i) \/ machine[ses[i].term].window # "open"

Windows ==
    \A i \in Sessions :
       /\ ses[i].term \in Machines /\ machine[ses[i].term].state # "none"
       /\ Minded(i)

Win == Typed /\ MachinesTyped /\ Numbered /\ HandsKnown /\ JobsTyped /\ Windows

(* Who was to close a window has not gone without closing it. *)
StillMinded == \A i \in Sessions : Building(i) \/ Beginning(i) => Minded(i)'

LEMMA WindowsStay ==
    ASSUME Win, RowsSteady, MachinesAge, StillMinded, Typed', HandsKnown', JobsTyped'
    PROVE  Win'
<1>1. Sessions' = Sessions
  BY DEF RowsSteady, Steady, Sessions
<1>2. ASSUME NEW i \in Sessions
      PROVE  /\ (ses[i].term \in Machines /\ machine[ses[i].term].state # "none")'
             /\ Minded(i)'
  <2>1. i \in Ids
    BY DEF Sessions
  <2>2. PICK m \in Machines : m = ses[i].term /\ machine[m].state # "none" /\ Minded(i)
    BY DEF Win, Windows
  <2>3. ses'[i].term = m /\ (ses[i].cut => ses'[i].cut)
    BY <2>1, <2>2 DEF RowsSteady, Steady
  <2>4. machine'[m].state # "none" /\ (machine'[m].window = "open" => machine[m].window = "open")
    BY <2>2 DEF MachinesAge, Aging
  <2>5. CASE Building(i) \/ Beginning(i)
    BY <2>3, <2>4, <2>5 DEF StillMinded
  <2>6. CASE ~(Building(i) \/ Beginning(i))
    BY <2>2, <2>3, <2>4, <2>6 DEF Minded
  <2> QED BY <2>3, <2>4, <2>5, <2>6
<1>3. Windows'
  BY <1>1, <1>2 DEF Windows
<1>4. MachinesTyped'
  BY DEF MachinesAge, MachinesTyped, Aging
<1>5. Numbered'
  BY <1>1 DEF Win, Numbered
<1> QED BY <1>3, <1>4, <1>5 DEF Win

(* Hands that fit still fit. *)
LEMMA FitStays ==
    ASSUME NEW r, RowsSteady, MachinesAge, Fit(r)
    PROVE  Fit(r)'
BY DEF Fit, RowsSteady, Steady, MachinesAge, Aging

LEMMA GoFits ==
    ASSUME NEW p \in Requests, NEW r, Win, RowsSteady, MachinesAge, Go(p, r), IsRequest(r), Fit(r)'
    PROVE  Typed' /\ HandsKnown'
<1>1. req' = [q \in Requests |-> IF q = p THEN r ELSE req[q]]
  BY DEF Go, Win, Typed
<1>2. ASSUME NEW q \in Requests PROVE Fit(req[q])'
  <2>1. CASE q = p
    BY <1>1, <2>1 DEF Fit
  <2>2. CASE q # p
    <3>1. PICK h : h = req[q]
      OBVIOUS
    <3>2. req'[q] = h
      BY <1>1, <2>2, <3>1
    <3>3. Fit(h)'
      BY <3>1, FitStays DEF Win, HandsKnown
    <3> QED BY <3>2, <3>3 DEF Fit
  <2> QED BY <2>1, <2>2
<1> QED BY <1>1, <1>2 DEF Win, Typed, HandsKnown, RowsSteady, Steady

LEMMA SameHandsFit ==
    ASSUME Win, RowsSteady, MachinesAge, req' = req
    PROVE  Typed' /\ HandsKnown'
<1>1. ASSUME NEW q \in Requests PROVE Fit(req[q])'
  <2>1. PICK h : h = req[q]
    OBVIOUS
  <2>2. Fit(h)'
    BY <2>1, FitStays DEF Win, HandsKnown
  <2> QED BY <2>1, <2>2 DEF Fit
<1> QED BY <1>1 DEF Win, Typed, HandsKnown, RowsSteady, Steady

(* Goroutines that are only added to, and requests that hold no new run, mind what they minded. *)
LEMMA StillMindedBy ==
    ASSUME NEW p \in Requests, Win, jobs \subseteq jobs', ~At(p, "begin"),
           \A q \in Requests : q = p \/ req'[q] = req[q]
    PROVE  StillMinded
<1>1. ASSUME NEW i \in Sessions, Building(i) PROVE Building(i)'
  BY <1>1 DEF Building
<1>2. ASSUME NEW i \in Sessions, Beginning(i) PROVE Beginning(i)'
  BY <1>2 DEF Beginning, At
<1> QED BY <1>1, <1>2 DEF StillMinded, Minded

-----------------------------------------------------------------------------
(* A goroutine that goes on, and one that is new. *)
LEMMA BecomesTyped ==
    ASSUME NEW j \in jobs, NEW op, JobsTyped, Becomes(j, op)
    PROVE  /\ JobsTyped'
           /\ \E k \in jobs' : k.id = j.id /\ k.op = op
           /\ \A k \in jobs : k = j \/ k \in jobs'
<1> DEFINE k == [j EXCEPT !.op = op]
<1>1. IsJob(k) /\ k.id = j.id /\ k.op = op
  BY DEF JobsTyped, IsJob
<1>2. jobs' = (jobs \ {j}) \cup {k}
  BY DEF Becomes
<1> HIDE DEF k
<1> QED BY <1>1, <1>2 DEF JobsTyped

LEMMA NewJobTyped ==
    ASSUME NEW i, NEW op, NEW k, JobsTyped, jobs' = jobs \cup {Job(i, op, k)}
    PROVE  JobsTyped' /\ Job(i, op, k) \in jobs' /\ Job(i, op, k).id = i /\ Job(i, op, k).op = op
<1>1. IsJob(Job(i, op, k)) /\ Job(i, op, k).id = i /\ Job(i, op, k).op = op
  BY DEF IsJob, Job
<1> QED BY <1>1 DEF JobsTyped

LEMMA JobMinds ==
    ASSUME Win, JobStep
    PROVE  Win'
<1>1. RowsSteady /\ MachinesAge /\ req' = req
  BY JobSmooth, JobAges DEF Win, RowsSmooth, JobStep
<1>2. Typed' /\ HandsKnown'
  BY <1>1, SameHandsFit
<1>3. PICK j \in jobs : SetupEnds(j) \/ FirstEnds(j) \/ StopsTerminal(j) \/ CloseWindow(j) \/ StepEnds(j)
  BY DEF JobStep
<1>4. \A i \in Sessions : Beginning(i) => Minded(i)'
  BY <1>1 DEF Beginning, At, Minded
<1>5. \A i \in Sessions : i \in Ids /\ ses'[i].term = ses[i].term /\ ses[i].term \in Machines
  BY <1>1 DEF Sessions, RowsSteady, Steady, Win, Windows
<1>6. \/ \E op \in {"first", "stop", "close"} : Becomes(j, op)
      \/ Ends(j) /\ j.op \in {"trap", "step"}
      \/ Ends(j) /\ Finishing(machine, ses[j.id].term)
  BY <1>3 DEF SetupEnds, FirstEnds, StopsTerminal, CloseWindow, StepEnds
<1>7. ASSUME NEW op \in {"first", "stop", "close"}, Becomes(j, op) PROVE Win'
  <2>1. /\ JobsTyped' /\ \A k \in jobs : k = j \/ k \in jobs'
        /\ \E k \in jobs' : k.id = j.id /\ k.op = op
    BY <1>7, BecomesTyped DEF Win
  <2>2. \A i \in Sessions : Building(i) => Building(i)'
    BY <2>1 DEF Building
  <2>3. StillMinded
    BY <1>4, <2>2 DEF StillMinded, Minded
  <2> QED BY <1>1, <1>2, <2>1, <2>3, WindowsStay
<1>8. CASE Ends(j) /\ (\/ j.op \in {"trap", "step"}
                       \/ Finishing(machine, ses[j.id].term))
  <2>1. JobsTyped'
    BY <1>8 DEF Ends, Win, JobsTyped
  <2>2. ASSUME NEW i \in Sessions, Building(i) PROVE Minded(i)'
    <3>1. PICK b \in jobs : b.id = i /\ b.op \in {"setup", "first", "stop", "close"}
      BY <2>2 DEF Building
    <3>2. CASE b # j
      <4>1. b \in jobs'
        BY <1>8, <3>2 DEF Ends
      <4> QED BY <3>1, <4>1 DEF Minded, Building
    <3>3. CASE b = j
      <4>1. PICK m \in Machines : m = ses[i].term /\ ses'[i].term = m
        BY <1>5
      <4>2. Finishing(machine, m)
        BY <1>8, <3>1, <3>3, <4>1
      <4>3. PICK w : w # "open" /\ machine' = [machine EXCEPT ![m].window = w]
        BY <4>2, FinishingCloses
      <4>4. machine'[m].window # "open"
        BY <4>3 DEF Win, MachinesTyped, IsMachine
      <4> QED BY <4>1, <4>4 DEF Minded
    <3> QED BY <3>2, <3>3
  <2>3. StillMinded
    BY <1>4, <2>2 DEF StillMinded
  <2> QED BY <1>1, <1>2, <2>1, <2>3, WindowsStay
<1> QED BY <1>6, <1>7, <1>8

(* The sweeps, the trainer, the containers, the clock and a crash. *)
LEMMA OthersMind ==
    ASSUME Win, SweepStep \/ MachineStep \/ Unassign \/ Tick \/ Crash \/ \E i \in Ids : Killed(i)
    PROVE  Win'
<1>1. RowsSteady /\ MachinesAge
  BY OthersSmooth, TickSettled, OthersAge DEF Win, RowsSmooth
<1>2. CASE Crash
  <2>1. PICK r : r = Idle /\ IsRequest(r) /\ r.op = "idle"
    BY IdleIsRequest
  <2>2. req' = [p \in Requests |-> r] /\ jobs' = {}
    BY <1>2, <2>1 DEF Crash
  <2>3. Typed' /\ HandsKnown' /\ JobsTyped'
    BY <1>1, <2>1, <2>2 DEF Typed, HandsKnown, JobsTyped, Fit, RowsSteady, Steady
  <2>4. ASSUME NEW i \in Sessions, Building(i) \/ Beginning(i) PROVE Minded(i)'
    <3> DEFINE toldThen(k) == ses[k].told \/ \E p \in Requests : req[p].op # "idle" /\ req[p].id = k
               cutThen(k) == \/ ses[k].cut
                             \/ \E p \in Requests : At(p, "begin") /\ req[p].id = k
                             \/ \E j \in jobs : j.id = k /\ j.op \in {"setup", "first", "stop", "close"}
    <3>1. cutThen(i)
      BY <2>4 DEF Building, Beginning
    <3>2. ses' = [k \in Ids |-> [ses[k] EXCEPT !.told = toldThen(k), !.cut = cutThen(k)]]
      BY <1>2 DEF Crash
    <3> HIDE DEF toldThen, cutThen
    <3>3. i \in Ids /\ IsSession(ses[i])
      BY DEF Sessions, Win, Typed
    <3>4. ses'[i].cut = cutThen(i)
      BY <3>2, <3>3 DEF IsSession
    <3> QED BY <3>1, <3>4 DEF Minded
  <2>5. StillMinded
    BY <2>4 DEF StillMinded
  <2> QED BY <1>1, <2>3, <2>5, WindowsStay
<1>3. CASE ~Crash
  <2>1. /\ req' = req
        /\ \/ jobs' = jobs
           \/ \E i, k : jobs' = jobs \cup {Job(i, "trap", k)}
    BY <1>3 DEF SweepStep, SweepZombies, SweepStuck, MachineStep, StopMachine, MachineLapses, ResumeMachine,
                Unassign, Tick, Killed
  <2>2. JobsTyped' /\ jobs \subseteq jobs'
    BY <2>1, NewJobTyped DEF Win, JobsTyped
  <2>3. StillMinded
    BY <2>1, <2>2 DEF StillMinded, Minded, Building, Beginning, At
  <2> QED BY <1>1, <2>1, <2>2, <2>3, SameHandsFit, WindowsStay
<1> QED BY <1>2, <1>3

-----------------------------------------------------------------------------
(* The requests that insert no run and finish no start. *)
LEMMA RequestMinds ==
    ASSUME Win, NEW p \in Requests,
           OtherRequest(p) \/ RightAnswer(p) \/ Find(p) \/ \E i \in Ids : Answer(p, i)
    PROVE  Win'
<1>1. RowsSteady /\ MachinesAge
  BY RequestSmooth, RightAnswerSteady, RequestAges DEF Win, RowsSmooth
<1>2. ~At(p, "begin")
  BY DEF OtherRequest, RightAnswer, Answer, Launch, BulkStart, StartOn, Count, Find, RollBack, WrongAnswer,
         StepTransition, Reprovisioned, DeletesTerminal, Reprovision, Abandon, At
<1>3. jobs' = jobs \/ \E i, k : jobs' = jobs \cup {Job(i, "step", k)}
  BY DEF OtherRequest, RightAnswer, Answer, Launch, BulkStart, StartOn, Count, Find, RollBack, WrongAnswer,
         StepTransition, Reprovisioned, DeletesTerminal, Reprovision, Abandon, StartsAsync
<1>4. JobsTyped' /\ jobs \subseteq jobs'
  BY <1>3, NewJobTyped DEF Win, JobsTyped
<1>5. req' = req \/ \E r : Go(p, r) /\ IsRequest(r) /\ Fit(r)'
  <2> DEFINE begun(m) == [Idle EXCEPT !.op = "start", !.term = m]
             retry(i, m, k) == [Idle EXCEPT !.op = "retry", !.id = i, !.term = m, !.step = k]
             delete(i, m) == [Idle EXCEPT !.op = "delete", !.id = i, !.term = m]
             answer(i, m, k, e) == [op |-> "answer", id |-> i, term |-> m, step |-> k, mem |-> e]
             moved(r, k, e) == [r EXCEPT !.op = "transition", !.step = k, !.mem = e]
             counted(r) == [r EXCEPT !.op = "count"]
             found(r, i) == [r EXCEPT !.op = "found", !.id = i]
  <2>1. /\ \A m : IsRequest(begun(m)) /\ begun(m).op = "start" /\ begun(m).term = m
        /\ \A i, m, k : IsRequest(retry(i, m, k)) /\ retry(i, m, k).op = "retry"
        /\ \A i, m : IsRequest(delete(i, m)) /\ delete(i, m).op = "delete"
        /\ \A i, m, k, e : /\ IsRequest(answer(i, m, k, e)) /\ answer(i, m, k, e).op = "answer"
                           /\ answer(i, m, k, e).id = i
    BY IdleIsRequest DEF IsRequest
  <2>2. /\ \A k, e : /\ IsRequest(moved(req[p], k, e)) /\ moved(req[p], k, e).op = "transition"
                     /\ moved(req[p], k, e).id = req[p].id
        /\ IsRequest(counted(req[p])) /\ counted(req[p]).op = "count" /\ counted(req[p]).term = req[p].term
        /\ \A i : /\ IsRequest(found(req[p], i)) /\ found(req[p], i).op = "found"
                  /\ found(req[p], i).id = i /\ found(req[p], i).term = req[p].term
    BY DEF Win, Typed, IsRequest
  <2>3. /\ Launch(p) \/ BulkStart(p) => Go(p, begun(NextMachine))
        /\ \A m : StartOn(p, m) => Go(p, begun(m))
        /\ \A k : Answer(p, k) => Go(p, answer(k, ses[k].term, ses[k].step, progress[k]))
        /\ RightAnswer(p) => Go(p, Idle) \/ Go(p, moved(req[p], Following(req[p].step), Idle.mem))
        /\ \A k : Reprovision(p, k) => req' = req \/ Go(p, retry(k, ses[k].term, ses[k].step))
        /\ \A k : Abandon(p, k) => Go(p, delete(k, ses[k].term))
        /\ Count(p) => Go(p, Idle) \/ Go(p, counted(req[p]))
        /\ Find(p) => Go(p, Idle) \/ \E i \in Way \cup {0} : Go(p, found(req[p], i))
        /\ RollBack(p) \/ WrongAnswer(p) \/ StepTransition(p) \/ Reprovisioned(p) \/ DeletesTerminal(p)
              => Go(p, Idle)
    BY DEF Launch, BulkStart, StartOn, Answer, RightAnswer, Reprovision, Abandon, Count, Find, RollBack,
           WrongAnswer, StepTransition, Reprovisioned, DeletesTerminal
  <2> HIDE DEF begun, retry, delete, answer, moved, counted, found
  <2>4. ASSUME NEW r, IsRequest(r), Go(p, r),
               r.op \notin {"start", "count", "found", "begin", "answer", "transition"}
        PROVE  \E q : Go(p, q) /\ IsRequest(q) /\ Fit(q)'
    <3>1. Fit(r)'
      BY <2>4 DEF Fit
    <3> QED BY <2>4, <3>1
  <2>5. CASE Launch(p) \/ BulkStart(p)
    <3>1. PICK m : m = NextMachine
      OBVIOUS
    <3>2. \E window : Untaken /\ machine' = Started(window)
      BY <2>5 DEF Launch, BulkStart
    <3>3. m \in Machines /\ machine'[m].state = "running"
      BY <3>1, <3>2, StartedAges DEF Win
    <3>4. PICK r : r = begun(m)
      OBVIOUS
    <3>5. IsRequest(r) /\ r.op = "start" /\ r.term = m
      BY <2>1, <3>4
    <3>6. Fit(r)'
      BY <3>3, <3>5 DEF Fit
    <3> QED BY <2>3, <2>5, <3>1, <3>4, <3>5, <3>6
  <2>6. ASSUME NEW m \in Machines, StartOn(p, m)
        PROVE  \E r : Go(p, r) /\ IsRequest(r) /\ Fit(r)'
    <3>1. machine' = machine /\ machine[m].state # "none"
      BY <2>6 DEF StartOn
    <3>2. PICK r : r = begun(m)
      OBVIOUS
    <3>3. IsRequest(r) /\ r.op = "start" /\ r.term = m
      BY <2>1, <3>2
    <3>4. Fit(r)'
      BY <3>1, <3>3 DEF Fit
    <3> QED BY <2>3, <2>6, <3>2, <3>3, <3>4
  <2>7. ASSUME NEW k \in Ids, Answer(p, k)
        PROVE  \E r : Go(p, r) /\ IsRequest(r) /\ Fit(r)'
    <3>1. PICK r : r = answer(k, ses[k].term, ses[k].step, progress[k])
      OBVIOUS
    <3>2. Go(p, r) /\ ses' = ses /\ ses[k].status # "none"
      BY <2>3, <2>7, <3>1 DEF Answer
    <3>3. IsRequest(r) /\ r.op = "answer" /\ r.id = k
      BY <2>1, <3>1
    <3>4. Fit(r)'
      BY <3>2, <3>3 DEF Fit
    <3> QED BY <3>2, <3>3, <3>4
  <2>8. CASE RightAnswer(p)
    <3>1. PICK r : r = moved(req[p], Following(req[p].step), Idle.mem)
      OBVIOUS
    <3>2. IsRequest(r) /\ r.op = "transition" /\ r.id = req[p].id
      BY <2>2, <3>1
    <3>3. r.id \in Ids /\ ses[r.id].status # "none"
      BY <2>8, <3>2 DEF RightAnswer, At, Win, HandsKnown, Fit
    <3>4. Fit(r)'
      BY <1>1, <3>2, <3>3 DEF Fit, RowsSteady, Steady
    <3> QED BY <2>3, <2>4, <2>8, <3>1, <3>2, <3>4, IdleIsRequest
  <2>9. ASSUME NEW k \in Ids, Reprovision(p, k) \/ Abandon(p, k)
        PROVE  req' = req \/ \E r : Go(p, r) /\ IsRequest(r) /\ Fit(r)'
    <3>1. PICK m, n : m = ses[k].term /\ n = ses[k].step
      OBVIOUS
    <3>2. PICK r, d : r = retry(k, m, n) /\ d = delete(k, m)
      OBVIOUS
    <3>3. req' = req \/ Go(p, r) \/ Go(p, d)
      BY <2>3, <2>9, <3>1, <3>2
    <3>4. IsRequest(r) /\ r.op = "retry" /\ IsRequest(d) /\ d.op = "delete"
      BY <2>1, <3>2
    <3> QED BY <2>4, <3>3, <3>4
  <2>10. CASE Count(p)
    <3>1. PICK r : r = counted(req[p])
      OBVIOUS
    <3>2. IsRequest(r) /\ r.op = "count" /\ r.term = req[p].term
      BY <2>2, <3>1
    <3>3. machine' = machine /\ r.term \in Machines /\ machine[r.term].state # "none"
      BY <2>10, <3>2 DEF Count, At, Win, HandsKnown, Fit
    <3>4. Fit(r)'
      BY <3>2, <3>3 DEF Fit
    <3> QED BY <2>3, <2>4, <2>10, <3>1, <3>2, <3>4, IdleIsRequest
  <2>11. CASE Find(p)
    <3>1. ASSUME NEW i \in Way \cup {0}, Go(p, found(req[p], i))
          PROVE  \E r : Go(p, r) /\ IsRequest(r) /\ Fit(r)'
      <4>1. PICK r : r = found(req[p], i)
        OBVIOUS
      <4>2. IsRequest(r) /\ r.op = "found" /\ r.id = i /\ r.term = req[p].term
        BY <2>2, <4>1
      <4>3. /\ machine' = machine /\ ses' = ses
            /\ r.term \in Machines /\ machine[r.term].state # "none"
        BY <2>11, <4>2 DEF Find, At, Win, HandsKnown, Fit
      <4>4. i \in Ids => ses[i].status # "none"
        BY ScenarioAssumption DEF Way, InState, Blocking
      <4>5. Fit(r)'
        BY <4>2, <4>3, <4>4 DEF Fit
      <4> QED BY <3>1, <4>1, <4>2, <4>5
    <3> QED BY <2>3, <2>4, <2>11, <3>1, IdleIsRequest
  <2> QED BY <2>3, <2>4, <2>5, <2>6, <2>7, <2>8, <2>9, <2>10, <2>11, IdleIsRequest DEF OtherRequest
<1>6. Typed' /\ HandsKnown'
  BY <1>1, <1>5, GoFits, SameHandsFit
<1>7. \A q \in Requests : q = p \/ req'[q] = req[q]
  BY <1>5 DEF Go, Win, Typed
<1>8. StillMinded
  BY <1>2, <1>4, <1>7, StillMindedBy
<1> QED BY <1>1, <1>4, <1>6, <1>8, WindowsStay

-----------------------------------------------------------------------------
(* The end of the start: the window is closed at once, or the goroutine *)
(* that closes it exists, or the push of the configuration failed.      *)
LEMMA BeginMinds ==
    ASSUME Win, NEW p \in Requests, Begin(p)
    PROVE  Win'
<1>1. RowsSteady /\ MachinesAge
  BY RequestSmooth, BeginAges DEF Win, RowsSmooth
<1>2. PICK r : r = Idle /\ IsRequest(r) /\ r.op = "idle"
  BY IdleIsRequest
<1>3. Go(p, r)
  BY <1>2 DEF Begin
<1>4. Typed' /\ HandsKnown'
  <2>1. Fit(r)'
    BY <1>2 DEF Fit
  <2> QED BY <1>1, <1>2, <1>3, <2>1, GoFits
<1>5. PICK i, m : /\ i = req[p].id /\ i \in Ids /\ ses[i].status # "none"
                  /\ m = req[p].term /\ m \in Machines /\ ses[i].term = m
  BY DEF Begin, At, Win, HandsKnown, Fit
<1>6. PICK c : c = Configured(m)
  OBVIOUS
<1>7. PICK k : k = First
  OBVIOUS
<1>8. \/ ses' = [ses EXCEPT ![i].cut = TRUE] /\ jobs' = jobs
      \/ jobs' = jobs \cup {Job(i, "setup", k)}
      \/ Finishing(Placed(c, m, 0), m) /\ jobs' = jobs
  BY <1>5, <1>6, <1>7 DEF Begin
<1>9. JobsTyped' /\ jobs \subseteq jobs'
  BY <1>8, NewJobTyped DEF Win, JobsTyped
<1>10. Minded(i)'
  <2>1. CASE ses' = [ses EXCEPT ![i].cut = TRUE]
    BY <1>5, <2>1 DEF Minded, Win, Typed, IsSession
  <2>2. CASE jobs' = jobs \cup {Job(i, "setup", k)}
    BY <2>2, NewJobTyped DEF Win, Minded, Building
  <2>3. CASE Finishing(Placed(c, m, 0), m)
    <3>1. c = [n \in Machines |-> c[n]] /\ \A n \in Machines : IsMachine(c[n])
      BY <1>5, <1>6 DEF Configured, Win, MachinesTyped, IsMachine
    <3>2. PICK d : d = Placed(c, m, 0)
      OBVIOUS
    <3>3. d = [n \in Machines |-> d[n]] /\ IsMachine(d[m])
      BY <1>5, <3>1, <3>2, PlacedFurnishes DEF Furnished
    <3>4. PICK w : w # "open" /\ machine' = [d EXCEPT ![m].window = w]
      BY <2>3, <3>2, FinishingCloses
    <3>5. machine'[m].window # "open"
      BY <1>5, <3>3, <3>4 DEF IsMachine
    <3>6. ses'[i].term = m
      BY <1>1, <1>5 DEF RowsSteady, Steady
    <3> QED BY <3>5, <3>6 DEF Minded
  <2> QED BY <1>8, <2>1, <2>2, <2>3
<1>11. ASSUME NEW n \in Sessions, n # i, Building(n) \/ Beginning(n) PROVE Minded(n)'
  <2>1. Building(n) => Building(n)'
    BY <1>9 DEF Building
  <2>2. Beginning(n) => Beginning(n)'
    BY <1>3, <1>5, <1>11 DEF Beginning, At, Go, Win, Typed
  <2> QED BY <1>11, <2>1, <2>2 DEF Minded
<1>12. StillMinded
  BY <1>10, <1>11 DEF StillMinded
<1> QED BY <1>1, <1>4, <1>9, <1>12, WindowsStay

(* The insertion of the start: the new row is in the hands of the request. *)
LEMMA InsertMinds ==
    ASSUME Win, NEW p \in Requests, Insert(p)
    PROVE  Win'
<1> DEFINE gone == Ids \cap {req[p].id}
<1>1. MachinesAge /\ machine' = machine /\ jobs' = jobs
  BY RequestAges DEF Win, Insert
<1>2. JobsTyped'
  BY <1>1 DEF Win, JobsTyped
<1>3. /\ NextId \in Ids
      /\ ses' = [Abandoning(gone) EXCEPT ![NextId] = [NoSession EXCEPT !.status = "active", !.term = req[p].term]]
      /\ Go(p, [req[p] EXCEPT !.op = "begin", !.id = NextId])
  BY DEF Insert
<1>4. \A i \in gone : i \in Ids /\ ses[i].status # "none"
  BY DEF Insert, At, Win, HandsKnown, Fit
<1> HIDE DEF gone
<1>5. PICK n, m : n \in Ids /\ n = NextId /\ m = req[p].term
  BY <1>3
<1>6. n \in Nat /\ n \notin Sessions /\ \A i \in Sessions : i < n
  BY <1>5, NextIdIsFree DEF Win
<1>7. m \in Machines /\ machine[m].state # "none"
  BY <1>5 DEF Insert, At, Win, HandsKnown, Fit
<1> DEFINE row == [NoSession EXCEPT !.status = "active", !.term = m]
           hand == [req[p] EXCEPT !.op = "begin", !.id = n]
<1>8. IsSession(row) /\ row.status = "active" /\ row.term = m
  BY DEF IsSession, NoSession
<1>9. IsRequest(hand) /\ hand.op = "begin" /\ hand.id = n /\ hand.term = m
  BY <1>5 DEF IsRequest, Win, Typed
<1>10. ses' = [Abandoning(gone) EXCEPT ![n] = row] /\ Go(p, hand)
  BY <1>3, <1>5
<1> HIDE DEF row, hand
<1>11. ASSUME NEW i \in Ids, i # n PROVE Steady(ses[i], ses'[i])
  <2>1. ses'[i] = IF i \in gone THEN Written(ses[i], "abandoned") ELSE ses[i]
    BY <1>10, <1>11 DEF Abandoning
  <2>2. IsSession(ses[i]) /\ (i \in gone => ses[i].status # "none")
    BY <1>4 DEF Win, Typed
  <2>3. Steady(ses[i], ses[i])
    BY <2>2 DEF Steady
  <2> QED BY <2>1, <2>2, <2>3, WrittenIsSmooth DEF Smooth
<1>12. ses' = [i \in Ids |-> ses'[i]] /\ ses'[n] = row
  BY <1>5, <1>10 DEF Abandoning
<1>13. req' = [q \in Requests |-> IF q = p THEN hand ELSE req[q]]
  BY <1>10 DEF Go, Win, Typed
<1>14. Typed'
  BY <1>8, <1>9, <1>11, <1>12, <1>13 DEF Win, Typed, Steady
<1>15. Sessions' = Sessions \cup {n}
  BY <1>5, <1>8, <1>11, <1>12 DEF Sessions, Steady
<1>16. HandsKnown'
  <2>1. ASSUME NEW q \in Requests PROVE Fit(req[q])'
    <3>1. CASE q = p
      BY <1>1, <1>5, <1>7, <1>8, <1>9, <1>12, <1>13, <3>1 DEF Fit
    <3>2. CASE q # p
      <4>1. PICK h : h = req[q] /\ Fit(h)
        BY DEF Win, HandsKnown
      <4>2. req'[q] = h
        BY <1>13, <3>2, <4>1
      <4>3. /\ h.op \in {"begin", "answer", "transition"} =>
                  h.id \in Ids /\ ses'[h.id].status # "none" /\ ses'[h.id].term = ses[h.id].term
            /\ h.op = "found" /\ h.id \in Ids => ses'[h.id].status # "none"
        BY <1>6, <1>11, <4>1 DEF Fit, Sessions, Steady
      <4>4. Fit(h)'
        BY <1>1, <4>1, <4>3 DEF Fit
      <4> QED BY <4>2, <4>4 DEF Fit
    <3> QED BY <3>1, <3>2
  <2> QED BY <2>1 DEF HandsKnown
<1>17. ASSUME NEW i \in Sessions'
       PROVE  /\ (ses[i].term \in Machines /\ machine[ses[i].term].state # "none")'
              /\ Minded(i)'
  <2>1. CASE i = n
    <3>1. ses'[i].term \in Machines /\ machine'[ses'[i].term].state # "none"
      BY <1>1, <1>7, <1>8, <1>12, <2>1
    <3>2. Beginning(i)'
      BY <1>9, <1>13, <2>1 DEF Beginning, At
    <3> QED BY <3>1, <3>2 DEF Minded
  <2>2. CASE i # n
    <3>1. i \in Sessions /\ i \in Ids
      BY <1>15, <2>2 DEF Sessions
    <3>2. ses'[i].term = ses[i].term /\ (ses[i].cut => ses'[i].cut)
      BY <1>11, <2>2, <3>1 DEF Steady
    <3>3. Beginning(i) => Beginning(i)'
      <4>1. ~At(p, "begin")
        BY DEF Insert, At
      <4> QED BY <1>13, <4>1 DEF Beginning, At
    <3>4. Building(i) => Building(i)'
      BY <1>1 DEF Building
    <3> QED BY <1>1, <3>1, <3>2, <3>3, <3>4 DEF Win, Windows, Minded
  <2> QED BY <2>1, <2>2
<1>18. Windows'
  BY <1>17 DEF Windows
<1>19. Numbered'
  <2>1. \A i \in Sessions' : i \in Nat /\ i <= n
    BY <1>6, <1>15, ScenarioAssumption DEF Sessions
  <2> QED BY <1>6, <2>1 DEF Numbered
<1>20. MachinesTyped'
  BY <1>1 DEF Win, MachinesTyped
<1> QED BY <1>2, <1>14, <1>16, <1>18, <1>19, <1>20 DEF Win

-----------------------------------------------------------------------------
LEMMA InitWin == Init => Win
<1> SUFFICES ASSUME Init PROVE Win
  OBVIOUS
<1>1. IsSession(NoSession) /\ NoSession.status = "none" /\ IsMachine(NoMachine)
  BY DEF IsSession, NoSession, IsMachine, NoMachine
<1>2. Typed /\ HandsKnown
  BY <1>1, IdleIsRequest DEF Init, Typed, HandsKnown, Fit
<1>3. Sessions = {} /\ jobs = {}
  BY <1>1 DEF Init, Sessions
<1>4. MachinesTyped
  BY <1>1 DEF Init, MachinesTyped
<1> QED BY <1>2, <1>3, <1>4 DEF Win, Numbered, JobsTyped, Windows

LEMMA StepMinds ==
    ASSUME Win, [Next]_vars
    PROVE  Win'
<1>1. CASE UNCHANGED vars
  BY <1>1 DEF vars, Win, Typed, MachinesTyped, Numbered, HandsKnown, JobsTyped, Windows, Fit, Sessions,
              Minded, Building, Beginning, At
<1>2. CASE RequestStep
  <2>1. PICK p \in Requests : \/ OtherRequest(p) \/ Begin(p) \/ RightAnswer(p) \/ Find(p) \/ Insert(p)
                              \/ \E i \in Ids : Answer(p, i)
    BY <1>2 DEF RequestStep, OtherRequest
  <2> QED BY <2>1, RequestMinds, BeginMinds, InsertMinds
<1> QED BY <1>1, <1>2, JobMinds, OthersMind DEF Next

(***************************************************************************)
(* No container of a run keeps the features it was given for building once  *)
(* the start is over (finishBuild), whatever the scenarios and their scripts,*)
(* the containers, the requests under way, the order they write in and the  *)
(* crashes, unless their removal was tried, failed and was logged.  Only a   *)
(* start that a crash or a failed push cut off leaves them without a try.    *)
(***************************************************************************)
THEOREM BuildWindowsClose == Spec => []WindowCloses
<1>1. Win /\ [Next]_vars => Win'
  BY StepMinds
<1>2. Win => WindowCloses
  BY DEF Win, Windows, Minded, Building, Beginning, WindowCloses, Busy
<1> QED BY InitWin, <1>1, <1>2, PTL DEF Spec

-----------------------------------------------------------------------------
(***************************************************************************)
(* A run that a script prepares has waited no longer than the script may    *)
(* take: its clock starts again with the script.                           *)
(***************************************************************************)
Clocked ==
    /\ \A i \in Ids : ses[i].age \in Nat
    /\ \A j \in Scripts : /\ j.id \in Ids
                          /\ ses[j.id].status = "provisioning" => ses[j.id].age <= Budget(j) + ReapMargin

LEMMA BudgetIsNat == \A j : Budget(j) \in Nat
BY ScenarioAssumption DEF Budget

(* Every script that runs then ran before with the same budget, or starts on a clock that does. *)
LEMMA ClockStays ==
    ASSUME Clocked, RowsRested,
           \A j \in Scripts' :
              \/ \E k \in Scripts : k.id = j.id /\ Budget(k) = Budget(j)
              \/ j.id \in Ids /\ (ses'[j.id].status = "provisioning" => ses'[j.id].age = 0)
    PROVE  Clocked'
<1>1. \A i \in Ids : ses'[i].age \in Nat
  BY DEF Clocked, RowsRested, Rested
<1>2. ASSUME NEW j \in Scripts'
      PROVE  /\ j.id \in Ids
             /\ ses'[j.id].status = "provisioning" => ses'[j.id].age <= Budget(j) + ReapMargin
  <2>1. PICK b \in Nat : b = Budget(j)
    BY BudgetIsNat
  <2>2. CASE j.id \in Ids /\ (ses'[j.id].status = "provisioning" => ses'[j.id].age = 0)
    BY <2>1, <2>2, ScenarioAssumption
  <2>3. ASSUME NEW k \in Scripts, k.id = j.id, Budget(k) = Budget(j)
        PROVE  /\ j.id \in Ids
               /\ ses'[j.id].status = "provisioning" => ses'[j.id].age <= Budget(j) + ReapMargin
    <3>1. PICK i \in Ids : i = j.id /\ (ses[i].status = "provisioning" => ses[i].age <= b + ReapMargin)
      BY <2>1, <2>3 DEF Clocked
    <3> QED BY <2>1, <3>1, ScenarioAssumption DEF RowsRested, Rested
  <2> QED BY <2>2, <2>3
<1>3. (\A j \in Scripts : /\ j.id \in Ids
                          /\ ses[j.id].status = "provisioning" => ses[j.id].age <= Budget(j) + ReapMargin)'
  BY <1>2 DEF Budget
<1> QED BY <1>1, <1>3 DEF Clocked

(* Most steps start no script. *)
LEMMA ClockStaysBy ==
    ASSUME Clocked, RowsRested, Scripts' \subseteq Scripts
    PROVE  Clocked'
BY ClockStays

(* A script starts with a write of its row. *)
LEMMA StartsAsyncClocks ==
    ASSUME NEW i \in Ids, NEW k, NEW from, Typed, JobsTyped, Clocked, StartsAsync(i, k, from), "none" \notin from
    PROVE  Clocked'
<1>1. RowsRested
  BY StartsAsyncSmooth DEF RowsSmooth
<1>2. CASE jobs' = jobs
  BY <1>1, <1>2, ClockStaysBy DEF Scripts
<1>3. CASE ses' = Setting(i, "provisioning") /\ jobs' = jobs \cup {Job(i, "step", k)}
  <2>1. Written(ses[i], "provisioning").age = 0
    BY DEF Written, Typed, IsSession
  <2>2. ses'[i].age = 0
    BY <1>3, <2>1 DEF Setting, Typed
  <2>3. \A j \in Scripts' : j \in Scripts \/ j.id = i
    BY <1>3 DEF Scripts, Job
  <2> QED BY <1>1, <2>2, <2>3, ClockStays
<1> QED BY <1>2, <1>3 DEF StartsAsync

LEMMA JobClocks ==
    ASSUME Win, Clocked, JobStep
    PROVE  Clocked'
<1>1. RowsRested
  BY JobSmooth DEF Win, RowsSmooth
<1>2. PICK j \in jobs : SetupEnds(j) \/ FirstEnds(j) \/ StopsTerminal(j) \/ CloseWindow(j) \/ StepEnds(j)
  BY DEF JobStep
<1>3. CASE SetupEnds(j) /\ Becomes(j, "first")
  <2> DEFINE k == [j EXCEPT !.op = "first"]
  <2>1. k.id = j.id /\ Budget(k) = SetupBudget
    BY DEF Win, JobsTyped, IsJob, Budget
  <2>2. j \in Scripts /\ Budget(j) = SetupBudget
    BY <1>3 DEF SetupEnds, Scripts, Budget
  <2>3. jobs' = (jobs \ {j}) \cup {k}
    BY <1>3 DEF Becomes
  <2> HIDE DEF k
  <2>4. \A h \in Scripts' : h \in Scripts \/ h = k
    BY <2>3 DEF Scripts
  <2> QED BY <1>1, <2>1, <2>2, <2>4, ClockStays
<1>4. ASSUME NEW op \in {"stop", "close"}, Becomes(j, op) PROVE Clocked'
  <2> DEFINE k == [j EXCEPT !.op = op]
  <2>1. k.op = op
    BY DEF Win, JobsTyped, IsJob
  <2>2. jobs' = (jobs \ {j}) \cup {k}
    BY <1>4 DEF Becomes
  <2> HIDE DEF k
  <2>3. Scripts' \subseteq Scripts
    BY <2>1, <2>2 DEF Scripts
  <2> QED BY <1>1, <2>3, ClockStaysBy
<1>5. CASE Ends(j)
  <2>1. Scripts' \subseteq Scripts
    BY <1>5 DEF Scripts, Ends
  <2> QED BY <1>1, <2>1, ClockStaysBy
<1>6. \/ SetupEnds(j) /\ Becomes(j, "first")
      \/ \E op \in {"stop", "close"} : Becomes(j, op)
      \/ Ends(j)
  BY <1>2 DEF SetupEnds, FirstEnds, StopsTerminal, CloseWindow, StepEnds
<1> QED BY <1>3, <1>4, <1>5, <1>6

LEMMA OthersClock ==
    ASSUME Win, Clocked,
           SweepStep \/ MachineStep \/ Unassign \/ Crash \/ \E i \in Ids : Killed(i)
    PROVE  Clocked'
<1>1. RowsRested
  BY OthersSmooth DEF Win, RowsSmooth
<1>2. \/ jobs' = jobs \/ jobs' = {}
      \/ \E i, k : jobs' = jobs \cup {Job(i, "trap", k)}
  BY DEF SweepStep, SweepZombies, SweepStuck, MachineStep, StopMachine, MachineLapses, ResumeMachine,
         Unassign, Crash, Killed
<1>3. Scripts' \subseteq Scripts
  BY <1>2 DEF Scripts, Job
<1> QED BY <1>1, <1>3, ClockStaysBy

(* The clock does not run past the end of a script. *)
LEMMA TickClocks ==
    ASSUME Win, Clocked, Tick
    PROVE  Clocked'
<1>1. ses' = [i \in Ids |-> IF ses[i].status = "provisioning" /\ ses[i].age <= StuckAfter
                             THEN [ses[i] EXCEPT !.age = ses[i].age + 1] ELSE ses[i]]
  BY DEF Tick
<1>2. \A i \in Ids : /\ ses'[i].status = ses[i].status
                     /\ ses'[i].age \in {ses[i].age, ses[i].age + 1}
  BY <1>1 DEF Win, Typed, IsSession
<1>3. \A i \in Ids : ses'[i].age \in Nat
  BY <1>2 DEF Clocked
<1>4. Scripts' = Scripts
  BY DEF Tick, Scripts
<1>5. ASSUME NEW j \in Scripts
      PROVE  /\ j.id \in Ids
             /\ ses'[j.id].status = "provisioning" => ses'[j.id].age <= Budget(j) + ReapMargin
  <2>1. PICK i \in Ids, b \in Nat : i = j.id /\ b = Budget(j)
    BY BudgetIsNat DEF Clocked
  <2>2. ses[i].status = "provisioning" => ses[i].age < b + ReapMargin
    BY <2>1 DEF Tick
  <2>3. PICK a \in Nat, c \in Nat : a = ses[i].age /\ c = b + ReapMargin
    BY ScenarioAssumption DEF Clocked
  <2>4. ses'[i].status = "provisioning" => a < c /\ ses'[i].age \in {a, a + 1}
    <3>1. ses'[i].status = ses[i].status
      BY <1>2
    <3>2. ses'[i].age = a \/ ses'[i].age = a + 1
      BY <1>2, <2>3
    <3>3. ses[i].status = "provisioning" => a < c
      BY <2>2, <2>3
    <3> QED BY <3>1, <3>2, <3>3
  <2>5. ses'[i].status = "provisioning" => ses'[i].age <= c
    BY <2>3, <2>4
  <2> QED BY <2>1, <2>3, <2>5
<1>6. (\A j \in Scripts : /\ j.id \in Ids
                          /\ ses[j.id].status = "provisioning" => ses[j.id].age <= Budget(j) + ReapMargin)'
  BY <1>4, <1>5 DEF Budget
<1> QED BY <1>3, <1>6 DEF Clocked

(* The run that is being started is active: the goroutine of its setup finds *)
(* it in provisioning only since now.                                        *)
LEMMA BeginClocks ==
    ASSUME Inv, Win, Clocked, NEW p \in Requests, Begin(p)
    PROVE  Clocked'
<1>1. RowsRested
  BY RequestSmooth DEF Win, RowsSmooth
<1>2. PICK i \in Ids : i = req[p].id /\ ses[i].status = "active"
  BY DEF Begin, At, Inv, Holding
<1>3. PICK k : k = First
  OBVIOUS
<1>4. \/ jobs' = jobs
      \/ /\ ses' = Setting(i, "provisioning") \/ ses' = ses
         /\ jobs' = jobs \cup {Job(i, "setup", k)}
  BY <1>2, <1>3 DEF Begin
<1>5. CASE jobs' = jobs
  BY <1>1, <1>5, ClockStaysBy DEF Scripts
<1>6. CASE /\ ses' = Setting(i, "provisioning") \/ ses' = ses
           /\ jobs' = jobs \cup {Job(i, "setup", k)}
  <2>1. Written(ses[i], "provisioning").age = 0
    BY DEF Written, Win, Typed, IsSession
  <2>2. ses'[i].age = 0 \/ ses'[i].status # "provisioning"
    BY <1>2, <1>6, <2>1 DEF Setting, Win, Typed
  <2>3. \A j \in Scripts' : j \in Scripts \/ j.id = i
    BY <1>6 DEF Scripts, Job
  <2> QED BY <1>1, <2>2, <2>3, ClockStays
<1> QED BY <1>4, <1>5, <1>6

LEMMA RequestClocks ==
    ASSUME Win, Clocked, NEW p \in Requests,
           OtherRequest(p) \/ RightAnswer(p) \/ Find(p) \/ \E i \in Ids : Answer(p, i)
    PROVE  Clocked'
<1>1. RowsRested
  BY RequestSmooth, RightAnswerSteady DEF Win, RowsSmooth
<1>2. CASE jobs' = jobs
  BY <1>1, <1>2, ClockStaysBy DEF Scripts
<1>3. CASE StepTransition(p)
  <2>1. PICK i, k : i \in Ids /\ i = req[p].id /\ k = req[p].step
    BY <1>3 DEF StepTransition, At, Win, HandsKnown, Fit
  <2>2. jobs' = jobs \/ StartsAsync(i, k, {"active"})
    BY <1>3, <2>1 DEF StepTransition
  <2> QED BY <1>2, <2>1, <2>2, StartsAsyncClocks DEF Win
<1>4. ASSUME NEW i \in Ids, Reprovision(p, i) PROVE Clocked'
  <2>1. PICK k : k = ses[i].step
    OBVIOUS
  <2>2. jobs' = jobs \/ StartsAsync(i, k, Reprovisionable)
    BY <1>4, <2>1 DEF Reprovision
  <2>3. "none" \notin Reprovisionable
    BY DEF Reprovisionable
  <2> QED BY <1>2, <2>2, <2>3, StartsAsyncClocks DEF Win
<1>5. \/ jobs' = jobs \/ StepTransition(p) \/ \E i \in Ids : Reprovision(p, i)
  BY DEF OtherRequest, RightAnswer, Answer, Launch, BulkStart, StartOn, Count, Find, RollBack, WrongAnswer,
         Reprovisioned, DeletesTerminal, Abandon
<1> QED BY <1>2, <1>3, <1>4, <1>5

(* The row of a new run is new, and no script is about it. *)
LEMMA InsertClocks ==
    ASSUME Win, Clocked, NEW p \in Requests, Insert(p)
    PROVE  Clocked'
<1> DEFINE gone == Ids \cap {req[p].id}
<1>1. PICK n, m : n \in Ids /\ n = NextId /\ m = req[p].term
  BY DEF Insert
<1> DEFINE row == [NoSession EXCEPT !.status = "active", !.term = m]
<1>2. row.age = 0
  BY DEF NoSession
<1>3. ses' = [Abandoning(gone) EXCEPT ![n] = row] /\ jobs' = jobs
  BY <1>1 DEF Insert
<1> HIDE DEF row, gone
<1>4. \A i \in Ids : ses'[i].age = 0 \/ ses'[i] = ses[i]
  <2>1. \A i \in Ids : Written(ses[i], "abandoned").age = 0
    BY DEF Written, Win, Typed, IsSession
  <2>2. \A i \in Ids : ses'[i] = IF i = n THEN row
                                 ELSE IF i \in gone THEN Written(ses[i], "abandoned") ELSE ses[i]
    BY <1>3 DEF Abandoning
  <2> QED BY <1>2, <2>1, <2>2
<1>5. RowsRested
  BY <1>4 DEF RowsRested, Rested
<1> QED BY <1>3, <1>5, ClockStaysBy DEF Scripts

-----------------------------------------------------------------------------
(* The longest budget is at least each of the two. *)
LEMMA LongestIsLongest == LongestSetup \in Nat /\ SetupBudget <= LongestSetup /\ StepBudget <= LongestSetup
<1> DEFINE S == {SetupBudget, StepBudget}
<1>1. S \in SUBSET Nat /\ S # {} /\ SetupBudget + StepBudget \in Nat /\ \A i \in S : i <= SetupBudget + StepBudget
  BY ScenarioAssumption
<1>2. SetupBudget \in S /\ StepBudget \in S
  OBVIOUS
<1>3. LongestSetup = Max(S)
  BY DEF LongestSetup
<1> HIDE DEF S
<1>4. Max(S) \in S /\ \A i \in S : i <= Max(S)
  BY <1>1, MaxIsGreatest
<1> QED BY <1>1, <1>2, <1>3, <1>4

(* A run whose script runs is not stuck. *)
LEMMA LiveIsNotStuck ==
    ASSUME Clocked, NEW j \in Scripts
    PROVE  ~Stuck(j.id)
<1>1. PICK i \in Ids, b \in Nat : i = j.id /\ b = Budget(j)
  BY BudgetIsNat DEF Clocked
<1>2. b <= LongestSetup
  BY <1>1, LongestIsLongest DEF Budget
<1>3. ses[i].age \in Nat /\ (ses[i].status = "provisioning" => ses[i].age <= b + ReapMargin)
  BY <1>1 DEF Clocked
<1> QED BY <1>1, <1>2, <1>3, LongestIsLongest, ScenarioAssumption DEF Stuck, StuckAfter

LEMMA InitClocked == Init => Clocked
<1> SUFFICES ASSUME Init PROVE Clocked
  OBVIOUS
<1>1. NoSession.age = 0
  BY DEF NoSession
<1> QED BY <1>1 DEF Init, Clocked, Scripts

LEMMA StepClocks ==
    ASSUME Inv, Win, Clocked, [Next]_vars
    PROVE  Clocked'
<1>1. CASE UNCHANGED vars
  BY <1>1, SameRows, ClockStaysBy DEF vars, Win, RowsSmooth, Scripts
<1>2. CASE RequestStep
  <2>1. PICK p \in Requests : \/ OtherRequest(p) \/ Begin(p) \/ RightAnswer(p) \/ Find(p) \/ Insert(p)
                              \/ \E i \in Ids : Answer(p, i)
    BY <1>2 DEF RequestStep, OtherRequest
  <2> QED BY <2>1, RequestClocks, BeginClocks, InsertClocks
<1> QED BY <1>1, <1>2, JobClocks, OthersClock, TickClocks DEF Next

(***************************************************************************)
(* The sweep of stuck runs spares every run whose script still runs,        *)
(* whatever the budgets of the two kinds of script and the margin: it waits *)
(* for the longer of the two, and the clock starts again with each script.  *)
(***************************************************************************)
THEOREM SweepSparesLiveSetups == ASSUME Orderly PROVE Spec => LiveSetupNotReaped
<1> DEFINE Spares == SweepStuck => \A j \in Scripts : ses'[j.id] = ses[j.id]
<1>1. Win /\ [Next]_vars => Win'
  BY StepMinds
<1>2. Inv /\ Win /\ Clocked /\ [Next]_vars => Clocked'
  BY StepClocks
<1>3. Clocked => Spares
  <2> SUFFICES ASSUME Clocked, SweepStuck, NEW j \in Scripts PROVE ses'[j.id] = ses[j.id]
    OBVIOUS
  <2>1. j.id \in Ids /\ ~Stuck(j.id)
    BY LiveIsNotStuck DEF Clocked
  <2> QED BY <2>1 DEF SweepStuck
<1>4. Spec => []Inv
  BY Invariant
<1> QED BY InitWin, InitClocked, <1>1, <1>2, <1>3, <1>4, PTL DEF Spec, LiveSetupNotReaped

-----------------------------------------------------------------------------
(***************************************************************************)
(* What the rows of the steps have to do with their run and with the        *)
(* request that answers: an answer is graded against the step and the rows  *)
(* as they are.                                                            *)
(***************************************************************************)
ProgressTyped ==
    /\ progress = [i \in Ids |-> progress[i]]
    /\ \A i \in Ids : /\ progress[i] = [k \in Steps |-> progress[i][k]]
                      /\ \A k \in Steps : DOMAIN progress[i][k] = {"status", "score"}

Current == Steps # {} => \A i \in Sessions : ses[i].step \in Steps

AnswersKnown ==
    \A p \in Requests : req[p].op = "answer" =>
       req[p].step = ses[req[p].id].step /\ req[p].mem = progress[req[p].id]

(* The least of a set of orders. *)
LEMMA MinIsLeast ==
    ASSUME NEW S \in SUBSET Nat, S # {}
    PROVE  Min(S) \in S /\ \A n \in S : Min(S) <= n
<1>1. PICK m \in S : \A n \in S : ~(<<n, m>> \in OpToRel(<, Nat))
  BY WFMin, NatLessThanWellFounded
<1>2. \A n \in S : <<n, m>> \notin {ss \in Nat \X Nat : ss[1] < ss[2]}
  BY <1>1, LessThanRelation
<1>3. \A n \in S : n \in Nat /\ m \in Nat
  OBVIOUS
<1>4. ASSUME NEW n \in S PROVE m <= n
  <2>1. n \in Nat /\ m \in Nat /\ <<n, m>> \notin {ss \in Nat \X Nat : ss[1] < ss[2]}
    BY <1>2, <1>3
  <2> QED BY <2>1
<1> QED BY <1>4 DEF Min

LEMMA StepsAreOrders == scenario \in Scenarios => Steps \in SUBSET Nat
BY ScenarioAssumption DEF Steps

(* The grade as a function of the scenario, which does not change. *)
WeightOf(c, pr, k) == IF c.kind[k] = "quiz" THEN pr[k].score ELSE IF pr[k].status = "completed" THEN 1 ELSE 0
GradeOf(c, pr) == MapThenSumSet(LAMBDA k : WeightOf(c, pr, k), DOMAIN c.kind)

LEMMA GradeIsGradeOf == \A pr : Grade(pr) = GradeOf(scenario, pr)
BY DEF Grade, Weight, Steps, GradeOf, WeightOf

LEMMA SameGrade == \A c, pr, e : pr = e => GradeOf(c, pr) = GradeOf(c, e)
BY Zenon

Graded == \A i \in InState({"completed"}) : ses[i].grade = GradeOf(scenario, progress[i])

Recorded ==
    /\ scenario \in Scenarios
    /\ ProgressTyped /\ Current /\ AnswersKnown
    /\ ProgressIsPrefix /\ Graded

(* A step that is smooth, brings no run back and writes no progress keeps the records. *)
LEMMA RecordsStay ==
    ASSUME Win, Recorded, Kept, RowsSteady, RowsSettled, progress' = progress, scenario' = scenario,
           \A q \in Requests :
              \/ req'[q] = req[q]
              \/ req'[q].op = "answer" => /\ req'[q].step = ses'[req'[q].id].step
                                          /\ req'[q].mem = progress[req'[q].id]
    PROVE  Recorded'
<1>1. Steps' = Steps /\ Sessions' = Sessions /\ \A i \in Sessions : i \in Ids
  BY DEF Steps, Sessions, RowsSteady, Steady
<1>2. \A i \in Ids : /\ ses'[i].step = ses[i].step /\ ses'[i].grade = ses[i].grade
                     /\ ses'[i].status = "completed" <=> ses[i].status = "completed"
  BY DEF RowsSettled, Settled, Kept, Finished
<1>3. ProgressTyped'
  BY <1>1 DEF Recorded, ProgressTyped
<1>4. Current'
  BY <1>1, <1>2 DEF Recorded, Current
<1>5. AnswersKnown'
  <2> SUFFICES ASSUME NEW q \in Requests, req'[q].op = "answer"
               PROVE  req'[q].step = ses'[req'[q].id].step /\ req'[q].mem = progress'[req'[q].id]
    BY DEF AnswersKnown
  <2>1. CASE req'[q] = req[q]
    <3>1. req[q].id \in Ids
      BY <2>1 DEF Win, HandsKnown, Fit
    <3>2. req[q].step = ses[req[q].id].step /\ req[q].mem = progress[req[q].id]
      BY <2>1 DEF Recorded, AnswersKnown
    <3> QED BY <1>2, <2>1, <3>1, <3>2
  <2> QED BY <2>1
<1>6. ProgressIsPrefix'
  BY <1>1, <1>2 DEF Recorded, ProgressIsPrefix
<1>7. Graded'
  BY <1>2 DEF Recorded, Graded, InState
<1> QED BY <1>3, <1>4, <1>5, <1>6, <1>7 DEF Recorded

-----------------------------------------------------------------------------
(* The rows after an answer was recorded. *)
LEMMA MirroredRows ==
    ASSUME NEW pr, NEW k, NEW score, pr = [n \in Steps |-> pr[n]],
           \A n \in Steps : DOMAIN pr[n] = {"status", "score"}
    PROVE  /\ Mirrored(pr, k, score) = [n \in Steps |-> Mirrored(pr, k, score)[n]]
           /\ \A n \in Steps : /\ DOMAIN Mirrored(pr, k, score)[n] = {"status", "score"}
                               /\ Mirrored(pr, k, score)[n].status = IF n = k THEN "completed" ELSE pr[n].status
<1> DEFINE row == [pr[k] EXCEPT !.status = "completed", !.score = score]
<1>1. Mirrored(pr, k, score) = [pr EXCEPT ![k] = row]
  BY DEF Mirrored
<1>2. k \in Steps => DOMAIN row = {"status", "score"} /\ row.status = "completed"
  OBVIOUS
<1> HIDE DEF row
<1> QED BY <1>1, <1>2

(* Nobody else answers a run that is being answered. *)
LEMMA OthersAnswerOthers ==
    ASSUME Inv, NEW p \in Requests, NEW i \in Ids, Holds(p, i), NEW q \in Requests, q # p
    PROVE  req[q].op = "answer" => req[q].id # i
BY DEF Inv, Holding, Holds

(***************************************************************************)
(* The transaction of a right answer: the step is completed, and the next   *)
(* one is active, or the run is completed with the grade of its rows.       *)
(***************************************************************************)
LEMMA RightAnswerRecords ==
    ASSUME Inv, Win, Recorded, NEW p \in Requests, RightAnswer(p)
    PROVE  Recorded'
<1> DEFINE i == req[p].id
           k == req[p].step
           e == req[p].mem
<1>1. /\ req[p].op = "answer" /\ i \in Ids
      /\ ses[i].status = "active" /\ k = ses[i].step /\ e = progress[i]
  BY DEF RightAnswer, At, Inv, Holding, Recorded, AnswersKnown
<1>2. PICK d, score : /\ d = Mirrored(e, k, score)
                      /\ IF Later(k) = {}
                         THEN /\ progress' = [progress EXCEPT ![i] = d]
                              /\ ses' = [Setting(i, "completed") EXCEPT ![i].grade = Grade(d)]
                              /\ Go(p, Idle)
                         ELSE /\ progress' = [progress EXCEPT ![i] = [n \in Steps |->
                                                IF n = Following(k) THEN [d[n] EXCEPT !.status = "active"] ELSE d[n]]]
                              /\ ses' = [ses EXCEPT ![i].step = Following(k), ![i].age = 0, ![i].told = FALSE]
                              /\ Go(p, [req[p] EXCEPT !.op = "transition", !.step = Following(k), !.mem = Idle.mem])
  <2> DEFINE done(pr, score) == [pr EXCEPT ![k].status = "completed", ![k].score = score]
  <2>1. PICK score \in IF scenario.kind[k] = "quiz" THEN {0, 1} ELSE {0} :
          IF Later(k) = {}
          THEN /\ progress' = [progress EXCEPT ![i] = done(@, score)]
               /\ ses' = [Setting(i, "completed") EXCEPT ![i].grade = Grade(Mirrored(e, k, score))]
               /\ Go(p, Idle)
          ELSE /\ progress' = [progress EXCEPT ![i] = [n \in Steps |->
                                  IF n = Following(k) THEN [done(@, score)[n] EXCEPT !.status = "active"]
                                  ELSE done(@, score)[n]]]
               /\ ses' = [ses EXCEPT ![i].step = Following(k), ![i].age = 0, ![i].told = FALSE]
               /\ Go(p, [req[p] EXCEPT !.op = "transition", !.step = Following(k), !.mem = Idle.mem])
    BY DEF RightAnswer
  <2>2. PICK d : d = Mirrored(e, k, score)
    OBVIOUS
  <2>3. d = done(progress[i], score)
    BY <1>1, <2>2 DEF Mirrored
  <2>4. IF Later(k) = {}
        THEN progress' = [progress EXCEPT ![i] = done(@, score)]
        ELSE progress' = [progress EXCEPT ![i] = [n \in Steps |->
                            IF n = Following(k) THEN [done(@, score)[n] EXCEPT !.status = "active"]
                            ELSE done(@, score)[n]]]
    BY <2>1
  <2> HIDE DEF done
  <2>5. IF Later(k) = {}
        THEN progress' = [progress EXCEPT ![i] = d]
        ELSE progress' = [progress EXCEPT ![i] = [n \in Steps |->
                            IF n = Following(k) THEN [d[n] EXCEPT !.status = "active"] ELSE d[n]]]
    BY <2>3, <2>4
  <2>6. IF Later(k) = {}
        THEN ses' = [Setting(i, "completed") EXCEPT ![i].grade = Grade(d)] /\ Go(p, Idle)
        ELSE /\ ses' = [ses EXCEPT ![i].step = Following(k), ![i].age = 0, ![i].told = FALSE]
             /\ Go(p, [req[p] EXCEPT !.op = "transition", !.step = Following(k), !.mem = Idle.mem])
    BY <2>1, <2>2
  <2> HIDE DEF i, k, e
  <2>7. IF Later(k) = {}
        THEN /\ progress' = [progress EXCEPT ![i] = d]
             /\ ses' = [Setting(i, "completed") EXCEPT ![i].grade = Grade(d)]
             /\ Go(p, Idle)
        ELSE /\ progress' = [progress EXCEPT ![i] = [n \in Steps |->
                               IF n = Following(k) THEN [d[n] EXCEPT !.status = "active"] ELSE d[n]]]
             /\ ses' = [ses EXCEPT ![i].step = Following(k), ![i].age = 0, ![i].told = FALSE]
             /\ Go(p, [req[p] EXCEPT !.op = "transition", !.step = Following(k), !.mem = Idle.mem])
    BY <2>5, <2>6
  <2> QED BY <2>2, <2>7
<1>a. i = req[p].id
  OBVIOUS
<1> HIDE DEF i, k, e
<1>3. scenario' = scenario /\ Steps' = Steps
  BY DEF RightAnswer, Steps
<1>4. RowsSteady
  BY RightAnswerSteady DEF Win
<1>5. Sessions' = Sessions /\ \A n \in Sessions : n \in Ids
  BY <1>4 DEF RowsSteady, Steady, Sessions
<1>6. /\ e = [n \in Steps |-> e[n]] /\ \A n \in Steps : DOMAIN e[n] = {"status", "score"}
      /\ i \in Sessions
      /\ Steps # {} => k \in Steps
      /\ \A n \in Steps : e[n].status = IF n < k THEN "completed" ELSE IF n = k THEN "active" ELSE "locked"
  BY <1>1 DEF Recorded, ProgressTyped, ProgressIsPrefix, Sessions, Current
<1>7. /\ d = [n \in Steps |-> d[n]]
      /\ \A n \in Steps : /\ DOMAIN d[n] = {"status", "score"}
                          /\ d[n].status = IF n = k THEN "completed" ELSE e[n].status
  BY <1>2, <1>6, MirroredRows
<1>8. Steps \in SUBSET Nat
  BY StepsAreOrders DEF Recorded
<1>9. \A q \in Requests : q # p => req'[q] = req[q]
  BY <1>2 DEF Go, Win, Typed
<1>10. ASSUME req'[p].op # "answer",
              NEW new, progress' = [progress EXCEPT ![i] = new], new = [n \in Steps |-> new[n]],
              \A n \in Steps : DOMAIN new[n] = {"status", "score"},
              \A n \in Ids : n # i => ses'[n] = ses[n],
              Steps # {} => ses'[i].step \in Steps,
              \A n \in Steps : new[n].status = IF ses'[i].status = "completed" \/ n < ses'[i].step THEN "completed"
                                               ELSE IF n = ses'[i].step THEN "active" ELSE "locked",
              ses'[i].status = "completed" => ses'[i].grade = GradeOf(scenario, new)
       PROVE  Recorded'
  <2>1. progress'[i] = new /\ \A n \in Ids : n # i => progress'[n] = progress[n]
    BY <1>1, <1>10 DEF Recorded, ProgressTyped
  <2>2. ProgressTyped'
    <3>1. progress' = [n \in Ids |-> progress'[n]]
      BY <1>10 DEF Recorded, ProgressTyped
    <3>2. ASSUME NEW n \in Ids
          PROVE  /\ progress'[n] = [h \in Steps |-> progress'[n][h]]
                 /\ \A h \in Steps : DOMAIN progress'[n][h] = {"status", "score"}
      <4>1. CASE n = i
        BY <1>10, <2>1, <4>1
      <4>2. CASE n # i
        BY <2>1, <4>2 DEF Recorded, ProgressTyped
      <4> QED BY <4>1, <4>2
    <3> QED BY <1>3, <3>1, <3>2 DEF ProgressTyped
  <2>3. Current'
    BY <1>3, <1>5, <1>10 DEF Recorded, Current
  <2>4. AnswersKnown'
    <3> SUFFICES ASSUME NEW q \in Requests, req'[q].op = "answer"
                 PROVE  req'[q].step = ses'[req'[q].id].step /\ req'[q].mem = progress'[req'[q].id]
      BY DEF AnswersKnown
    <3>1. q # p /\ req'[q] = req[q]
      BY <1>9, <1>10
    <3>2. req[q].id \in Ids /\ req[q].id # i
      BY <1>1, <1>a, <3>1, OthersAnswerOthers DEF Holds, Win, HandsKnown, Fit
    <3>3. req[q].step = ses[req[q].id].step /\ req[q].mem = progress[req[q].id]
      BY <3>1 DEF Recorded, AnswersKnown
    <3> QED BY <1>10, <2>1, <3>1, <3>2, <3>3
  <2>5. ProgressIsPrefix'
    BY <1>3, <1>5, <1>10, <2>1 DEF Recorded, ProgressIsPrefix
  <2>6. Graded'
    <3> SUFFICES ASSUME NEW n \in Ids, ses'[n].status = "completed"
                 PROVE  ses'[n].grade = GradeOf(scenario', progress'[n])
      BY DEF Graded, InState
    <3>1. CASE n = i
      BY <1>3, <1>10, <2>1, <3>1, SameGrade
    <3>2. CASE n # i
      <4>1. ses'[n] = ses[n] /\ progress'[n] = progress[n]
        BY <1>10, <2>1, <3>2
      <4>2. ses[n].grade = GradeOf(scenario, progress[n])
        BY <4>1 DEF Recorded, Graded, InState
      <4> QED BY <1>3, <4>1, <4>2
    <3> QED BY <3>1, <3>2
  <2> QED BY <1>3, <2>2, <2>3, <2>4, <2>5, <2>6 DEF Recorded
<1>11. CASE Later(k) = {}
  <2>1. /\ progress' = [progress EXCEPT ![i] = d]
        /\ ses' = [Setting(i, "completed") EXCEPT ![i].grade = Grade(d)]
        /\ Go(p, Idle)
    BY <1>2, <1>11
  <2> DEFINE w == Written(ses[i], "completed")
  <2>2. IsSession(w) /\ w.status = "completed" /\ w.step = k
    BY <1>1 DEF Written, Win, Typed, IsSession
  <2>3. Setting(i, "completed") = [ses EXCEPT ![i] = w]
    BY DEF Setting
  <2> HIDE DEF w
  <2>4. /\ ses'[i].status = "completed" /\ ses'[i].step = k /\ ses'[i].grade = Grade(d)
        /\ \A n \in Ids : n # i => ses'[n] = ses[n]
    BY <1>1, <2>1, <2>2, <2>3 DEF Win, Typed, IsSession
  <2>5. req'[p].op # "answer"
    BY <2>1, IdleIsRequest DEF Go, Win, Typed
  <2>6. \A n \in Steps : d[n].status = "completed"
    BY <1>6, <1>7, <1>8, <1>11 DEF Later
  <2>7. ses'[i].grade = GradeOf(scenario, d)
    BY <2>4, GradeIsGradeOf
  <2> QED BY <1>6, <1>7, <1>10, <2>1, <2>4, <2>5, <2>6, <2>7
<1>12. CASE Later(k) # {}
  <2>1. PICK f : f = Following(k)
    OBVIOUS
  <2>2. f \in Steps /\ f > k /\ \A n \in Steps : n > k => f <= n
    <3>1. Later(k) \in SUBSET Nat
      BY <1>8 DEF Later
    <3>2. f \in Later(k) /\ \A n \in Later(k) : f <= n
      BY <1>12, <2>1, <3>1, MinIsLeast DEF Following
    <3> QED BY <3>2 DEF Later
  <2>a. PICK new : new = [n \in Steps |-> IF n = f THEN [d[n] EXCEPT !.status = "active"] ELSE d[n]]
    OBVIOUS
  <2> DEFINE hand == [req[p] EXCEPT !.op = "transition", !.step = f, !.mem = Idle.mem]
  <2>3. /\ progress' = [progress EXCEPT ![i] = new]
        /\ ses' = [ses EXCEPT ![i].step = f, ![i].age = 0, ![i].told = FALSE]
        /\ Go(p, hand)
    BY <1>2, <1>12, <2>1, <2>a
  <2>4. hand.op = "transition"
    BY DEF Win, Typed, IsRequest
  <2>5. /\ new = [n \in Steps |-> new[n]]
        /\ \A n \in Steps : /\ DOMAIN new[n] = {"status", "score"}
                            /\ new[n].status = IF n = f THEN "active" ELSE d[n].status
    BY <1>7, <2>a
  <2> HIDE DEF hand
  <2>6. req'[p].op # "answer"
    BY <2>3, <2>4 DEF Go, Win, Typed
  <2>7. /\ ses'[i].status = "active" /\ ses'[i].step = f
        /\ \A n \in Ids : n # i => ses'[n] = ses[n]
    BY <1>1, <2>3 DEF Win, Typed, IsSession
  <2>8. k \in Nat /\ f \in Nat /\ \A n \in Steps : n \in Nat
    BY <1>6, <1>8, <2>2
  <2>9. ASSUME NEW n \in Steps
        PROVE  new[n].status = IF n < f THEN "completed" ELSE IF n = f THEN "active" ELSE "locked"
    <3>1. n \in Nat /\ (n > k => f <= n)
      BY <2>2, <2>8
    <3>2. new[n].status = IF n = f THEN "active" ELSE IF n = k THEN "completed"
                          ELSE IF n < k THEN "completed" ELSE "locked"
      BY <1>6, <1>7, <2>5
    <3>3. n < f <=> n < k \/ n = k
      BY <2>2, <2>8, <3>1
    <3> QED BY <2>2, <2>8, <3>2, <3>3
  <2>10. \A n \in Steps : new[n].status = IF ses'[i].status = "completed" \/ n < ses'[i].step THEN "completed"
                                           ELSE IF n = ses'[i].step THEN "active" ELSE "locked"
    BY <2>7, <2>9
  <2>11. (Steps # {} => ses'[i].step \in Steps) /\ ses'[i].status # "completed"
    BY <2>2, <2>7
  <2>12. new = [n \in Steps |-> new[n]] /\ \A n \in Steps : DOMAIN new[n] = {"status", "score"}
    BY <2>5
  <2>13. ses'[i].status = "completed" => ses'[i].grade = GradeOf(scenario, new)
    BY <2>11
  <2>14. progress' = [progress EXCEPT ![i] = new]
    BY <2>3
  <2>15. \A n \in Ids : n # i => ses'[n] = ses[n]
    BY <2>7
  <2> QED BY <1>10, <2>6, <2>10, <2>11, <2>12, <2>13, <2>14, <2>15
<1> QED BY <1>11, <1>12

(* A start that finds what is in its way writes nothing yet. *)
LEMMA FindRecords ==
    ASSUME Win, Recorded, Kept, NEW p \in Requests, Find(p)
    PROVE  Recorded'
<1>1. ses' = ses /\ progress' = progress /\ scenario' = scenario
  BY DEF Find
<1>2. RowsSteady /\ RowsSettled
  BY <1>1, SameRows DEF Win, RowsSmooth
<1>3. \A q \in Requests : req'[q] = req[q] \/ req'[q].op # "answer"
  BY IdleIsRequest DEF Find, Go, Win, Typed, IsRequest
<1> QED BY <1>1, <1>2, <1>3, RecordsStay

(* The new run is at its first step. *)
LEMMA InsertRecords ==
    ASSUME Inv, Win, Recorded, Kept, NEW p \in Requests, Insert(p)
    PROVE  Recorded'
<1> DEFINE gone == Ids \cap {req[p].id}
<1>1. scenario' = scenario /\ Steps' = Steps
  BY DEF Insert, Steps
<1>2. PICK n, m : n \in Ids /\ n = NextId /\ m = req[p].term
  BY DEF Insert
<1>3. \A i \in gone : ses[i].status \notin {"none", "completed"}
  BY DEF Insert, Inv, Reading, Aims, Blocking
<1>4. n \notin Sessions
  BY <1>2, NextIdIsFree DEF Win
<1> DEFINE row == [NoSession EXCEPT !.status = "active", !.term = m]
           hand == [req[p] EXCEPT !.op = "begin", !.id = n]
<1>5. row.status = "active" /\ row.step = First
  BY DEF NoSession
<1>6. hand.op = "begin"
  BY DEF Win, Typed, IsRequest
<1>7. ses' = [Abandoning(gone) EXCEPT ![n] = row] /\ Go(p, hand) /\ progress' = [progress EXCEPT ![n] = Fresh]
  BY <1>2 DEF Insert
<1> HIDE DEF row, hand, gone
<1>8. ASSUME NEW i \in Ids, i # n
      PROVE  /\ ses'[i].step = ses[i].step /\ ses'[i].grade = ses[i].grade
             /\ (ses'[i].status = "none" <=> ses[i].status = "none")
             /\ (ses'[i].status = "completed" <=> ses[i].status = "completed")
  <2>1. ses'[i] = IF i \in gone THEN Written(ses[i], "abandoned") ELSE ses[i]
    BY <1>7, <1>8 DEF Abandoning
  <2>2. /\ Written(ses[i], "abandoned").status = "abandoned"
        /\ Written(ses[i], "abandoned").step = ses[i].step
        /\ Written(ses[i], "abandoned").grade = ses[i].grade
    BY DEF Written, Win, Typed, IsSession
  <2> QED BY <1>3, <2>1, <2>2 DEF Blocking
<1>9. ses'[n] = row
  BY <1>2, <1>7 DEF Abandoning
<1>10. progress'[n] = Fresh /\ \A i \in Ids : i # n => progress'[i] = progress[i]
  BY <1>2, <1>7 DEF Recorded, ProgressTyped
<1>11. /\ Fresh = [k \in Steps |-> Fresh[k]]
       /\ \A k \in Steps : /\ DOMAIN Fresh[k] = {"status", "score"}
                           /\ Fresh[k].status = IF k = First THEN "active" ELSE "locked"
  BY DEF Fresh, Blank
<1>12. Steps \in SUBSET Nat
  BY StepsAreOrders DEF Recorded
<1>13. \A k \in Steps : First \in Steps /\ First <= k
  BY <1>12, MinIsLeast DEF First
<1>14. Sessions' = Sessions \cup {n} /\ \A i \in Sessions : i \in Ids /\ i # n
  BY <1>2, <1>4, <1>5, <1>8, <1>9 DEF Sessions
<1>15. ProgressTyped'
  BY <1>1, <1>7, <1>10, <1>11 DEF Recorded, ProgressTyped
<1>16. Current'
  <2> SUFFICES ASSUME Steps # {}, NEW i \in Sessions' PROVE ses'[i].step \in Steps
    BY <1>1 DEF Current
  <2>1. CASE i = n
    BY <1>5, <1>9, <1>13, <2>1
  <2>2. CASE i # n
    BY <1>8, <1>14, <2>2 DEF Recorded, Current
  <2> QED BY <2>1, <2>2
<1>17. AnswersKnown'
  <2> SUFFICES ASSUME NEW q \in Requests, req'[q].op = "answer"
               PROVE  req'[q].step = ses'[req'[q].id].step /\ req'[q].mem = progress'[req'[q].id]
    BY DEF AnswersKnown
  <2>1. req'[q] = req[q]
    BY <1>6, <1>7 DEF Go, Win, Typed
  <2>2. req[q].id \in Ids /\ req[q].id # n
    BY <1>14, <2>1 DEF Win, HandsKnown, Fit, Sessions
  <2>3. req[q].step = ses[req[q].id].step /\ req[q].mem = progress[req[q].id]
    BY <2>1 DEF Recorded, AnswersKnown
  <2> QED BY <1>8, <1>10, <2>1, <2>2, <2>3
<1>18. ProgressIsPrefix'
  <2> SUFFICES ASSUME NEW i \in Sessions', NEW k \in Steps
               PROVE  progress'[i][k].status =
                        IF ses'[i].status = "completed" \/ k < ses'[i].step THEN "completed"
                        ELSE IF k = ses'[i].step THEN "active" ELSE "locked"
    BY <1>1 DEF ProgressIsPrefix
  <2>1. CASE i = n
    <3>1. k \in Nat /\ First \in Nat /\ First <= k
      BY <1>12, <1>13
    <3> QED BY <1>5, <1>9, <1>10, <1>11, <2>1, <3>1
  <2>2. CASE i # n
    BY <1>8, <1>10, <1>14, <2>2 DEF Recorded, ProgressIsPrefix
  <2> QED BY <2>1, <2>2
<1>19. Graded'
  <2> SUFFICES ASSUME NEW i \in Ids, ses'[i].status = "completed"
               PROVE  ses'[i].grade = GradeOf(scenario', progress'[i])
    BY DEF Graded, InState
  <2>1. i # n
    BY <1>5, <1>9
  <2> QED BY <1>1, <1>8, <1>10, <2>1 DEF Recorded, Graded, InState
<1> QED BY <1>1, <1>15, <1>16, <1>17, <1>18, <1>19 DEF Recorded

(* An answer takes the step and the rows as they are. *)
LEMMA AnswerRecords ==
    ASSUME Win, Recorded, Kept, NEW p \in Requests, NEW i \in Ids, Answer(p, i)
    PROVE  Recorded'
<1>1. ses' = ses /\ progress' = progress /\ scenario' = scenario
  BY DEF Answer
<1>2. RowsSteady /\ RowsSettled
  BY <1>1, SameRows DEF Win, RowsSmooth
<1>3. \A q \in Requests : \/ req'[q] = req[q]
                          \/ /\ req'[q].id = i /\ req'[q].step = ses[i].step
                             /\ req'[q].mem = progress[i]
  BY DEF Answer, Go, Win, Typed
<1>4. \A q \in Requests :
         \/ req'[q] = req[q]
         \/ req'[q].op = "answer" => /\ req'[q].step = ses'[req'[q].id].step
                                     /\ req'[q].mem = progress[req'[q].id]
  BY <1>1, <1>3
<1> QED BY <1>1, <1>2, <1>4, RecordsStay

LEMMA StepRecords ==
    ASSUME Inv, Orderly, Win, Recorded, [Next]_vars
    PROVE  Recorded'
<1>1. Kept
  BY StepKeeps
<1>2. ASSUME HandsMild, RowsSteady, RowsSettled, progress' = progress, scenario' = scenario PROVE Recorded'
  <2>1. \A q \in Requests : req'[q] = req[q] \/ req'[q].op # "answer"
    BY <1>2 DEF HandsMild
  <2> QED BY <1>1, <1>2, <2>1, RecordsStay
<1>3. CASE UNCHANGED vars
  <2>1. HandsMild /\ RowsSmooth
    BY <1>3, SameRows, SameHandsAreMild DEF vars, Win
  <2> QED BY <1>2, <1>3, <2>1 DEF vars, RowsSmooth
<1>4. CASE JobStep
  <2>1. HandsMild /\ RowsSmooth
    BY <1>4, JobIsMild, JobSmooth DEF Win
  <2>2. progress' = progress /\ scenario' = scenario
    BY <1>4 DEF JobStep
  <2> QED BY <1>2, <2>1, <2>2 DEF RowsSmooth
<1>5. CASE SweepStep \/ MachineStep \/ Unassign \/ Tick \/ Crash \/ \E i \in Ids : Killed(i)
  <2>1. HandsMild /\ RowsSteady /\ RowsSettled
    BY <1>5, OthersAreMild, OthersSmooth, TickSettled DEF Win, RowsSmooth
  <2>2. progress' = progress /\ scenario' = scenario
    BY <1>5 DEF SweepStep, SweepZombies, SweepStuck, MachineStep, StopMachine, MachineLapses, ResumeMachine,
                Unassign, Tick, Crash, Killed
  <2> QED BY <1>2, <2>1, <2>2
<1>6. CASE RequestStep
  <2>1. PICK p \in Requests : \/ OtherRequest(p) \/ Begin(p) \/ RightAnswer(p) \/ Find(p) \/ Insert(p)
                              \/ \E i \in Ids : Answer(p, i)
    BY <1>6 DEF RequestStep, OtherRequest
  <2>2. CASE OtherRequest(p) \/ Begin(p)
    <3>1. HandsMild /\ RowsSmooth
      BY <2>2, OtherRequestIsMild, BeginIsMild, RequestSmooth DEF Win
    <3>2. progress' = progress /\ scenario' = scenario
      BY <2>2 DEF OtherRequest, Begin, Launch, BulkStart, StartOn, Count, RollBack, WrongAnswer, StepTransition,
                  Reprovisioned, DeletesTerminal, Reprovision, Abandon
    <3> QED BY <1>2, <3>1, <3>2 DEF RowsSmooth
  <2> QED BY <1>1, <2>1, <2>2, RightAnswerRecords, FindRecords, InsertRecords, AnswerRecords
<1> QED BY <1>3, <1>4, <1>5, <1>6 DEF Next

LEMMA InitRecorded == Init => Recorded
<1> SUFFICES ASSUME Init PROVE Recorded
  OBVIOUS
<1>1. Sessions = {} /\ InState({"completed"}) = {}
  BY DEF Init, Sessions, InState, NoSession
<1>2. ProgressTyped
  BY DEF Init, ProgressTyped, Blank
<1>3. AnswersKnown
  BY IdleIsRequest DEF Init, AnswersKnown
<1> QED BY <1>1, <1>2, <1>3 DEF Init, Recorded, Current, ProgressIsPrefix, Graded

LEMMA Records == ASSUME Orderly PROVE Spec => []Recorded
<1>1. Win /\ [Next]_vars => Win'
  BY StepMinds
<1>2. Inv /\ Win /\ Recorded /\ [Next]_vars => Recorded'
  BY StepRecords
<1> QED BY Invariant, InitWin, InitRecorded, <1>1, <1>2, PTL DEF Spec

(***************************************************************************)
(* The rows of the steps say where the run is: whatever the scenario and    *)
(* the orders of its steps, the requests under way, the sweeps and the      *)
(* crashes, the steps before the current one are completed and the later    *)
(* ones locked, on the assumption that nothing else writes a row that a     *)
(* request is starting or answering.                                       *)
(***************************************************************************)
THEOREM RowsSayWhereTheRunIs == ASSUME Orderly PROVE Spec => []ProgressIsPrefix
BY Records, PTL DEF Recorded

(***************************************************************************)
(* On the same assumption the grade of a completed run, computed from the   *)
(* rows loaded before the last answer with that answer mirrored onto them,  *)
(* is the grade of the rows that were stored.                               *)
(***************************************************************************)
THEOREM GradesAreOfTheRows == ASSUME Orderly PROVE Spec => []GradeIsTheRows
<1>1. Recorded => GradeIsTheRows
  BY GradeIsGradeOf DEF Recorded, Graded, GradeIsTheRows
<1> QED BY Records, <1>1, PTL

-----------------------------------------------------------------------------
(***************************************************************************)
(* What is being done with a run: one request at a time prepares or answers *)
(* it, at the step where it is; a script is run for a run in provisioning,  *)
(* at the step where it is, or for one that has ended in the meantime.      *)
(***************************************************************************)
Doing == {"begin", "answer", "transition", "retry"}

HandExact(r) ==
    /\ r.op = "begin" => r.id \in Ids /\ ses[r.id].status # "none" /\ ses[r.id].step = First
    /\ r.op \in {"answer", "transition", "retry"} =>
          /\ r.id \in Ids /\ ses[r.id].status # "none"
          /\ r.step = ses[r.id].step /\ r.term = ses[r.id].term

Exact ==
    /\ \A p \in Requests : HandExact(req[p])
    /\ \A p, q \in Requests : req[p].op \in Doing /\ req[q].op \in Doing /\ req[p].id = req[q].id => p = q

Waiting == {"provisioning"} \cup Finished
Aim(j) == IF j.op = "step" THEN j.step ELSE First

Attended ==
    /\ \A j \in Scripts : j.id \in Ids /\ ses[j.id].status \in Waiting /\ ses[j.id].step = Aim(j)
    /\ \A j, h \in Scripts : j.id = h.id => j = h

(***************************************************************************)
(* What is in the container: the flags of a scenario with crash traps from  *)
(* the start on, and what the current step needs once nobody prepares it.   *)
(***************************************************************************)
Deleted(i) == machine[ses[i].term].state = "deleted"
Trapped(i) == ses[i].cut \/ Beginning(i) \/ Deleted(i) \/ Flags \subseteq machine[ses[i].term].flags
TrapsSet == scenario.traps => \A i \in Sessions : Trapped(i)

Handled(i) == \E p \in Requests : req[p].op \in {"begin", "transition", "retry"} /\ req[p].id = i
Ready(i) ==
    /\ ses[i].step \in scenario.scripted => ses[i].step \in machine[ses[i].term].built
    /\ ses[i].step \in Flags /\ ses[i].step # First => ses[i].step \in machine[ses[i].term].flags
Served(i) == Deleted(i) \/ ses[i].told \/ ses[i].cut \/ Handled(i) \/ Ready(i)
Built == \A i \in InState({"active"}) : Served(i)

Play == Exact /\ Attended /\ TrapsSet /\ Built

(* What the scenario says does not change. *)
LEMMA SameScenario ==
    ASSUME scenario' = scenario
    PROVE  Steps' = Steps /\ First' = First /\ Flags' = Flags
BY DEF Steps, First, Flags

-----------------------------------------------------------------------------
(* Hands stay exact as long as the row keeps its step and its container. *)
Kin(i) ==
    /\ ses'[i].step = ses[i].step /\ ses'[i].term = ses[i].term
    /\ ses[i].status # "none" => ses'[i].status # "none"

LEMMA KinBySettled ==
    ASSUME RowsSteady, RowsSettled, NEW i \in Ids
    PROVE  Kin(i)
BY DEF RowsSteady, RowsSettled, Steady, Settled, Kin

LEMMA HandStays ==
    ASSUME NEW r, HandExact(r), scenario' = scenario, r.op \in Doing => Kin(r.id)
    PROVE  HandExact(r)'
BY SameScenario DEF HandExact, Doing, Kin

LEMMA ExactStays ==
    ASSUME Exact, scenario' = scenario,
           \A q \in Requests : /\ req'[q] = req[q] \/ req'[q].op \notin Doing
                               /\ req'[q].op \in Doing => Kin(req[q].id)
    PROVE  Exact'
<1>1. ASSUME NEW q \in Requests PROVE HandExact(req[q])'
  <2>1. PICK r : r = req'[q]
    OBVIOUS
  <2>2. CASE r.op \in Doing
    <3>1. r = req[q] /\ Kin(r.id)
      BY <2>1, <2>2
    <3>2. HandExact(r)
      BY <3>1 DEF Exact, HandExact
    <3>3. HandExact(r)'
      BY <3>1, <3>2, HandStays
    <3> QED BY <2>1, <3>3 DEF HandExact
  <2>3. CASE r.op \notin Doing
    BY <2>1, <2>3 DEF HandExact, Doing
  <2> QED BY <2>2, <2>3
<1>2. \A p, q \in Requests : (req[p].op \in Doing /\ req[q].op \in Doing /\ req[p].id = req[q].id)' => p = q
  BY DEF Exact, Doing
<1> QED BY <1>1, <1>2 DEF Exact

(* A request that takes up a run that nobody else does anything with. *)
LEMMA ExactGoes ==
    ASSUME NEW p \in Requests, NEW r, Win, Exact, scenario' = scenario, Go(p, r), HandExact(r)',
           \A q \in Requests : q # p /\ req[q].op \in Doing => req[q].id # r.id /\ Kin(req[q].id)
    PROVE  Exact'
<1>1. req' = [q \in Requests |-> IF q = p THEN r ELSE req[q]]
  BY DEF Go, Win, Typed
<1>2. ASSUME NEW q \in Requests PROVE HandExact(req[q])'
  <2>1. CASE q = p
    BY <1>1, <2>1 DEF HandExact
  <2>2. CASE q # p
    <3>1. PICK h : h = req[q] /\ HandExact(h)
      BY DEF Exact
    <3>2. h.op \in Doing => Kin(h.id)
      BY <2>2, <3>1
    <3>3. HandExact(h)'
      BY <3>1, <3>2, HandStays
    <3>4. req'[q] = h
      BY <1>1, <2>2, <3>1
    <3> QED BY <3>3, <3>4 DEF HandExact
  <2> QED BY <2>1, <2>2
<1>3. ASSUME NEW q \in Requests, NEW h \in Requests,
             req'[q].op \in Doing, req'[h].op \in Doing, req'[q].id = req'[h].id
      PROVE  q = h
  BY <1>1, <1>3 DEF Exact
<1> QED BY <1>2, <1>3 DEF Exact, Doing

-----------------------------------------------------------------------------
(* The scripts that go on are still awaited. *)
LEMMA AttendedStays ==
    ASSUME Attended, scenario' = scenario, Scripts' \subseteq Scripts,
           \A j \in Scripts' : ses'[j.id].status \in Waiting /\ Kin(j.id)
    PROVE  Attended'
<1>1. \A j : Aim(j)' = Aim(j)
  BY SameScenario DEF Aim
<1> QED BY <1>1 DEF Attended, Kin, Waiting, Finished

(* A new script is for a run that no script runs for. *)
LEMMA AttendedGrows ==
    ASSUME NEW i \in Ids, NEW op \in {"setup", "step"}, NEW k,
           Attended, scenario' = scenario, jobs' = jobs \cup {Job(i, op, k)},
           ses[i].status \notin Waiting, ses'[i].status \in Waiting,
           ses'[i].step = Aim(Job(i, op, k)),
           \A n \in Ids : n # i => ses'[n] = ses[n]
    PROVE  Attended'
<1>1. \A j : Aim(j)' = Aim(j)
  BY SameScenario DEF Aim
<1>2. PICK new : new = Job(i, op, k)
  OBVIOUS
<1>3. new.id = i /\ Scripts' = Scripts \cup {new}
  BY <1>2 DEF Job, Scripts
<1>4. \A j \in Scripts : j.id \in Ids /\ j.id # i
  BY DEF Attended
<1>5. ASSUME NEW j \in Scripts'
      PROVE  j.id \in Ids /\ ses'[j.id].status \in Waiting /\ ses'[j.id].step = Aim(j)
  <2>1. CASE j = new
    BY <1>2, <1>3, <2>1
  <2>2. CASE j \in Scripts
    BY <1>4, <2>2 DEF Attended
  <2> QED BY <1>3, <2>1, <2>2
<1>6. \A j, h \in Scripts' : j.id = h.id => j = h
  BY <1>3, <1>4 DEF Attended
<1> QED BY <1>1, <1>5, <1>6 DEF Attended, Waiting, Finished

-----------------------------------------------------------------------------
(* What was put into a container stays there, or the container is gone. *)
LEMMA ReadyStays ==
    ASSUME NEW i \in Sessions, Win, MachinesAge, scenario' = scenario, Kin(i)
    PROVE  /\ Deleted(i) => Deleted(i)'
           /\ Ready(i) => Ready(i)' \/ Deleted(i)'
           /\ Flags \subseteq machine[ses[i].term].flags =>
                 Deleted(i)' \/ (Flags \subseteq machine[ses[i].term].flags)'
<1>1. PICK m \in Machines : m = ses[i].term /\ machine[m].state # "none" /\ ses'[i].term = m
  BY DEF Win, Windows, Kin
<1>2. Lasting(machine[m], machine'[m])
  BY <1>1 DEF MachinesAge, Aging
<1>3. First' = First /\ Flags' = Flags /\ ses'[i].step = ses[i].step
  BY SameScenario DEF Kin
<1> QED BY <1>1, <1>2, <1>3 DEF Lasting, Deleted, Ready

LEMMA TrapsStay ==
    ASSUME Win, TrapsSet, MachinesAge, RowsSteady, RowsSettled, scenario' = scenario,
           \A i \in Sessions : Beginning(i) => Beginning(i)' \/ (scenario.traps => Trapped(i)')
    PROVE  TrapsSet'
<1>1. Sessions' = Sessions /\ \A i \in Sessions : i \in Ids
  BY DEF RowsSteady, Steady, Sessions
<1>2. ASSUME scenario.traps, NEW i \in Sessions PROVE Trapped(i)'
  <2>1. Kin(i) /\ (ses[i].cut => ses'[i].cut)
    BY <1>1, KinBySettled DEF RowsSteady, Steady
  <2>2. Trapped(i)
    BY <1>2 DEF TrapsSet
  <2>3. CASE Beginning(i)
    BY <1>2, <2>3 DEF Trapped
  <2> QED BY <2>1, <2>2, <2>3, ReadyStays DEF Trapped
<1> QED BY <1>1, <1>2 DEF TrapsSet

LEMMA BuiltStays ==
    ASSUME Win, Built, MachinesAge, RowsSteady, RowsSettled, scenario' = scenario,
           \A i \in Sessions : ses'[i].status = "active" =>
              Served(i)' \/ (ses[i].status = "active" /\ (Handled(i) => Handled(i)'))
    PROVE  Built'
<1>1. \A i \in InState({"active"})' : i \in Ids /\ i \in Sessions /\ ses'[i].status = "active"
  BY DEF InState, Sessions, RowsSteady, Steady
<1>2. ASSUME NEW i \in InState({"active"})' PROVE Served(i)'
  <2>1. Kin(i) /\ (ses[i].cut => ses'[i].cut) /\ (ses[i].told => ses'[i].told)
    BY <1>1, KinBySettled DEF RowsSteady, Steady, RowsSettled, Settled, Finished
  <2>2. CASE ses[i].status = "active" /\ (Handled(i) => Handled(i)')
    <3>1. Served(i)
      BY <1>1, <2>2 DEF Built, InState
    <3>2. /\ Deleted(i) => Deleted(i)'
          /\ Ready(i) => Ready(i)' \/ Deleted(i)'
      BY <1>1, <2>1, ReadyStays
    <3> QED BY <2>1, <2>2, <3>1, <3>2 DEF Served
  <2> QED BY <1>1, <2>2
<1> QED BY <1>2 DEF Built

(***************************************************************************)
(* A step that takes up no run, lets go of none that is being prepared,     *)
(* starts no script, disturbs no run a script runs for and makes none       *)
(* active.                                                                 *)
(***************************************************************************)
RowsCalm ==
    \A i \in Ids : /\ ses'[i].status = "active" => ses[i].status = "active"
                   /\ ses[i].status \in Waiting => ses'[i].status \in Waiting

LEMMA QuietStep ==
    ASSUME Win, Play, MachinesAge, RowsSteady, RowsSettled, scenario' = scenario,
           Scripts' \subseteq Scripts,
           \A q \in Requests : \/ req'[q] = req[q]
                               \/ req'[q].op \notin Doing /\ req[q].op \notin {"begin", "transition", "retry"},
           \A j \in Scripts' : ses'[j.id].status \in Waiting,
           \A i \in Ids : ses'[i].status = "active" => ses[i].status = "active"
    PROVE  Play'
<1>1. \A i \in Ids : Kin(i)
  BY KinBySettled
<1>2. Exact'
  <2>1. \A q \in Requests : /\ req'[q] = req[q] \/ req'[q].op \notin Doing
                            /\ req'[q].op \in Doing => Kin(req[q].id)
    BY <1>1 DEF Play, Exact, HandExact, Doing
  <2> QED BY <2>1, ExactStays DEF Play
<1>3. Attended'
  BY <1>1, AttendedStays DEF Play, Attended
<1>4. \A i : (Beginning(i) => Beginning(i)') /\ (Handled(i) => Handled(i)')
  BY DEF Beginning, At, Handled
<1>5. TrapsSet'
  BY <1>4, TrapsStay DEF Play
<1>6. Built'
  BY <1>4, BuiltStays DEF Play, Sessions
<1> QED BY <1>2, <1>3, <1>5, <1>6 DEF Play

-----------------------------------------------------------------------------
(* The writes that make no run active and take none out of a script's hands but by ending it. *)
LEMMA CalmColumns ==
    ASSUME \A i \in Ids : ses'[i].status = ses[i].status
    PROVE  RowsCalm
BY DEF RowsCalm

LEMMA CalmSetting ==
    ASSUME NEW i, NEW st \in {"provisioning", "abandoned"}, Typed, ses' = Setting(i, st)
    PROVE  RowsCalm
<1>1. \A k \in Ids : ses'[k] = ses[k] \/ ses'[k].status = st
  BY SettingRows
<1> QED BY <1>1 DEF RowsCalm, Waiting, Finished

LEMMA CalmAbandoning ==
    ASSUME NEW S, Typed, ses' = Abandoning(S)
    PROVE  RowsCalm
<1>1. \A k \in Ids : ses'[k] = ses[k] \/ ses'[k].status = "abandoned"
  BY AbandoningRows
<1> QED BY <1>1 DEF RowsCalm, Waiting, Finished

(* A calm step that takes up and lets go of nothing is quiet. *)
LEMMA CalmStep ==
    ASSUME Win, Play, MachinesAge, RowsSteady, RowsSettled, RowsCalm, scenario' = scenario,
           Scripts' \subseteq Scripts,
           \A q \in Requests : \/ req'[q] = req[q]
                               \/ req'[q].op \notin Doing /\ req[q].op \notin {"begin", "transition", "retry"}
    PROVE  Play'
<1>1. \A j \in Scripts' : ses'[j.id].status \in Waiting
  BY DEF RowsCalm, Play, Attended
<1> QED BY <1>1, QuietStep DEF RowsCalm

LEMMA OthersQuiet ==
    ASSUME Win, Clocked, Play,
           SweepStep \/ MachineStep \/ Unassign \/ Tick \/ \E i \in Ids : Killed(i)
    PROVE  Play'
<1>1. MachinesAge /\ RowsSteady /\ RowsSettled
  BY OthersAge, OthersSmooth, TickSettled DEF Win, RowsSmooth
<1>2. scenario' = scenario /\ req' = req
  BY DEF SweepStep, SweepZombies, SweepStuck, MachineStep, StopMachine, MachineLapses, ResumeMachine,
         Unassign, Tick, Killed
<1>3. jobs' = jobs \/ \E i, k : jobs' = jobs \cup {Job(i, "trap", k)}
  BY DEF SweepStep, SweepZombies, SweepStuck, MachineStep, StopMachine, MachineLapses, ResumeMachine,
         Unassign, Tick, Killed
<1>4. Scripts' \subseteq Scripts
  BY <1>3 DEF Scripts, Job
<1>5. CASE RowsCalm
  BY <1>1, <1>2, <1>4, <1>5, CalmStep
<1>6. CASE SweepStuck
  <2>1. ses' = [i \in Ids |-> IF Stuck(i) THEN [ses[i] EXCEPT !.status = "setup_failed", !.age = 0] ELSE ses[i]]
    BY <1>6 DEF SweepStuck
  <2>2. \A i \in Ids : [ses[i] EXCEPT !.status = "setup_failed", !.age = 0].status = "setup_failed"
    BY DEF Win, Typed, IsSession
  <2>3. \A i \in Ids : ses'[i].status = "active" => ses[i].status = "active"
    BY <2>1, <2>2
  <2>4. \A j \in Scripts' : ses'[j.id].status \in Waiting
    BY <1>4, <2>1, LiveIsNotStuck DEF Play, Attended
  <2> QED BY <1>1, <1>2, <1>4, <2>3, <2>4, QuietStep
<1>7. CASE MachineStep
  <2>1. ses' = ses => RowsCalm
    BY CalmColumns
  <2>2. ASSUME NEW m \in Machines, StopMachine(m) PROVE RowsCalm
    BY <2>2, CalmAbandoning DEF StopMachine, Unbound, Win
  <2> QED BY <1>5, <1>7, <2>1, <2>2 DEF MachineStep, MachineLapses, ResumeMachine
<1>8. CASE SweepZombies \/ Unassign
  BY <1>5, <1>8, CalmAbandoning DEF SweepZombies, Unassign, Win
<1>9. CASE Tick
  <2>1. ses' = [i \in Ids |-> IF ses[i].status = "provisioning" /\ ses[i].age <= StuckAfter
                              THEN [ses[i] EXCEPT !.age = ses[i].age + 1] ELSE ses[i]]
    BY <1>9 DEF Tick
  <2>2. \A i \in Ids : ses'[i].status = ses[i].status
    BY <2>1 DEF Win, Typed, IsSession
  <2> QED BY <1>5, <2>2, CalmColumns
<1>10. ASSUME NEW i \in Ids, Killed(i) PROVE RowsCalm
  BY <1>10, CalmSetting DEF Killed, Win
<1> QED BY <1>5, <1>6, <1>7, <1>8, <1>9, <1>10 DEF SweepStep

(* A crash takes the scripts and the requests, and leaves a note of both. *)
LEMMA CrashPlays ==
    ASSUME Win, Play, Crash
    PROVE  Play'
<1>1. MachinesAge /\ RowsSteady /\ RowsSettled
  BY OthersAge, OthersSmooth DEF Win, RowsSmooth
<1>2. scenario' = scenario /\ jobs' = {} /\ req' = [p \in Requests |-> Idle]
  BY DEF Crash
<1> DEFINE toldThen(k) == ses[k].told \/ \E p \in Requests : req[p].op # "idle" /\ req[p].id = k
           cutThen(k) == \/ ses[k].cut
                         \/ \E p \in Requests : At(p, "begin") /\ req[p].id = k
                         \/ \E j \in jobs : j.id = k /\ j.op \in {"setup", "first", "stop", "close"}
<1>3. ses' = [k \in Ids |-> [ses[k] EXCEPT !.told = toldThen(k), !.cut = cutThen(k)]]
  BY DEF Crash
<1>4. \A k \in Ids : (Beginning(k) => cutThen(k)) /\ (Handled(k) => toldThen(k))
  BY DEF Beginning, Handled
<1> HIDE DEF toldThen, cutThen
<1>5. \A k \in Ids : /\ ses'[k].status = ses[k].status
                     /\ ses'[k].told = toldThen(k) /\ ses'[k].cut = cutThen(k)
  BY <1>3 DEF Win, Typed, IsSession
<1>6. \A q \in Requests : req'[q].op \notin Doing
  BY <1>2, IdleIsRequest DEF Doing
<1>7. Exact'
  BY <1>2, <1>6, ExactStays DEF Play
<1>8. Attended'
  BY <1>2 DEF Attended, Scripts
<1>9. TrapsSet'
  BY <1>1, <1>2, <1>4, <1>5, TrapsStay DEF Play, Trapped, Sessions
<1>10. Built'
  BY <1>1, <1>2, <1>4, <1>5, BuiltStays DEF Play, Served, Sessions
<1> QED BY <1>7, <1>8, <1>9, <1>10 DEF Play

-----------------------------------------------------------------------------
(* The requests that neither take up nor prepare a run. *)
LEMMA RequestQuiet ==
    ASSUME Win, Play, NEW p \in Requests,
           \/ Launch(p) \/ BulkStart(p) \/ Count(p) \/ Find(p) \/ RollBack(p)
           \/ WrongAnswer(p) \/ DeletesTerminal(p)
           \/ \E m \in Machines : StartOn(p, m)
           \/ \E i \in Ids : Abandon(p, i)
    PROVE  Play'
<1>1. MachinesAge /\ RowsSteady /\ RowsSettled
  BY RequestAges, RequestSmooth DEF Win, RowsSmooth, OtherRequest
<1>2. scenario' = scenario /\ jobs' = jobs
  BY DEF Launch, BulkStart, Count, Find, RollBack, WrongAnswer, DeletesTerminal, StartOn, Abandon
<1>3. \A q \in Requests : \/ req'[q] = req[q]
                          \/ req'[q].op \notin Doing /\ req[q].op \notin {"begin", "transition", "retry"}
  <2> DEFINE begun(m) == [Idle EXCEPT !.op = "start", !.term = m]
             delete(i, m) == [Idle EXCEPT !.op = "delete", !.id = i, !.term = m]
             counted == [req[p] EXCEPT !.op = "count"]
             found(i) == [req[p] EXCEPT !.op = "found", !.id = i]
  <2>1. /\ (\A m : begun(m).op = "start") /\ (\A i, m : delete(i, m).op = "delete") /\ Idle.op = "idle"
        /\ counted.op = "count" /\ \A i : found(i).op = "found"
    BY IdleIsRequest DEF IsRequest, Win, Typed
  <2>2. /\ req[p].op \in {"idle", "start", "count", "found", "answer", "delete"}
        /\ \/ Go(p, Idle) \/ Go(p, counted)
           \/ \E m : Go(p, begun(m))
           \/ \E i : Go(p, found(i))
           \/ \E i, m : Go(p, delete(i, m))
    BY DEF Launch, BulkStart, Count, Find, RollBack, WrongAnswer, DeletesTerminal, StartOn, Abandon, At
  <2> HIDE DEF begun, delete, counted, found
  <2>3. PICK r : Go(p, r) /\ r.op \in {"idle", "start", "count", "found", "delete"}
    BY <2>1, <2>2
  <2> QED BY <2>2, <2>3 DEF Go, Win, Typed, Doing
<1>4. RowsCalm
  <2>1. ses' = ses => RowsCalm
    BY CalmColumns
  <2>2. CASE BulkStart(p)
    <3>1. ses' = ses \/ \E i : ses' = Setting(i, "abandoned")
      BY <2>2 DEF BulkStart
    <3> QED BY <2>1, <3>1, CalmSetting DEF Win
  <2>3. CASE DeletesTerminal(p)
    <3>1. \E S : ses' = Abandoning(S)
      BY <2>3 DEF DeletesTerminal, Unbound
    <3> QED BY <3>1, CalmAbandoning DEF Win
  <2>4. ASSUME NEW i \in Ids, Abandon(p, i) PROVE RowsCalm
    BY <2>4, CalmSetting DEF Abandon, Win
  <2> QED BY <2>1, <2>2, <2>3, <2>4 DEF Launch, Count, Find, RollBack, WrongAnswer, StartOn
<1>5. Scripts' = Scripts
  BY <1>2 DEF Scripts
<1> QED BY <1>1, <1>2, <1>3, <1>4, <1>5, CalmStep

-----------------------------------------------------------------------------
(* The guarded transition of one row leaves the others alone. *)
LEMMA TransitionRows ==
    ASSUME NEW i, NEW from, NEW to, Typed, Transition(i, from, to)
    PROVE  /\ \A n \in Ids : n # i => ses'[n] = ses[n]
           /\ ses' = ses \/ (ses[i].status \in from /\ (i \in Ids => ses'[i].status = to))
<1>1. CASE ses' = ses
  BY <1>1
<1>2. CASE ses[i].status \in from /\ ses' = Setting(i, to)
  <2> DEFINE new == Written(ses[i], to)
  <2>1. i \in Ids => new.status = to
    BY WrittenStatus DEF Typed
  <2>2. ses' = [ses EXCEPT ![i] = new]
    BY <1>2 DEF Setting
  <2> HIDE DEF new
  <2> QED BY <1>2, <2>1, <2>2 DEF Typed
<1> QED BY <1>1, <1>2 DEF Transition

(* What a script that succeeds leaves in the container. *)
LEMMA PreparedHas ==
    ASSUME NEW ms, NEW m \in Machines, NEW k, ms = [n \in Machines |-> ms[n]],
           \A n \in Machines : IsMachine(ms[n]), k \in scenario.scripted
    PROVE  k \in Prepared(ms, m, k)[m].built
<1> DEFINE new == [ms[m] EXCEPT !.built = @ \cup {k}]
<1>1. Prepared(ms, m, k) = [ms EXCEPT ![m] = new] /\ k \in new.built
  BY DEF Prepared, IsMachine
<1> HIDE DEF new
<1> QED BY <1>1

LEMMA PlacedHas ==
    ASSUME NEW ms, NEW m \in Machines, NEW k, ms = [n \in Machines |-> ms[n]],
           \A n \in Machines : IsMachine(ms[n]),
           ms[m].state = "running", k \in Flags, ~scenario.traps
    PROVE  k \in Placed(ms, m, k)[m].flags
<1> DEFINE new == [ms[m] EXCEPT !.flags = @ \cup {k}]
<1>1. Placed(ms, m, k) = [ms EXCEPT ![m] = new] /\ k \in new.flags
  BY DEF Placed, IsMachine
<1> HIDE DEF new
<1> QED BY <1>1

(* A step that was provisioned can be played: its script ran, and its flag  *)
(* was placed now, or with all the others when the run began.               *)
LEMMA ProvisionedServes ==
    ASSUME Win, Play, MachinesAge, RowsSteady, RowsSettled, scenario' = scenario,
           NEW i \in Sessions, NEW m, NEW k, m = ses[i].term, k = ses[i].step, Provisioned(m, k)
    PROVE  Served(i)'
<1>1. i \in Ids /\ m \in Machines /\ Kin(i) /\ (ses[i].cut => ses'[i].cut)
  BY KinBySettled DEF Sessions, Win, Windows, RowsSteady, Steady
<1>2. Running(m) /\ machine' = Placed(Prepared(machine, m, k), m, k)
  BY DEF Provisioned
<1>3. PICK ms : ms = Prepared(machine, m, k)
  OBVIOUS
<1>4. Furnished(machine, m, ms)
  BY <1>3, PreparedFurnishes DEF Win, MachinesTyped
<1>5. Furnished(ms, m, machine')
  BY <1>2, <1>3, <1>4, PlacedFurnishes DEF Furnished
<1>6. k \in scenario.scripted => k \in machine'[m].built
  <2>1. k \in scenario.scripted => k \in ms[m].built
    BY <1>1, <1>3, PreparedHas DEF Win, MachinesTyped
  <2> QED BY <1>1, <1>5, <2>1 DEF Furnished
<1>7. k \in Flags /\ k # First => k \in machine'[m].flags \/ ses[i].cut
  <2>1. CASE ~scenario.traps
    <3>1. ms[m].state = "running"
      BY <1>1, <1>2, <1>4 DEF Furnished, Running
    <3> QED BY <1>1, <1>2, <1>3, <1>4, <2>1, <3>1, PlacedHas DEF Furnished
  <2>2. CASE scenario.traps /\ k # First
    <3>1. Trapped(i)
      BY <2>2 DEF Play, TrapsSet
    <3>2. ~Beginning(i)
      BY <2>2 DEF Beginning, At, Play, Exact, HandExact
    <3>3. ~Deleted(i)
      BY <1>2 DEF Deleted, Running
    <3>4. machine[m].flags \cap Flags \subseteq machine'[m].flags
      BY <1>1, <1>4, <1>5 DEF Furnished
    <3> QED BY <3>1, <3>2, <3>3, <3>4 DEF Trapped
  <2> QED BY <2>1, <2>2
<1>8. ses'[i].step = k /\ ses'[i].term = m /\ First' = First /\ Flags' = Flags
  BY <1>1, SameScenario DEF Kin
<1> QED BY <1>1, <1>6, <1>7, <1>8 DEF Served, Ready

-----------------------------------------------------------------------------
(* A script that ends, or goes on as what closes the window. *)
LEMMA ScriptEnds ==
    ASSUME Win, NEW j \in jobs, Ends(j) \/ \E op \in {"stop", "close"} : Becomes(j, op)
    PROVE  Scripts' \subseteq Scripts \ {j}
<1>1. CASE Ends(j)
  BY <1>1 DEF Ends, Scripts
<1>2. ASSUME NEW op \in {"stop", "close"}, Becomes(j, op) PROVE Scripts' \subseteq Scripts \ {j}
  <2> DEFINE k == [j EXCEPT !.op = op]
  <2>1. k.op = op
    BY DEF Win, JobsTyped, IsJob
  <2>2. jobs' = (jobs \ {j}) \cup {k}
    BY <1>2 DEF Becomes
  <2> HIDE DEF k
  <2> QED BY <2>1, <2>2 DEF Scripts
<1> QED BY <1>1, <1>2

LEMMA JobPlays ==
    ASSUME Win, Play, JobStep
    PROVE  Play'
<1>1. MachinesAge /\ RowsSteady /\ RowsSettled
  BY JobAges, JobSmooth DEF Win, RowsSmooth
<1>2. scenario' = scenario /\ req' = req
  BY DEF JobStep
<1>3. PICK j \in jobs : SetupEnds(j) \/ FirstEnds(j) \/ StopsTerminal(j) \/ CloseWindow(j) \/ StepEnds(j)
  BY DEF JobStep
<1>4. CASE StopsTerminal(j) \/ CloseWindow(j)
  <2>1. Scripts' \subseteq Scripts
    BY <1>4, ScriptEnds DEF StopsTerminal, CloseWindow
  <2>2. ses' = ses \/ \E S : ses' = Abandoning(S)
    BY <1>4 DEF StopsTerminal, TriesStop, CloseWindow, Unbound
  <2>3. RowsCalm
    BY <2>2, CalmColumns, CalmAbandoning DEF Win
  <2> QED BY <1>1, <1>2, <2>1, <2>3, CalmStep
<1>5. CASE SetupEnds(j) \/ FirstEnds(j) \/ StepEnds(j)
  <2>1. PICK i : i = j.id
    OBVIOUS
  <2>2. j \in Scripts
    BY <1>5 DEF SetupEnds, FirstEnds, StepEnds, Scripts
  <2>3. i \in Ids /\ i \in Sessions /\ ses[i].step = Aim(j) /\ Kin(i)
    BY <1>1, <2>1, <2>2, KinBySettled DEF Play, Attended, Waiting, Finished, Sessions
  <2>4. \A h \in Scripts : h # j => h.id # i
    BY <2>1, <2>2 DEF Play, Attended
  <2>5. Exact'
    BY <1>1, <1>2, KinBySettled, ExactStays DEF Play, Exact, HandExact, Doing
  <2>6. \A n : (Beginning(n) => Beginning(n)') /\ (Handled(n) => Handled(n)')
    BY <1>2 DEF Beginning, At, Handled
  <2>7. TrapsSet'
    BY <1>1, <1>2, <2>6, TrapsStay DEF Play
  <2>8. PICK from, to : /\ from = {"provisioning"} /\ to \in {"provisioning", "active", "setup_failed"}
                        /\ Transition(i, from, to)
                        /\ to = "provisioning" => j.op = "setup" /\ Becomes(j, "first")
                        /\ to # "provisioning" => Ends(j) \/ \E op \in {"stop", "close"} : Becomes(j, op)
                        /\ to = "active" => \/ Provisioned(ses[i].term, j.step) /\ j.op = "step"
                                            \/ /\ j.op = "first" /\ Running(ses[i].term)
                                               /\ machine' \in {Prepared(machine, ses[i].term, First),
                                                                Placed(Prepared(machine, ses[i].term, First),
                                                                       ses[i].term, 0)}
    BY <1>5, <2>1 DEF SetupEnds, FirstEnds, StepEnds
  <2>9. /\ \A n \in Ids : n # i => ses'[n] = ses[n]
        /\ ses' = ses \/ (ses[i].status = "provisioning" /\ ses'[i].status = to)
    BY <2>3, <2>8, TransitionRows DEF Win
  <2>10. Attended'
    <3>1. CASE to # "provisioning"
      <4>1. Scripts' \subseteq Scripts /\ \A h \in Scripts' : h.id # i
        BY <2>4, <2>8, <3>1, ScriptEnds
      <4>2. \A h \in Scripts' : ses'[h.id].status \in Waiting /\ Kin(h.id)
        BY <1>1, <2>9, <4>1, KinBySettled DEF Play, Attended
      <4> QED BY <1>2, <4>1, <4>2, AttendedStays DEF Play
    <3>2. CASE to = "provisioning"
      <4> DEFINE k == [j EXCEPT !.op = "first"]
      <4>1. k.id = i /\ k.op = "first"
        BY <2>1 DEF Win, JobsTyped, IsJob
      <4>2. jobs' = (jobs \ {j}) \cup {k}
        BY <2>8, <3>2 DEF Becomes
      <4> HIDE DEF k
      <4>3. Scripts' = (Scripts \ {j}) \cup {k}
        BY <4>1, <4>2 DEF Scripts
      <4>4. \A h \in Scripts : h.id \in Ids /\ ses'[h.id].status \in Waiting /\ ses'[h.id].step = Aim(h)
        BY <1>1, <2>9, <3>2, KinBySettled DEF Play, Attended, Kin, Waiting
      <4>5. Aim(k) = Aim(j) /\ \A h : Aim(h)' = Aim(h)
        BY <1>2, <2>8, <3>2, <4>1, SameScenario DEF Aim
      <4>6. \A h \in Scripts' : h.id \in Ids /\ ses'[h.id].status \in Waiting /\ ses'[h.id].step = Aim(h)'
        BY <2>1, <2>2, <4>1, <4>3, <4>4, <4>5
      <4>7. \A h, g \in Scripts' : h.id = g.id => h = g
        BY <2>4, <4>1, <4>3 DEF Play, Attended
      <4> QED BY <4>6, <4>7 DEF Attended, Waiting, Finished
    <3> QED BY <3>1, <3>2
  <2>11. Built'
    <3>1. ASSUME to = "active" PROVE Served(i)'
      <4>1. CASE Provisioned(ses[i].term, j.step) /\ j.op = "step"
        BY <1>1, <1>2, <2>3, <4>1, ProvisionedServes DEF Aim
      <4>2. CASE /\ j.op = "first"
                 /\ machine' \in {Prepared(machine, ses[i].term, First),
                                  Placed(Prepared(machine, ses[i].term, First), ses[i].term, 0)}
        <5>1. PICK m \in Machines : m = ses[i].term
          BY <2>3 DEF Win, Windows
        <5>2. PICK ms : ms = Prepared(machine, m, First)
          OBVIOUS
        <5>3. Furnished(machine, m, ms)
          BY <5>2, PreparedFurnishes DEF Win, MachinesTyped
        <5>4. First \in scenario.scripted => First \in ms[m].built
          BY <5>1, <5>2, PreparedHas DEF Win, MachinesTyped
        <5>5. machine' = ms \/ machine' = Placed(ms, m, 0)
          BY <4>2, <5>1, <5>2
        <5>6. First \in scenario.scripted => First \in machine'[m].built
          BY <5>1, <5>3, <5>4, <5>5, PlacedFurnishes DEF Furnished
        <5>7. ses'[i].step = First /\ ses'[i].term = m /\ First' = First
          BY <1>2, <2>3, <4>2, <5>1, SameScenario DEF Kin, Aim
        <5> QED BY <1>2, <5>6, <5>7 DEF Served, Ready
      <4> QED BY <2>8, <3>1, <4>1, <4>2
    <3>2. \A n \in Sessions : ses'[n].status = "active" =>
             Served(n)' \/ (ses[n].status = "active" /\ (Handled(n) => Handled(n)'))
      BY <2>6, <2>8, <2>9, <3>1 DEF Sessions
    <3> QED BY <1>1, <1>2, <3>2, BuiltStays DEF Play
  <2> QED BY <2>5, <2>7, <2>10, <2>11 DEF Play
<1> QED BY <1>3, <1>4, <1>5

-----------------------------------------------------------------------------
(* A request that lets go of what it has. *)
LEMMA LetsGo ==
    ASSUME NEW p \in Requests, Win, Play, RowsSteady, RowsSettled, scenario' = scenario, Go(p, Idle)
    PROVE  /\ Exact'
           /\ \A i : Handled(i) => Handled(i)' \/ i = req[p].id
           /\ \A i : Beginning(i) => Beginning(i)' \/ (i = req[p].id /\ At(p, "begin"))
<1>1. req' = [q \in Requests |-> IF q = p THEN Idle ELSE req[q]] /\ Idle.op \notin Doing
  BY IdleIsRequest DEF Go, Win, Typed, Doing
<1>2. \A q \in Requests : req[q].op \in Doing => Kin(req[q].id)
  BY KinBySettled DEF Play, Exact, HandExact, Doing
<1>3. Exact'
  BY <1>1, <1>2, ExactStays DEF Play
<1> QED BY <1>1, <1>3 DEF Handled, Beginning, At

(* A run that is taken up or prepared is active, and no script runs for it. *)
LEMMA NoScript ==
    ASSUME Play, NEW i \in Ids, ses[i].status \notin Waiting
    PROVE  \A j \in Scripts : j.id # i
BY DEF Play, Attended

LEMMA NoMove ==
    ASSUME Win, Play, RowsSteady, RowsSettled, scenario' = scenario, Scripts' \subseteq Scripts, NEW i \in Ids,
           ses[i].status \notin Waiting, \A n \in Ids : n # i => ses'[n] = ses[n]
    PROVE  Attended'
<1>1. \A j \in Scripts' : ses'[j.id].status \in Waiting /\ Kin(j.id)
  BY NoScript, KinBySettled DEF Play, Attended
<1> QED BY <1>1, AttendedStays DEF Play

(* startAsyncStepProvisioning on the one run that blocks. *)
LEMMA StartsAsyncAttends ==
    ASSUME NEW i \in Ids, NEW from \in SUBSET Reprovisionable, Inv, Win, Play,
           scenario' = scenario, StartsAsync(i, ses[i].step, from)
    PROVE  /\ Attended'
           /\ \A n \in Ids : n # i => ses'[n] = ses[n]
           /\ ses' = ses \/ ses'[i].status = "provisioning"
           /\ ses[i].status \in from => ses'[i].status = "provisioning"
<1>1. RowsSteady /\ RowsSettled
  BY StartsAsyncSmooth DEF Win, RowsSmooth, Reprovisionable
<1>2. CASE ses[i].status \in from /\ Fits(i, "provisioning")
  <2>1. PICK k : k = ses[i].step
    OBVIOUS
  <2>2. ses' = Setting(i, "provisioning") /\ jobs' = jobs \cup {Job(i, "step", k)}
    BY <1>2, <2>1 DEF StartsAsync
  <2> DEFINE new == Written(ses[i], "provisioning")
  <2>3. new.status = "provisioning"
    BY WrittenStatus DEF Win, Typed
  <2>4. ses' = [ses EXCEPT ![i] = new]
    BY <2>2 DEF Setting
  <2> HIDE DEF new
  <2>5. ses'[i].status = "provisioning" /\ \A n \in Ids : n # i => ses'[n] = ses[n]
    BY <2>3, <2>4 DEF Win, Typed
  <2>6. ses'[i].step = Aim(Job(i, "step", k))
    BY <1>1, <2>1 DEF RowsSettled, Settled, Aim, Job
  <2>7. ses[i].status \notin Waiting /\ ses'[i].status \in Waiting
    BY <1>2, <2>5 DEF Waiting, Finished, Reprovisionable
  <2>8. Attended'
    BY <2>2, <2>5, <2>6, <2>7, AttendedGrows DEF Play
  <2> QED BY <2>5, <2>8
<1>3. CASE ~(ses[i].status \in from /\ Fits(i, "provisioning"))
  <2>1. ses' = ses /\ jobs' = jobs
    BY <1>3 DEF StartsAsync
  <2>2. ses[i].status \in from => Fits(i, "provisioning")
    BY DEF Inv, OneBlocks, InState, Blocking, Abandonable, Reprovisionable, Fits
  <2>3. \A j \in Scripts' : ses'[j.id].status \in Waiting /\ Kin(j.id)
    BY <1>1, <2>1, KinBySettled DEF Play, Attended, Scripts
  <2>4. Scripts' = Scripts
    BY <2>1 DEF Scripts
  <2>5. Attended'
    BY <2>3, <2>4, AttendedStays DEF Play
  <2> QED BY <1>3, <2>1, <2>2, <2>5
<1> QED BY <1>2, <1>3

-----------------------------------------------------------------------------
(* After a right answer: the step has nothing to prepare, is prepared, is   *)
(* left to a goroutine, or the learner is told that this failed.           *)
LEMMA TransitionPlays ==
    ASSUME Inv, Win, Play, NEW p \in Requests, StepTransition(p)
    PROVE  Play'
<1>1. MachinesAge /\ RowsSteady /\ RowsSettled
  BY RequestAges, RequestSmooth DEF Win, RowsSmooth, OtherRequest
<1>2. PICK i, m, k : i = req[p].id /\ m = req[p].term /\ k = req[p].step
  OBVIOUS
<1>3. i \in Ids /\ i \in Sessions /\ m = ses[i].term /\ k = ses[i].step
  BY <1>2 DEF StepTransition, At, Play, Exact, HandExact, Sessions
<1>4. scenario' = scenario /\ Go(p, Idle) /\ ~At(p, "begin")
  BY DEF StepTransition, At
<1>5. /\ Exact'
      /\ \A n : Handled(n) => Handled(n)' \/ n = i
      /\ \A n : Beginning(n) => Beginning(n)'
  BY <1>1, <1>2, <1>4, LetsGo
<1>6. TrapsSet'
  BY <1>1, <1>4, <1>5, TrapsStay DEF Play
<1>7. /\ Attended'
      /\ \A n \in Ids : n # i => ses'[n].status = ses[n].status
      /\ ses'[i].status = "active" => Served(i)'
  <2>1. CASE k \in scenario.slow
    <3>1. StartsAsync(i, ses[i].step, {"active"})
      BY <1>2, <1>3, <2>1 DEF StepTransition
    <3>2. {"active"} \in SUBSET Reprovisionable
      BY DEF Reprovisionable
    <3> QED BY <1>3, <1>4, <3>1, <3>2, StartsAsyncAttends
  <2>2. CASE k \notin scenario.slow
    <3>1. jobs' = jobs /\ Scripts' = Scripts
      BY <1>2, <2>2 DEF StepTransition, Scripts
    <3>2. \/ ses' = ses /\ (Provisioned(m, k) \/ k \notin scenario.scripted \cup Flags)
          \/ ses' = [ses EXCEPT ![i].told = TRUE]
      BY <1>2, <2>2 DEF StepTransition
    <3>3. \A n \in Ids : ses'[n].status = ses[n].status
      BY <3>2 DEF Win, Typed, IsSession
    <3>4. Attended'
      <4>1. \A j \in Scripts' : ses'[j.id].status \in Waiting /\ Kin(j.id)
        BY <1>1, <3>1, <3>3, KinBySettled DEF Play, Attended
      <4> QED BY <1>4, <3>1, <4>1, AttendedStays DEF Play
    <3>5. Served(i)'
      <4>1. CASE ses' = [ses EXCEPT ![i].told = TRUE]
        BY <1>3, <4>1 DEF Win, Typed, IsSession, Served
      <4>2. CASE ses' = ses /\ Provisioned(m, k)
        BY <1>1, <1>3, <1>4, <4>2, ProvisionedServes
      <4>3. CASE ses' = ses /\ k \notin scenario.scripted \cup Flags
        <5>1. ses'[i].step = k /\ Flags' = Flags
          BY <1>3, <1>4, <4>3, SameScenario
        <5> QED BY <1>4, <4>3, <5>1 DEF Served, Ready
      <4> QED BY <3>2, <4>1, <4>2, <4>3
    <3> QED BY <3>3, <3>4, <3>5
  <2> QED BY <2>1, <2>2
<1>8. Built'
  <2>1. \A n \in Sessions : ses'[n].status = "active" =>
           Served(n)' \/ (ses[n].status = "active" /\ (Handled(n) => Handled(n)'))
    BY <1>5, <1>7 DEF Sessions
  <2> QED BY <1>1, <1>4, <2>1, BuiltStays DEF Play
<1> QED BY <1>5, <1>6, <1>7, <1>8 DEF Play

(* The retry: at once to a goroutine, or into the hands of the request, *)
LEMMA ReprovisionPlays ==
    ASSUME Inv, Orderly, Win, Play, NEW p \in Requests, NEW i \in Ids, Reprovision(p, i)
    PROVE  Play'
<1>1. MachinesAge /\ RowsSteady /\ RowsSettled
  BY RequestAges, RequestSmooth DEF Win, RowsSmooth, OtherRequest
<1>2. scenario' = scenario /\ ses[i].status \in Reprovisionable /\ req[p].op = "idle"
  BY DEF Reprovision, At
<1>3. CASE ses[i].step \in scenario.slow
  <2>1. StartsAsync(i, ses[i].step, Reprovisionable) /\ req' = req
    BY <1>3 DEF Reprovision
  <2>2. /\ Attended'
        /\ \A n \in Ids : n # i => ses'[n] = ses[n]
        /\ ses' = ses \/ ses'[i].status = "provisioning"
    BY <1>2, <2>1, StartsAsyncAttends
  <2>3. \A n : (Beginning(n) => Beginning(n)') /\ (Handled(n) => Handled(n)')
    BY <2>1 DEF Beginning, At, Handled
  <2>4. Exact'
    BY <1>1, <1>2, <2>1, KinBySettled, ExactStays DEF Play, Exact, HandExact, Doing
  <2>5. TrapsSet'
    BY <1>1, <1>2, <2>3, TrapsStay DEF Play
  <2>6. Built'
    BY <1>1, <1>2, <2>2, <2>3, BuiltStays DEF Play, Sessions
  <2> QED BY <2>2, <2>4, <2>5, <2>6 DEF Play
<1>4. CASE ses[i].step \notin scenario.slow
  <2>1. PICK m, k : m = ses[i].term /\ k = ses[i].step
    OBVIOUS
  <2> DEFINE retry == [Idle EXCEPT !.op = "retry", !.id = i, !.term = m, !.step = k]
  <2>2. retry.op = "retry" /\ retry.id = i /\ retry.term = m /\ retry.step = k
    BY IdleIsRequest DEF IsRequest
  <2>3. Go(p, retry) /\ ses' = ses /\ jobs' = jobs
    BY <1>4, <2>1 DEF Reprovision
  <2>4. PICK r : r = retry
    OBVIOUS
  <2> HIDE DEF retry
  <2>5. HandExact(r)'
    BY <1>2, <2>1, <2>2, <2>3, <2>4 DEF HandExact, Reprovisionable
  <2>6. \A q \in Requests : req[q].op \in Doing => req[q].id # i /\ Kin(req[q].id)
    <3>1. \A q \in Requests : req[q].id = i => req[q].op = "delete"
      BY DEF Reprovision, Alone, At
    <3> QED BY <1>1, <3>1, KinBySettled DEF Play, Exact, HandExact, Doing
  <2>7. Exact'
    BY <1>2, <2>2, <2>3, <2>4, <2>5, <2>6, ExactGoes DEF Play
  <2>8. \A n : (Beginning(n) => Beginning(n)') /\ (Handled(n) => Handled(n)')
    BY <1>2, <2>3 DEF Go, Win, Typed, Beginning, At, Handled
  <2>9. Attended'
    BY <1>1, <1>2, <2>3, NoMove DEF Scripts, Waiting, Finished, Reprovisionable
  <2>10. TrapsSet'
    BY <1>1, <1>2, <2>8, TrapsStay DEF Play
  <2>11. Built'
    BY <1>1, <1>2, <2>3, <2>8, BuiltStays DEF Play, Sessions
  <2> QED BY <2>7, <2>9, <2>10, <2>11 DEF Play
<1> QED BY <1>3, <1>4

(* which records the outcome after it. *)
LEMMA ReprovisionedPlays ==
    ASSUME Inv, Win, Play, NEW p \in Requests, Reprovisioned(p)
    PROVE  Play'
<1>1. MachinesAge /\ RowsSteady /\ RowsSettled
  BY RequestAges, RequestSmooth DEF Win, RowsSmooth, OtherRequest
<1>2. PICK i, m, k : i = req[p].id /\ m = req[p].term /\ k = req[p].step
  OBVIOUS
<1>3. i \in Ids /\ i \in Sessions /\ m = ses[i].term /\ k = ses[i].step
  BY <1>2 DEF Reprovisioned, At, Play, Exact, HandExact, Sessions
<1>4. scenario' = scenario /\ Go(p, Idle) /\ ~At(p, "begin") /\ jobs' = jobs /\ Scripts' = Scripts
  BY DEF Reprovisioned, At, Scripts
<1>5. /\ Exact'
      /\ \A n : Handled(n) => Handled(n)' \/ n = i
      /\ \A n : Beginning(n) => Beginning(n)'
  BY <1>1, <1>2, <1>4, LetsGo
<1>6. TrapsSet'
  BY <1>1, <1>4, <1>5, TrapsStay DEF Play
<1>7. PICK to : /\ Transition(i, Reprovisionable, to)
                /\ (to = "active" /\ Provisioned(m, k)) \/ to = "setup_failed"
  BY <1>2 DEF Reprovisioned
<1>8. /\ \A n \in Ids : n # i => ses'[n] = ses[n]
      /\ ses' = ses \/ (ses[i].status \in Reprovisionable /\ ses'[i].status = to)
  BY <1>3, <1>7, TransitionRows DEF Win
<1>9. Attended'
  <2>1. CASE ses[i].status \in Reprovisionable
    BY <1>1, <1>3, <1>4, <1>8, <2>1, NoMove DEF Reprovisionable, Waiting, Finished
  <2>2. CASE ses' = ses
    <3>1. \A j \in Scripts' : ses'[j.id].status \in Waiting /\ Kin(j.id)
      BY <1>1, <1>4, <2>2, KinBySettled DEF Play, Attended
    <3> QED BY <1>4, <3>1, AttendedStays DEF Play
  <2> QED BY <1>8, <2>1, <2>2
<1>10. ses'[i].status = "active" => Served(i)'
  <2>1. CASE Provisioned(m, k)
    BY <1>1, <1>3, <1>4, <2>1, ProvisionedServes
  <2>2. CASE to = "setup_failed"
    <3>1. ses[i].status = "active" => ses'[i].status = "setup_failed"
      <4>1. ses[i].status = "active" => ses' = Setting(i, "setup_failed")
        BY <1>7, <2>2 DEF Transition, Reprovisionable, Fits, Abandonable
      <4> DEFINE new == Written(ses[i], "setup_failed")
      <4>2. new.status = "setup_failed"
        BY <1>3, WrittenStatus DEF Win, Typed
      <4>3. Setting(i, "setup_failed") = [ses EXCEPT ![i] = new]
        BY DEF Setting
      <4> HIDE DEF new
      <4> QED BY <1>3, <4>1, <4>2, <4>3 DEF Win, Typed
    <3> QED BY <1>8, <2>2, <3>1
  <2> QED BY <1>7, <2>1, <2>2
<1>11. Built'
  <2>1. \A n \in Sessions : ses'[n].status = "active" =>
           Served(n)' \/ (ses[n].status = "active" /\ (Handled(n) => Handled(n)'))
    BY <1>5, <1>8, <1>10 DEF Sessions
  <2> QED BY <1>1, <1>4, <2>1, BuiltStays DEF Play
<1> QED BY <1>5, <1>6, <1>9, <1>11 DEF Play

-----------------------------------------------------------------------------
(* An answer is taken up by one request at a time, *)
LEMMA AnswerPlays ==
    ASSUME Orderly, Win, Play, NEW p \in Requests, NEW i \in Ids, Answer(p, i)
    PROVE  Play'
<1>1. ses' = ses /\ jobs' = jobs /\ scenario' = scenario /\ machine' = machine /\ ses[i].status = "active"
  BY DEF Answer
<1>2. MachinesAge /\ RowsSteady /\ RowsSettled
  BY <1>1, SameRows, SameMachines DEF Win, RowsSmooth
<1>3. PICK r : Go(p, r) /\ r.op = "answer" /\ r.id = i /\ r.term = ses[i].term /\ r.step = ses[i].step
  <2> DEFINE new == [op |-> "answer", id |-> i, term |-> ses[i].term, step |-> ses[i].step, mem |-> progress[i]]
  <2>1. Go(p, new)
    BY DEF Answer
  <2> QED BY <2>1
<1>4. HandExact(r)'
  BY <1>1, <1>3 DEF HandExact
<1>5. \A q \in Requests : req[q].op \in Doing => req[q].id # i /\ Kin(req[q].id)
  <2>1. \A q \in Requests : req[q].id = i => req[q].op = "delete"
    BY DEF Answer, Alone, At
  <2> QED BY <1>2, <2>1, KinBySettled DEF Play, Exact, HandExact, Doing
<1>6. Exact'
  BY <1>1, <1>3, <1>4, <1>5, ExactGoes DEF Play
<1>7. \A n : (Beginning(n) => Beginning(n)') /\ (Handled(n) => Handled(n)')
  BY <1>3 DEF Answer, Go, Win, Typed, Beginning, At, Handled
<1>8. Attended'
  BY <1>1, <1>2, NoMove DEF Scripts, Waiting, Finished
<1>9. TrapsSet'
  BY <1>1, <1>2, <1>7, TrapsStay DEF Play
<1>10. Built'
  BY <1>1, <1>2, <1>7, BuiltStays DEF Play
<1> QED BY <1>6, <1>8, <1>9, <1>10 DEF Play

(* and a right one leaves the run completed, or at the next step and in the hands of the request. *)
LEMMA RightAnswerPlays ==
    ASSUME Inv, Win, Play, NEW p \in Requests, RightAnswer(p)
    PROVE  Play'
<1>1. PICK i, m : /\ i = req[p].id /\ i \in Ids /\ ses[i].status = "active"
                  /\ m = req[p].term /\ m = ses[i].term
  BY DEF RightAnswer, At, Inv, Holding, Play, Exact, HandExact
<1>2. req[p].op = "answer" /\ scenario' = scenario /\ machine' = machine /\ jobs' = jobs
  BY DEF RightAnswer, At
<1>3. RowsSteady
  BY RightAnswerSteady DEF Win
<1>4. \A q \in Requests : q # p /\ req[q].op \in Doing => req[q].id # i
  BY <1>1, <1>2 DEF Play, Exact, Doing
<1>5. PICK r, new : /\ Go(p, r) /\ ses' = [ses EXCEPT ![i] = new]
                    /\ \/ r.op = "idle" /\ new.status = "completed"
                       \/ r.op = "transition" /\ r.id = i /\ r.term = m /\ r.step = new.step
  <2>1. PICK k, n, e, score : /\ k = req[p].step /\ n = Following(k) /\ e = Idle.mem
                              /\ \/ /\ \E g : ses' = [Setting(i, "completed") EXCEPT ![i].grade = g]
                                    /\ Go(p, Idle)
                                 \/ /\ ses' = [ses EXCEPT ![i].step = n, ![i].age = 0, ![i].told = FALSE]
                                    /\ Go(p, [req[p] EXCEPT !.op = "transition", !.step = n, !.mem = e])
    BY <1>1 DEF RightAnswer
  <2>2. ASSUME NEW g, ses' = [Setting(i, "completed") EXCEPT ![i].grade = g]
        PROVE  \E new : ses' = [ses EXCEPT ![i] = new] /\ new.status = "completed"
    <3> DEFINE w == Written(ses[i], "completed")
               new == [w EXCEPT !.grade = g]
    <3>1. Setting(i, "completed") = [ses EXCEPT ![i] = w]
      BY DEF Setting
    <3>2. IsSession(w) /\ w.status = "completed"
      BY <1>1, WrittenStatus DEF Win, Typed
    <3> HIDE DEF w
    <3>4. new.status = "completed"
      BY <3>2 DEF IsSession
    <3>3. ses' = [ses EXCEPT ![i] = new]
      BY <1>1, <2>2, <3>1 DEF Win, Typed
    <3> QED BY <3>3, <3>4
  <2>3. CASE \E g : ses' = [Setting(i, "completed") EXCEPT ![i].grade = g] /\ Go(p, Idle)
    BY <2>2, <2>3, IdleIsRequest
  <2>4. CASE /\ ses' = [ses EXCEPT ![i].step = n, ![i].age = 0, ![i].told = FALSE]
             /\ Go(p, [req[p] EXCEPT !.op = "transition", !.step = n, !.mem = e])
    <3> DEFINE new == [ses[i] EXCEPT !.step = n, !.age = 0, !.told = FALSE]
               r == [req[p] EXCEPT !.op = "transition", !.step = n, !.mem = e]
    <3>1. ses' = [ses EXCEPT ![i] = new] /\ Go(p, r)
      BY <2>4 DEF Win, Typed
    <3>2. new.step = n /\ r.op = "transition" /\ r.id = i /\ r.term = m /\ r.step = n
      BY <1>1 DEF Win, Typed, IsSession, IsRequest
    <3> HIDE DEF new, r
    <3> QED BY <3>1, <3>2
  <2> QED BY <2>1, <2>3, <2>4
<1>6. ses'[i] = new /\ (\A n \in Ids : n # i => ses'[n] = ses[n])
  BY <1>1, <1>5 DEF Win, Typed
<1>7. req' = [q \in Requests |-> IF q = p THEN r ELSE req[q]]
  BY <1>5 DEF Go, Win, Typed
<1>8. \A n \in Ids : n # i => Kin(n)
  BY <1>6 DEF Kin
<1>9. Exact'
  <2>1. \A q \in Requests : q # p /\ req[q].op \in Doing => req[q].id # i /\ Kin(req[q].id)
    BY <1>4, <1>8 DEF Play, Exact, HandExact, Doing
  <2>2. CASE r.op = "idle"
    <3>1. \A q \in Requests : /\ req'[q] = req[q] \/ req'[q].op \notin Doing
                              /\ req'[q].op \in Doing => Kin(req[q].id)
      BY <1>7, <2>1, <2>2 DEF Doing
    <3> QED BY <1>2, <3>1, ExactStays DEF Play
  <2>3. CASE r.op = "transition" /\ r.id = i /\ r.term = m /\ r.step = new.step
    <3>1. HandExact(r)'
      BY <1>1, <1>3, <1>6, <2>3 DEF HandExact, RowsSteady, Steady
    <3> QED BY <1>2, <1>5, <2>1, <2>3, <3>1, ExactGoes DEF Play
  <2> QED BY <1>5, <2>2, <2>3
<1>10. Attended'
  <2>1. Scripts' = Scripts
    BY <1>2 DEF Scripts
  <2>2. \A j \in Scripts : j.id # i
    BY <1>1, NoScript DEF Waiting, Finished
  <2>3. \A j \in Scripts' : ses'[j.id].status \in Waiting /\ Kin(j.id)
    BY <1>6, <1>8, <2>1, <2>2 DEF Play, Attended
  <2> QED BY <1>2, <2>1, <2>3, AttendedStays DEF Play
<1>11. \A n : Beginning(n) => Beginning(n)'
  BY <1>2, <1>7 DEF Beginning, At
<1>12. TrapsSet'
  <2>1. Sessions' = Sessions /\ \A n \in Sessions : n \in Ids
    BY <1>3 DEF RowsSteady, Steady, Sessions
  <2>2. Flags' = Flags
    BY <1>2, SameScenario
  <2>3. \A n \in Sessions : ses'[n].term = ses[n].term /\ (ses[n].cut => ses'[n].cut)
    BY <1>3, <2>1 DEF RowsSteady, Steady
  <2> QED BY <1>2, <1>11, <2>1, <2>2, <2>3 DEF Play, TrapsSet, Trapped, Deleted
<1>13. Built'
  <2>1. ASSUME NEW n \in InState({"active"})' PROVE Served(n)'
    <3>1. CASE n = i
      <4>1. r.op = "transition" /\ r.id = i
        BY <1>5, <1>6, <2>1, <3>1 DEF InState
      <4> QED BY <1>7, <3>1, <4>1 DEF Served, Handled
    <3>2. CASE n # i
      <4>1. n \in Ids /\ ses'[n] = ses[n] /\ ses[n].status = "active"
        BY <1>6, <2>1, <3>2 DEF InState
      <4>2. Served(n)
        BY <4>1 DEF Play, Built, InState
      <4>3. Handled(n) => Handled(n)'
        BY <1>2, <1>7 DEF Handled
      <4>4. First' = First /\ Flags' = Flags
        BY <1>2, SameScenario
      <4> QED BY <1>2, <4>1, <4>2, <4>3, <4>4 DEF Served, Ready, Deleted
    <3> QED BY <3>1, <3>2
  <2> QED BY <2>1 DEF Built
<1> QED BY <1>9, <1>10, <1>12, <1>13 DEF Play

-----------------------------------------------------------------------------
(* The end of the start: the run is cut off, is left to a goroutine that    *)
(* runs the first scripts, or has none and is ready.                       *)
LEMMA BeginPlays ==
    ASSUME Inv, Win, Play, NEW p \in Requests, Begin(p)
    PROVE  Play'
<1>1. MachinesAge /\ RowsSteady /\ RowsSettled
  BY BeginAges, RequestSmooth DEF Win, RowsSmooth
<1>2. PICK i, m, k : /\ i = req[p].id /\ i \in Ids /\ i \in Sessions /\ ses[i].status = "active"
                     /\ m = req[p].term /\ m = ses[i].term /\ m \in Machines
                     /\ k = First /\ ses[i].step = k
  BY DEF Begin, At, Inv, Holding, Play, Exact, HandExact, Win, HandsKnown, Fit, Sessions
<1>3. scenario' = scenario /\ Go(p, Idle)
  BY DEF Begin
<1>4. /\ Exact'
      /\ \A n : Handled(n) => Handled(n)' \/ n = i
      /\ \A n : Beginning(n) => Beginning(n)' \/ n = i
  BY <1>1, <1>2, <1>3, LetsGo
<1>5. PICK c : c = Configured(m)
  OBVIOUS
<1>6. /\ c = [n \in Machines |-> c[n]] /\ \A n \in Machines : IsMachine(c[n])
      /\ scenario.traps => c[m].flags = Flags
  BY <1>2, <1>5 DEF Configured, Win, MachinesTyped, IsMachine
<1>7. First' = First /\ Flags' = Flags /\ ses'[i].term = m /\ ses'[i].step = k
  BY <1>1, <1>2, <1>3, SameScenario, KinBySettled DEF Kin
<1>8. \/ ses' = [ses EXCEPT ![i].cut = TRUE] /\ jobs' = jobs
      \/ /\ k \in scenario.scripted /\ machine' = c
         /\ ses' = IF Fits(i, "provisioning") THEN Setting(i, "provisioning") ELSE ses
         /\ jobs' = jobs \cup {Job(i, "setup", k)}
      \/ /\ k \notin scenario.scripted /\ Finishing(Placed(c, m, 0), m)
         /\ ses' = ses /\ jobs' = jobs
  BY <1>2, <1>5 DEF Begin
<1>9. /\ Attended'
      /\ \A n \in Ids : n # i => ses'[n] = ses[n]
      /\ ses'[i].status = "active" => Served(i)'
      /\ scenario.traps => Trapped(i)'
  <2>1. CASE ses' = [ses EXCEPT ![i].cut = TRUE] /\ jobs' = jobs
    <3>1. ses'[i].cut /\ (\A n \in Ids : n # i => ses'[n] = ses[n])
      BY <1>2, <2>1 DEF Win, Typed, IsSession
    <3>2. Attended'
      BY <1>1, <1>2, <1>3, <2>1, <3>1, NoMove DEF Scripts, Waiting, Finished
    <3> QED BY <3>1, <3>2 DEF Served, Trapped
  <2>2. CASE /\ machine' = c /\ jobs' = jobs \cup {Job(i, "setup", k)}
             /\ ses' = IF Fits(i, "provisioning") THEN Setting(i, "provisioning") ELSE ses
    <3>1. Fits(i, "provisioning")
      BY <1>2 DEF Inv, OneBlocks, InState, Blocking, Abandonable, Fits
    <3> DEFINE new == Written(ses[i], "provisioning")
    <3>2. new.status = "provisioning" /\ ses' = [ses EXCEPT ![i] = new]
      BY <1>2, <2>2, <3>1, WrittenStatus DEF Setting, Win, Typed
    <3> HIDE DEF new
    <3>3. ses'[i].status = "provisioning" /\ (\A n \in Ids : n # i => ses'[n] = ses[n])
      BY <1>2, <3>2 DEF Win, Typed
    <3>4. ses'[i].step = Aim(Job(i, "setup", k))
      BY <1>2, <1>7 DEF Aim, Job
    <3>5. Attended'
      BY <1>2, <1>3, <2>2, <3>3, <3>4, AttendedGrows DEF Play, Waiting, Finished
    <3>6. scenario.traps => Trapped(i)'
      BY <1>6, <1>7, <2>2 DEF Trapped
    <3> QED BY <3>3, <3>5, <3>6
  <2>3. CASE k \notin scenario.scripted /\ Finishing(Placed(c, m, 0), m) /\ ses' = ses /\ jobs' = jobs
    <3>1. PICK d : d = Placed(c, m, 0)
      OBVIOUS
    <3>2. /\ d = [n \in Machines |-> d[n]] /\ IsMachine(d[m])
          /\ scenario.traps => Flags \subseteq d[m].flags
      BY <1>2, <1>6, <3>1, PlacedFurnishes DEF Furnished
    <3>3. PICK w : machine' = [d EXCEPT ![m].window = w]
      BY <2>3, <3>1, FinishingCloses
    <3>4. scenario.traps => Flags \subseteq machine'[m].flags
      BY <1>2, <3>2, <3>3 DEF IsMachine
    <3>5. Served(i)'
      BY <1>2, <1>3, <1>7, <2>3 DEF Served, Ready
    <3>6. Attended'
      BY <1>1, <1>2, <1>3, <2>3, NoMove DEF Scripts, Waiting, Finished
    <3>7. scenario.traps => Trapped(i)'
      BY <1>7, <3>4 DEF Trapped
    <3> QED BY <2>3, <3>5, <3>6, <3>7
  <2> QED BY <1>8, <2>1, <2>2, <2>3
<1>10. TrapsSet'
  BY <1>1, <1>3, <1>4, <1>9, TrapsStay DEF Play
<1>11. Built'
  <2>1. \A n \in Sessions : ses'[n].status = "active" =>
           Served(n)' \/ (ses[n].status = "active" /\ (Handled(n) => Handled(n)'))
    BY <1>4, <1>9 DEF Sessions
  <2> QED BY <1>1, <1>3, <2>1, BuiltStays DEF Play
<1> QED BY <1>4, <1>9, <1>10, <1>11 DEF Play

-----------------------------------------------------------------------------
(* The insertion of the start: the new run is in the hands of the request. *)
LEMMA InsertPlays ==
    ASSUME Win, Play, NEW p \in Requests, Insert(p)
    PROVE  Play'
<1> DEFINE gone == Ids \cap {req[p].id}
<1>1. machine' = machine /\ jobs' = jobs /\ scenario' = scenario /\ Scripts' = Scripts /\ req[p].op = "found"
  BY DEF Insert, Scripts, At
<1>2. MachinesAge /\ First' = First /\ Flags' = Flags
  BY <1>1, SameMachines, SameScenario DEF Win
<1>3. /\ NextId \in Ids
      /\ ses' = [Abandoning(gone) EXCEPT ![NextId] = [NoSession EXCEPT !.status = "active", !.term = req[p].term]]
      /\ Go(p, [req[p] EXCEPT !.op = "begin", !.id = NextId])
  BY DEF Insert
<1>4. \A i \in gone : ses[i].status # "none"
  BY <1>1 DEF Win, HandsKnown, Fit
<1> HIDE DEF gone
<1>5. PICK n, m : n \in Ids /\ n = NextId /\ m = req[p].term
  BY <1>3
<1>6. n \in Nat /\ n \notin Sessions /\ \A i \in Sessions : i < n
  BY <1>5, NextIdIsFree DEF Win
<1> DEFINE row == [NoSession EXCEPT !.status = "active", !.term = m]
           hand == [req[p] EXCEPT !.op = "begin", !.id = n]
<1>7. row.status = "active" /\ row.term = m /\ row.step = First
  BY DEF NoSession
<1>8. hand.op = "begin" /\ hand.id = n
  BY DEF IsRequest, Win, Typed
<1>9. ses' = [Abandoning(gone) EXCEPT ![n] = row] /\ Go(p, hand)
  BY <1>3, <1>5
<1> HIDE DEF row, hand
<1>10. ses'[n] = row
  BY <1>5, <1>9 DEF Abandoning
<1>11. ASSUME NEW i \in Ids, i # n
      PROVE  /\ Kin(i) /\ (ses[i].cut => ses'[i].cut)
             /\ ses[i].status = "none" => ses'[i].status = "none"
             /\ ses'[i] = ses[i] \/ ses'[i].status = "abandoned"
  <2>1. ses'[i] = IF i \in gone THEN Written(ses[i], "abandoned") ELSE ses[i]
    BY <1>9, <1>11 DEF Abandoning
  <2>2. IsSession(ses[i]) /\ (i \in gone => ses[i].status # "none")
    BY <1>4 DEF Win, Typed
  <2>3. i \in gone => Smooth(ses[i], Written(ses[i], "abandoned"))
    BY <2>2, WrittenIsSmooth
  <2>4. CASE i \notin gone
    BY <2>1, <2>4 DEF Kin
  <2>5. CASE i \in gone
    <3>1. ses'[i].status = "abandoned"
      BY <2>1, <2>2, <2>5, WrittenStatus
    <3> QED BY <2>1, <2>2, <2>3, <2>5, <3>1 DEF Smooth, Steady, Settled, Kin
  <2> QED BY <2>4, <2>5
<1>12. req' = [q \in Requests |-> IF q = p THEN hand ELSE req[q]]
  BY <1>9 DEF Go, Win, Typed
<1>13. Sessions' = Sessions \cup {n}
  BY <1>5, <1>6, <1>7, <1>10, <1>11 DEF Sessions, Kin
<1>14. Exact'
  <2>1. PICK r : r = hand
    OBVIOUS
  <2>2. HandExact(r)'
    BY <1>2, <1>5, <1>7, <1>8, <1>10, <2>1 DEF HandExact
  <2>3. \A q \in Requests : q # p /\ req[q].op \in Doing => req[q].id # r.id /\ Kin(req[q].id)
    BY <1>6, <1>8, <1>11, <2>1 DEF Play, Exact, HandExact, Doing, Sessions
  <2> QED BY <1>1, <1>9, <2>1, <2>2, <2>3, ExactGoes DEF Play
<1>15. Attended'
  <2>1. \A j \in Scripts' : ses'[j.id].status \in Waiting /\ Kin(j.id)
    BY <1>1, <1>6, <1>11 DEF Play, Attended, Waiting, Finished, Sessions
  <2> QED BY <1>1, <2>1, AttendedStays DEF Play
<1>16. Beginning(n)' /\ Handled(n)'
  BY <1>8, <1>12 DEF Beginning, At, Handled
<1>17. \A i : (Beginning(i) => Beginning(i)') /\ (Handled(i) => Handled(i)')
  BY <1>1, <1>12 DEF Beginning, At, Handled
<1>18. TrapsSet'
  <2>1. ASSUME scenario.traps, NEW i \in Sessions' PROVE Trapped(i)'
    <3>1. CASE i = n
      BY <1>16, <3>1 DEF Trapped
    <3>2. CASE i # n
      <4>1. i \in Sessions /\ i \in Ids
        BY <1>13, <3>2 DEF Sessions
      <4>2. ses'[i].term = ses[i].term /\ (ses[i].cut => ses'[i].cut)
        BY <1>11, <3>2, <4>1 DEF Kin
      <4>3. Trapped(i)
        BY <2>1, <4>1 DEF Play, TrapsSet
      <4> QED BY <1>1, <1>2, <1>17, <4>2, <4>3 DEF Trapped, Deleted
    <3> QED BY <3>1, <3>2
  <2> QED BY <1>1, <2>1 DEF TrapsSet
<1>19. Built'
  <2>1. ASSUME NEW i \in InState({"active"})' PROVE Served(i)'
    <3>1. CASE i = n
      BY <1>16, <3>1 DEF Served
    <3>2. CASE i # n
      <4>1. i \in Ids /\ ses'[i] = ses[i] /\ ses[i].status = "active"
        BY <1>11, <2>1, <3>2 DEF InState
      <4>2. Served(i)
        BY <4>1 DEF Play, Built, InState
      <4> QED BY <1>1, <1>2, <1>17, <4>1, <4>2 DEF Served, Ready, Deleted
    <3> QED BY <3>1, <3>2
  <2> QED BY <2>1 DEF Built
<1> QED BY <1>14, <1>15, <1>18, <1>19 DEF Play

-----------------------------------------------------------------------------
LEMMA InitPlay == Init => Play
<1> SUFFICES ASSUME Init PROVE Play
  OBVIOUS
<1>1. Sessions = {} /\ InState({"active"}) = {} /\ jobs = {}
  BY DEF Init, Sessions, InState, NoSession
<1>2. \A q \in Requests : req[q].op = "idle"
  BY IdleIsRequest DEF Init
<1>3. Exact
  BY <1>2 DEF Exact, HandExact, Doing
<1> QED BY <1>1, <1>3 DEF Play, Attended, Scripts, TrapsSet, Built

LEMMA StepPlays ==
    ASSUME Inv, Orderly, Win, Clocked, Play, [Next]_vars
    PROVE  Play'
<1>1. CASE UNCHANGED vars
  <2>1. MachinesAge /\ RowsSteady /\ RowsSettled /\ RowsCalm
    BY <1>1, SameRows, SameMachines, CalmColumns DEF vars, Win, RowsSmooth
  <2>2. scenario' = scenario /\ Scripts' = Scripts /\ req' = req
    BY <1>1 DEF vars, Scripts
  <2> QED BY <2>1, <2>2, CalmStep
<1>2. CASE RequestStep
  <2>1. PICK p \in Requests :
           \/ Launch(p) \/ BulkStart(p) \/ Count(p) \/ Find(p) \/ RollBack(p)
           \/ WrongAnswer(p) \/ DeletesTerminal(p)
           \/ \E m \in Machines : StartOn(p, m)
           \/ \E i \in Ids : Abandon(p, i)
           \/ Insert(p) \/ Begin(p) \/ RightAnswer(p) \/ StepTransition(p) \/ Reprovisioned(p)
           \/ \E i \in Ids : Answer(p, i) \/ Reprovision(p, i)
    BY <1>2 DEF RequestStep
  <2> QED BY <2>1, RequestQuiet, InsertPlays, BeginPlays, RightAnswerPlays, TransitionPlays,
             ReprovisionedPlays, AnswerPlays, ReprovisionPlays
<1> QED BY <1>1, <1>2, JobPlays, OthersQuiet, CrashPlays DEF Next
(***************************************************************************)
(* A run that says active and whose container runs can be played: the       *)
(* script of its step ran and its flag is in place, or a request prepares   *)
(* it, or the learner was told that this failed; whatever the scenario, the *)
(* containers, the requests under way and the crashes.  A request that is   *)
(* orderly takes up a run that no other one prepares, and no goroutine does.*)
(***************************************************************************)
THEOREM ActiveRunsAreBuilt == ASSUME Orderly PROVE Spec => []PlayableIsBuilt
<1>1. Win /\ [Next]_vars => Win'
  BY StepMinds
<1>2. Inv /\ Win /\ Clocked /\ [Next]_vars => Clocked'
  BY StepClocks
<1>3. Inv /\ Win /\ Clocked /\ Play /\ [Next]_vars => Play'
  BY StepPlays
<1>4. Play => PlayableIsBuilt
  BY DEF Play, Built, Served, Handled, Ready, Deleted, Running, PlayableIsBuilt
<1>5. Spec => []Inv
  BY Invariant
<1> QED BY InitWin, InitClocked, InitPlay, <1>1, <1>2, <1>3, <1>4, <1>5, PTL DEF Spec

=============================================================================
