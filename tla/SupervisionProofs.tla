-------------------------- MODULE SupervisionProofs --------------------------
(***************************************************************************)
(* The trail tells who can type into a learner's terminal, and bounds what  *)
(* each stream did there, for any number of streams, frames, faults, groups.*)
(***************************************************************************)
EXTENDS Supervision, TLAPS

Entries == {"started", "take", "failed", "released", "stopped"}

Frames == [event : {"self", "joined"}, id : Attachments]
Places == {"idle", "authorized", "started", "reading", "taking", "promoting", "held",
           "failing", "releasing", "released", "ending", "stopping", "ended",
           "refused", "dead"}
Roles == {"none", "observer", "interactive"}
Positions == {"ping", "pump", "reauth", "demoting", "leaving"}

(* The sets the variables range over. *)
Typed ==
    /\ pc \in [Brokers -> Places]
    /\ aid \in [Brokers -> Attachments \cup {None}]
    /\ frames \in [Brokers -> SUBSET Frames]
    /\ role \in [Attachments -> Roles]
    /\ trail \in [Brokers -> Seq(Entries)]
    /\ loops \in [Brokers -> SUBSET Positions]

(* tt-backend tells a stream its own id, and the stream knows no other. *)
OwnId(b) ==
    /\ \A f \in frames[b] : f.event = "self" => f.id = b
    /\ aid[b] \in {b, None}

(* A call that changes a role addresses the stream's own attachment. *)
Addressed(b) ==
    /\ pc[b] \in {"taking", "promoting", "releasing"} => aid[b] = b
    /\ "demoting" \in loops[b] => aid[b] = b

(* An entry that is not about taking the hand is written when it is not held. *)
Logging(b) ==
    /\ pc[b] \in {"idle", "authorized", "started", "released", "ending", "stopping"} =>
          role[b] # "interactive"
    /\ pc[b] \in {"promoting", "failing"} => trail[b] # << >> /\ Last(trail[b]) = "take"

OnRecord(b) ==
    role[b] = "interactive" => trail[b] # << >> /\ Last(trail[b]) \in {"take", "failed"}

Safe(b) == OwnId(b) /\ Addressed(b) /\ Logging(b) /\ OnRecord(b)

Inv == Typed /\ role[Learner] = "interactive" /\ \A b \in Brokers : Safe(b)

-----------------------------------------------------------------------------
LEMMA LastOfAppend ==
    ASSUME NEW t \in Seq(Entries), NEW e \in Entries
    PROVE  /\ Append(t, e) \in Seq(Entries)
           /\ Append(t, e) # << >>
           /\ Last(Append(t, e)) = e
BY DEF Last

LEMMA InitInv == Init => Inv
<1> SUFFICES ASSUME Init PROVE Inv
    OBVIOUS
<1>1. Typed
    BY DEF Init, Typed, Attachments, Places, Roles
<1>2. role[Learner] = "interactive"
    BY DEF Init, Attachments
<1>3. ASSUME NEW b \in Brokers PROVE Safe(b)
    BY SupervisionAssumption
    DEF Init, Safe, OwnId, Addressed, Logging, OnRecord, Attachments
<1> QED
    BY <1>1, <1>2, <1>3 DEF Inv

(* A step of one stream leaves the others as they are, announcements aside. *)
LEMMA OneStream ==
    ASSUME Inv, NEW b \in Brokers, Typed', role'[Learner] = "interactive", Safe(b)',
           \A x \in Brokers \ {b} :
              /\ pc'[x] = pc[x] /\ aid'[x] = aid[x] /\ role'[x] = role[x]
              /\ trail'[x] = trail[x] /\ loops'[x] = loops[x]
              /\ \A f \in frames'[x] : f.event = "self" => f \in frames[x]
    PROVE  Inv'
<1> SUFFICES ASSUME NEW x \in Brokers, x # b PROVE Safe(x)'
    BY DEF Inv
<1>1. Safe(x)
    BY DEF Inv
<1> QED
    BY <1>1 DEF Safe, OwnId, Addressed, Logging, OnRecord

(* An entry becomes the last one of its stream's trail. *)
LEMMA Logged ==
    ASSUME trail \in [Brokers -> Seq(Entries)], NEW b \in Brokers, NEW e \in Entries,
           trail' = trail \/ Log(b, e)
    PROVE  /\ trail' \in [Brokers -> Seq(Entries)]
           /\ trail'[b] = trail[b] \/ (trail'[b] # << >> /\ Last(trail'[b]) = e)
           /\ Log(b, e) => trail'[b] # << >> /\ Last(trail'[b]) = e
           /\ \A x \in Brokers \ {b} : trail'[x] = trail[x]
<1>1. Log(b, e) => /\ trail' \in [Brokers -> Seq(Entries)]
                   /\ trail'[b] # << >> /\ Last(trail'[b]) = e
                   /\ \A x \in Brokers \ {b} : trail'[x] = trail[x]
    BY LastOfAppend DEF Log
<1> QED
    BY <1>1

(* A stream that changes a role changes its own. *)
LEMMA OwnPatch ==
    ASSUME Inv, NEW b \in Brokers, aid[b] = b, NEW r \in {"observer", "interactive"},
           PatchAttachmentRole(aid[b], r) \/ PatchFails(aid[b], r)
    PROVE  /\ role' \in [Attachments -> Roles] /\ role'[Learner] = "interactive"
           /\ role'[b] \in {role[b], r}
           /\ PatchAttachmentRole(aid[b], r) => role'[b] = r
           /\ \A x \in Brokers \ {b} : role'[x] = role[x]
BY SupervisionAssumption
DEF PatchAttachmentRole, PatchFails, Patched, Inv, Typed, Attachments, Roles

LEMMA Detached ==
    ASSUME Inv, NEW b \in Brokers, Teardown(b)
    PROVE  /\ role' \in [Attachments -> Roles] /\ role'[Learner] = "interactive"
           /\ role'[b] = "none"
           /\ \A x \in Brokers \ {b} : role'[x] = role[x]
BY SupervisionAssumption
DEF Teardown, Close, Sockets, Inv, Typed, Attachments, Roles

-----------------------------------------------------------------------------
(* The opening of a stream: its attachment, once it is there, observes. *)
LEMMA RequestKeeps ==
    ASSUME Inv, NEW b \in Brokers, Request(b) PROVE Inv'
<1>1. CASE Authorize(b)
  <2>1. Typed'
      BY <1>1 DEF Authorize, GoTo, Inv, Typed, Places
  <2>2. Safe(b)'
      BY <1>1 DEF Authorize, GoTo, Inv, Typed, Safe, OwnId, Addressed, Logging, OnRecord
  <2> QED
      BY <1>1, <2>1, <2>2, OneStream DEF Authorize, GoTo, Inv, Typed
<1>2. CASE StartSupervision(b)
  <2>1. trail' = trail \/ Log(b, "started")
      BY <1>2 DEF StartSupervision, LogOrLose
  <2>2. /\ trail' \in [Brokers -> Seq(Entries)]
        /\ trail'[b] = trail[b] \/ (trail'[b] # << >> /\ Last(trail'[b]) = "started")
        /\ \A x \in Brokers \ {b} : trail'[x] = trail[x]
      BY <2>1, Logged DEF Inv, Typed, Entries
  <2>3. Typed'
      BY <1>2, <2>2 DEF StartSupervision, GoTo, Inv, Typed, Places
  <2>4. Safe(b)'
      BY <1>2, <2>2 DEF StartSupervision, LogOrLose, GoTo, Inv, Typed, Safe, OwnId, Addressed, Logging, OnRecord
  <2> QED
      BY <1>2, <2>2, <2>3, <2>4, OneStream DEF StartSupervision, GoTo, Inv, Typed
<1>3. CASE Connect(b)
  <2>1. /\ role' \in [Attachments -> Roles] /\ role'[Learner] = "interactive"
        /\ role'[b] = "observer"
        /\ \A x \in Brokers \ {b} : role'[x] = role[x]
      BY <1>3, SupervisionAssumption DEF Connect, Patched, Inv, Typed, Attachments, Roles
  <2>2. /\ SelfFrame(b) \in Frames /\ JoinedFrame(b) \in Frames
        /\ JoinedFrame(Learner) \in Frames
        /\ SelfFrame(b).id = b
        /\ JoinedFrame(b).event = "joined" /\ JoinedFrame(Learner).event = "joined"
      BY DEF Frames, SelfFrame, JoinedFrame, Attachments
  <2>3. /\ frames' \in [Brokers -> SUBSET Frames]
        /\ frames'[b] = {SelfFrame(b), JoinedFrame(Learner)}
        /\ \A x \in Brokers \ {b} : frames'[x] \in {frames[x], frames[x] \cup {JoinedFrame(b)}}
      BY <1>3, <2>2 DEF Connect, Inv, Typed
  <2>4. Typed'
      BY <1>3, <2>1, <2>3 DEF Connect, GoTo, Inv, Typed, Places, Positions
  <2>5. Safe(b)'
      BY <1>3, <2>1, <2>2, <2>3 DEF Connect, GoTo, Inv, Typed, Safe, OwnId, Addressed, Logging, OnRecord
  <2>6. \A x \in Brokers \ {b} : \A f \in frames'[x] :
           f.event = "self" => f \in frames[x]
      BY <2>2, <2>3
  <2> QED
      BY <1>3, <2>1, <2>4, <2>5, <2>6, OneStream DEF Connect, GoTo, Inv, Typed
<1>4. CASE ConnectFails(b)
  <2>1. Typed'
      BY <1>4 DEF ConnectFails, GoTo, Inv, Typed, Places
  <2>2. Safe(b)'
      BY <1>4 DEF ConnectFails, GoTo, Inv, Typed, Safe, OwnId, Addressed, Logging, OnRecord
  <2> QED
      BY <1>4, <2>1, <2>2, OneStream DEF ConnectFails, GoTo, Inv, Typed
<1> QED
    BY <1>1, <1>2, <1>3, <1>4 DEF Request

(* The trainer's frames: the hand is on record before it is asked for. *)
LEMMA BrokeringKeeps ==
    ASSUME Inv, NEW b \in Brokers, Brokering(b) \/ ForwardFails(b) PROVE Inv'
<1>1. CASE TakeHandForSupervision(b)
  <2>1. trail' = trail \/ Log(b, "take")
      BY <1>1 DEF TakeHandForSupervision, LogOrLose
  <2>2. /\ trail' \in [Brokers -> Seq(Entries)]
        /\ trail'[b] = trail[b] \/ (trail'[b] # << >> /\ Last(trail'[b]) = "take")
        /\ Log(b, "take") => trail'[b] # << >> /\ Last(trail'[b]) = "take"
        /\ \A x \in Brokers \ {b} : trail'[x] = trail[x]
      BY <2>1, Logged DEF Inv, Typed, Entries
  <2>3. Typed'
      BY <1>1, <2>2 DEF TakeHandForSupervision, GoTo, Inv, Typed, Places
  <2>4. Safe(b)'
      BY <1>1, <2>2 DEF TakeHandForSupervision, LogOrLose, GoTo, Inv, Typed, Safe, OwnId, Addressed, Logging, OnRecord
  <2> QED
      BY <1>1, <2>2, <2>3, <2>4, OneStream DEF TakeHandForSupervision, GoTo, Inv, Typed
<1>2. CASE Promote(b)
  <2>1. aid[b] = b
      BY <1>2 DEF Promote, Inv, Safe, Addressed
  <2>2. /\ role' \in [Attachments -> Roles] /\ role'[Learner] = "interactive"
        /\ role'[b] \in {role[b], "interactive"}
        /\ \A x \in Brokers \ {b} : role'[x] = role[x]
      BY <1>2, <2>1, OwnPatch DEF Promote
  <2>3. Typed'
      BY <1>2, <2>2 DEF Promote, GoTo, Inv, Typed, Places, Positions
  <2>4. Safe(b)'
      BY <1>2, <2>1, <2>2 DEF Promote, GoTo, Inv, Typed, Safe, OwnId, Addressed, Logging, OnRecord
  <2> QED
      BY <1>2, <2>2, <2>3, <2>4, OneStream DEF Promote, GoTo, Inv, Typed
<1>3. CASE SetPromoted(b)
  <2>1. Typed'
      BY <1>3 DEF SetPromoted, GoTo, Inv, Typed, Places
  <2>2. Safe(b)'
      BY <1>3 DEF SetPromoted, GoTo, Inv, Typed, Safe, OwnId, Addressed, Logging, OnRecord
  <2> QED
      BY <1>3, <2>1, <2>2, OneStream DEF SetPromoted, GoTo, Inv, Typed
<1>4. CASE LogFailed(b)
  <2>1. trail' = trail \/ Log(b, "failed")
      BY <1>4 DEF LogFailed, LogOrLose
  <2>2. /\ trail' \in [Brokers -> Seq(Entries)]
        /\ trail'[b] = trail[b] \/ (trail'[b] # << >> /\ Last(trail'[b]) = "failed")
        /\ \A x \in Brokers \ {b} : trail'[x] = trail[x]
      BY <2>1, Logged DEF Inv, Typed, Entries
  <2>3. Typed'
      BY <1>4, <2>2 DEF LogFailed, GoTo, Inv, Typed, Places
  <2>4. Safe(b)'
      BY <1>4, <2>2 DEF LogFailed, LogOrLose, GoTo, Inv, Typed, Safe, OwnId, Addressed, Logging, OnRecord
  <2> QED
      BY <1>4, <2>2, <2>3, <2>4, OneStream DEF LogFailed, GoTo, Inv, Typed
<1>5. CASE Release(b)
  <2>1. aid[b] = b
      BY <1>5 DEF Release, Inv, Safe, Addressed
  <2>2. /\ role' \in [Attachments -> Roles] /\ role'[Learner] = "interactive"
        /\ role'[b] \in {role[b], "observer"}
        /\ PatchAttachmentRole(aid[b], "observer") => role'[b] = "observer"
        /\ \A x \in Brokers \ {b} : role'[x] = role[x]
      BY <1>5, <2>1, OwnPatch DEF Release
  <2>3. Typed'
      BY <1>5, <2>2 DEF Release, GoTo, Inv, Typed, Places, Positions
  <2>4. Safe(b)'
      BY <1>5, <2>1, <2>2 DEF Release, GoTo, Inv, Typed, Safe, OwnId, Addressed, Logging, OnRecord
  <2> QED
      BY <1>5, <2>2, <2>3, <2>4, OneStream DEF Release, GoTo, Inv, Typed
<1>6. CASE LogReleased(b)
  <2>1. trail' = trail \/ Log(b, "released")
      BY <1>6 DEF LogReleased, LogOrLose
  <2>2. /\ trail' \in [Brokers -> Seq(Entries)]
        /\ trail'[b] = trail[b] \/ (trail'[b] # << >> /\ Last(trail'[b]) = "released")
        /\ \A x \in Brokers \ {b} : trail'[x] = trail[x]
      BY <2>1, Logged DEF Inv, Typed, Entries
  <2>3. Typed'
      BY <1>6, <2>2 DEF LogReleased, GoTo, Inv, Typed, Places
  <2>4. Safe(b)'
      BY <1>6, <2>2 DEF LogReleased, LogOrLose, GoTo, Inv, Typed, Safe, OwnId, Addressed, Logging, OnRecord
  <2> QED
      BY <1>6, <2>2, <2>3, <2>4, OneStream DEF LogReleased, GoTo, Inv, Typed
<1>7. CASE ReadFails(b) \/ ForwardFails(b)
  <2>1. /\ role' \in [Attachments -> Roles] /\ role'[Learner] = "interactive"
        /\ role'[b] = "none"
        /\ \A x \in Brokers \ {b} : role'[x] = role[x]
      BY <1>7, Detached DEF ReadFails, ForwardFails, LeaveLoop
  <2>2. Typed'
      BY <1>7, <2>1 DEF ReadFails, ForwardFails, LeaveLoop, GoTo, Inv, Typed, Places, Positions
  <2>3. Safe(b)'
      BY <1>7, <2>1 DEF ReadFails, ForwardFails, LeaveLoop, GoTo, Inv, Typed, Safe, OwnId, Addressed, Logging, OnRecord
  <2> QED
      BY <1>7, <2>1, <2>2, <2>3, OneStream DEF ReadFails, ForwardFails, LeaveLoop, GoTo, Inv, Typed
<1>8. CASE EndHeld(b)
  <2>1. trail' = trail \/ Log(b, "released")
      BY <1>8 DEF EndHeld, LogOrLose
  <2>2. /\ trail' \in [Brokers -> Seq(Entries)]
        /\ trail'[b] = trail[b] \/ (trail'[b] # << >> /\ Last(trail'[b]) = "released")
        /\ \A x \in Brokers \ {b} : trail'[x] = trail[x]
      BY <2>1, Logged DEF Inv, Typed, Entries
  <2>3. Typed'
      BY <1>8, <2>2 DEF EndHeld, GoTo, Inv, Typed, Places
  <2>4. Safe(b)'
      BY <1>8, <2>2 DEF EndHeld, LogOrLose, GoTo, Inv, Typed, Safe, OwnId, Addressed, Logging, OnRecord
  <2> QED
      BY <1>8, <2>2, <2>3, <2>4, OneStream DEF EndHeld, GoTo, Inv, Typed
<1>9. CASE EndSupervision(b)
  <2>1. trail' = trail \/ Log(b, "stopped")
      BY <1>9 DEF EndSupervision, LogOrLose
  <2>2. /\ trail' \in [Brokers -> Seq(Entries)]
        /\ trail'[b] = trail[b] \/ (trail'[b] # << >> /\ Last(trail'[b]) = "stopped")
        /\ \A x \in Brokers \ {b} : trail'[x] = trail[x]
      BY <2>1, Logged DEF Inv, Typed, Entries
  <2>3. Typed'
      BY <1>9, <2>2 DEF EndSupervision, GoTo, Inv, Typed, Places
  <2>4. Safe(b)'
      BY <1>9, <2>2 DEF EndSupervision, LogOrLose, GoTo, Inv, Typed, Safe, OwnId, Addressed, Logging, OnRecord
  <2> QED
      BY <1>9, <2>2, <2>3, <2>4, OneStream DEF EndSupervision, GoTo, Inv, Typed
<1> QED
    BY <1>1, <1>2, <1>3, <1>4, <1>5, <1>6, <1>7, <1>8, <1>9 DEF Brokering

LEMMA ReadControlKeeps ==
    ASSUME Inv, NEW b \in Brokers, NEW type \in {"take", "release"}, ReadControl(b, type)
    PROVE  Inv'
<1>1. PICK l \in {"reading", "taking", "releasing"} :
         /\ GoTo(b, l)
         /\ l # "reading" => aid[b] # None
    BY DEF ReadControl
<1>2. aid[b] # None => aid[b] = b
    BY DEF Inv, Safe, OwnId
<1>3. Typed'
    BY <1>1 DEF ReadControl, GoTo, Inv, Typed, Places
<1>4. Safe(b)'
    BY <1>1, <1>2
    DEF ReadControl, GoTo, Inv, Typed, Safe, OwnId, Addressed, Logging, OnRecord
<1> QED
    BY <1>1, <1>3, <1>4, OneStream DEF ReadControl, GoTo, Inv, Typed

(* The stream learns its own attachment and no other. *)
LEMMA PumpingKeeps ==
    ASSUME Inv, NEW b \in Brokers, Pumping(b) PROVE Inv'
<1>1. ASSUME NEW f \in frames[b], Pump(b, f) PROVE Inv'
  <2>1. aid' = [aid EXCEPT ![b] = BindSelfAttachmentID(aid[b], f)]
      BY <1>1 DEF Pump
  <2>2. /\ BindSelfAttachmentID(aid[b], f) \in {b, None}
        /\ aid[b] = b => BindSelfAttachmentID(aid[b], f) = b
      BY <1>1, SupervisionAssumption DEF BindSelfAttachmentID, Inv, Safe, OwnId
  <2>3. Typed'
      BY <1>1, <2>1, <2>2 DEF Pump, Inv, Typed, Attachments
  <2>4. Safe(b)'
      BY <1>1, <2>1, <2>2 DEF Pump, Inv, Typed, Safe, OwnId, Addressed, Logging, OnRecord
  <2> QED
      BY <1>1, <2>3, <2>4, OneStream DEF Pump, Inv, Typed
<1>2. CASE PumpEnds(b)
  <2>1. /\ role' \in [Attachments -> Roles] /\ role'[Learner] = "interactive"
        /\ role'[b] = "none"
        /\ \A x \in Brokers \ {b} : role'[x] = role[x]
      BY <1>2, Detached DEF PumpEnds
  <2>2. Typed'
      BY <1>2, <2>1 DEF PumpEnds, Move, Inv, Typed, Places, Positions
  <2>3. Safe(b)'
      BY <1>2, <2>1 DEF PumpEnds, Move, Inv, Typed, Safe, OwnId, Addressed, Logging, OnRecord
  <2> QED
      BY <1>2, <2>1, <2>2, <2>3, OneStream DEF PumpEnds, Move, Inv, Typed
<1> QED
    BY <1>1, <1>2 DEF Pumping

(* The loss of access only ever takes the hand away. *)
LEMMA ReauthKeeps ==
    ASSUME Inv, NEW b \in Brokers,
           Reauth(b) \/ LoopEnds(b, "ping") \/ LoopEnds(b, "reauth")
    PROVE  Inv'
<1>1. CASE Reauthorize(b)
  <2>1. aid[b] # None => aid[b] = b
      BY DEF Inv, Safe, OwnId
  <2>2. Typed'
      BY <1>1 DEF Reauthorize, Move, Inv, Typed, Positions
  <2>3. Safe(b)'
      BY <1>1, <2>1 DEF Reauthorize, Move, Inv, Typed, Safe, OwnId, Addressed, Logging, OnRecord
  <2> QED
      BY <1>1, <2>2, <2>3, OneStream DEF Reauthorize, Move, Inv, Typed
<1>2. CASE Demote(b)
  <2>1. aid[b] = b
      BY <1>2 DEF Demote, Inv, Safe, Addressed
  <2>2. /\ role' \in [Attachments -> Roles] /\ role'[Learner] = "interactive"
        /\ role'[b] \in {role[b], "observer"}
        /\ \A x \in Brokers \ {b} : role'[x] = role[x]
      BY <1>2, <2>1, OwnPatch DEF Demote
  <2>3. Typed'
      BY <1>2, <2>2 DEF Demote, Move, Inv, Typed, Places, Positions
  <2>4. Safe(b)'
      BY <1>2, <2>1, <2>2 DEF Demote, Move, Inv, Typed, Safe, OwnId, Addressed, Logging, OnRecord
  <2> QED
      BY <1>2, <2>2, <2>3, <2>4, OneStream DEF Demote, Move, Inv, Typed
<1>3. CASE ReauthLeaves(b)
  <2>1. /\ role' \in [Attachments -> Roles] /\ role'[Learner] = "interactive"
        /\ role'[b] = "none"
        /\ \A x \in Brokers \ {b} : role'[x] = role[x]
      BY <1>3, Detached DEF ReauthLeaves
  <2>2. Typed'
      BY <1>3, <2>1 DEF ReauthLeaves, Move, Inv, Typed, Places, Positions
  <2>3. Safe(b)'
      BY <1>3, <2>1 DEF ReauthLeaves, Move, Inv, Typed, Safe, OwnId, Addressed, Logging, OnRecord
  <2> QED
      BY <1>3, <2>1, <2>2, <2>3, OneStream DEF ReauthLeaves, Move, Inv, Typed
<1>4. ASSUME NEW l \in Positions, LoopEnds(b, l) PROVE Inv'
  <2>1. Typed'
      BY <1>4 DEF LoopEnds, Move, Inv, Typed
  <2>2. Safe(b)'
      BY <1>4 DEF LoopEnds, Move, Inv, Typed, Safe, OwnId, Addressed, Logging, OnRecord
  <2> QED
      BY <1>4, <2>1, <2>2, OneStream DEF LoopEnds, Move, Inv, Typed
<1> QED
    BY <1>1, <1>2, <1>3, <1>4 DEF Reauth, Positions

LEMMA EnvironmentKeeps ==
    ASSUME Inv, Environment PROVE Inv'
<1>1. ASSUME UNCHANGED others PROVE Inv'
    BY <1>1 DEF others, Inv, Typed, Safe, OwnId, Addressed, Logging, OnRecord
<1>2. ASSUME NEW b \in Brokers, NEW s \in Sockets, SocketDrops(b, s) PROVE Inv'
  <2>1. /\ role' \in [Attachments -> Roles] /\ role'[Learner] = "interactive"
        /\ role'[b] \in {role[b], "none"}
        /\ \A x \in Brokers \ {b} : role'[x] = role[x]
      BY <1>2, SupervisionAssumption
      DEF SocketDrops, Close, Sockets, Inv, Typed, Attachments, Roles
  <2>2. Typed'
      BY <1>2, <2>1 DEF SocketDrops, Inv, Typed
  <2>3. Safe(b)'
      BY <1>2, <2>1 DEF SocketDrops, Inv, Typed, Safe, OwnId, Addressed, Logging, OnRecord
  <2> QED
      BY <1>2, <2>1, <2>2, <2>3, OneStream DEF SocketDrops, Inv, Typed
<1>3. CASE Crash
  <2>1. Typed' /\ role'[Learner] = "interactive"
      BY <1>3 DEF Crash, Inv, Typed, Attachments, Roles, Places
  <2>2. ASSUME NEW b \in Brokers PROVE Safe(b)'
    <3>1. /\ pc'[b] \in {"idle", "dead"} /\ role'[b] = "none" /\ loops'[b] = {}
          /\ UNCHANGED <<frames, aid>>
        BY <1>3, SupervisionAssumption DEF Crash, Attachments
    <3> QED
        BY <3>1 DEF Inv, Safe, OwnId, Addressed, Logging, OnRecord
  <2> QED
      BY <2>1, <2>2 DEF Inv
<1>4. (\E g \in Groups : GroupLost(g) \/ \E b \in Brokers : RoleLost(b, g))
          \/ (\E b \in Brokers : PlanLost(b)) => UNCHANGED others
    BY DEF GroupLost, RoleLost, PlanLost
<1> QED
    BY <1>1, <1>2, <1>3, <1>4 DEF Environment

LEMMA NextKeeps == Inv /\ [Next]_vars => Inv'
<1> SUFFICES ASSUME Inv, [Next]_vars PROVE Inv'
    OBVIOUS
<1>1. CASE UNCHANGED vars
    BY <1>1 DEF vars, Inv, Typed, Safe, OwnId, Addressed, Logging, OnRecord
<1>2. CASE Next
    BY <1>2, RequestKeeps, BrokeringKeeps, ReadControlKeeps, PumpingKeeps, ReauthKeeps,
       EnvironmentKeeps DEF Next
<1> QED
    BY <1>1, <1>2

(* Whoever can type besides the learner is on record as having taken the     *)
(* hand, and no stream moves the learner's own attachment.                  *)
THEOREM TakenHandIsOnRecord == Spec => []HandIsOnRecord
<1>1. Inv => HandIsOnRecord
    BY DEF Inv, Safe, OnRecord, HandIsOnRecord
<1> QED
    BY InitInv, NextKeeps, <1>1, PTL DEF Spec

-----------------------------------------------------------------------------
(***************************************************************************)
(* The window of supervision.  Along a stream, unless an entry written on a *)
(* best-effort basis was lost, the trail starts once, does not stop before  *)
(* the end, and each hand taken is accounted for.                          *)
(***************************************************************************)
(* Where an entry is found in a trail. *)
Marks(t, entry) == {i \in DOMAIN t : t[i] = entry}

(* A stream that has started, and has neither been refused nor cut short. *)
Underway == {"started", "reading", "taking", "promoting", "held", "failing", "releasing",
             "released", "ending", "stopping"}

(* A hand that was taken is given back, or the stream knows that it holds it *)
(* (promoted), or is about to learn whether it does.                       *)
Accounted(b, i) ==
    \/ GivenBack(trail[b], i)
    \/ promoted[b] /\ pc[b] \notin {"stopping", "ended"}
    \/ i = Len(trail[b]) /\ pc[b] \in {"promoting", "held", "failing"}

Complete(b) ==
    /\ pc[b] \in {"idle", "authorized"} => trail[b] = << >>
    /\ pc[b] \in Underway \cup {"ended"} => Marks(trail[b], "started") = {1}
    /\ pc[b] \in Underway => Marks(trail[b], "stopped") = {}
    /\ pc[b] = "ended" => Marks(trail[b], "stopped") = {Len(trail[b])}
    /\ pc[b] \in Underway \cup {"ended"} =>
          \A i \in Marks(trail[b], "take") : Accounted(b, i)

Flags == lost \in [Brokers -> BOOLEAN] /\ promoted \in [Brokers -> BOOLEAN]

Bounded == Flags /\ \A b \in Brokers : lost[b] \/ Complete(b)

-----------------------------------------------------------------------------
(* What a new entry changes in what is read of a trail. *)
Grown(t, u, e) ==
    /\ Len(u) = Len(t) + 1 /\ u # t
    /\ \A x \in Entries : Marks(u, x) = IF e = x THEN Marks(t, x) \cup {Len(u)} ELSE Marks(t, x)
    /\ \A i \in Marks(t, "take") :
          /\ GivenBack(t, i) => GivenBack(u, i)
          /\ e = "released" => GivenBack(u, i)
          /\ e = "failed" /\ i = Len(t) => GivenBack(u, i)

LEMMA Appended ==
    ASSUME NEW t \in Seq(Entries), NEW e \in Entries
    PROVE  Grown(t, Append(t, e), e)
<1> DEFINE u == Append(t, e)
<1>1. /\ Len(t) \in Nat /\ Len(u) = Len(t) + 1
      /\ DOMAIN t = 1..Len(t) /\ DOMAIN u = 1..(Len(t) + 1)
      /\ \A i \in 1..Len(t) : u[i] = t[i]
      /\ u[Len(t) + 1] = e
  OBVIOUS
<1> HIDE DEF u
<1>2. u # t
  <2>1. \A n \in Nat : n + 1 # n
    OBVIOUS
  <2>2. Len(t) \in Nat /\ Len(u) = Len(t) + 1
    BY <1>1
  <2>3. Len(u) # Len(t)
    BY <2>1, <2>2, Zenon
  <2> QED BY <2>3
<1>3. ASSUME NEW x \in Entries PROVE Marks(u, x) = IF e = x THEN Marks(t, x) \cup {Len(u)} ELSE Marks(t, x)
  BY <1>1 DEF Marks
<1>4. ASSUME NEW i \in Marks(t, "take")
      PROVE  /\ GivenBack(t, i) => GivenBack(u, i)
             /\ e = "released" => GivenBack(u, i)
             /\ e = "failed" /\ i = Len(t) => GivenBack(u, i)
  <2>1. i \in 1..Len(t)
    BY <1>1 DEF Marks
  <2>2. ASSUME e = "released" PROVE GivenBack(u, i)
    <3>1. Len(t) + 1 \in (i + 1)..Len(u)
      BY <1>1, <2>1
    <3> QED BY <1>1, <2>2, <3>1 DEF GivenBack
  <2>3. ASSUME GivenBack(t, i) PROVE GivenBack(u, i)
    <3>1. CASE i < Len(t) /\ t[i + 1] = "failed"
      BY <1>1, <2>1, <3>1 DEF GivenBack
    <3>2. ASSUME NEW j \in (i + 1)..Len(t), t[j] = "released" PROVE GivenBack(u, i)
      <4>1. j \in (i + 1)..Len(u) /\ u[j] = "released"
        BY <1>1, <2>1, <3>2
      <4> QED BY <4>1 DEF GivenBack
    <3> QED BY <2>3, <3>1, <3>2 DEF GivenBack
  <2>4. e = "failed" /\ i = Len(t) => GivenBack(u, i)
    BY <1>1 DEF GivenBack
  <2> QED BY <2>2, <2>3, <2>4
<1> QED BY <1>1, <1>2, <1>3, <1>4 DEF Grown, u

(* A step of one stream leaves the windows of the others as they are. *)
LEMMA OneWindow ==
    ASSUME Bounded, NEW b \in Brokers, Flags', lost'[b] \/ Complete(b)',
           \A x \in Brokers \ {b} : /\ pc'[x] = pc[x] /\ trail'[x] = trail[x]
                                    /\ promoted'[x] = promoted[x] /\ lost'[x] = lost[x]
    PROVE  Bounded'
<1> SUFFICES ASSUME NEW x \in Brokers, x # b PROVE lost'[x] \/ Complete(x)'
  BY DEF Bounded
<1>1. lost[x] \/ Complete(x)
  BY DEF Bounded
<1> QED BY <1>1 DEF Complete, Accounted

(* A step that writes no entry and does not touch the hand. *)
LEMMA QuietWindow ==
    ASSUME Inv, Bounded, NEW b \in Brokers, UNCHANGED <<trail, promoted, lost>>,
           NEW l, GoTo(b, l),
           \/ l = "refused"
           \/ l = "authorized" /\ pc[b] = "idle"
           \/ pc[b] \in {"started", "reading", "taking", "releasing", "released"}
              /\ l \in {"reading", "taking", "releasing", "released", "ending"}
           \/ pc[b] = "promoting" /\ l \in {"held", "failing"}
    PROVE  Bounded'
<1>1. /\ pc'[b] = l /\ \A x \in Brokers \ {b} : pc'[x] = pc[x]
  BY DEF GoTo, Inv, Typed
<1>2. lost[b] \/ Complete(b)
  BY DEF Bounded
<1>3. lost'[b] \/ Complete(b)'
  BY <1>1, <1>2 DEF Complete, Accounted, Underway
<1>4. Flags'
  BY DEF Bounded, Flags
<1> QED BY <1>1, <1>3, <1>4, OneWindow

(* A step that writes an entry. *)
LEMMA LoggedWindow ==
    ASSUME Inv, Bounded, NEW b \in Brokers, NEW e \in Entries, Log(b, e), UNCHANGED lost,
           Flags', NEW l, GoTo(b, l),
           \A x \in Brokers \ {b} : promoted'[x] = promoted[x],
           \/ e = "started" /\ pc[b] = "authorized" /\ l = "started"
           \/ e = "take" /\ pc[b] = "taking" /\ l = "promoting" /\ UNCHANGED promoted
           \/ e = "failed" /\ pc[b] = "failing" /\ l = "reading" /\ UNCHANGED promoted
           \/ e = "released" /\ pc[b] = "released" /\ l = "reading"
           \/ e = "released" /\ pc[b] = "ending" /\ l = "stopping"
           \/ e = "stopped" /\ pc[b] = "stopping" /\ l = "ended"
           \/ e = "stopped" /\ pc[b] = "ending" /\ ~promoted[b] /\ l = "ended"
    PROVE  Bounded'
<1>1. /\ pc'[b] = l /\ \A x \in Brokers \ {b} : pc'[x] = pc[x]
      /\ trail[b] \in Seq(Entries) /\ trail'[b] = Append(trail[b], e)
      /\ \A x \in Brokers \ {b} : trail'[x] = trail[x]
  BY DEF GoTo, Log, Inv, Typed
<1> DEFINE t == trail[b]
           u == trail'[b]
<1>0. t \in Seq(Entries) /\ u = Append(t, e)
  BY <1>1
<1> HIDE DEF t, u
<1>2. /\ Len(u) = Len(t) + 1
      /\ \A x \in Entries :
            Marks(u, x) = IF e = x THEN Marks(t, x) \cup {Len(u)} ELSE Marks(t, x)
      /\ \A i \in Marks(t, "take") :
            /\ GivenBack(t, i) => GivenBack(u, i)
            /\ e = "released" => GivenBack(u, i)
            /\ e = "failed" /\ i = Len(t) => GivenBack(u, i)
  <2>1. Grown(t, u, e)
    BY <1>0, Appended
  <2> QED BY <2>1 DEF Grown
<1>3. SUFFICES ASSUME Complete(b) PROVE Complete(b)'
  BY <1>1, OneWindow DEF Bounded
<1>5. CASE e = "started"
  <2>1. t = << >> /\ Marks(t, "started") = {} /\ Marks(t, "stopped") = {} /\ Marks(t, "take") = {}
        /\ Len(t) = 0
    BY <1>3, <1>5 DEF Complete, Marks, t
  <2>2. /\ Marks(u, "started") = {1} /\ Marks(u, "stopped") = {} /\ Marks(u, "take") = {}
    BY <1>2, <1>5, <2>1 DEF Entries
  <2> QED BY <1>1, <1>5, <2>2 DEF Complete, Underway, u
<1>6. CASE e # "started"
  <2>0. pc[b] \in Underway /\ l \in Underway \cup {"ended"}
        /\ l \notin {"idle", "authorized"} /\ (l = "ended" <=> e = "stopped")
    BY <1>6 DEF Underway
  <2>1. /\ Marks(t, "started") = {1} /\ Marks(t, "stopped") = {}
        /\ \A i \in Marks(t, "take") : Accounted(b, i)
    BY <1>3, <2>0 DEF Complete, t
  <2>2. /\ Marks(u, "started") = {1}
        /\ Marks(u, "stopped") = IF e = "stopped" THEN {Len(u)} ELSE {}
        /\ Marks(u, "take") = IF e = "take" THEN Marks(t, "take") \cup {Len(u)}
                              ELSE Marks(t, "take")
    BY <1>2, <1>6, <2>1 DEF Entries
  <2>3. ASSUME NEW i \in Marks(t, "take") PROVE Accounted(b, i)'
    <3>1. /\ Accounted(b, i)
          /\ GivenBack(t, i) => GivenBack(u, i)
          /\ e = "released" => GivenBack(u, i)
          /\ e = "failed" /\ i = Len(t) => GivenBack(u, i)
      BY <1>2, <2>1
    <3> QED BY <1>1, <1>6, <3>1 DEF Accounted, t, u
  <2>4. ASSUME e = "take", NEW i, i = Len(u) PROVE Accounted(b, i)'
    BY <1>1, <2>4 DEF Accounted, u
  <2>5. \A i \in Marks(u, "take") : Accounted(b, i)'
    BY <2>2, <2>3, <2>4
  <2>6. \A i \in Marks(trail'[b], "take") : Accounted(b, i)'
    BY <2>5 DEF u
  <2>7. /\ Marks(trail'[b], "started") = {1}
        /\ Marks(trail'[b], "stopped") = IF e = "stopped" THEN {Len(trail'[b])} ELSE {}
    BY <2>2 DEF u
  <2>8. pc'[b] \in Underway => pc'[b] # "ended"
    BY DEF Underway
  <2> QED BY <1>1, <2>0, <2>6, <2>7, <2>8 DEF Complete
<1> QED BY <1>5, <1>6

(* A step that loses its entry. *)
LEMMA LostWindow ==
    ASSUME Inv, Bounded, NEW b \in Brokers, lost' = [lost EXCEPT ![b] = TRUE],
           UNCHANGED trail, NEW l, GoTo(b, l), Flags',
           \A x \in Brokers \ {b} : promoted'[x] = promoted[x]
    PROVE  Bounded'
<1>1. lost'[b] /\ \A x \in Brokers \ {b} : lost'[x] = lost[x] /\ pc'[x] = pc[x]
  BY DEF Bounded, Flags, GoTo, Inv, Typed
<1> QED BY <1>1, OneWindow

(* The steps that leave the window of every stream alone. *)
LEMMA ElsewhereBounded ==
    ASSUME Bounded, UNCHANGED <<pc, trail, promoted, lost>>
    PROVE  Bounded'
BY DEF Bounded, Flags, Complete, Accounted

LEMMA RequestBounded ==
    ASSUME Inv, Bounded, NEW b \in Brokers, Request(b) PROVE Bounded'
<1>1. CASE Authorize(b)
  BY <1>1, QuietWindow DEF Authorize
<1>2. CASE StartSupervision(b)
  <2>1. CASE Log(b, "started") /\ GoTo(b, "started")
    BY <1>2, <2>1, LoggedWindow DEF StartSupervision, Bounded, Flags, Entries
  <2>2. CASE UNCHANGED trail /\ GoTo(b, "refused")
    BY <1>2, <2>2, QuietWindow DEF StartSupervision
  <2> QED BY <1>2, <2>1, <2>2 DEF StartSupervision
<1>3. CASE Connect(b)
  BY <1>3, QuietWindow DEF Connect
<1>4. CASE ConnectFails(b)
  BY <1>4, QuietWindow DEF ConnectFails
<1> QED BY <1>1, <1>2, <1>3, <1>4 DEF Request

LEMMA BrokeringBounded ==
    ASSUME Inv, Bounded, NEW b \in Brokers, Brokering(b) \/ ForwardFails(b) PROVE Bounded'
<1>0. /\ lost \in [Brokers -> BOOLEAN] /\ promoted \in [Brokers -> BOOLEAN]
      /\ trail \in [Brokers -> Seq(Entries)] /\ pc \in [Brokers -> Places]
  BY DEF Bounded, Flags, Inv, Typed
<1>1. CASE TakeHandForSupervision(b)
  <2>1. CASE Log(b, "take") /\ GoTo(b, "promoting")
    BY <1>0, <1>1, <2>1, LoggedWindow DEF TakeHandForSupervision, Flags, Entries
  <2>2. CASE UNCHANGED trail /\ GoTo(b, "reading")
    BY <1>1, <2>2, QuietWindow DEF TakeHandForSupervision
  <2> QED BY <1>1, <2>1, <2>2 DEF TakeHandForSupervision
<1>2. CASE Promote(b)
  BY <1>2, QuietWindow DEF Promote
<1>3. CASE SetPromoted(b)
  <2>1. /\ pc[b] = "held" /\ pc'[b] = "reading" /\ promoted'[b] /\ UNCHANGED <<trail, lost>>
        /\ \A x \in Brokers \ {b} : pc'[x] = pc[x] /\ promoted'[x] = promoted[x]
        /\ Flags'
    BY <1>0, <1>3 DEF SetPromoted, GoTo, Flags
  <2>2. lost'[b] \/ Complete(b)'
    BY <2>1 DEF Bounded, Complete, Accounted, Underway
  <2> QED BY <2>1, <2>2, OneWindow
<1>4. CASE LogFailed(b)
  <2>1. UNCHANGED promoted /\ pc[b] = "failing" /\ GoTo(b, "reading")
    BY <1>4 DEF LogFailed
  <2>2. CASE Log(b, "failed") /\ UNCHANGED lost
    BY <1>0, <2>1, <2>2, LoggedWindow DEF Flags, Entries
  <2>3. CASE UNCHANGED trail /\ lost' = [lost EXCEPT ![b] = TRUE]
    BY <1>0, <2>1, <2>3, LostWindow DEF Flags
  <2> QED BY <1>4, <2>2, <2>3 DEF LogFailed, LogOrLose
<1>5. CASE Release(b)
  BY <1>5, QuietWindow DEF Release
<1>6. CASE LogReleased(b)
  <2>1. /\ promoted' = [promoted EXCEPT ![b] = FALSE]
        /\ pc[b] = "released" /\ GoTo(b, "reading")
    BY <1>6 DEF LogReleased
  <2>2. /\ promoted' \in [Brokers -> BOOLEAN]
        /\ \A x \in Brokers \ {b} : promoted'[x] = promoted[x]
    BY <1>0, <2>1
  <2>3. CASE Log(b, "released") /\ UNCHANGED lost
    BY <1>0, <2>1, <2>2, <2>3, LoggedWindow DEF Flags, Entries
  <2>4. CASE UNCHANGED trail /\ lost' = [lost EXCEPT ![b] = TRUE]
    BY <1>0, <2>1, <2>2, <2>4, LostWindow DEF Flags
  <2> QED BY <1>6, <2>3, <2>4 DEF LogReleased, LogOrLose
<1>7. CASE ReadFails(b) \/ ForwardFails(b)
  BY <1>7, QuietWindow DEF ReadFails, ForwardFails, LeaveLoop
<1>8. CASE EndHeld(b)
  <2>1. UNCHANGED promoted /\ pc[b] = "ending"
        /\ GoTo(b, IF trail' = trail THEN "ended" ELSE "stopping")
    BY <1>8 DEF EndHeld
  <2>2. CASE Log(b, "released") /\ UNCHANGED lost
    <3>1. trail' # trail
      <4>1. trail[b] \in Seq(Entries) /\ trail'[b] = Append(trail[b], "released")
        BY <1>0, <2>2 DEF Log
      <4>2. Grown(trail[b], trail'[b], "released")
        BY <4>1, Appended DEF Entries
      <4> QED BY <4>2 DEF Grown
    <3> QED BY <1>0, <2>1, <2>2, <3>1, LoggedWindow DEF Flags, Entries
  <2>3. CASE UNCHANGED trail /\ lost' = [lost EXCEPT ![b] = TRUE]
    BY <1>0, <2>1, <2>3, LostWindow DEF Flags
  <2> QED BY <1>8, <2>2, <2>3 DEF EndHeld, LogOrLose
<1>9. CASE EndSupervision(b)
  <2>1. /\ UNCHANGED promoted /\ GoTo(b, "ended")
        /\ pc[b] = "stopping" \/ (pc[b] = "ending" /\ ~promoted[b])
    BY <1>9 DEF EndSupervision
  <2>2. CASE Log(b, "stopped") /\ UNCHANGED lost
    BY <1>0, <2>1, <2>2, LoggedWindow DEF Flags, Entries
  <2>3. CASE UNCHANGED trail /\ lost' = [lost EXCEPT ![b] = TRUE]
    BY <1>0, <2>1, <2>3, LostWindow DEF Flags
  <2> QED BY <1>9, <2>2, <2>3 DEF EndSupervision, LogOrLose
<1> QED
  BY <1>1, <1>2, <1>3, <1>4, <1>5, <1>6, <1>7, <1>8, <1>9 DEF Brokering

(* Every step keeps the windows bounded. *)
LEMMA NextBounded == Inv /\ Bounded /\ [Next]_vars => Bounded'
<1> SUFFICES ASSUME Inv, Bounded, [Next]_vars PROVE Bounded'
  OBVIOUS
<1>1. ASSUME NEW b \in Brokers, NEW type \in {"take", "release"}, ReadControl(b, type)
      PROVE  Bounded'
  BY <1>1, QuietWindow DEF ReadControl
<1>2. ASSUME NEW b \in Brokers, \/ Pumping(b) \/ Reauth(b) \/ LoopEnds(b, "ping")
      PROVE  UNCHANGED <<pc, trail, promoted, lost>>
  BY <1>2 DEF Pumping, PumpEnds, Pump, Reauth, Reauthorize, Demote, ReauthLeaves, LoopEnds
<1>3. CASE Environment
  <2>1. CASE UNCHANGED <<pc, trail, promoted, lost>>
    BY <2>1, ElsewhereBounded
  <2>2. CASE Crash
    <3>1. /\ UNCHANGED <<trail, promoted, lost>>
          /\ \A b \in Brokers : pc'[b] = IF pc[b] = "idle" THEN "idle" ELSE "dead"
      BY <2>2 DEF Crash
    <3> QED BY <3>1 DEF Bounded, Flags, Complete, Underway
  <2> QED
    BY <1>3, <2>1, <2>2
    DEF Environment, GroupLost, RoleLost, PlanLost, SocketDrops, others
<1>4. CASE UNCHANGED vars
  BY <1>4, ElsewhereBounded DEF vars
<1> QED
  BY <1>1, <1>2, <1>3, <1>4, RequestBounded, BrokeringBounded, ElsewhereBounded DEF Next

(* Whoever ends a stream and whenever, its trail starts and stops it once    *)
(* and gives every hand back, unless an entry was lost.                     *)
THEOREM WindowsAreBounded == Spec => []WindowIsBounded
<1>1. Init => Bounded
  BY DEF Init, Bounded, Flags, Complete, Underway
<1>2. Bounded => WindowIsBounded
  BY DEF Bounded, Complete, Accounted, Marks, WindowIsBounded
<1> QED
  BY InitInv, NextKeeps, NextBounded, <1>1, <1>2, PTL DEF Spec
=============================================================================
