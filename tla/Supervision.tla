----------------------------- MODULE Supervision -----------------------------
(***************************************************************************)
(* Trainers watch a learner's terminal.  Each stream joins the trainer's    *)
(* browser to the learner's console at tt-backend and runs four goroutines: *)
(* the broker of the trainer's frames, which takes and releases the hand;   *)
(* the pump of the console's frames, which learns the stream's attachment;  *)
(* the periodic re-authorization; the keepalive.  Whoever sees an end tears *)
(* both sockets down.  The audit trail must tell who held the hand.         *)
(***************************************************************************)
EXTENDS FiniteSets, Integers, Sequences

CONSTANTS
    Brokers,    \* the streams, and their attachments at tt-backend
    Admins,     \* streams of administrators
    Groups,     \* class groups
    Learner,    \* the attachment of the learner's own console
    None,
    MaxAsks,    \* bound: take and release frames of a trainer
    MaxFaults   \* bound: failed calls, lost answers, crashes

ASSUME SupervisionAssumption ==
    /\ Learner \notin Brokers /\ None \notin Brokers \cup {Learner}
    /\ Admins \subseteq Brokers
    /\ MaxAsks \in Nat /\ MaxFaults \in Nat

VARIABLES
    class,     \* active groups of the session's organization the learner is in
    manages,   \* the groups each trainer owns or manages
    plan,      \* whether the trainer's plan has supervision
    pc,        \* the goroutine of the request
    open,      \* the sockets of the stream that are open
    loops,     \* its other goroutines, "reauth" by its position
    aid,       \* attachmentID
    promoted,
    frames,    \* attachment events tt-backend has sent and the pump not read
    role,      \* the role of each attachment at tt-backend
    trail,     \* the audit entries of each stream
    lost,      \* history: an entry logged on a best-effort basis was lost
    asks, faults

rights == <<class, manages, plan>>
vars == <<rights, pc, open, loops, aid, promoted, frames, role, trail, lost, asks, faults>>

Attachments == Brokers \cup {Learner}
Sockets == {"client", "upstream"}

HasSupervisionAccess(b) == b \in Admins \/ manages[b] \cap class # {}

GoTo(b, l) == pc' = [pc EXCEPT ![b] = l]
Fail == faults < MaxFaults /\ faults' = faults + 1

(* Log: an entry is written, or the call fails.                              *)
Log(b, entry) == trail' = [trail EXCEPT ![b] = Append(@, entry)]
LogOrLose(b, entry) ==
    \/ Log(b, entry) /\ UNCHANGED <<lost, faults>>
    \/ Fail /\ lost' = [lost EXCEPT ![b] = TRUE] /\ UNCHANGED trail

(* Closing the upstream socket detaches the stream at tt-backend.            *)
Close(b, S) ==
    /\ open' = [open EXCEPT ![b] = @ \ S]
    /\ role' = IF "upstream" \in S THEN [role EXCEPT ![b] = "none"] ELSE role
Teardown(b) == Close(b, Sockets)

(* tt-backend changes the role of an attachment it has.                      *)
Patched(a, r) == [role EXCEPT ![a] = r]

Init ==
    /\ class = Groups
    /\ manages = [b \in Brokers |-> Groups]
    /\ plan = [b \in Brokers |-> TRUE]
    /\ pc = [b \in Brokers |-> "idle"]
    /\ open = [b \in Brokers |-> {}]
    /\ loops = [b \in Brokers |-> {}]
    /\ aid = [b \in Brokers |-> None]
    /\ promoted = [b \in Brokers |-> FALSE]
    /\ frames = [b \in Brokers |-> {}]
    /\ role = [a \in Attachments |-> IF a = Learner THEN "interactive" ELSE "none"]
    /\ trail = [b \in Brokers |-> << >>]
    /\ lost = [b \in Brokers |-> FALSE]
    /\ asks = [b \in Brokers |-> 0]
    /\ faults = 0

-----------------------------------------------------------------------------
(* SuperviseSession up to the broker.                                        *)

Authorize(b) ==
    /\ pc[b] = "idle"
    /\ GoTo(b, IF HasSupervisionAccess(b) /\ plan[b] THEN "authorized" ELSE "refused")
    /\ UNCHANGED <<rights, open, loops, aid, promoted, frames, role, trail, lost, asks, faults>>

StartSupervision(b) ==
    /\ pc[b] = "authorized"
    /\ \/ /\ HasSupervisionAccess(b)
          /\ Log(b, "started") /\ GoTo(b, "started") /\ UNCHANGED faults
       \/ /\ ~HasSupervisionAccess(b)
          /\ GoTo(b, "refused") /\ UNCHANGED <<trail, faults>>
       \/ /\ HasSupervisionAccess(b) /\ Fail
          /\ GoTo(b, "refused") /\ UNCHANGED trail
    /\ UNCHANGED <<rights, open, loops, aid, promoted, frames, role, lost, asks>>

(* tt-backend tells a new attachment its own id, and announces it to the     *)
(* others; the frames are read in any order.                                *)
SelfFrame(b) == [event |-> "self", id |-> b]
JoinedFrame(a) == [event |-> "joined", id |-> a]

Connect(b) ==
    /\ pc[b] = "started"
    /\ GoTo(b, "reading")
    /\ open' = [open EXCEPT ![b] = Sockets]
    /\ loops' = [loops EXCEPT ![b] = {"ping", "reauth", "pump"}]
    /\ role' = Patched(b, "observer")
    /\ frames' = [x \in Brokers |->
          CASE x = b -> {SelfFrame(b), JoinedFrame(Learner)}
            [] x # b /\ "upstream" \in open[x] -> frames[x] \cup {JoinedFrame(b)}
            [] OTHER -> frames[x]]
    /\ UNCHANGED <<rights, aid, promoted, trail, lost, asks, faults>>

(* A lookup, the upgrade or the dial fails: no entry closes the window.      *)
ConnectFails(b) ==
    /\ pc[b] = "started" /\ Fail
    /\ GoTo(b, "refused")
    /\ UNCHANGED <<rights, open, loops, aid, promoted, frames, role, trail, lost, asks>>

-----------------------------------------------------------------------------
(* brokerClientFrames and handleControl.                                     *)

(* The attachment id is read, and for take_hand the plan is resolved, before *)
(* access is checked.                                                       *)
ReadControl(b, type) ==
    /\ pc[b] = "reading" /\ "client" \in open[b]
    /\ asks[b] < MaxAsks /\ asks' = [asks EXCEPT ![b] = @ + 1]
    /\ GoTo(b, IF aid[b] = None \/ (type = "take" /\ ~plan[b]) THEN "reading"
               ELSE IF type = "take" THEN "taking" ELSE "releasing")
    /\ UNCHANGED <<rights, open, loops, aid, promoted, frames, role, trail, lost, faults>>

TakeHandForSupervision(b) ==
    /\ pc[b] = "taking"
    /\ \/ HasSupervisionAccess(b) /\ Log(b, "take") /\ GoTo(b, "promoting") /\ UNCHANGED faults
       \/ ~HasSupervisionAccess(b) /\ GoTo(b, "reading") /\ UNCHANGED <<trail, faults>>
       \/ HasSupervisionAccess(b) /\ Fail /\ GoTo(b, "reading") /\ UNCHANGED trail
    /\ UNCHANGED <<rights, open, loops, aid, promoted, frames, role, lost, asks>>

(* patchAttachmentRole: done; refused, or never there; done and not answered. *)
PatchAttachmentRole(a, r) ==
    role[a] # "none" /\ role' = Patched(a, r) /\ UNCHANGED faults
PatchFails(a, r) ==
    \/ role[a] = "none" /\ UNCHANGED <<role, faults>>
    \/ Fail /\ UNCHANGED role
    \/ Fail /\ role[a] # "none" /\ role' = Patched(a, r)

Promote(b) ==
    /\ pc[b] = "promoting"
    /\ \/ PatchAttachmentRole(aid[b], "interactive") /\ GoTo(b, "held")
       \/ PatchFails(aid[b], "interactive") /\ GoTo(b, "failing")
    /\ UNCHANGED <<rights, open, loops, aid, promoted, frames, trail, lost, asks>>

SetPromoted(b) ==
    /\ pc[b] = "held"
    /\ promoted' = [promoted EXCEPT ![b] = TRUE]
    /\ GoTo(b, "reading")
    /\ UNCHANGED <<rights, open, loops, aid, frames, role, trail, lost, asks, faults>>

LogFailed(b) ==
    /\ pc[b] = "failing"
    /\ LogOrLose(b, "failed") /\ GoTo(b, "reading")
    /\ UNCHANGED <<rights, open, loops, aid, promoted, frames, role, asks>>

Release(b) ==
    /\ pc[b] = "releasing"
    /\ \/ PatchAttachmentRole(aid[b], "observer") /\ GoTo(b, "released")
       \/ PatchFails(aid[b], "observer") /\ GoTo(b, "reading")
    /\ UNCHANGED <<rights, open, loops, aid, promoted, frames, trail, lost, asks>>

LogReleased(b) ==
    /\ pc[b] = "released"
    /\ promoted' = [promoted EXCEPT ![b] = FALSE]
    /\ LogOrLose(b, "released") /\ GoTo(b, "reading")
    /\ UNCHANGED <<rights, open, loops, aid, frames, role, asks>>

LeaveLoop(b) ==
    /\ pc[b] = "reading" /\ Teardown(b) /\ GoTo(b, "ending")
    /\ UNCHANGED <<rights, loops, aid, promoted, frames, trail, lost, asks, faults>>

(* The trainer's socket has ended; or it sends input that cannot go on.      *)
ReadFails(b) == "client" \notin open[b] /\ LeaveLoop(b)
ForwardFails(b) == "client" \in open[b] /\ "upstream" \notin open[b] /\ LeaveLoop(b)

(* EndSupervision, and the deferred stop.                                    *)
EndHeld(b) ==
    /\ pc[b] = "ending" /\ promoted[b]
    /\ LogOrLose(b, "released")
    /\ GoTo(b, IF trail' = trail THEN "ended" ELSE "stopping")
    /\ UNCHANGED <<rights, open, loops, aid, promoted, frames, role, asks>>

EndSupervision(b) ==
    /\ pc[b] = "stopping" \/ (pc[b] = "ending" /\ ~promoted[b])
    /\ LogOrLose(b, "stopped") /\ GoTo(b, "ended")
    /\ UNCHANGED <<rights, open, loops, aid, promoted, frames, role, asks>>

-----------------------------------------------------------------------------
(* pumpUpstream and bindSelfAttachmentID: the first frame about the stream's *)
(* own attachment is the one that counts.                                   *)

BindFirstAttachmentID(current, f) == IF current = None THEN f.id ELSE current
BindSelfAttachmentID(current, f) ==
    IF current = None /\ f.event = "self" THEN f.id ELSE current

Pump(b, f) ==
    /\ "pump" \in loops[b] /\ open[b] # {} /\ f \in frames[b]
    /\ frames' = [frames EXCEPT ![b] = @ \ {f}]
    /\ aid' = [aid EXCEPT ![b] = BindSelfAttachmentID(@, f)]
    /\ UNCHANGED <<rights, pc, open, loops, promoted, role, trail, lost, asks, faults>>

(* The read or the write fails.                                              *)
PumpEndsAlone(b) ==
    /\ "pump" \in loops[b] /\ open[b] # Sockets
    /\ loops' = [loops EXCEPT ![b] = @ \ {"pump"}]
    /\ UNCHANGED <<rights, pc, open, role, aid, promoted, frames, trail, lost, asks, faults>>
PumpEnds(b) ==
    /\ "pump" \in loops[b] /\ open[b] # Sockets
    /\ Teardown(b)
    /\ loops' = [loops EXCEPT ![b] = @ \ {"pump"}]
    /\ UNCHANGED <<rights, pc, aid, promoted, frames, trail, lost, asks, faults>>

(* reauthLoop.  What it reads of the broker is used after the lock.          *)
Move(b, from, to) == loops' = [loops EXCEPT ![b] = (@ \ {from}) \cup to]

Reauthorize(b) ==
    /\ "reauth" \in loops[b] /\ ~HasSupervisionAccess(b)
    /\ Move(b, "reauth", IF promoted[b] /\ aid[b] # None THEN {"demoting"} ELSE {"leaving"})
    /\ UNCHANGED <<rights, pc, open, aid, promoted, frames, role, trail, lost, asks, faults>>

DemoteAndForget(b) ==
    /\ "demoting" \in loops[b]
    /\ PatchAttachmentRole(aid[b], "observer") \/ PatchFails(aid[b], "observer")
    /\ Move(b, "demoting", {"leaving"})
    /\ promoted' = [promoted EXCEPT ![b] = FALSE]
    /\ UNCHANGED <<rights, pc, open, aid, frames, trail, lost, asks>>
Demote(b) ==
    /\ "demoting" \in loops[b]
    /\ PatchAttachmentRole(aid[b], "observer") \/ PatchFails(aid[b], "observer")
    /\ Move(b, "demoting", {"leaving"})
    /\ UNCHANGED <<rights, pc, open, aid, promoted, frames, trail, lost, asks>>

ReauthLeaves(b) ==
    /\ "leaving" \in loops[b]
    /\ Teardown(b) /\ Move(b, "leaving", {})
    /\ UNCHANGED <<rights, pc, aid, promoted, frames, trail, lost, asks, faults>>

(* done is closed when the request returns; a ping to a closed browser fails. *)
LoopEnds(b, l) ==
    /\ l \in loops[b]
    /\ \/ pc[b] = "ended" /\ l \in {"ping", "reauth"}
       \/ "client" \notin open[b] /\ l = "ping"
    /\ Move(b, l, {})
    /\ UNCHANGED <<rights, pc, open, aid, promoted, frames, role, trail, lost, asks, faults>>

-----------------------------------------------------------------------------
(* The browser and the console go away, rights are withdrawn, the server     *)
(* stops.                                                                   *)

SocketDrops(b, s) ==
    /\ s \in open[b] /\ Close(b, {s})
    /\ UNCHANGED <<rights, pc, loops, aid, promoted, frames, trail, lost, asks, faults>>

others == <<pc, open, loops, aid, promoted, frames, role, trail, lost, asks, faults>>

GroupLost(g) ==
    /\ g \in class /\ class' = class \ {g}
    /\ UNCHANGED <<manages, plan, others>>

RoleLost(b, g) ==
    /\ g \in manages[b] /\ manages' = [manages EXCEPT ![b] = @ \ {g}]
    /\ UNCHANGED <<class, plan, others>>

PlanLost(b) ==
    /\ plan[b] /\ plan' = [plan EXCEPT ![b] = FALSE]
    /\ UNCHANGED <<class, manages, others>>

Crash ==
    /\ Fail
    /\ pc' = [b \in Brokers |-> IF pc[b] = "idle" THEN "idle" ELSE "dead"]
    /\ open' = [b \in Brokers |-> {}]
    /\ loops' = [b \in Brokers |-> {}]
    /\ role' = [a \in Attachments |-> IF a = Learner THEN role[a] ELSE "none"]
    /\ UNCHANGED <<rights, aid, promoted, frames, trail, lost, asks>>

Request(b) == Authorize(b) \/ StartSupervision(b) \/ Connect(b) \/ ConnectFails(b)
Brokering(b) ==
    \/ TakeHandForSupervision(b) \/ Promote(b) \/ SetPromoted(b) \/ LogFailed(b)
    \/ Release(b) \/ LogReleased(b)
    \/ ReadFails(b) \/ EndHeld(b) \/ EndSupervision(b)
Pumping(b) == PumpEnds(b) \/ \E f \in frames[b] : Pump(b, f)
Reauth(b) ==
    \/ Reauthorize(b) \/ Demote(b) \/ ReauthLeaves(b) \/ LoopEnds(b, "reauth")

Environment ==
    \/ \E g \in Groups : GroupLost(g) \/ \E b \in Brokers : RoleLost(b, g)
    \/ \E b \in Brokers : PlanLost(b)
    \/ \E b \in Brokers, s \in Sockets : SocketDrops(b, s)
    \/ Crash

Next ==
    \/ \E b \in Brokers : \/ Request(b) \/ Brokering(b) \/ Pumping(b) \/ Reauth(b)
                          \/ LoopEnds(b, "ping") \/ ForwardFails(b)
                          \/ \E type \in {"take", "release"} : ReadControl(b, type)
    \/ Environment

Spec == Init /\ [][Next]_vars

(* Every goroutine is scheduled, and every call it waits for has a timeout.  *)
FairSpec ==
    /\ Spec
    /\ \A b \in Brokers :
          /\ WF_vars(Request(b)) /\ WF_vars(Brokering(b)) /\ WF_vars(Pumping(b))
          /\ WF_vars(Reauth(b)) /\ WF_vars(LoopEnds(b, "ping"))

-----------------------------------------------------------------------------
Last(s) == s[Len(s)]

(* Whoever can type besides the learner is on record: the last entry of that *)
(* stream says that the hand was taken, or that taking it failed and it may  *)
(* be held for want of an answer; and no stream ever moves the learner's own *)
(* attachment (audit before act, and the incident bindSelfAttachmentID tells *)
(* of, where the release of one trainer demoted the learner).               *)
HandIsOnRecord ==
    /\ role[Learner] = "interactive"
    /\ \A b \in Brokers : role[b] = "interactive" =>
          trail[b] # << >> /\ Last(trail[b]) \in {"take", "failed"}

(* A hand taken at entry i of a trail is given back further on.              *)
GivenBack(t, i) ==
    \/ i < Len(t) /\ t[i + 1] = "failed"
    \/ \E j \in (i + 1)..Len(t) : t[j] = "released"

(* A stream that has ended is bounded in the trail, whoever tore it down and *)
(* whatever the trainer was doing: it starts and stops once, and each hand   *)
(* taken was given back, unless an entry written on a best-effort basis was  *)
(* lost (EndSupervision).                                                   *)
WindowIsBounded ==
    \A b \in Brokers : pc[b] = "ended" /\ ~lost[b] =>
        LET t == trail[b] IN
        /\ {i \in DOMAIN t : t[i] = "started"} = {1}
        /\ {i \in DOMAIN t : t[i] = "stopped"} = {Len(t)}
        /\ \A i \in DOMAIN t : t[i] = "take" => GivenBack(t, i)

(* Nothing of the stream is left: no socket, no goroutine, no attachment.    *)
Over(b) ==
    /\ pc[b] \in {"idle", "refused", "ended", "dead"}
    /\ open[b] = {} /\ loops[b] = {} /\ role[b] = "none"

(* A trainer who loses access loses the stream and the hand, and a stream    *)
(* one side of which is gone comes to its end on the other side too (reauth- *)
(* Loop, the teardown of run and pumpUpstream: no half-open leak).           *)
StreamsEnd ==
    \A b \in Brokers :
        (~HasSupervisionAccess(b) \/ Cardinality(open[b]) = 1) ~> Over(b)
=============================================================================
