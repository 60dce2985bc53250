---------------------------- MODULE WebhookEvents ----------------------------
(***************************************************************************)
(* The Stripe events that the server receives and the webhook_events table. *)
(* Stripe posts an event until it is answered 200; a delivery first claims  *)
(* the event's row, then runs the handler, then records its outcome.       *)
(***************************************************************************)
EXTENDS Naturals, FiniteSets

CONSTANTS
    MaxEvents,   \* the number of events a behaviour may contain
    Hooks,       \* the deliveries that can be under way at once
    InOrder,     \* BOOLEAN: an event waits for the earlier ones to be tried, and
                 \* for those of its type to be answered 200
    Timeouts     \* BOOLEAN: Stripe gives up on a slow delivery and starts another

ASSUME EventsAssumption == MaxEvents \in Nat

VARIABLES
    sent,        \* the events Stripe has emitted so far, in order
    row,         \* the status of an event's row in webhook_events
    acked,       \* the events that were answered 200
    hook         \* the delivery each hook is working on

eventVars == <<sent, row, acked, hook>>

Events == 1 .. MaxEvents
Resting == [pc |-> "idle", ev |-> 0, seen |-> "none"]

EventsInit ==
    /\ sent = <<>>
    /\ row = [e \in Events |-> "none"]
    /\ acked = {}
    /\ hook = [h \in Hooks |-> Resting]

(* Stripe emits the events of es, a sequence. *)
Emit(es) ==
    /\ Cardinality(DOMAIN sent) + Cardinality(DOMAIN es) <= MaxEvents
    /\ sent' = [i \in 1 .. (Cardinality(DOMAIN sent) + Cardinality(DOMAIN es)) |->
                   IF i \in DOMAIN sent THEN sent[i] ELSE es[i - Cardinality(DOMAIN sent)]]

(* What the handler of h is processing. *)
Event(h) == sent[hook[h].ev]
Running(h) == hook[h].pc = "run"
Handled(e) == \E h \in Hooks : hook[h].ev = e

Deliverable(e) ==
    /\ e \in DOMAIN sent \ acked
    /\ Timeouts \/ ~Handled(e)
    /\ InOrder => \A f \in (1 .. (e - 1)) \ acked :
          row[f] = "failed" /\ sent[f].type # sent[e].type

-----------------------------------------------------------------------------
(* A delivery reads the event's row. *)
Post(h, e) ==
    /\ hook[h].pc = "idle"
    /\ Deliverable(e)
    /\ hook' = [hook EXCEPT ![h] = [pc |-> "seen", ev |-> e, seen |-> row[e]]]
    /\ UNCHANGED <<sent, row, acked>>

(* Faulty variant: a row left reserved by a crash is claimed again. *)
ClaimsReserved(h) == hook[h].seen # "processed" /\ row[hook[h].ev] = hook[h].seen

(***************************************************************************)
(* The INSERT is refused by the unique index when a row has appeared, the   *)
(* UPDATE is conditional on the row still being failed.                    *)
(***************************************************************************)
Claims(h) == hook[h].seen \in {"none", "failed"} /\ row[hook[h].ev] = hook[h].seen

Claim(h) ==
    LET e == hook[h].ev IN
    /\ hook[h].pc = "seen"
    /\ IF Claims(h)
       THEN /\ row' = [row EXCEPT ![e] = "reserved"]
            /\ hook' = [hook EXCEPT ![h].pc = "run"]
            /\ UNCHANGED acked
       ELSE /\ acked' = acked \cup {e}
            /\ hook' = [hook EXCEPT ![h] = Resting]
            /\ UNCHANGED row
    /\ UNCHANGED sent

(* markProcessed and 200. *)
Processed(h) ==
    /\ row' = [row EXCEPT ![hook[h].ev] = IF @ = "none" THEN @ ELSE "processed"]
    /\ acked' = acked \cup {hook[h].ev}
    /\ hook' = [hook EXCEPT ![h] = Resting]

(* markFailed and 500. *)
Failed(h) ==
    /\ row' = [row EXCEPT ![hook[h].ev] = IF @ = "none" THEN @ ELSE "failed"]
    /\ hook' = [hook EXCEPT ![h] = Resting]
    /\ UNCHANGED acked

(* The handler has done its work; the event is marked and answered later. *)
Done(h) == hook' = [hook EXCEPT ![h].pc = "done"] /\ UNCHANGED <<row, acked>>
Acknowledge(h) == hook[h].pc = "done" /\ Processed(h) /\ UNCHANGED sent

(* The server dies while h works: the connection breaks, the row stays. *)
HookDies(h) ==
    /\ hook[h].pc # "idle"
    /\ hook' = [hook EXCEPT ![h] = Resting]
    /\ UNCHANGED <<sent, row, acked>>

(* Stripe stops retrying an event that was refused for three days. *)
Abandon(e) ==
    /\ e \in DOMAIN sent \ acked
    /\ row[e] = "failed" /\ ~Handled(e)
    /\ acked' = acked \cup {e}
    /\ UNCHANGED <<sent, row, hook>>

(* cleanupExpiredWebhookEvents: a day after the last of them was answered. *)
Expire ==
    /\ sent # <<>> /\ DOMAIN sent \subseteq acked
    /\ \A h \in Hooks : hook[h] = Resting
    /\ sent' = <<>>
    /\ row' = [e \in Events |-> "none"]
    /\ acked' = {}
    /\ UNCHANGED hook
=============================================================================
