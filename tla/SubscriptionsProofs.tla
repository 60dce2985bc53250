------------------------- MODULE SubscriptionsProofs -------------------------
(***************************************************************************)
(* Two arguments about one customer's subscriptions.                       *)
(*                                                                         *)
(* The first counts credit notes.  The local refund is what Stripe issued  *)
(* but for the notes whose handler has not run; the claim of the event's   *)
(* row is what makes a handler run once, and what it has read is current    *)
(* when it saves because no other handler saves in between (SavesApart).    *)
(* It assumes nothing of the order of events or of requests.               *)
(*                                                                         *)
(* The second follows one subscription and its row, when events arrive in  *)
(* turn and requests do not race them (Regular).  The log of events is a   *)
(* history of the subscription (History): its newest entry tells what      *)
(* Stripe has, and each entry tells what the one before it led to.  The    *)
(* events that write the row run in that order (Ordering), so the row is   *)
(* what the last one that ran said, and what the next one expects          *)
(* (RowFacts); what a request has read is still so when it writes (Jobs).  *)
(***************************************************************************)
EXTENDS Subscriptions, FiniteSetTheorems, WellFoundedInduction, Sequences, TLAPS

RowStatus == {"none", "reserved", "processed", "failed"}
Delivery == [pc : {"idle", "seen", "run", "done"}, ev : Nat, seen : RowStatus]

(* The log of the events, and what the webhook_events table says of each. *)
Log ==
    /\ \E n \in Nat : n <= MaxEvents /\ DOMAIN sent = 1 .. n
    /\ row \in [Events -> RowStatus]
    /\ acked \subseteq DOMAIN sent
    /\ \A e \in Events : e \notin DOMAIN sent => row[e] = "none"
    /\ \A e \in acked : row[e] # "none"

(* A handler runs over a reserved row, and no other one runs over it. *)
AtWork(h) == hook[h].pc \in {"run", "done"}

Deliveries ==
    /\ hook \in [Hooks -> Delivery]
    /\ \A h \in Hooks :
         /\ hook[h].pc = "idle" => hook[h] = Resting
         /\ hook[h].pc # "idle" => hook[h].ev \in DOMAIN sent
         /\ hook[h].pc = "seen" /\ hook[h].seen # "none" => row[hook[h].ev] # "none"
         /\ AtWork(h) => row[hook[h].ev] = "reserved"
    /\ \A h, k \in Hooks : AtWork(h) /\ AtWork(k) /\ hook[h].ev = hook[k].ev => h = k

Intake == Log /\ Deliveries

(* The credit notes whose handler has not done its work yet. *)
IsNote(e) == sent[e].type = "note"
Untried(e) == row[e] \in {"none", "failed"} \/ \E h \in Hooks : Running(h) /\ hook[h].ev = e
Uncounted == {e \in DOMAIN sent : IsNote(e) /\ Untried(e)}

(* The local refund is what Stripe issued, but for the notes still to come. *)
Capped(n) == IF n <= Amount THEN n ELSE Amount

Account == [notes : Nat, refunded : Nat \cup {-1}, held : [Hooks -> Nat \cup {-1}]]

Credited ==
    /\ invoice \in Account
    /\ invoice.refunded = -1 => invoice.notes = 0 /\ \A e \in DOMAIN sent : ~IsNote(e)
    /\ invoice.refunded # -1 =>
         /\ Cardinality(Uncounted) <= invoice.notes
         /\ invoice.refunded = Capped(invoice.notes - Cardinality(Uncounted))

(* Stripe sends them again, as it has no answer to them. *)
Refunds ==
    /\ \A e \in Uncounted : e \notin acked
    /\ Credited

(* What a handler has read of the invoice is what the row still says. *)
Reads(h) == Running(h) /\ IsNote(hook[h].ev)
Readings == \A h \in Hooks : invoice.held[h] # -1 => Reads(h) /\ invoice.held[h] = invoice.refunded

(* Nor does anybody else change the row of a note between its look-up and its claim. *)
SeesNote(h) == hook[h].pc = "seen" /\ IsNote(hook[h].ev)
Sightings == \A h \in Hooks : SeesNote(h) => row[hook[h].ev] = hook[h].seen

-----------------------------------------------------------------------------
(* The lesser and the greater of two numbers. *)
LEMMA MinOfTwo == ASSUME NEW a \in Int, NEW b \in Int PROVE Min({a, b}) = IF a <= b THEN a ELSE b
<1> DEFINE m == IF a <= b THEN a ELSE b
<1>1. m \in {a, b} /\ \A y \in {a, b} : m <= y
  OBVIOUS
<1>2. \A x \in {a, b} : (\A y \in {a, b} : x <= y) => x = m
  OBVIOUS
<1> QED BY <1>1, <1>2 DEF Min

LEMMA MaxOfTwo == ASSUME NEW a \in Int, NEW b \in Int PROVE Max({a, b}) = IF a >= b THEN a ELSE b
<1> DEFINE m == IF a >= b THEN a ELSE b
<1>1. m \in {a, b} /\ \A y \in {a, b} : m >= y
  OBVIOUS
<1>2. \A x \in {a, b} : (\A y \in {a, b} : x >= y) => x = m
  OBVIOUS
<1> QED BY <1>1, <1>2 DEF Max

(* A set of events is finite. *)
LEMMA LogIsFinite ==
    ASSUME Intake
    PROVE  /\ IsFiniteSet(DOMAIN sent) /\ IsFiniteSet(Uncounted) /\ Cardinality(Uncounted) \in Nat
           /\ DOMAIN sent \subseteq Events
<1>1. PICK n \in Nat : n <= MaxEvents /\ DOMAIN sent = 1 .. n
  BY DEF Intake, Log
<1>2. IsFiniteSet(DOMAIN sent)
  BY <1>1, FS_Interval
<1>3. Uncounted \in SUBSET DOMAIN sent
  BY DEF Uncounted
<1>4. DOMAIN sent \subseteq Events
  BY <1>1, EventsAssumption DEF Events
<1> QED BY <1>2, <1>3, <1>4, FS_Subset, FS_CardinalityType

(* Stripe's log grows at its end. *)
LEMMA EmitAppends ==
    ASSUME NEW n \in Nat, DOMAIN sent = 1 .. n,
           NEW es, NEW k \in Nat, DOMAIN es = 1 .. k, Emit(es)
    PROVE  /\ n + k <= MaxEvents /\ DOMAIN sent' = 1 .. (n + k)
           /\ \A i \in 1 .. n : sent'[i] = sent[i]
           /\ \A i \in (n + 1) .. (n + k) : sent'[i] = es[i - n]
<1>1. \A i \in Nat : Cardinality(1 .. i) = i
  BY FS_Interval
<1>2. n + k <= MaxEvents
  BY <1>1 DEF Emit
<1>3. sent' = [i \in 1 .. (n + k) |-> IF i \in 1 .. n THEN sent[i] ELSE es[i - n]]
  BY <1>1 DEF Emit
<1>4. \A i \in 1 .. n : i \in 1 .. (n + k)
  OBVIOUS
<1>5. \A i \in (n + 1) .. (n + k) : i \in 1 .. (n + k) /\ i \notin 1 .. n
  OBVIOUS
<1> QED BY <1>2, <1>3, <1>4, <1>5

(* Nothing else happens than that Stripe emits events. *)
LEMMA EmitKeepsIntake ==
    ASSUME Intake, NEW es, NEW k \in Nat, DOMAIN es = 1 .. k, Emit(es), UNCHANGED <<row, acked, hook>>
    PROVE  /\ Intake' /\ DOMAIN sent \subseteq DOMAIN sent'
           /\ \A e \in DOMAIN sent : sent'[e] = sent[e]
           /\ \A e \in DOMAIN sent' : e \notin DOMAIN sent => row[e] = "none" /\ \E i \in 1 .. k : sent'[e] = es[i]
<1>1. PICK n \in Nat : n <= MaxEvents /\ DOMAIN sent = 1 .. n
  BY DEF Intake, Log
<1>2. /\ n + k <= MaxEvents /\ DOMAIN sent' = 1 .. (n + k)
      /\ \A i \in 1 .. n : sent'[i] = sent[i]
      /\ \A i \in (n + 1) .. (n + k) : sent'[i] = es[i - n]
  BY <1>1, EmitAppends
<1>3. DOMAIN sent \subseteq DOMAIN sent'
  BY <1>1, <1>2
<1>4. n + k \in Nat
  OBVIOUS
<1>5. Log'
  BY <1>2, <1>3, <1>4 DEF Intake, Log, Events
<1>6. Deliveries'
  BY <1>3 DEF Intake, Deliveries, AtWork
<1>7. ASSUME NEW e \in DOMAIN sent', e \notin DOMAIN sent
      PROVE  row[e] = "none" /\ \E i \in 1 .. k : sent'[e] = es[i]
  <2>1. e \in (n + 1) .. (n + k) /\ e - n \in 1 .. k
    BY <1>1, <1>2, <1>7
  <2>2. e \in Events
    BY <1>2, <2>1, EventsAssumption DEF Events
  <2> QED BY <1>2, <1>7, <2>1, <2>2 DEF Intake, Log
<1> QED BY <1>1, <1>2, <1>3, <1>5, <1>6, <1>7 DEF Intake

-----------------------------------------------------------------------------
(* The steps of the intake keep it in order. *)
LEMMA PostKeepsIntake ==
    ASSUME Intake, NEW h \in Hooks, NEW e \in Events, Post(h, e)
    PROVE  Intake'
<1> DEFINE posted == [pc |-> "seen", ev |-> e, seen |-> row[e]]
<1>1. e \in DOMAIN sent /\ hook' = [hook EXCEPT ![h] = posted] /\ UNCHANGED <<sent, row, acked>>
  BY DEF Post, Deliverable
<1>2. posted \in Delivery
  <2>1. e \in Nat /\ row[e] \in RowStatus
    BY EventsAssumption DEF Intake, Log, Events
  <2> QED BY <2>1 DEF Delivery
<1>3. hook' \in [Hooks -> Delivery] /\ hook'[h] = posted /\ \A g \in Hooks : g # h => hook'[g] = hook[g]
  BY <1>1, <1>2 DEF Intake, Deliveries
<1>4. posted.pc = "seen" /\ posted.ev = e /\ posted.seen = row[e]
  OBVIOUS
<1> HIDE DEF posted
<1>5. Log'
  BY <1>1 DEF Intake, Log
<1>6. Deliveries'
  BY <1>1, <1>3, <1>4 DEF Intake, Deliveries, AtWork
<1> QED BY <1>5, <1>6 DEF Intake

(* The hook rests again, its event answered or not. *)
LEMMA RestKeepsIntake ==
    ASSUME Intake, NEW h \in Hooks, UNCHANGED <<sent, row>>, hook' = [hook EXCEPT ![h] = Resting],
           acked' = acked \/ (acked' = acked \cup {hook[h].ev} /\ hook[h].pc # "idle" /\ row[hook[h].ev] # "none")
    PROVE  Intake'
<1>1. Resting \in Delivery /\ Resting.pc = "idle"
  BY DEF Resting, Delivery, RowStatus
<1> HIDE DEF Resting
<1>2. hook' \in [Hooks -> Delivery] /\ hook'[h] = Resting /\ \A g \in Hooks : g # h => hook'[g] = hook[g]
  BY <1>1 DEF Intake, Deliveries
<1>3. Log'
  BY DEF Intake, Log, Deliveries
<1>4. Deliveries'
  BY <1>1, <1>2 DEF Intake, Deliveries, AtWork
<1> QED BY <1>3, <1>4 DEF Intake

(* The hook moves on over the same event, its row claimed or left alone. *)
LEMMA TurnKeepsIntake ==
    ASSUME Intake, NEW h \in Hooks, NEW pc \in {"run", "done"}, UNCHANGED <<sent, acked>>,
           hook' = [hook EXCEPT ![h].pc = pc],
           \/ hook[h].pc = "run" /\ row' = row
           \/ hook[h].pc = "seen" /\ row[hook[h].ev] \in {"none", "failed"} /\ row' = [row EXCEPT ![hook[h].ev] = "reserved"]
    PROVE  Intake'
<1> DEFINE e == hook[h].ev
<1>1. hook[h] \in Delivery /\ hook[h].pc # "idle" /\ e \in DOMAIN sent
  BY DEF Intake, Deliveries
<1>2. e \in Events
  BY <1>1, LogIsFinite
<1>3. /\ hook' \in [Hooks -> Delivery]
      /\ hook'[h].pc = pc /\ hook'[h].ev = e /\ hook'[h].seen = hook[h].seen
      /\ \A g \in Hooks : g # h => hook'[g] = hook[g]
  BY <1>1 DEF Intake, Deliveries, Delivery
<1>4. row' \in [Events -> RowStatus] /\ row'[e] = "reserved" /\ \A f \in Events : f # e => row'[f] = row[f]
  <2>1. CASE hook[h].pc = "run"
    BY <2>1 DEF Intake, Deliveries, Log, AtWork
  <2>2. CASE hook[h].pc = "seen"
    BY <1>2, <2>2 DEF Intake, Log, RowStatus
  <2> QED BY <2>1, <2>2
<1>5. ASSUME NEW g \in Hooks, g # h, AtWork(g) PROVE hook[g].ev # e
  <2>1. CASE hook[h].pc = "run"
    BY <1>5, <2>1 DEF Intake, Deliveries, AtWork
  <2>2. CASE hook[h].pc = "seen"
    BY <1>5, <2>2 DEF Intake, Deliveries
  <2> QED BY <2>1, <2>2
<1> HIDE DEF e
<1>6. Log'
  BY <1>1, <1>4, LogIsFinite DEF Intake, Log
<1>7. \A g \in Hooks : hook[g].pc # "idle" => hook[g].ev \in Events
  BY LogIsFinite DEF Intake, Deliveries
<1>8. Deliveries'
  BY <1>1, <1>3, <1>4, <1>5, <1>7 DEF Intake, Deliveries, AtWork
<1> QED BY <1>6, <1>8 DEF Intake

(* The event is marked, in a row that its handler reserved. *)
LEMMA MarkKeepsIntake ==
    ASSUME Intake, NEW h \in Hooks, AtWork(h), NEW status \in {"processed", "failed"},
           sent' = sent, hook' = [hook EXCEPT ![h] = Resting],
           row' = [row EXCEPT ![hook[h].ev] = IF @ = "none" THEN @ ELSE status],
           acked' = acked \/ acked' = acked \cup {hook[h].ev}
    PROVE  Intake' /\ row' = [row EXCEPT ![hook[h].ev] = status]
<1> DEFINE e == hook[h].ev
<1>1. e \in DOMAIN sent /\ row[e] = "reserved"
  BY DEF Intake, Deliveries, AtWork
<1>2. e \in Events
  BY <1>1, LogIsFinite
<1>3. row' \in [Events -> RowStatus] /\ row' = [row EXCEPT ![e] = status]
  BY <1>1, <1>2 DEF Intake, Log, RowStatus
<1>4. row'[e] = status /\ \A f \in Events : f # e => row'[f] = row[f]
  BY <1>2, <1>3 DEF Intake, Log
<1>5. Resting \in Delivery /\ Resting.pc = "idle"
  BY DEF Resting, Delivery, RowStatus
<1> HIDE DEF Resting
<1>6. hook' \in [Hooks -> Delivery] /\ hook'[h] = Resting /\ \A g \in Hooks : g # h => hook'[g] = hook[g]
  BY <1>5 DEF Intake, Deliveries
<1>7. \A g \in Hooks : g # h /\ AtWork(g) => hook[g].ev # e
  BY DEF Intake, Deliveries
<1>8. \A g \in Hooks : hook[g].pc # "idle" => hook[g].ev \in Events
  BY LogIsFinite DEF Intake, Deliveries
<1>9. acked' = acked \/ acked' = acked \cup {e}
  OBVIOUS
<1>10. row' = [row EXCEPT ![hook[h].ev] = status]
  BY <1>3
<1> HIDE DEF e
<1>11. Log'
  BY <1>1, <1>3, <1>4, <1>9 DEF Intake, Log
<1>12. Deliveries'
  BY <1>4, <1>5, <1>6, <1>7, <1>8 DEF Intake, Deliveries, AtWork
<1> QED BY <1>10, <1>11, <1>12 DEF Intake

(* A claim reserves the row, or leaves the event to who holds it. *)
LEMMA ClaimKeepsIntake ==
    ASSUME Intake, NEW h \in Hooks, Claim(h)
    PROVE  Intake'
<1>1. CASE Claims(h)
  <2>1. row[hook[h].ev] \in {"none", "failed"}
    BY <1>1 DEF Claims
  <2> QED BY <1>1, <2>1, TurnKeepsIntake DEF Claim
<1>2. CASE ~Claims(h)
  <2>1. hook[h].pc = "seen" /\ hook[h].seen \in RowStatus /\ row[hook[h].ev] \in RowStatus
    BY LogIsFinite DEF Claim, Intake, Deliveries, Delivery, Log
  <2>2. row[hook[h].ev] # "none"
    BY <1>2, <2>1 DEF Claims, Intake, Deliveries, RowStatus
  <2> QED BY <1>2, <2>1, <2>2, RestKeepsIntake DEF Claim
<1> QED BY <1>1, <1>2

(* Forgotten events leave no delivery behind. *)
LEMMA ForgetKeepsIntake ==
    ASSUME Intake, Expire \/ \E e \in DOMAIN sent : Abandon(e)
    PROVE  Intake'
<1>1. CASE Expire
  <2>1. DOMAIN sent' = 1 .. 0 /\ 0 <= MaxEvents
    BY <1>1, EventsAssumption DEF Expire
  <2>2. Log'
    BY <1>1, <2>1 DEF Expire, Log, RowStatus
  <2>3. \A h \in Hooks : hook'[h].pc = "idle"
    BY <1>1 DEF Expire, Resting
  <2>4. Deliveries'
    BY <1>1, <2>3 DEF Expire, Intake, Deliveries, AtWork
  <2> QED BY <2>2, <2>4 DEF Intake
<1>2. ASSUME NEW e \in DOMAIN sent, Abandon(e) PROVE Intake'
  BY <1>2 DEF Abandon, Intake, Log, Deliveries, AtWork
<1> QED BY <1>1, <1>2

-----------------------------------------------------------------------------
(* The account of the refund moves with the notes that are still to come. *)
LEMMA SameNotes ==
    ASSUME Intake, Refunds, invoice' = invoice, Uncounted' = Uncounted,
           \A e \in DOMAIN sent' : IsNote(e)' => e \in DOMAIN sent /\ IsNote(e),
           \A e \in acked' : e \notin acked => e \notin Uncounted
    PROVE  Refunds'
BY DEF Refunds, Credited, Capped

(* Stripe emits events that are not credit notes. *)
LEMMA EmitKeepsRefunds ==
    ASSUME Intake, Refunds, NEW es, NEW k \in Nat, DOMAIN es = 1 .. k, Emit(es),
           \A i \in 1 .. k : es[i].type # "note", UNCHANGED <<row, acked, hook, invoice>>
    PROVE  Refunds'
<1>1. /\ DOMAIN sent \subseteq DOMAIN sent'
      /\ \A e \in DOMAIN sent : sent'[e] = sent[e]
      /\ \A e \in DOMAIN sent' : e \notin DOMAIN sent => row[e] = "none" /\ \E i \in 1 .. k : sent'[e] = es[i]
  BY EmitKeepsIntake
<1>2. \A e \in DOMAIN sent' : IsNote(e)' => e \in DOMAIN sent /\ IsNote(e)
  BY <1>1 DEF IsNote
<1>3. \A e \in DOMAIN sent : IsNote(e)' <=> IsNote(e)
  BY <1>1 DEF IsNote
<1>4. \A e \in DOMAIN sent : Untried(e)' <=> Untried(e)
  BY DEF Untried, Running
<1>5. Uncounted' = Uncounted
  BY <1>1, <1>2, <1>3, <1>4 DEF Uncounted
<1> QED BY <1>2, <1>5, SameNotes

(* A credit note is issued: one more note, and one more to come. *)
LEMMA RefundKeepsRefunds ==
    ASSUME Intake, Refunds, NEW s \in Subs, Refund(s)
    PROVE  Refunds'
<1> DEFINE es == [i \in DOMAIN <<"note">> |-> About(<<"note">>[i], s, [stripe[s] EXCEPT !.status = "active"])]
<1>1. /\ Emit(es) /\ UNCHANGED <<row, acked, hook>> /\ invoice.refunded # -1
      /\ invoice' = [invoice EXCEPT !.notes = @ + 1]
  BY DEF Refund, Becomes, Changes
<1>2. DOMAIN es = 1 .. 1 /\ es[1].type = "note"
  BY DEF About
<1> HIDE DEF es
<1>3. PICK n \in Nat : n <= MaxEvents /\ DOMAIN sent = 1 .. n
  BY DEF Intake, Log
<1>4. /\ n + 1 <= MaxEvents /\ DOMAIN sent' = 1 .. (n + 1)
      /\ \A i \in 1 .. n : sent'[i] = sent[i]
      /\ \A i \in (n + 1) .. (n + 1) : sent'[i] = es[i - n]
  BY <1>1, <1>2, <1>3, EmitAppends
<1>5. DOMAIN sent' = DOMAIN sent \cup {n + 1} /\ n + 1 \notin DOMAIN sent /\ sent'[n + 1].type = "note"
  BY <1>2, <1>3, <1>4
<1>6. \A e \in DOMAIN sent : sent'[e] = sent[e]
  BY <1>3, <1>4
<1>7. row[n + 1] = "none"
  BY <1>1, <1>2, <1>5, EmitKeepsIntake
<1>8. Uncounted' = Uncounted \cup {n + 1}
  <2>1. IsNote(n + 1)' /\ Untried(n + 1)'
    BY <1>1, <1>5, <1>7 DEF IsNote, Untried
  <2>2. \A e \in DOMAIN sent : (IsNote(e)' <=> IsNote(e)) /\ (Untried(e)' <=> Untried(e))
    BY <1>1, <1>6 DEF IsNote, Untried, Running
  <2>3. Uncounted' = {e \in DOMAIN sent' : IsNote(e)' /\ Untried(e)'}
    BY DEF Uncounted
  <2> QED BY <1>5, <2>1, <2>2, <2>3 DEF Uncounted
<1>9. Cardinality(Uncounted') = Cardinality(Uncounted) + 1
  <2>1. n + 1 \notin Uncounted
    BY <1>5 DEF Uncounted
  <2> QED BY <1>8, <2>1, LogIsFinite, FS_AddElement
<1>10. invoice' \in Account /\ invoice'.notes = invoice.notes + 1 /\ invoice'.refunded = invoice.refunded
  BY <1>1 DEF Refunds, Credited, Account
<1>11. Credited'
  <2>0. PICK c : c = Cardinality(Uncounted)
    OBVIOUS
  <2>1. c \in Nat /\ invoice.notes \in Nat /\ c <= invoice.notes /\ invoice.refunded = Capped(invoice.notes - c)
    BY <1>1, <2>0, LogIsFinite DEF Refunds, Credited, Account
  <2>2. Cardinality(Uncounted') = c + 1
    BY <1>9, <2>0
  <2>3. invoice'.notes - (c + 1) = invoice.notes - c /\ c + 1 <= invoice'.notes
    BY <1>10, <2>1
  <2>4. invoice'.refunded = Capped(invoice'.notes - (c + 1))
    BY <1>10, <2>1, <2>3
  <2> QED BY <1>1, <1>10, <2>2, <2>3, <2>4 DEF Credited, Capped
<1>12. \A e \in Uncounted' : e \notin acked'
  BY <1>1, <1>5, <1>8 DEF Refunds, Intake, Log
<1> QED BY <1>11, <1>12 DEF Refunds

(* One more credit note, up to the amount. *)
LEMMA CappedStep ==
    ASSUME NEW a \in Nat
    PROVE  Capped(Capped(a) + 1) = Capped(a + 1) /\ Capped(Capped(a) + 1) \in Nat
<1>1. Amount \in Nat
  BY SubscriptionAssumption
<1> QED BY <1>1 DEF Capped

(* The handler of a note reads the row: there is one, as notes were issued. *)
LEMMA ReadKeepsRefunds ==
    ASSUME Intake, Refunds, NEW h \in Hooks, Handling(h, "note"), UNCHANGED eventVars,
           invoice' = [invoice EXCEPT !.held[h] = invoice.refunded]
    PROVE  Refunds' /\ Reads(h) /\ invoice.refunded # -1 /\ invoice \in Account
<1>1. Reads(h) /\ hook[h].ev \in DOMAIN sent
  BY DEF Handling, Running, Event, Reads, IsNote, Intake, Deliveries
<1>2. invoice.refunded # -1 /\ invoice \in Account
  BY <1>1 DEF Reads, Refunds, Credited
<1>3. invoice' = [invoice EXCEPT !.held[h] = invoice.refunded] /\ UNCHANGED eventVars
  OBVIOUS
<1>4. invoice' \in Account /\ invoice'.notes = invoice.notes /\ invoice'.refunded = invoice.refunded
  BY <1>2, <1>3 DEF Account
<1>5. Uncounted' = Uncounted /\ \A e \in DOMAIN sent : IsNote(e)' <=> IsNote(e)
  BY <1>3 DEF eventVars, Uncounted, IsNote, Untried, Running
<1>6. Credited'
  BY <1>2, <1>4, <1>5 DEF Refunds, Credited, Capped
<1>7. \A e \in Uncounted' : e \notin acked'
  BY <1>3, <1>5 DEF Refunds, eventVars
<1> QED BY <1>1, <1>2, <1>6, <1>7 DEF Refunds

(* The handler of a note ends: one less to come. *)
LEMMA NoteEnds ==
    ASSUME Intake, Refunds, NEW h \in Hooks, Handling(h, "note"), Answer(h)
    PROVE  /\ \A e \in Uncounted' : e \notin acked'
           /\ Cardinality(Uncounted) \in Nat /\ Cardinality(Uncounted') = Cardinality(Uncounted) - 1
           /\ invoice \in Account /\ invoice.refunded # -1
           /\ invoice.notes \in Nat \ {0} /\ invoice.refunded \in Int
           /\ Cardinality(Uncounted) <= invoice.notes
           /\ invoice.refunded = Capped(invoice.notes - Cardinality(Uncounted))
<1>0. PICK e : e = hook[h].ev
  OBVIOUS
<1>1. /\ hook[h].pc = "run" /\ IsNote(e)
      /\ hook' = [hook EXCEPT ![h].pc = "done"] /\ UNCHANGED <<sent, row, acked>>
  BY <1>0 DEF Handling, Running, Event, IsNote, Answer, Done
<1>2. e \in DOMAIN sent /\ row[e] = "reserved"
  BY <1>0, <1>1 DEF Intake, Deliveries, AtWork
<1>3. /\ \A g \in Hooks : g # h => hook'[g] = hook[g] /\ ~(AtWork(g) /\ hook[g].ev = e)
      /\ hook'[h].pc = "done"
  BY <1>0, <1>1 DEF Intake, Deliveries, Delivery, AtWork
<1>4. Uncounted' = Uncounted \ {e}
  <2>1. ~Untried(e)'
    BY <1>1, <1>2, <1>3 DEF Untried, Running, AtWork
  <2>2. \A f \in DOMAIN sent : IsNote(f)' <=> IsNote(f)
    BY <1>1 DEF IsNote
  <2>3. \A f \in DOMAIN sent : f # e => (Untried(f)' <=> Untried(f))
    BY <1>0, <1>1, <1>3 DEF Untried, Running
  <2>4. \A f : f \in Uncounted' <=> f \in DOMAIN sent /\ IsNote(f)' /\ Untried(f)'
    BY <1>1 DEF Uncounted
  <2>5. \A f : f \in Uncounted <=> f \in DOMAIN sent /\ IsNote(f) /\ Untried(f)
    BY DEF Uncounted
  <2>6. \A f : f \in Uncounted' <=> f \in Uncounted /\ f # e
    BY <2>1, <2>2, <2>3, <2>4, <2>5
  <2> QED BY <2>6
<1>5. e \in Uncounted
  BY <1>0, <1>1, <1>2 DEF Uncounted, Untried, Running
<1>6. Cardinality(Uncounted') = Cardinality(Uncounted) - 1 /\ Cardinality(Uncounted) \in Nat
  BY <1>4, <1>5, LogIsFinite, FS_RemoveElement
<1>7. /\ invoice.refunded # -1 /\ Cardinality(Uncounted) <= invoice.notes
      /\ invoice.refunded = Capped(invoice.notes - Cardinality(Uncounted))
  BY <1>1, <1>2 DEF Refunds, Credited
<1>8. invoice \in Account /\ invoice.notes \in Nat /\ invoice.refunded \in Int
  BY DEF Refunds, Credited, Account
<1>9. Cardinality(Uncounted) # 0
  BY <1>5, LogIsFinite, FS_EmptySet
<1>10. invoice.notes # 0
  BY <1>6, <1>7, <1>8, <1>9
<1>11. \A f \in Uncounted' : f \notin acked'
  BY <1>1, <1>4 DEF Refunds
<1> QED BY <1>6, <1>7, <1>8, <1>10, <1>11

(* A credit note is counted. *)
LEMMA NoteKeepsRefunds ==
    ASSUME Intake, Refunds, NEW h \in Hooks, Handling(h, "note"), Answer(h),
           invoice' = [invoice EXCEPT !.refunded = Min({invoice.refunded + 1, Amount}), !.held[h] = -1]
    PROVE  Refunds'
<1>1. PICK c : c = Cardinality(Uncounted)
  OBVIOUS
<1>2. /\ \A e \in Uncounted' : e \notin acked'
      /\ c \in Nat /\ Cardinality(Uncounted') = c - 1
      /\ invoice \in Account /\ invoice.notes \in Nat \ {0} /\ invoice.refunded \in Int
      /\ c <= invoice.notes /\ invoice.refunded = Capped(invoice.notes - c)
  BY <1>1, NoteEnds
<1>3. Amount \in Nat
  BY SubscriptionAssumption
<1>4. PICK n \in Int : n = invoice.refunded + 1
  BY <1>2
<1>5. Min({n, Amount}) = Capped(n)
  BY <1>3, MinOfTwo DEF Capped
<1>6. Capped(n) = Capped(invoice.notes - (c - 1)) /\ Capped(n) \in Nat
  <2>1. PICK d \in Nat : d = invoice.notes - c
    BY <1>2
  <2>2. n = Capped(d) + 1 /\ invoice.notes - (c - 1) = d + 1
    BY <1>2, <1>4, <2>1
  <2> QED BY <2>2, CappedStep
<1>7. PICK r \in Nat : r = Capped(n)
  BY <1>6
<1>8. /\ invoice' \in Account
      /\ invoice'.notes = invoice.notes /\ invoice'.refunded = r
  <2>1. invoice' = [invoice EXCEPT !.refunded = r, !.held[h] = -1]
    BY <1>4, <1>5, <1>7
  <2>2. PICK kept : kept = [invoice.held EXCEPT ![h] = -1]
    OBVIOUS
  <2>3. kept \in [Hooks -> Nat \cup {-1}]
    BY <1>2, <2>2 DEF Account
  <2>4. invoice' = [invoice EXCEPT !.refunded = r, !.held = kept]
    BY <2>1, <2>2
  <2> QED BY <1>2, <2>3, <2>4 DEF Account
<1>9. c - 1 <= invoice.notes
  BY <1>2
<1>10. Credited'
  <2>1. Cardinality(Uncounted') <= invoice'.notes
    BY <1>2, <1>8, <1>9
  <2>2. invoice'.refunded = Capped(invoice'.notes - Cardinality(Uncounted'))
    BY <1>2, <1>6, <1>7, <1>8
  <2>3. invoice'.refunded # -1
    BY <1>7, <1>8
  <2> QED BY <1>8, <2>1, <2>2, <2>3 DEF Credited, Capped
<1> QED BY <1>2, <1>10 DEF Refunds

(* A credit note is passed over: it is one the property does not speak of. *)
LEMMA SkipKeepsRefunds ==
    ASSUME Intake, Refunds, NEW h \in Hooks, Handling(h, "note"), Answer(h),
           invoice' = [invoice EXCEPT !.notes = @ - 1]
    PROVE  /\ Refunds' /\ invoice'.held = invoice.held /\ invoice'.refunded = invoice.refunded
<1>1. PICK c : c = Cardinality(Uncounted)
  OBVIOUS
<1>2. /\ \A e \in Uncounted' : e \notin acked'
      /\ c \in Nat /\ Cardinality(Uncounted') = c - 1
      /\ invoice \in Account /\ invoice.refunded # -1 /\ invoice.notes \in Nat \ {0}
      /\ c <= invoice.notes /\ invoice.refunded = Capped(invoice.notes - c)
  BY <1>1, NoteEnds
<1>3. /\ invoice' \in Account /\ invoice'.held = invoice.held
      /\ invoice'.notes = invoice.notes - 1 /\ invoice'.refunded = invoice.refunded
  BY <1>2 DEF Account
<1>4. c - 1 <= invoice'.notes /\ invoice'.notes - (c - 1) = invoice.notes - c
  BY <1>2, <1>3
<1>5. invoice'.refunded = Capped(invoice'.notes - Cardinality(Uncounted'))
  BY <1>2, <1>3, <1>4
<1>6. Credited'
  BY <1>2, <1>3, <1>4, <1>5 DEF Credited, Capped
<1> QED BY <1>2, <1>3, <1>6 DEF Refunds

(* The deliveries of the credit notes do nothing that counts. *)
LEMMA SameTries ==
    ASSUME Intake, Refunds, UNCHANGED <<sent, invoice>>,
           \A e \in DOMAIN sent : IsNote(e) => (Untried(e)' <=> Untried(e)),
           \A e \in acked' : e \notin acked => e \notin Uncounted
    PROVE  Refunds'
<1>1. \A e \in DOMAIN sent : IsNote(e)' <=> IsNote(e)
  BY DEF IsNote
<1>2. Uncounted' = {e \in DOMAIN sent : IsNote(e)' /\ Untried(e)'}
  BY DEF Uncounted
<1>3. Uncounted' = Uncounted
  BY <1>1, <1>2 DEF Uncounted
<1>4. \A e \in DOMAIN sent' : IsNote(e)' => e \in DOMAIN sent /\ IsNote(e)
  BY <1>1
<1> QED BY <1>3, <1>4, SameNotes

(* A hook that is not running, or not over a note, turns or rests. *)
LEMMA TurnKeepsRefunds ==
    ASSUME Intake, Refunds, UNCHANGED <<sent, invoice>>,
           NEW h \in Hooks, hook[h].pc = "run" => ~IsNote(hook[h].ev),
           NEW d, d.pc # "run", hook' = [hook EXCEPT ![h] = d],
           \A e \in DOMAIN sent : IsNote(e) => (row'[e] \in {"none", "failed"} <=> row[e] \in {"none", "failed"}),
           \A e \in acked' : e \notin acked => e \notin Uncounted
    PROVE  Refunds'
<1>1. \A g \in Hooks : g # h => hook'[g] = hook[g]
  BY DEF Intake, Deliveries
<1>2. ~Running(h)'
  BY DEF Running, Intake, Deliveries
<1>3. ASSUME NEW e \in DOMAIN sent, IsNote(e) PROVE Untried(e)' <=> Untried(e)
  BY <1>1, <1>2, <1>3 DEF Untried, Running
<1> QED BY <1>3, SameTries

(* A note that is claimed is still to come, until its handler has run. *)
LEMMA ClaimKeepsRefunds ==
    ASSUME Intake, Refunds, Sightings, SavesApart, NEW h \in Hooks, Claim(h), invoice' = invoice
    PROVE  Refunds'
<1>0. PICK e : e = hook[h].ev
  OBVIOUS
<1>1. hook[h].pc = "seen" /\ e \in DOMAIN sent /\ e \in Events /\ sent' = sent
  BY <1>0, LogIsFinite DEF Claim, Intake, Deliveries
<1>2. CASE Claims(h)
  <2>1. row[e] \in {"none", "failed"}
    BY <1>0, <1>2 DEF Claims
  <2>2. row' = [row EXCEPT ![e] = "reserved"] /\ hook' = [hook EXCEPT ![h].pc = "run"]
    BY <1>0, <1>2 DEF Claim
  <2>3. row'[e] = "reserved" /\ \A f \in Events : f # e => row'[f] = row[f]
    BY <1>1, <2>2 DEF Intake, Log
  <2>4. /\ hook'[h].pc = "run" /\ hook'[h].ev = e
        /\ \A g \in Hooks : g # h => hook'[g] = hook[g]
    BY <1>0, <2>2 DEF Intake, Deliveries, Delivery
  <2>5. ASSUME NEW f \in DOMAIN sent, IsNote(f) PROVE Untried(f)' <=> Untried(f)
    <3>1. f \in Events
      BY LogIsFinite
    <3>2. CASE f = e
      <4>1. Untried(e)'
        BY <2>4 DEF Untried, Running
      <4> QED BY <2>1, <3>2, <4>1 DEF Untried
    <3>3. CASE f # e
      <4>1. row'[f] = row[f]
        BY <2>3, <3>1, <3>3
      <4>2. \A g \in Hooks : Running(g)' /\ hook'[g].ev = f <=> Running(g) /\ hook[g].ev = f
        BY <1>0, <1>1, <2>4, <3>3 DEF Running
      <4> QED BY <3>1, <4>1, <4>2 DEF Untried
    <3> QED BY <3>2, <3>3
  <2>6. acked' = acked
    BY <1>2 DEF Claim
  <2> QED BY <1>1, <2>5, <2>6, SameTries
<1>3. CASE ~Claims(h)
  <2>1. hook' = [hook EXCEPT ![h] = Resting] /\ row' = row /\ acked' = acked \cup {e}
    BY <1>0, <1>3 DEF Claim
  <2>2. Resting.pc # "run"
    BY DEF Resting
  <2>3. ASSUME IsNote(e) PROVE ~Untried(e)
    <3>1. row[e] \notin {"none", "failed"}
      BY <1>0, <1>1, <1>3, <2>3 DEF Claims, Sightings, SeesNote
    <3>2. ASSUME NEW g \in Hooks, Running(g), hook[g].ev = e PROVE FALSE
      <4>1. SavesInvoice(g) /\ SavesInvoice(h)
        BY <1>0, <1>1, <2>3, <3>2 DEF SavesInvoice, Running, Event, IsNote
      <4> QED BY <1>1, <3>2, <4>1 DEF SavesApart, Running
    <3> QED BY <3>1, <3>2 DEF Untried
  <2>4. e \notin Uncounted
    BY <2>3 DEF Uncounted
  <2> QED BY <1>1, <2>1, <2>2, <2>4, TurnKeepsRefunds
<1> QED BY <1>2, <1>3

(* Nor does a new delivery of a note count it. *)
LEMMA PostKeepsRefunds ==
    ASSUME Intake, Refunds, NEW h \in Hooks, NEW e \in Events, Post(h, e), invoice' = invoice
    PROVE  Refunds'
<1>1. PICK d : d = [pc |-> "seen", ev |-> e, seen |-> row[e]]
  OBVIOUS
<1>2. d.pc = "seen"
  BY <1>1
<1>3. hook[h].pc = "idle" /\ hook' = [hook EXCEPT ![h] = d] /\ UNCHANGED <<sent, row, acked>>
  BY <1>1 DEF Post
<1> QED BY <1>2, <1>3, TurnKeepsRefunds

(* A note whose handler ended stays counted, marked or not. *)
LEMMA RestKeepsRefunds ==
    ASSUME Intake, Refunds, NEW h \in Hooks, hook[h].pc = "done", UNCHANGED <<sent, invoice>>,
           hook' = [hook EXCEPT ![h] = Resting], row' = row \/ row' = [row EXCEPT ![hook[h].ev] = "processed"],
           acked' = acked \/ acked' = acked \cup {hook[h].ev}
    PROVE  Refunds'
<1>1. Resting.pc # "run"
  BY DEF Resting
<1>2. row[hook[h].ev] = "reserved"
  BY DEF Intake, Deliveries, AtWork
<1>3. \A e \in DOMAIN sent : row'[e] \in {"none", "failed"} <=> row[e] \in {"none", "failed"}
  BY <1>2, LogIsFinite DEF Intake, Log
<1>4. hook[h].ev \notin Uncounted
  BY <1>2 DEF Uncounted, Untried, Running, Intake, Deliveries, AtWork
<1> QED BY <1>1, <1>3, <1>4, TurnKeepsRefunds

(* The notes that are forgotten were counted. *)
LEMMA ForgetKeepsRefunds ==
    ASSUME Intake, Refunds, Expire \/ \E e \in DOMAIN sent : ~IsNote(e) /\ Abandon(e), invoice' = invoice
    PROVE  Refunds'
<1>1. CASE Expire
  <2>1. Uncounted = {}
    BY <1>1 DEF Expire, Refunds, Uncounted
  <2>2. sent' = << >> /\ acked' = {}
    BY <1>1 DEF Expire
  <2>3. Uncounted' = {}
    BY <2>2 DEF Uncounted
  <2> QED BY <2>1, <2>2, <2>3, SameNotes
<1>2. ASSUME NEW e \in DOMAIN sent, ~IsNote(e), Abandon(e) PROVE Refunds'
  <2>1. e \notin Uncounted /\ acked' = acked \cup {e} /\ UNCHANGED <<sent, row, hook>>
    BY <1>2 DEF Abandon, Uncounted
  <2>2. \A f \in DOMAIN sent : Untried(f)' <=> Untried(f)
    BY <2>1 DEF Untried, Running
  <2> QED BY <2>1, <2>2, SameTries
<1> QED BY <1>1, <1>2

(* A note whose save failed is still to come. *)
LEMMA RetryKeepsRefunds ==
    ASSUME Intake, Refunds, NEW h \in Hooks, Handling(h, "note"), UNCHANGED <<sent, acked>>,
           row' = [row EXCEPT ![hook[h].ev] = "failed"], hook' = [hook EXCEPT ![h] = Resting],
           invoice' = [invoice EXCEPT !.held[h] = -1]
    PROVE  Refunds'
<1>0. PICK e : e = hook[h].ev
  OBVIOUS
<1>1. hook[h].pc = "run" /\ e \in DOMAIN sent /\ e \in Events
  BY <1>0, LogIsFinite DEF Handling, Running, Intake, Deliveries
<1>2. row'[e] = "failed" /\ \A f \in Events : f # e => row'[f] = row[f]
  BY <1>0, <1>1 DEF Intake, Log
<1>3. hook'[h].pc = "idle" /\ \A g \in Hooks : g # h => hook'[g] = hook[g]
  BY DEF Intake, Deliveries, Resting
<1>4. ASSUME NEW f \in DOMAIN sent PROVE Untried(f)' <=> Untried(f)
  <2>1. CASE f = e
    BY <1>0, <1>1, <1>2, <2>1 DEF Untried, Running
  <2>2. CASE f # e
    <3>1. row'[f] = row[f]
      BY <1>2, <2>2, LogIsFinite
    <3> QED BY <1>0, <1>3, <2>2, <3>1 DEF Untried, Running
  <2> QED BY <2>1, <2>2
<1>5. Uncounted' = Uncounted
  <2>1. \A f \in DOMAIN sent : IsNote(f)' <=> IsNote(f)
    BY DEF IsNote
  <2>2. Uncounted' = {f \in DOMAIN sent : IsNote(f)' /\ Untried(f)'}
    BY DEF Uncounted
  <2> QED BY <1>4, <2>1, <2>2 DEF Uncounted
<1>6. invoice' \in Account /\ invoice'.notes = invoice.notes /\ invoice'.refunded = invoice.refunded
  BY DEF Refunds, Credited, Account
<1>7. \A f \in DOMAIN sent : IsNote(f)' <=> IsNote(f)
  BY DEF IsNote
<1>8. Credited'
  BY <1>5, <1>6, <1>7 DEF Refunds, Credited, Capped
<1> QED BY <1>5, <1>8 DEF Refunds

(* A handler of something else has ended, well or not. *)
LEMMA AnswerKeepsRefunds ==
    ASSUME Intake, Refunds, NEW h \in Hooks, hook[h].pc = "run", ~IsNote(hook[h].ev), UNCHANGED <<sent, acked, invoice>>,
           \/ row' = row /\ hook' = [hook EXCEPT ![h].pc = "done"]
           \/ row' = [row EXCEPT ![hook[h].ev] = "failed"] /\ hook' = [hook EXCEPT ![h] = Resting]
    PROVE  Refunds'
<1>1. CASE row' = row /\ hook' = [hook EXCEPT ![h].pc = "done"]
  <2>1. PICK d : d = [hook[h] EXCEPT !.pc = "done"]
    OBVIOUS
  <2>2. d.pc = "done" /\ hook' = [hook EXCEPT ![h] = d]
    BY <1>1, <2>1 DEF Intake, Deliveries, Delivery
  <2> QED BY <1>1, <2>2, TurnKeepsRefunds DEF Refunds
<1>2. CASE row' = [row EXCEPT ![hook[h].ev] = "failed"] /\ hook' = [hook EXCEPT ![h] = Resting]
  <2>1. Resting.pc # "run"
    BY DEF Resting
  <2>2. \A e \in DOMAIN sent : IsNote(e) => row'[e] = row[e]
    BY <1>2, LogIsFinite DEF Intake, Log
  <2> QED BY <1>2, <2>1, <2>2, TurnKeepsRefunds DEF Refunds
<1> QED BY <1>1, <1>2

(* The local row appears when nothing has been refunded. *)
LEMMA RecordKeepsRefunds ==
    ASSUME Refunds, invoice' = [invoice EXCEPT !.refunded = Max({@, 0})]
    PROVE  \/ invoice' = invoice
           \/ invoice.refunded = -1 /\ invoice' = [invoice EXCEPT !.refunded = 0]
<1>1. invoice \in Account
  BY DEF Refunds, Credited
<1>2. Max({invoice.refunded, 0}) = IF invoice.refunded >= 0 THEN invoice.refunded ELSE 0
  BY <1>1, MaxOfTwo DEF Account
<1> QED BY <1>1, <1>2 DEF Account

(* No note was issued before the first payment is recorded. *)
LEMMA FirstPaymentKeepsRefunds ==
    ASSUME Intake, Refunds, NEW h \in Hooks, hook[h].pc = "run", ~IsNote(hook[h].ev), UNCHANGED <<sent, row, acked>>,
           hook' = [hook EXCEPT ![h].pc = "done"], invoice.refunded = -1, invoice' = [invoice EXCEPT !.refunded = 0]
    PROVE  Refunds'
<1>1. invoice.notes = 0 /\ \A e \in DOMAIN sent : ~IsNote(e)
  BY DEF Refunds, Credited
<1>2. \A e \in DOMAIN sent' : ~IsNote(e)'
  BY <1>1 DEF IsNote
<1>3. Uncounted' = {}
  BY <1>2 DEF Uncounted
<1>4. Cardinality(Uncounted') = 0
  BY <1>3, FS_EmptySet
<1>5. invoice' \in Account /\ invoice'.notes = 0 /\ invoice'.refunded = 0
  BY <1>1 DEF Refunds, Credited, Account
<1>6. Capped(0) = 0
  BY SubscriptionAssumption DEF Capped
<1>7. Credited'
  BY <1>4, <1>5, <1>6 DEF Credited, Capped
<1> QED BY <1>3, <1>7 DEF Refunds

-----------------------------------------------------------------------------
(* The steps of everybody else leave the intake alone, or emit other events. *)
Told == {"created", "completed", "updated", "deleted", "paused", "resumed", "paid", "failed"}
Exact == Intake /\ Refunds /\ Readings /\ Sightings

(* What is read stays current when only others move, and the row stays. *)
LEMMA ReadingsStay ==
    ASSUME Exact, invoice'.held = invoice.held, invoice'.refunded = invoice.refunded,
           \A h \in Hooks : Reads(h) => hook'[h] = hook[h] /\ sent'[hook[h].ev] = sent[hook[h].ev]
    PROVE  Readings'
<1> SUFFICES ASSUME NEW h \in Hooks, invoice.held[h] # -1
             PROVE  Reads(h)' /\ invoice.held[h] = invoice.refunded
  BY DEF Readings
<1>1. Reads(h) /\ invoice.held[h] = invoice.refunded
  BY DEF Exact, Readings
<1>2. hook'[h] = hook[h] /\ sent'[hook[h].ev] = sent[hook[h].ev]
  BY <1>1
<1> QED BY <1>1, <1>2 DEF Reads, Running, IsNote

(* A note that is saved, or not, is no longer held, and nobody else held one. *)
LEMMA SaveKeepsReadings ==
    ASSUME Exact, SavesApart, NEW h \in Hooks, SaveNote(h)
    PROVE  Readings'
<1>1. /\ invoice \in Account
      /\ \/ invoice' = [invoice EXCEPT !.refunded = Min({invoice.held[h] + 1, Amount}), !.held[h] = -1]
         \/ invoice' = [invoice EXCEPT !.held[h] = -1]
  BY DEF Exact, Refunds, Credited, SaveNote
<1>2. SavesInvoice(h)
  BY DEF SaveNote, Handling, Running, SavesInvoice
<1>3. ASSUME NEW g \in Hooks, g # h PROVE invoice.held[g] = -1
  <2>1. Reads(g) => SavesInvoice(g)
    BY DEF Reads, Running, SavesInvoice, IsNote, Event
  <2> QED BY <1>2, <1>3, <2>1 DEF Exact, Readings, SavesApart
<1>4. \A g \in Hooks : invoice'.held[g] = -1
  BY <1>1, <1>3 DEF Account
<1> QED BY <1>4 DEF Readings

(* What was seen of a note stays current when its row stays. *)
LEMMA SightingsStay ==
    ASSUME Exact, \A h \in Hooks : SeesNote(h)' => SeesNote(h) /\ hook'[h] = hook[h] /\ row'[hook[h].ev] = row[hook[h].ev]
    PROVE  Sightings'
BY DEF Exact, Sightings

(* One delivery of a note moves on, and the others see others. *)
LEMMA MoveKeepsSightings ==
    ASSUME Exact, SavesApart, NEW h \in Hooks, hook[h].pc # "idle", sent' = sent,
           hook'[h].pc # "seen", \A g \in Hooks : g # h => hook'[g] = hook[g],
           \A e \in Events : e # hook[h].ev => row'[e] = row[e]
    PROVE  Sightings'
<1> SUFFICES ASSUME NEW g \in Hooks, SeesNote(g)'
             PROVE  SeesNote(g) /\ hook'[g] = hook[g] /\ row'[hook[g].ev] = row[hook[g].ev]
  BY SightingsStay
<1>1. g # h /\ hook'[g] = hook[g] /\ SeesNote(g)
  BY DEF SeesNote, IsNote
<1>2. hook[g].ev # hook[h].ev
  <2>1. hook[g].ev = hook[h].ev => SavesInvoice(g) /\ SavesInvoice(h)
    BY <1>1 DEF SeesNote, IsNote, SavesInvoice, Event
  <2> QED BY <1>1, <2>1 DEF SavesApart
<1>3. hook[g].ev \in Events
  BY <1>1, LogIsFinite DEF SeesNote, Exact, Intake, Deliveries
<1> QED BY <1>1, <1>2, <1>3

(* What leaves events and invoice alone. *)
LEMMA StillKeeps ==
    ASSUME Exact, UNCHANGED <<eventVars, invoice>>
    PROVE  Exact'
<1>1. Intake'
  BY DEF Exact, eventVars, Intake, Log, Deliveries, AtWork
<1>2. \A e \in DOMAIN sent : Untried(e)' <=> Untried(e)
  BY DEF eventVars, Untried, Running
<1>3. Refunds'
  BY <1>2, SameTries DEF Exact, eventVars, Refunds
<1>4. Readings'
  BY ReadingsStay DEF eventVars
<1>5. Sightings'
  BY SightingsStay DEF eventVars, SeesNote, IsNote
<1> QED BY <1>1, <1>3, <1>4, <1>5 DEF Exact

(* An event that is emitted is no event that is being handled. *)
LEMMA EmitKeepsReadings ==
    ASSUME Exact, NEW es, NEW k \in Nat, DOMAIN es = 1 .. k, Emit(es), UNCHANGED <<row, acked, hook>>,
           invoice'.held = invoice.held, invoice'.refunded = invoice.refunded
    PROVE  Readings' /\ Sightings'
<1>1. \A e \in DOMAIN sent : sent'[e] = sent[e]
  BY EmitKeepsIntake DEF Exact
<1>2. \A h \in Hooks : hook[h].pc # "idle" => hook[h].ev \in DOMAIN sent
  BY DEF Exact, Intake, Deliveries
<1>3. Readings'
  BY <1>1, <1>2, ReadingsStay DEF Reads, Running
<1>4. \A h \in Hooks : SeesNote(h)' => SeesNote(h)
  BY <1>1, <1>2 DEF SeesNote, IsNote
<1>5. Sightings'
  BY <1>4, SightingsStay
<1> QED BY <1>3, <1>5

(* What Stripe tells of a change. *)
LEMMA ChangeKeeps ==
    ASSUME Exact, NEW s, NEW st, NEW types \in Seq(Told), Changes(s, st, types),
           UNCHANGED <<row, acked, hook, invoice>>
    PROVE  Exact'
<1> DEFINE es == [i \in DOMAIN types |-> About(types[i], s, st)]
<1>1. Emit(es)
  BY DEF Changes
<1>2. Len(types) \in Nat /\ DOMAIN es = 1 .. Len(types)
  OBVIOUS
<1>3. \A i \in 1 .. Len(types) : es[i].type # "note"
  BY DEF About, Told
<1> HIDE DEF es
<1>4. Intake' /\ Refunds'
  BY <1>1, <1>2, <1>3, EmitKeepsIntake, EmitKeepsRefunds DEF Exact
<1>5. Readings' /\ Sightings'
  BY <1>1, <1>2, EmitKeepsReadings
<1> QED BY <1>4, <1>5 DEF Exact

(* The requests. *)
LEMMA RequestKeeps ==
    ASSUME Exact, NEW p \in Requests, RequestStep(p)
    PROVE  Exact'
<1>1. CASE UNCHANGED <<eventVars, invoice>>
  BY <1>1, StillKeeps
<1>2. <<"deleted">> \in Seq(Told) /\ <<"updated">> \in Seq(Told)
  BY DEF Told
<1>3. ASSUME NEW s, NEW st, Changes(s, st, <<"deleted">>) \/ Changes(s, st, <<"updated">>),
             UNCHANGED <<row, acked, hook, invoice>>
      PROVE  Exact'
  BY <1>2, <1>3, ChangeKeeps
<1>4. CASE EnsureLook(p) \/ EnsureCreate(p) \/ Mark(p) \/ SyncList(p) \/ SyncEnd(p) \/ UpgradeRow(p) \/ Assign(p)
  BY <1>1, <1>4 DEF EnsureLook, EnsureCreate, Mark, SyncList, SyncEnd, UpgradeRow, Assign
<1>5. CASE \E s \in Subs, plan \in Plans : Checkout(p, s, plan)
  BY <1>1, <1>5 DEF Checkout
<1>6. CASE \E s \in Subs : SyncRow(p, s)
  BY <1>1, <1>6 DEF SyncRow
<1>7. CASE UpgradeFails(p)
  BY <1>1, <1>3, <1>7 DEF UpgradeFails, eventVars
<1>8. ASSUME NEW plan \in Plans, Upgrade(p, plan) PROVE Exact'
  BY <1>3, <1>8 DEF Upgrade
<1>9. ASSUME NEW r \in Rows, CancelFree(p, r) \/ CancelNow(p, r) \/ CancelAtEnd(p, r) \/ Reactivate(p, r) PROVE Exact'
  <2>1. CASE CancelFree(p, r)
    BY <1>1, <2>1 DEF CancelFree
  <2>2. CASE CancelNow(p, r)
    BY <1>1, <1>3, <2>2 DEF CancelNow, eventVars
  <2>3. CASE CancelAtEnd(p, r)
    BY <1>3, <2>3 DEF CancelAtEnd
  <2>4. CASE Reactivate(p, r)
    BY <1>3, <2>4 DEF Reactivate
  <2> QED BY <1>9, <2>1, <2>2, <2>3, <2>4
<1> QED BY <1>4, <1>5, <1>6, <1>7, <1>8, <1>9 DEF RequestStep

(* Stripe by itself. *)
LEMMA StripeKeeps ==
    ASSUME Exact, NEW s \in Subs, StripeStep(s)
    PROVE  Exact'
<1>1. CASE Refund(s)
  <2>1. Refunds'
    BY <1>1, RefundKeepsRefunds DEF Exact
  <2>2. PICK es : Emit(es) /\ DOMAIN es = 1 .. 1 /\ UNCHANGED <<row, acked, hook>>
    BY <1>1 DEF Refund, Becomes, Changes
  <2>3. Intake'
    BY <2>2, EmitKeepsIntake DEF Exact
  <2>4. invoice'.held = invoice.held /\ invoice'.refunded = invoice.refunded
    BY <1>1 DEF Refund, Exact, Refunds, Credited, Account
  <2>5. Readings' /\ Sightings'
    BY <2>2, <2>4, EmitKeepsReadings
  <2> QED BY <2>1, <2>3, <2>5 DEF Exact
<1>2. ASSUME NEW from, NEW to, NEW types \in Seq(Told), Becomes(s, from, to, types),
             UNCHANGED <<row, acked, hook, invoice>>
      PROVE  Exact'
  BY <1>2, ChangeKeeps DEF Becomes
<1>3. CASE /\ \/ Sell(s) \/ Renew(s) \/ Fail(s) \/ Recharge(s) \/ Recover(s) \/ GiveUp(s)
              \/ End(s) \/ Pause(s) \/ Resume(s)
           /\ UNCHANGED <<us, invoice, job, row, acked, hook>>
  <2>1. /\ <<"created", "completed">> \in Seq(Told) /\ <<"completed", "created">> \in Seq(Told)
        /\ <<"created">> \in Seq(Told) /\ <<"updated", "completed">> \in Seq(Told)
        /\ <<"paid">> \in Seq(Told) /\ <<"failed", "updated">> \in Seq(Told)
        /\ <<"failed">> \in Seq(Told) /\ <<"updated", "paid">> \in Seq(Told)
        /\ <<"deleted">> \in Seq(Told) /\ <<"paused", "updated">> \in Seq(Told)
        /\ <<"resumed", "updated">> \in Seq(Told)
    BY DEF Told
  <2>2. PICK from, to : \E types \in Seq(Told) : Becomes(s, from, to, types)
    BY <1>3, <2>1 DEF Sell, Renew, Fail, Recharge, Recover, GiveUp, End, Pause, Resume
  <2> QED BY <1>2, <1>3, <2>2
<1> QED BY <1>1, <1>3 DEF StripeStep

(* The deliveries and their handlers. *)
LEMMA HookKeeps ==
    ASSUME Exact, SavesApart, NEW h \in Hooks, HookStep(h) \/ Dies(h)
    PROVE  Exact'
<1>0. ASSUME ~Reads(h), hook[h].pc # "idle", hook'[h].pc # "seen", sent' = sent,
             invoice'.held = invoice.held, invoice'.refunded = invoice.refunded,
             \A g \in Hooks : g # h => hook'[g] = hook[g],
             \A e \in Events : e # hook[h].ev => row'[e] = row[e]
      PROVE  Readings' /\ Sightings'
  BY <1>0, ReadingsStay, MoveKeepsSightings
<1>1. CASE SaveNote(h)
  <2>1. Handling(h, "note") /\ invoice.held[h] = invoice.refunded /\ Readings'
    BY <1>1, SaveKeepsReadings DEF SaveNote, Exact, Readings
  <2>2. CASE /\ invoice' = [invoice EXCEPT !.refunded = Min({invoice.held[h] + 1, Amount}), !.held[h] = -1]
             /\ Answer(h)
    <3>1. Refunds'
      BY <2>1, <2>2, NoteKeepsRefunds DEF Exact
    <3>2. Intake'
      BY <2>1, <2>2, TurnKeepsIntake DEF Exact, Handling, Running, Answer, Done
    <3>3. Sightings'
      BY <2>1, <2>2, MoveKeepsSightings DEF Handling, Running, Answer, Done, Exact, Intake, Deliveries
    <3> QED BY <2>1, <3>1, <3>2, <3>3 DEF Exact
  <2>3. CASE invoice' = [invoice EXCEPT !.held[h] = -1] /\ Refuse(h)
    <3>1. Intake' /\ row' = [row EXCEPT ![hook[h].ev] = "failed"]
      BY <2>1, <2>3, MarkKeepsIntake DEF Exact, Handling, Running, Refuse, Failed, AtWork
    <3>2. Refunds'
      BY <2>1, <2>3, <3>1, RetryKeepsRefunds DEF Exact, Refuse, Failed
    <3>3. Sightings'
      BY <2>1, <2>3, <3>1, MoveKeepsSightings
         DEF Handling, Running, Refuse, Failed, Resting, Exact, Intake, Deliveries, Log
    <3> QED BY <2>1, <3>1, <3>2, <3>3 DEF Exact
  <2> QED BY <1>1, <2>2, <2>3 DEF SaveNote
<1>9. CASE HookNote(h)
  <2>0. Handling(h, "note") /\ Running(h) /\ invoice.held[h] = -1
    BY <1>9 DEF HookNote, Handling
  <2>1. CASE invoice' = [invoice EXCEPT !.held[h] = invoice.refunded] /\ UNCHANGED eventVars
    <3>1. Refunds' /\ Reads(h) /\ invoice.refunded # -1 /\ invoice \in Account
      BY <2>0, <2>1, ReadKeepsRefunds DEF Exact
    <3>2. Intake'
      BY <2>1 DEF Exact, eventVars, Intake, Log, Deliveries, AtWork
    <3>3. \A g \in Hooks : Reads(g)' <=> Reads(g)
      BY <2>1 DEF eventVars, Reads, Running, IsNote
    <3>4. /\ invoice'.refunded = invoice.refunded /\ invoice'.held[h] = invoice.refunded
          /\ \A g \in Hooks : g # h => invoice'.held[g] = invoice.held[g]
      BY <2>1, <3>1 DEF Account
    <3>5. Readings'
      BY <3>1, <3>3, <3>4 DEF Exact, Readings
    <3>6. Sightings'
      BY <2>1, SightingsStay DEF eventVars, SeesNote, IsNote
    <3> QED BY <3>1, <3>2, <3>5, <3>6 DEF Exact
  <2>2. CASE invoice' = [invoice EXCEPT !.notes = @ - 1] /\ Answer(h)
    <3>1. Refunds' /\ invoice'.held = invoice.held /\ invoice'.refunded = invoice.refunded
      BY <2>0, <2>2, SkipKeepsRefunds DEF Exact
    <3>2. Intake'
      BY <2>0, <2>2, TurnKeepsIntake DEF Exact, Running, Answer, Done
    <3>3. /\ hook[h].pc = "run" /\ hook'[h].pc = "done" /\ UNCHANGED <<sent, row>>
          /\ \A g \in Hooks : g # h => hook'[g] = hook[g]
      BY <2>0, <2>2 DEF Running, Answer, Done, Exact, Intake, Deliveries
    <3>4. Sightings'
      BY <3>3, MoveKeepsSightings
    <3>5. \A g \in Hooks : invoice'.held[g] # -1 => Reads(g)' /\ invoice'.held[g] = invoice'.refunded
      BY <2>0, <3>1, <3>3 DEF Exact, Readings, Reads, Running, IsNote
    <3> QED BY <3>1, <3>2, <3>4, <3>5 DEF Exact, Readings
  <2> QED BY <1>9, <2>1, <2>2 DEF HookNote
<1>2. CASE Claim(h) /\ invoice' = invoice
  <2>1. hook[h].pc = "seen" /\ sent' = sent /\ hook[h].ev \in Events
    BY <1>2, LogIsFinite DEF Claim, Exact, Intake, Deliveries
  <2>2. hook'[h].pc # "seen" /\ \A g \in Hooks : g # h => hook'[g] = hook[g]
    <3>1. PICK d : d.pc # "seen" /\ hook' = [hook EXCEPT ![h] = d]
      <4>1. [hook[h] EXCEPT !.pc = "run"].pc # "seen"
        BY DEF Exact, Intake, Deliveries, Delivery
      <4>2. Resting.pc # "seen"
        BY DEF Resting
      <4> QED BY <1>2, <4>1, <4>2 DEF Claim, Exact, Intake, Deliveries
    <3> QED BY <3>1 DEF Exact, Intake, Deliveries
  <2>3. \A e \in Events : e # hook[h].ev => row'[e] = row[e]
    BY <1>2, <2>1 DEF Claim, Exact, Intake, Log
  <2>4. ~Reads(h)
    BY <2>1 DEF Reads, Running
  <2>5. Readings' /\ Sightings'
    BY <1>0, <1>2, <2>1, <2>2, <2>3, <2>4
  <2> QED BY <1>2, <2>5, ClaimKeepsIntake, ClaimKeepsRefunds DEF Exact
<1>3. CASE Acknowledge(h) /\ invoice' = invoice
  <2>1. AtWork(h) /\ hook[h].pc = "done" /\ sent' = sent
    BY <1>3 DEF Acknowledge, AtWork
  <2>2. Intake' /\ row' = [row EXCEPT ![hook[h].ev] = "processed"]
    BY <1>3, <2>1, MarkKeepsIntake DEF Exact, Acknowledge, Processed
  <2>3. hook' = [hook EXCEPT ![h] = Resting] /\ acked' = acked \cup {hook[h].ev}
    BY <1>3 DEF Acknowledge, Processed
  <2>4. Readings' /\ Sightings'
    BY <1>0, <1>3, <2>1, <2>2, <2>3 DEF Resting, Reads, Running, Exact, Intake, Deliveries, Log
  <2>5. Refunds'
    BY <1>3, <2>1, <2>2, <2>3, RestKeepsRefunds DEF Exact
  <2> QED BY <2>2, <2>4, <2>5 DEF Exact
<1>4. CASE Dies(h)
  <2>1. Readings' /\ Sightings'
    BY <1>0, <1>4 DEF Dies, HookDies, Resting, Reads, Running, Exact, Intake, Deliveries
  <2>2. Intake' /\ Refunds'
    BY <1>4, RestKeepsIntake, RestKeepsRefunds DEF Exact, Dies, HookDies
  <2> QED BY <2>1, <2>2 DEF Exact
<1>5. ASSUME Running(h), ~IsNote(hook[h].ev), Answer(h), invoice' = invoice
      PROVE  Exact'
  <2>1. Intake'
    BY <1>5, TurnKeepsIntake DEF Exact, Running, Answer, Done
  <2>2. Refunds'
    BY <1>5, AnswerKeepsRefunds DEF Exact, Running, Answer, Done
  <2>3. Readings' /\ Sightings'
    BY <1>0, <1>5 DEF Running, Answer, Done, Reads, Exact, Intake, Deliveries
  <2> QED BY <2>1, <2>2, <2>3 DEF Exact
<1>6. ASSUME Running(h), ~IsNote(hook[h].ev), Refuse(h), invoice' = invoice
      PROVE  Exact'
  <2>1. Intake' /\ row' = [row EXCEPT ![hook[h].ev] = "failed"]
    BY <1>6, MarkKeepsIntake DEF Exact, Running, Refuse, Failed, AtWork
  <2>2. Refunds'
    BY <1>6, <2>1, AnswerKeepsRefunds DEF Exact, Running, Refuse, Failed
  <2>3. hook' = [hook EXCEPT ![h] = Resting] /\ sent' = sent
    BY <1>6 DEF Refuse, Failed
  <2>4. Readings' /\ Sightings'
    BY <1>0, <1>6, <2>1, <2>3 DEF Running, Resting, Reads, Exact, Intake, Deliveries, Log
  <2> QED BY <2>1, <2>2, <2>4 DEF Exact
<1>7. CASE HookPaid(h)
  <2>1. Running(h) /\ ~IsNote(hook[h].ev)
    BY <1>7 DEF HookPaid, Handling, Event, IsNote
  <2>2. CASE Refuse(h) /\ invoice' = invoice
    BY <1>6, <2>1, <2>2
  <2>3. CASE invoice' = [invoice EXCEPT !.refunded = Max({@, 0})] /\ Answer(h)
    <3>1. CASE invoice' = invoice
      BY <1>5, <2>1, <2>3, <3>1
    <3>2. CASE invoice.refunded = -1 /\ invoice' = [invoice EXCEPT !.refunded = 0]
      <4>1. Intake'
        BY <2>1, <2>3, TurnKeepsIntake DEF Exact, Running, Answer, Done
      <4>2. Refunds'
        BY <2>1, <2>3, <3>2, FirstPaymentKeepsRefunds DEF Exact, Running, Answer, Done
      <4>3. invoice \in Account /\ \A g \in Hooks : invoice.held[g] = -1
        BY <3>2 DEF Exact, Refunds, Credited, Readings
      <4>4. Readings'
        BY <3>2, <4>3 DEF Readings, Account
      <4>5. Sightings'
        BY <2>1, <2>3, MoveKeepsSightings DEF Running, Answer, Done, Exact, Intake, Deliveries
      <4> QED BY <4>1, <4>2, <4>4, <4>5 DEF Exact
    <3> QED BY <2>3, <3>1, <3>2, RecordKeepsRefunds DEF Exact
  <2> QED BY <1>7, <2>2, <2>3 DEF HookPaid
<1>8. CASE \/ HookCreated(h) \/ HookCompleted(h) \/ HookUpdated(h) \/ HookDeleted(h)
           \/ HookPaused(h) \/ HookResumed(h) \/ HookFailed(h)
  <2>1. Running(h) /\ ~IsNote(hook[h].ev) /\ invoice' = invoice /\ (Answer(h) \/ Refuse(h))
    <3>1. CASE HookCreated(h)
      BY <3>1 DEF HookCreated, Handling, Event, IsNote
    <3>2. CASE HookCompleted(h)
      BY <3>2 DEF HookCompleted, Handling, Event, IsNote
    <3>3. CASE HookUpdated(h)
      BY <3>3 DEF HookUpdated, Rewrite, Handling, Event, IsNote
    <3>4. CASE HookDeleted(h)
      BY <3>4 DEF HookDeleted, Rewrite, Handling, Event, IsNote
    <3>5. CASE HookPaused(h)
      BY <3>5 DEF HookPaused, Rewrite, Handling, Event, IsNote
    <3>6. CASE HookResumed(h)
      BY <3>6 DEF HookResumed, Rewrite, Handling, Event, IsNote
    <3>7. CASE HookFailed(h)
      BY <3>7 DEF HookFailed, Handling, Event, IsNote
    <3> QED BY <1>8, <3>1, <3>2, <3>3, <3>4, <3>5, <3>6, <3>7
  <2> QED BY <1>5, <1>6, <2>1
<1> QED BY <1>1, <1>2, <1>3, <1>4, <1>7, <1>8, <1>9 DEF HookStep

(* Every step. *)
LEMMA StepKeepsExact == Exact /\ SavesApart /\ [Next]_vars => Exact'
<1> SUFFICES ASSUME Exact, SavesApart, [Next]_vars PROVE Exact'
  OBVIOUS
<1>1. CASE UNCHANGED vars
  BY <1>1, StillKeeps DEF vars, eventVars
<1>2. CASE \E r \in Rows : GraceElapses(r)
  BY <1>2, StillKeeps DEF GraceElapses
<1>3. CASE Forget
  <2>1. (Expire \/ \E e \in DOMAIN sent : ~IsNote(e) /\ Abandon(e)) /\ invoice' = invoice
    BY <1>3 DEF Forget, IsNote
  <2>2. hook' = hook /\ \A h \in Hooks : Reads(h) => sent' = sent
    BY <2>1 DEF Expire, Abandon, Reads, Running, Resting
  <2>3. Readings'
    BY <2>1, <2>2, ReadingsStay
  <2>4. Sightings'
    BY <2>1, SightingsStay DEF Expire, Abandon, Resting, SeesNote, IsNote
  <2> QED BY <2>1, <2>3, <2>4, ForgetKeepsIntake, ForgetKeepsRefunds DEF Exact
<1>4. CASE \E e \in Events : Deliver(e)
  <2>1. PICK e \in Events, h \in Hooks : Post(h, e) /\ invoice' = invoice
    BY <1>4 DEF Deliver
  <2>2. Readings'
    BY <2>1, ReadingsStay DEF Post, Reads, Running, Exact, Intake, Deliveries
  <2>3. Sightings'
    BY <2>1 DEF Post, Sightings, SeesNote, IsNote, Exact, Intake, Deliveries
  <2> QED BY <2>1, <2>2, <2>3, PostKeepsIntake, PostKeepsRefunds DEF Exact
<1> QED BY <1>1, <1>2, <1>3, <1>4, RequestKeeps, StripeKeeps, HookKeeps DEF Next

(* At first there is nothing. *)
LEMMA InitIsExact == Init => Exact
<1> SUFFICES ASSUME Init PROVE Exact
  OBVIOUS
<1>1. DOMAIN sent = {} /\ row = [e \in Events |-> "none"] /\ acked = {} /\ hook = [h \in Hooks |-> Resting]
  BY DEF Init, EventsInit
<1>2. DOMAIN sent = 1 .. 0 /\ 0 <= MaxEvents
  BY <1>1, EventsAssumption
<1>3. Log
  BY <1>1, <1>2 DEF Log, RowStatus
<1>4. Deliveries
  BY <1>1 DEF Deliveries, Resting, Delivery, RowStatus, AtWork
<1>5. Refunds /\ Readings /\ Sightings
  BY <1>1 DEF Init, Refunds, Uncounted, Credited, Account, Readings, Sightings, SeesNote, Resting
<1> QED BY <1>3, <1>4, <1>5 DEF Exact, Intake

(* The account tells what the property asks. *)
LEMMA ExactCounts == Exact => RefundIsExact
<1> SUFFICES ASSUME Exact PROVE RefundIsExact
  OBVIOUS
<1> DEFINE unseen == {e \in DOMAIN sent : sent[e].type = "note" /\ row[e] # "processed"}
<1>1. /\ invoice.notes \in Nat /\ invoice.refunded \in Int /\ Amount \in Nat
      /\ Cardinality(Uncounted) \in Nat
  BY SubscriptionAssumption, LogIsFinite DEF Exact, Refunds, Credited, Account
<1>2. invoice.refunded <= invoice.notes
  BY <1>1 DEF Exact, Refunds, Credited, Capped
<1>3. ASSUME invoice.refunded # -1, unseen = {}
      PROVE  invoice.refunded = Min({invoice.notes, Amount})
  <2>1. Uncounted = {}
    BY <1>3 DEF Uncounted, Untried, IsNote, Running, AtWork, Exact, Intake, Deliveries
  <2>2. Cardinality(Uncounted) = 0
    BY <2>1, FS_EmptySet
  <2>3. invoice.refunded = Capped(invoice.notes)
    BY <1>1, <1>3, <2>2 DEF Exact, Refunds, Credited
  <2> QED BY <1>1, <2>3, MinOfTwo DEF Capped
<1> QED BY <1>2, <1>3 DEF RefundIsExact

(***************************************************************************)
(* handleCreditNoteCreated adds each credit note whose invoice it could     *)
(* read once, up to the amount of the invoice, for any interleaving         *)
(* of the requests, with deliveries that come in any order, are repeated    *)
(* after a failed save, given up or die after their work, as long as no two *)
(* handlers that save the invoice run at the same time.                     *)
(***************************************************************************)
THEOREM RefundsAreExact == Spec /\ []SavesApart => []RefundIsExact
<1>1. Spec /\ []SavesApart => []Exact
  BY InitIsExact, StepKeepsExact, PTL DEF Spec
<1> QED BY <1>1, ExactCounts, PTL

-----------------------------------------------------------------------------
(***************************************************************************)
(* Orderly requests, events in order and one subscription at Stripe.       *)
(***************************************************************************)
Regular == Orderly /\ InOrder /\ ~Timeouts /\ ~Overtaking /\ \E s : Subs = {s}

Sole == CHOOSE s \in Subs : TRUE
St == stripe[Sole]
Mine == RowOf(Sole)

StripeStatus == {"none", "open", "incomplete", "active", "past_due", "paused", "canceled"}
AnyPlan == Plans \cup {NoPlan}
SubState == [status : StripeStatus, plan : AnyPlan, meta : AnyPlan, ending : BOOLEAN, replaces : Nat]
RowState ==
    [kind : {"none", "free", "assigned", "paid"}, status : StripeStatus \cup {"cancelled", "replaced"},
     sub : Subs \cup {0}, plan : AnyPlan, due : {"never", "fresh", "overdue"}]
EventState == [type : Told \cup {"note"}, sub : Subs, now : SubState]
JobState ==
    [op : {"idle", "free", "mark", "sync", "upgrade"}, id : Nat, copy : RowState, plan : AnyPlan,
     seen : [Subs -> SubState]]

Typed ==
    /\ us \in [Rows -> RowState]
    /\ stripe \in [Subs -> SubState]
    /\ job \in [Requests -> JobState]
    /\ \A e \in DOMAIN sent : sent[e] \in EventState

(* The events that write the row of their subscription; what has become of  *)
(* an event.                                                               *)
TellTypes == {"created", "updated", "deleted", "paused", "resumed"}
Tellers == {e \in DOMAIN sent : sent[e].type \in TellTypes}
Ran(e) == row[e] \in {"reserved", "processed"} /\ \A h \in Hooks : ~(Running(h) /\ hook[h].ev = e)
Touched(e) == row[e] # "none" \/ \E h \in Hooks : hook[h].pc # "idle" /\ hook[h].ev = e
Pending == {e \in Tellers : ~Ran(e)}
First(e) == e \in Pending /\ \A f \in Tellers : f < e => Ran(f)
Newest(f) == f \in Tellers /\ \A g \in Tellers : g <= f

(* The teller just before an event. *)
Before(f, e) == f \in Tellers /\ e \in DOMAIN sent /\ f < e /\ \A g \in Tellers : ~(f < g /\ g < e)

(* The events are taken in turn: one hook each, every teller run before a   *)
(* later event is touched, and never refused; nor is a payment.            *)
OneHook ==
    \A h \in Hooks : hook[h].pc # "idle" =>
        /\ hook[h].ev \notin acked
        /\ \A k \in Hooks : hook[k].pc # "idle" /\ hook[k].ev = hook[h].ev => k = h
InTurn == \A e \in DOMAIN sent, f \in Telling : Touched(e) /\ f < e => Ran(f)
TellersRun == \A f \in Telling : row[f] # "failed" /\ (f \in acked => Ran(f))
PaymentsRun ==
    St.status # "canceled" =>
        \A e \in DOMAIN sent : sent[e].type = "paid" =>
            /\ row[e] # "failed"
            /\ \A g \in DOMAIN sent : g > e /\ Touched(g) => e \in acked

Ordering == OneHook /\ InTurn /\ TellersRun /\ PaymentsRun

(* What the log says of the subscription. *)
EventsFit ==
    \A e \in DOMAIN sent :
        LET ev == sent[e] IN
        /\ ev.sub = Sole /\ ev.now.replaces = St.replaces
        /\ ev.type = "deleted" => ev.now.status = "canceled" /\ St.status = "canceled"
        /\ ev.type = "created" => ev.now.status \in {"active", "incomplete"} /\ \A f \in Tellers : e <= f
        /\ ev.type \in {"resumed", "paid"} => ev.now.status = "active"
        /\ ev.type = "failed" /\ e \notin acked => St.status \in {"past_due", "canceled"}
        /\ ev.type = "paid" /\ Tellers = {} => St.status = "active"
NewestTells ==
    \A f \in Tellers : Newest(f) =>
        /\ sent[f].now.status = St.status /\ sent[f].now.plan = St.plan
        /\ sent[f].type \notin {"paused", "resumed"}
ChainFits ==
    \A f \in Tellers, e \in DOMAIN sent : Before(f, e) =>
        /\ sent[e].type = "deleted" => sent[f].now.plan = sent[e].now.plan /\ sent[f].type \in {"created", "updated"}
        /\ sent[e].type = "paid" => sent[f].now.status = "active" /\ sent[f].type \in {"created", "updated"}
        /\ sent[e].type = "resumed" => sent[f].now.status = "paused" /\ sent[f].type = "updated"

History ==
    /\ St.status \in {"none", "open"} => DOMAIN sent = {}
    /\ EventsFit /\ NewestTells /\ ChainFits

-----------------------------------------------------------------------------
(* The one subscription. *)
LEMMA SoleSub == ASSUME Regular PROVE Subs = {Sole} /\ Sole \in Nat /\ Sole # 0
BY SubscriptionAssumption DEF Regular, Sole

(***************************************************************************)
(* Stripe appends k events of these types about the subscription, now st.  *)
(***************************************************************************)
Appends(n, k, types, st) ==
    /\ n \in Nat /\ k \in {1, 2} /\ DOMAIN types = 1 .. k
    /\ DOMAIN sent = 1 .. n /\ DOMAIN sent' = 1 .. (n + k)
    /\ \A i \in 1 .. n : sent'[i] = sent[i]
    /\ \A i \in 1 .. k : sent'[n + i] = About(types[i], Sole, st)
    /\ stripe' = [stripe EXCEPT ![Sole] = st] /\ st \in SubState
    /\ UNCHANGED <<row, acked, hook>>

(* The types that can be emitted when the subscription becomes st. *)
Fits(k, types, st) ==
    /\ st.replaces = St.replaces
    /\ St.status # "none" /\ st.status \notin {"none", "open"}
    /\ St.status = "canceled" => st.status = "canceled"
    /\ St.status = "open" <=> \E i \in 1 .. k : types[i] = "created"
    /\ (\A i \in 1 .. k : types[i] \notin TellTypes) => st.status = St.status /\ st.plan = St.plan
    /\ (\E e \in DOMAIN sent : sent[e].type = "failed" /\ e \notin acked) /\ St.status \in {"past_due", "canceled"} =>
          st.status \in {"past_due", "canceled"}
    /\ \A i \in 1 .. k :
         /\ types[i] \in Told \cup {"note"}
         /\ types[i] = "created" => /\ st.status \in {"active", "incomplete"}
                                    /\ \A j \in 1 .. k : j # i => types[j] = "completed"
         /\ types[i] = "deleted" => k = 1 /\ st.status = "canceled" /\ st.plan = St.plan /\ St.status # "canceled"
         /\ types[i] = "paused" => i = 1 /\ k = 2 /\ types[2] = "updated"
         /\ types[i] = "resumed" => /\ i = 1 /\ k = 2 /\ types[2] = "updated"
                                    /\ St.status = "paused" /\ st.status = "active"
         /\ types[i] = "failed" => st.status = "past_due"
         /\ types[i] = "paid" => /\ st.status = "active"
                                 /\ IF i = 1 THEN k = 1 /\ St.status = "active" ELSE types[1] = "updated"

(* What is new is not touched. *)
LEMMA AppendedIsNew ==
    ASSUME Intake, NEW n, NEW k, NEW types, NEW st, Appends(n, k, types, st), Intake'
    PROVE  /\ \A e \in DOMAIN sent' : e \notin DOMAIN sent => ~Touched(e) /\ ~Touched(e)' /\ ~Ran(e)' /\ e \notin acked'
           /\ \A e \in DOMAIN sent : (Touched(e)' <=> Touched(e)) /\ (Ran(e)' <=> Ran(e))
<1>1. \A e \in DOMAIN sent' : e \in Events
  <2>1. PICK m \in Nat : m <= MaxEvents /\ DOMAIN sent' = 1 .. m
    BY DEF Intake, Log
  <2> QED BY <2>1, EventsAssumption DEF Events
<1>2. \A h \in Hooks : hook[h].pc # "idle" => hook[h].ev \in DOMAIN sent
  BY DEF Intake, Deliveries
<1>3. \A e \in DOMAIN sent' : e \notin DOMAIN sent => row[e] = "none" /\ e \notin acked
  BY <1>1 DEF Intake, Log
<1> QED BY <1>2, <1>3 DEF Appends, Touched, Ran, Running

(* What the new events say. *)
LEMMA AppendedEvents ==
    ASSUME NEW n, NEW k, NEW types, NEW st, Appends(n, k, types, st)
    PROVE  \A i \in 1 .. k : sent'[n + i].type = types[i] /\ sent'[n + i].sub = Sole /\ sent'[n + i].now = st
<1> SUFFICES ASSUME NEW i \in 1 .. k
             PROVE  sent'[n + i].type = types[i] /\ sent'[n + i].sub = Sole /\ sent'[n + i].now = st
  OBVIOUS
<1>1. sent'[n + i] = About(types[i], Sole, st)
  BY DEF Appends
<1> QED BY <1>1 DEF About

(* An event of the longer log is an old one or one of the new ones. *)
LEMMA AppendedRange ==
    ASSUME NEW n, NEW k, NEW types, NEW st, Appends(n, k, types, st)
    PROVE  \A e \in DOMAIN sent' : e \in 1 .. n \/ \E i \in 1 .. k : e = n + i
<1> SUFFICES ASSUME NEW e \in DOMAIN sent', e \notin 1 .. n PROVE \E i \in 1 .. k : e = n + i
  OBVIOUS
<1>1. n \in Nat /\ k \in {1, 2} /\ e \in 1 .. (n + k)
  BY DEF Appends
<1>2. e - n \in 1 .. k /\ e = n + (e - n)
  BY <1>1
<1> QED BY <1>2

(* Which of the new events write the row. *)
LEMMA AppendedTellers ==
    ASSUME NEW n, NEW k, NEW types, NEW st, Appends(n, k, types, st)
    PROVE  /\ \A e \in 1 .. n : e \in Tellers' <=> e \in Tellers
           /\ \A i \in 1 .. k : n + i \in Tellers' <=> types[i] \in TellTypes
           /\ \A e \in Tellers' : e \in 1 .. n \/ \E i \in 1 .. k : e = n + i
           /\ Tellers \subseteq Tellers' /\ Tellers \subseteq 1 .. n
<1>1. \A e \in DOMAIN sent' : e \in 1 .. n \/ \E i \in 1 .. k : e = n + i
  BY AppendedRange
<1>2. \A e \in 1 .. n : e \in DOMAIN sent'
  BY DEF Appends
<1>3. \A i \in 1 .. k : n + i \in DOMAIN sent'
  BY DEF Appends
<1>4. \A i \in 1 .. k : sent'[n + i].type = types[i]
  BY AppendedEvents
<1>5. \A e \in 1 .. n : e \in Tellers' <=> e \in Tellers
  BY <1>2 DEF Appends, Tellers
<1>6. \A i \in 1 .. k : n + i \in Tellers' <=> types[i] \in TellTypes
  BY <1>3, <1>4 DEF Tellers
<1>7. Tellers \subseteq 1 .. n /\ Tellers' \subseteq DOMAIN sent'
  BY DEF Appends, Tellers
<1> QED BY <1>1, <1>5, <1>6, <1>7

(* New events wait for their turn. *)
LEMMA AppendKeepsOrdering ==
    ASSUME Regular, Intake, Intake', Ordering, NEW n, NEW k, NEW types, NEW st, Appends(n, k, types, st), Fits(k, types, st),
           Typed
    PROVE  Ordering'
<1>1. /\ \A e \in DOMAIN sent' : e \notin DOMAIN sent => ~Touched(e)' /\ ~Ran(e)' /\ e \notin acked'
      /\ \A e \in DOMAIN sent : (Touched(e)' <=> Touched(e)) /\ (Ran(e)' <=> Ran(e))
  BY AppendedIsNew
<1>2. DOMAIN sent \subseteq DOMAIN sent' /\ \A e \in DOMAIN sent : sent'[e] = sent[e]
  BY DEF Appends
<1>3. \A e \in DOMAIN sent : e \in Telling' <=> e \in Telling
  BY <1>2 DEF Telling
<1>4. \A e \in DOMAIN sent, f \in DOMAIN sent' : f < e => f \in DOMAIN sent
  BY DEF Appends
<1>5. Telling' \subseteq DOMAIN sent' /\ Telling \subseteq DOMAIN sent
  BY DEF Telling
<1>6. InTurn'
  BY <1>1, <1>3, <1>4, <1>5 DEF Ordering, InTurn
<1>7. OneHook'
  BY DEF Appends, Ordering, OneHook
<1>8. \A e \in DOMAIN sent' : e \notin DOMAIN sent => row'[e] = "none"
  BY <1>1 DEF Touched
<1>9. TellersRun'
  BY <1>1, <1>3, <1>5, <1>8 DEF Ordering, TellersRun, Appends
<1>10. St' = st /\ (St.status = "canceled" => st.status = "canceled")
  BY SoleSub DEF Appends, Fits, St, Typed
<1>11. PaymentsRun'
  <2> SUFFICES ASSUME St'.status # "canceled", NEW e \in DOMAIN sent', sent'[e].type = "paid"
               PROVE  /\ row'[e] # "failed"
                      /\ \A g \in DOMAIN sent' : g > e /\ Touched(g)' => e \in acked'
    BY DEF PaymentsRun
  <2>1. CASE e \in DOMAIN sent
    BY <1>1, <1>2, <1>10, <2>1 DEF Ordering, PaymentsRun, Appends
  <2>2. CASE e \notin DOMAIN sent
    BY <1>1, <1>4, <1>8, <2>2
  <2> QED BY <2>1, <2>2
<1> QED BY <1>6, <1>7, <1>9, <1>11 DEF Ordering

(* The log with what fits is still a history of the subscription. *)
LEMMA AppendKeepsHistory ==
    ASSUME Regular, Intake, Typed, History, NEW n, NEW k, NEW types, NEW st, Appends(n, k, types, st), Fits(k, types, st)
    PROVE  History'
<1>1. St' = st
  BY SoleSub DEF Appends, St, Typed
<1>2. /\ \A e \in 1 .. n : e \in Tellers' <=> e \in Tellers
      /\ \A i \in 1 .. k : n + i \in Tellers' <=> types[i] \in TellTypes
      /\ \A e \in Tellers' : e \in 1 .. n \/ \E i \in 1 .. k : e = n + i
      /\ Tellers \subseteq Tellers' /\ Tellers \subseteq 1 .. n
  BY AppendedTellers
<1>3. /\ \A e \in 1 .. n : e \in DOMAIN sent /\ e \in DOMAIN sent' /\ sent'[e] = sent[e]
      /\ \A i \in 1 .. k : n + i \in DOMAIN sent' /\ sent'[n + i].type = types[i] /\ sent'[n + i].sub = Sole /\ sent'[n + i].now = st
      /\ n \in Nat /\ k \in {1, 2} /\ acked' = acked
      /\ \A e \in DOMAIN sent' : e \in 1 .. n \/ \E i \in 1 .. k : e = n + i
  <2>1. \A e \in 1 .. n : e \in DOMAIN sent /\ e \in DOMAIN sent' /\ sent'[e] = sent[e]
    BY DEF Appends
  <2>2. \A e \in DOMAIN sent' : e \in 1 .. n \/ \E i \in 1 .. k : e = n + i
    BY AppendedRange
  <2>3. n \in Nat /\ k \in {1, 2} /\ acked' = acked /\ \A i \in 1 .. k : n + i \in DOMAIN sent'
    BY DEF Appends
  <2> QED BY <2>1, <2>2, <2>3, AppendedEvents
<1>4. St.status = "open" => n = 0
  BY DEF History, Appends
<1>5. EventsFit'
  <2> SUFFICES ASSUME NEW e \in DOMAIN sent'
               PROVE  /\ sent'[e].sub = Sole /\ sent'[e].now.replaces = st.replaces
                      /\ sent'[e].type = "deleted" => sent'[e].now.status = "canceled" /\ st.status = "canceled"
                      /\ sent'[e].type = "created" => sent'[e].now.status \in {"active", "incomplete"} /\ \A f \in Tellers' : e <= f
                      /\ sent'[e].type \in {"resumed", "paid"} => sent'[e].now.status = "active"
                      /\ sent'[e].type = "failed" /\ e \notin acked' => st.status \in {"past_due", "canceled"}
                      /\ sent'[e].type = "paid" /\ Tellers' = {} => st.status = "active"
    BY <1>1 DEF EventsFit
  <2>1. CASE e \in 1 .. n
    <3>1. EventsFit /\ sent'[e] = sent[e] /\ e \in DOMAIN sent
      BY <1>3, <2>1 DEF History
    <3>2. sent[e].type = "created" => \A f \in Tellers' : e <= f
      BY <1>2, <1>3, <2>1, <3>1 DEF EventsFit
    <3>3. Tellers' = {} => st.status = St.status /\ Tellers = {}
      BY <1>2, <1>3 DEF Fits
    <3> QED BY <1>3, <3>1, <3>2, <3>3 DEF EventsFit, Fits
  <2>2. ASSUME NEW i \in 1 .. k, e = n + i PROVE sent'[e].type = types[i] /\ sent'[e].now = st /\ sent'[e].sub = Sole
    BY <1>3, <2>2
  <2>3. ASSUME NEW i \in 1 .. k, e = n + i, types[i] = "created" PROVE \A f \in Tellers' : e <= f
    <3>1. n = 0 /\ \A j \in 1 .. k : j # i => types[j] \notin TellTypes
      BY <1>4, <2>3 DEF Fits, TellTypes
    <3> QED BY <1>2, <1>3, <2>3, <3>1
  <2> QED BY <1>3, <2>1, <2>2, <2>3 DEF Fits
<1>6. NewestTells'
  <2> SUFFICES ASSUME NEW f \in Tellers', \A g \in Tellers' : g <= f
               PROVE  /\ sent'[f].now.status = st.status /\ sent'[f].now.plan = st.plan
                      /\ sent'[f].type \notin {"paused", "resumed"}
    BY <1>1 DEF NewestTells, Newest
  <2>1. CASE f \in 1 .. n
    <3>1. \A i \in 1 .. k : types[i] \notin TellTypes
      BY <1>2, <1>3, <2>1
    <3>2. Newest(f) /\ f \in Tellers
      BY <1>2, <2>1 DEF Newest
    <3> QED BY <1>3, <2>1, <3>1, <3>2 DEF History, NewestTells, Fits
  <2>2. ASSUME NEW i \in 1 .. k, f = n + i PROVE types[i] \notin {"paused", "resumed"}
    <3>1. i = 1 /\ k = 2 /\ types[2] = "updated" => n + 2 \in Tellers'
      BY <1>2 DEF TellTypes
    <3> QED BY <1>3, <2>2, <3>1 DEF Fits
  <2> QED BY <1>2, <1>3, <2>1, <2>2
<1>7. ChainFits'
  <2> SUFFICES ASSUME NEW f \in Tellers', NEW e \in DOMAIN sent', f < e, \A g \in Tellers' : ~(f < g /\ g < e)
               PROVE  /\ sent'[e].type = "deleted" => sent'[f].now.plan = sent'[e].now.plan /\ sent'[f].type \in {"created", "updated"}
                      /\ sent'[e].type = "paid" => sent'[f].now.status = "active" /\ sent'[f].type \in {"created", "updated"}
                      /\ sent'[e].type = "resumed" => sent'[f].now.status = "paused" /\ sent'[f].type = "updated"
    BY DEF ChainFits, Before
  <2>1. CASE e \in 1 .. n
    <3>1. f \in 1 .. n
      BY <1>2, <1>3, <2>1
    <3>2. Before(f, e) /\ f \in Tellers /\ e \in DOMAIN sent
      BY <1>2, <1>3, <2>1, <3>1 DEF Before
    <3> QED BY <1>3, <2>1, <3>1, <3>2 DEF History, ChainFits
  <2>2. ASSUME NEW i \in 1 .. k, e = n + i, f \in 1 .. n
        PROVE  /\ types[i] = "deleted" => sent[f].now.plan = st.plan /\ sent[f].type \in {"created", "updated"}
               /\ types[i] = "paid" => sent[f].now.status = "active" /\ sent[f].type \in {"created", "updated"}
               /\ types[i] = "resumed" => sent[f].now.status = "paused" /\ sent[f].type = "updated"
    <3>1. f \in Tellers /\ sent[f].type \in TellTypes /\ f \in DOMAIN sent
      BY <1>2, <2>2 DEF Tellers
    <3>2. Newest(f)
      BY <1>2, <1>3, <2>2, <3>1 DEF Newest
    <3>3. /\ sent[f].now.status = St.status /\ sent[f].now.plan = St.plan
          /\ sent[f].type \notin {"paused", "resumed"}
      BY <3>1, <3>2 DEF History, NewestTells
    <3>4. /\ sent[f].type = "deleted" => St.status = "canceled"
          /\ sent[f].type = "created" => St.status \in {"active", "incomplete"}
      BY <3>1, <3>3 DEF History, EventsFit
    <3>5. types[i] = "paid" => i = 1
      <4>1. types[i] = "paid" /\ i = 2 => types[1] = "updated" /\ 1 \in 1 .. k
        BY <1>3, <2>2 DEF Fits
      <4>2. types[i] = "paid" /\ i = 2 => n + 1 \in Tellers' /\ f < n + 1 /\ n + 1 < e
        BY <1>2, <1>3, <2>2, <4>1 DEF TellTypes
      <4> QED BY <1>3, <4>2
    <3> QED BY <2>2, <3>1, <3>3, <3>4, <3>5 DEF Fits, TellTypes
  <2>3. ASSUME NEW i \in 1 .. k, e = n + i, NEW j \in 1 .. k, f = n + j
        PROVE  j = 1 /\ i = 2 /\ k = 2 /\ types[1] \in TellTypes
    BY <1>2, <1>3, <2>3
  <2>4. ASSUME k = 2, types[1] \in TellTypes
        PROVE  types[2] \notin {"deleted", "resumed"} /\ (types[2] = "paid" => types[1] = "updated" /\ st.status = "active")
    BY <2>4 DEF Fits
  <2> QED BY <1>2, <1>3, <2>1, <2>2, <2>3, <2>4
<1>8. St'.status \notin {"none", "open"}
  BY <1>1 DEF Fits
<1> QED BY <1>5, <1>6, <1>7, <1>8 DEF History
-----------------------------------------------------------------------------
(* The row of the subscription appears with its first event, follows the    *)
(* events that ran, and is what the next event expects.                    *)
Ended == {"canceled", "cancelled"}

OneRow ==
    /\ \A r \in Rows : (us[r].sub = Sole <=> us[r].kind = "paid") /\ (us[r].kind = "none" => us[r] = NoRow)
    /\ \A r, q \in Mine : r = q
RowAppears ==
    /\ Mine # {} => St.status \notin {"none", "open"}
    /\ St.status \notin {"none", "open"} => (Mine = {} <=> \E e \in Pending : sent[e].type = "created")
RowFollows ==
    St.status \notin {"none", "open"} /\ Pending = {} =>
        \A r \in Mine : Mirrors(r, St) /\ (us[r].status \in {"past_due"} \cup Ended \/ us[r].due = "never")
RowExpects ==
    \A e \in Pending, r \in Mine : First(e) =>
        /\ sent[e].type = "deleted" => us[r].plan = sent[e].now.plan
        /\ sent[e].type = "resumed" => us[r].due = "never" /\ us[r].status \notin {"active", "past_due"}
ActiveIsFresh == \A r \in Mine : us[r].status = "active" => us[r].due = "never"
Payable ==
    St.status # "canceled" =>
        \A e \in DOMAIN sent : (sent[e].type = "paid" /\ e \notin acked /\ \A f \in Tellers : f < e => Ran(f)) =>
            \E r \in Mine : us[r].status \in {"active", "past_due"}

(* The free row goes, its id is not given again, and there is room. *)
Replaced == \A r \in Mine : St.replaces <= r /\ \A q \in Rows : q = St.replaces => us[q].kind # "free"
NoGaps ==
    /\ St.status = "none" => St.replaces = 0
    /\ St.replaces \in Rows \cup {0}
    /\ \A i, j \in Rows : i < j /\ (us[j].kind # "none" \/ j = St.replaces) /\ i # St.replaces => us[i].kind # "none"
Room == Mine = {} => NextId <= Max(Rows)

RowFacts == OneRow /\ RowAppears /\ RowFollows /\ RowExpects /\ ActiveIsFresh /\ Payable /\ Replaced /\ NoGaps /\ Room

(* One request at a time, and what it has in its hands is current. *)
Copies(c, r) ==
    /\ c.kind = r.kind /\ c.sub = r.sub /\ c.plan = r.plan
    /\ c.status = r.status /\ (r.due = "never" => c.due = "never")
Fitting(p) ==
    /\ At(p, "free") /\ Mine = {} => NextId < Max(Rows)
    /\ At(p, "sync") /\ job[p].seen[Sole].status \notin {"none", "open"} =>
          \E r \in Mine : us[r].status = job[p].seen[Sole].status \/ {us[r].status, job[p].seen[Sole].status} \subseteq Ended
    /\ At(p, "mark") => job[p].id \in Mine /\ St.status = "canceled" /\ Copies(job[p].copy, us[job[p].id])
    /\ At(p, "upgrade") =>
          /\ job[p].copy.sub = Sole
          /\ \E e \in Pending : sent[e].type = "updated" /\ \A f \in Tellers : f <= e => sent[f].type # "deleted"
Jobs == (\A p, q \in Requests : ~At(p, "idle") /\ ~At(q, "idle") => p = q)
        /\ \A p \in Requests : Fitting(p) /\ (At(p, "idle") => job[p] = Idle)

(* The row is to the longer log what it was to the shorter one. *)
LEMMA AppendKeepsRows ==
    ASSUME Regular, Intake, Intake', Typed, Ordering, History, RowFacts, us' = us,
           NEW n, NEW k, NEW types, NEW st, Appends(n, k, types, st), Fits(k, types, st)
    PROVE  RowFacts'
<1>1. St' = st
  BY SoleSub DEF Appends, St, Typed
<1>2. /\ \A e \in 1 .. n : e \in Tellers' <=> e \in Tellers
      /\ \A i \in 1 .. k : n + i \in Tellers' <=> types[i] \in TellTypes
      /\ \A e \in Tellers' : e \in 1 .. n \/ \E i \in 1 .. k : e = n + i
      /\ Tellers \subseteq Tellers' /\ Tellers \subseteq 1 .. n
  BY AppendedTellers
<1>3. /\ \A e \in 1 .. n : e \in DOMAIN sent /\ e \in DOMAIN sent' /\ sent'[e] = sent[e]
      /\ \A e \in DOMAIN sent' : e \in 1 .. n \/ \E i \in 1 .. k : e = n + i
      /\ n \in Nat /\ k \in {1, 2} /\ acked' = acked
  BY AppendedRange DEF Appends
<1>4. \A i \in 1 .. k : n + i \in DOMAIN sent' /\ n + i \notin DOMAIN sent /\ sent'[n + i].type = types[i] /\ sent'[n + i].now = st
  <2>1. \A i \in 1 .. k : n + i \in DOMAIN sent' /\ n + i \notin DOMAIN sent
    BY DEF Appends
  <2> QED BY <2>1, AppendedEvents
<1>5. /\ \A i \in 1 .. k : ~Ran(n + i)'
      /\ \A e \in 1 .. n : Ran(e)' <=> Ran(e)
  BY <1>3, <1>4, AppendedIsNew
<1>6. Mine' = Mine
  BY DEF Mine, RowOf
<1>7. OneRow' /\ ActiveIsFresh'
  BY <1>6 DEF RowFacts, OneRow, ActiveIsFresh
<1>8. Replaced' /\ NoGaps'
  BY <1>1, <1>6 DEF RowFacts, Replaced, NoGaps, Fits
<1>9. Room'
  BY <1>6 DEF RowFacts, Room, NextId, Held
<1>10. Pending \subseteq Pending' /\ \A i \in 1 .. k : types[i] \in TellTypes => n + i \in Pending'
  BY <1>2, <1>5 DEF Pending
<1>11. \A e \in Pending' : e \in Pending \/ \E i \in 1 .. k : e = n + i /\ types[i] \in TellTypes
  BY <1>2, <1>5 DEF Pending
<1>12. \A e \in Pending : e \in 1 .. n
  BY <1>2 DEF Pending
<1>13. RowAppears'
  <2>1. CASE St.status = "open"
    <3>1. PICK i \in 1 .. k : types[i] = "created"
      BY <2>1 DEF Fits
    <3>2. n + i \in Pending' /\ sent'[n + i].type = "created"
      BY <1>4, <1>10, <3>1 DEF TellTypes
    <3>3. Mine = {}
      BY <2>1 DEF RowFacts, RowAppears
    <3> QED BY <1>1, <1>6, <3>2, <3>3 DEF RowAppears
  <2>2. CASE St.status # "open"
    <3>1. \A e \in Pending' : sent'[e].type = "created" => e \in Pending /\ sent[e].type = "created"
      BY <1>3, <1>4, <1>11, <1>12, <2>2 DEF Fits
    <3>2. \A e \in Pending : sent[e].type = "created" => e \in Pending' /\ sent'[e].type = "created"
      BY <1>3, <1>10, <1>12
    <3> QED BY <1>1, <1>6, <2>2, <3>1, <3>2 DEF RowFacts, RowAppears, Fits
  <2> QED BY <2>1, <2>2
<1>14. \A e \in Tellers' : ~Ran(e)' => e \in Pending'
  BY DEF Pending
<1>15. Pending = {} => \A f \in Tellers : Ran(f)
  BY DEF Pending
<1>16. RowFollows'
  <2> SUFFICES ASSUME Pending' = {}, NEW r \in Mine
               PROVE  Mirrors(r, st)' /\ (us[r].status \in {"past_due"} \cup Ended \/ us[r].due = "never")
    BY <1>1, <1>6 DEF RowFollows
  <2>1. st.status = St.status /\ st.plan = St.plan /\ Pending = {}
    BY <1>10 DEF Fits
  <2>2. Mirrors(r, St) /\ (us[r].status \in {"past_due"} \cup Ended \/ us[r].due = "never")
    BY <2>1 DEF Fits, RowFacts, RowFollows
  <2> QED BY <2>1, <2>2 DEF Mirrors
<1>17. ASSUME Pending = {}, St.status # "open"
       PROVE  Mine # {} /\ \A r \in Mine : Mirrors(r, St) /\ (us[r].status \in {"past_due"} \cup Ended \/ us[r].due = "never")
  BY <1>17 DEF Fits, RowFacts, RowAppears, RowFollows
<1>18. ASSUME NEW i \in 1 .. k, \A f \in Tellers' : f < n + i => Ran(f)'
       PROVE  Pending = {} /\ (i = 2 => types[1] \notin TellTypes)
  <2>1. \A f \in Tellers : f \in Tellers' /\ f < n + i
    BY <1>2, <1>3
  <2>2. Pending = {}
    BY <1>2, <1>5, <1>18, <2>1 DEF Pending
  <2>3. i = 2 => 1 \in 1 .. k /\ n + 1 < n + i
    BY <1>3
  <2> QED BY <1>2, <1>5, <1>18, <2>2, <2>3
<1>19. RowExpects'
  <2> SUFFICES ASSUME NEW e \in Pending', NEW r \in Mine, \A f \in Tellers' : f < e => Ran(f)'
               PROVE  /\ sent'[e].type = "deleted" => us[r].plan = sent'[e].now.plan
                      /\ sent'[e].type = "resumed" => us[r].due = "never" /\ us[r].status \notin {"active", "past_due"}
    BY <1>6 DEF RowExpects, First
  <2>1. CASE e \in Pending
    <3>1. First(e)
      BY <1>2, <1>5, <2>1 DEF First
    <3> QED BY <1>3, <1>12, <2>1, <3>1 DEF RowFacts, RowExpects
  <2>2. ASSUME NEW i \in 1 .. k, e = n + i
        PROVE  /\ types[i] = "deleted" => us[r].plan = st.plan
               /\ types[i] = "resumed" => us[r].due = "never" /\ us[r].status \notin {"active", "past_due"}
    <3>1. Pending = {}
      BY <1>18, <2>2
    <3>2. types[i] \in {"deleted", "resumed"} => St.status # "open"
      BY DEF Fits
    <3> QED BY <1>17, <3>1, <3>2 DEF Fits, Mirrors, Ended
  <2> QED BY <1>4, <1>11, <2>1, <2>2
<1>20. Payable'
  <2> SUFFICES ASSUME st.status # "canceled", NEW e \in DOMAIN sent', sent'[e].type = "paid", e \notin acked,
                      \A f \in Tellers' : f < e => Ran(f)'
               PROVE  \E r \in Mine : us[r].status \in {"active", "past_due"}
    BY <1>1, <1>3, <1>6 DEF Payable
  <2>1. CASE e \in 1 .. n
    <3>1. \A f \in Tellers : f < e => Ran(f)
      BY <1>2, <1>5
    <3> QED BY <1>3, <2>1, <3>1 DEF RowFacts, Payable, Fits
  <2>2. ASSUME NEW i \in 1 .. k, e = n + i, types[i] = "paid"
        PROVE  \E r \in Mine : us[r].status \in {"active", "past_due"}
    <3>1. Pending = {} /\ St.status = "active"
      BY <1>3, <1>18, <2>2 DEF Fits, TellTypes
    <3> QED BY <1>17, <3>1 DEF Mirrors
  <2> QED BY <1>3, <1>4, <2>1, <2>2
<1> QED BY <1>7, <1>8, <1>9, <1>13, <1>16, <1>19, <1>20 DEF RowFacts

(* And so is what a request has in its hands. *)
LEMMA AppendKeepsFitting ==
    ASSUME Regular, Intake, Intake', Typed, us' = us, NEW p \in Requests, Fitting(p), job'[p] = job[p],
           NEW n, NEW k, NEW types, NEW st, Appends(n, k, types, st), Fits(k, types, st)
    PROVE  Fitting(p)'
<1>1. St' = st /\ (St.status = "canceled" => st.status = "canceled")
  BY SoleSub DEF Appends, Fits, St, Typed
<1>2. Mine' = Mine /\ NextId' = NextId
  BY DEF Mine, RowOf, NextId, Held
<1>3. At(p, "upgrade") => \E e \in Pending' : sent'[e].type = "updated" /\ \A f \in Tellers' : f <= e => sent'[f].type # "deleted"
  <2> SUFFICES ASSUME NEW e \in Pending, sent[e].type = "updated", \A f \in Tellers : f <= e => sent[f].type # "deleted"
               PROVE  /\ e \in Pending' /\ sent'[e].type = "updated"
                      /\ \A f \in Tellers' : f <= e => sent'[f].type # "deleted"
    BY DEF Fitting
  <2>1. e \in Tellers /\ e \in DOMAIN sent /\ ~Ran(e) /\ e \in 1 .. n
    BY DEF Pending, Tellers, Appends
  <2>2. n \in Nat /\ k \in {1, 2} /\ \A f \in 1 .. n : sent'[f] = sent[f]
    BY DEF Appends
  <2>3. /\ \A f \in 1 .. n : f \in Tellers' <=> f \in Tellers
        /\ \A f \in Tellers' : f \in 1 .. n \/ \E i \in 1 .. k : f = n + i
    BY AppendedTellers
  <2>4. ~Ran(e)' /\ sent'[e] = sent[e] /\ e \in Tellers'
    BY <2>1, <2>2, <2>3, AppendedIsNew
  <2>5. \A f \in Tellers' : f <= e => f \in Tellers /\ sent'[f] = sent[f]
    BY <2>1, <2>2, <2>3
  <2> QED BY <2>1, <2>4, <2>5 DEF Pending
<1> QED BY <1>1, <1>2, <1>3 DEF Fitting, At

(* What the log says stays true when events are answered. *)
LEMMA HistoryStays ==
    ASSUME History, UNCHANGED <<stripe, sent>>, acked \subseteq acked'
    PROVE  History'
<1>1. Tellers' = Tellers /\ St' = St
  BY DEF Tellers, St
<1>2. \A f, e \in DOMAIN sent : (Before(f, e)' <=> Before(f, e)) /\ (Newest(f)' <=> Newest(f))
  BY <1>1 DEF Before, Newest
<1>3. Tellers \subseteq DOMAIN sent
  BY DEF Tellers
<1>4. EventsFit'
  BY <1>1 DEF History, EventsFit
<1>5. NewestTells' /\ ChainFits'
  BY <1>1, <1>2, <1>3 DEF History, NewestTells, ChainFits
<1> QED BY <1>1, <1>4, <1>5 DEF History

(* The steps of the deliveries run nothing, and leave the rows to themselves. *)
LEMMA MoveKeepsRows ==
    ASSUME History, RowFacts, UNCHANGED <<us, stripe, job, sent>>, acked \subseteq acked',
           \A e \in Tellers : Ran(e)' <=> Ran(e)
    PROVE  History' /\ RowFacts' /\ (Jobs => Jobs')
<1>1. Tellers' = Tellers /\ Mine' = Mine /\ NextId' = NextId /\ St' = St
  BY DEF Tellers, Mine, RowOf, NextId, Held, St
<1>2. Pending' = Pending /\ \A e \in DOMAIN sent : First(e)' <=> First(e)
  BY <1>1 DEF Pending, First
<1>4. Tellers \subseteq DOMAIN sent /\ Pending \subseteq DOMAIN sent
  BY DEF Tellers, Pending
<1>7. History'
  BY HistoryStays
<1>8. OneRow' /\ RowAppears' /\ ActiveIsFresh' /\ Replaced' /\ NoGaps' /\ Room'
  BY <1>1, <1>2 DEF RowFacts, OneRow, RowAppears, ActiveIsFresh, Replaced, NoGaps, Room
<1>9. RowFollows' /\ RowExpects'
  BY <1>1, <1>2, <1>4 DEF RowFacts, RowFollows, RowExpects, Mirrors
<1>10. Payable'
  BY <1>1 DEF RowFacts, Payable
<1>11. RowFacts'
  BY <1>8, <1>9, <1>10 DEF RowFacts
<1>12. ASSUME NEW p \in Requests, Fitting(p) PROVE Fitting(p)'
  BY <1>1, <1>2, <1>12 DEF Fitting, At
<1>13. Jobs => Jobs'
  BY <1>12 DEF Jobs, At
<1> QED BY <1>7, <1>11, <1>13

(* An event is delivered in its turn. *)
LEMMA PostMoves ==
    ASSUME Regular, Intake, Ordering, NEW h \in Hooks, NEW e \in Events, Post(h, e), stripe' = stripe
    PROVE  Ordering' /\ \A f \in Tellers : Ran(f)' <=> Ran(f)
<1>1. /\ e \in DOMAIN sent /\ e \notin acked /\ UNCHANGED <<sent, row, acked>> /\ hook[h].pc = "idle"
      /\ \A g \in Hooks : hook[g].ev # e
      /\ \A f \in 1 .. (e - 1) : f \in acked \/ row[f] = "failed"
  BY DEF Post, Deliverable, Regular, Handled
<1>2. hook'[h].pc = "seen" /\ hook'[h].ev = e /\ \A g \in Hooks : g # h => hook'[g] = hook[g]
  BY DEF Post, Intake, Deliveries
<1>3. \A f \in DOMAIN sent : Ran(f)' <=> Ran(f)
  BY <1>1, <1>2 DEF Ran, Running
<1>4. \A f \in DOMAIN sent : f # e => (Touched(f)' <=> Touched(f))
  BY <1>1, <1>2 DEF Touched
<1>5. \A f \in DOMAIN sent : f < e => f \in 1 .. (e - 1)
  BY <1>1 DEF Intake, Log
<1>6. Telling' = Telling /\ Telling \subseteq DOMAIN sent
  BY <1>1 DEF Telling
<1>7. OneHook'
  BY <1>1, <1>2 DEF Ordering, OneHook
<1>8. InTurn'
  <2> SUFFICES ASSUME NEW g \in DOMAIN sent, NEW f \in Telling, Touched(g)', f < g PROVE Ran(f)
    BY <1>1, <1>3, <1>6 DEF InTurn
  <2>1. CASE g = e
    BY <1>1, <1>5, <1>6, <2>1 DEF Ordering, TellersRun
  <2>2. CASE g # e
    BY <1>4, <2>2 DEF Ordering, InTurn
  <2> QED BY <2>1, <2>2
<1>9. TellersRun'
  BY <1>1, <1>3, <1>6 DEF Ordering, TellersRun
<1>10. PaymentsRun'
  <2>1. \A p \in DOMAIN sent : p < e /\ row[p] # "failed" => p \in acked
    BY <1>1, <1>5
  <2> QED BY <1>1, <1>4, <2>1 DEF Ordering, PaymentsRun, St
<1> QED BY <1>3, <1>6, <1>7, <1>8, <1>9, <1>10 DEF Ordering, Tellers

(* An event that is not running is marked, answered or let go. *)
LEMMA LetGoMoves ==
    ASSUME Intake, Ordering, NEW h \in Hooks, NEW e, e = hook[h].ev, hook[h].pc \in {"seen", "done"}, row[e] # "none",
           UNCHANGED <<sent, stripe>>, hook' = [hook EXCEPT ![h] = Resting],
           \/ row' = row
           \/ row[e] = "reserved" /\ row' = [row EXCEPT ![e] = "processed"],
           acked' = acked \/ acked' = acked \cup {e}
    PROVE  Ordering' /\ \A f \in Tellers : Ran(f)' <=> Ran(f)
<1>1. e \in DOMAIN sent /\ e \in Events /\ DOMAIN sent \subseteq Events
  BY LogIsFinite DEF Intake, Deliveries
<1>2. hook'[h].pc = "idle" /\ \A g \in Hooks : g # h => hook'[g] = hook[g]
  BY DEF Intake, Deliveries, Resting
<1>3. \A f \in DOMAIN sent : /\ row'[f] = "none" <=> row[f] = "none"
                             /\ row'[f] = "failed" <=> row[f] = "failed"
                             /\ row'[f] \in {"reserved", "processed"} <=> row[f] \in {"reserved", "processed"}
  BY <1>1 DEF Intake, Log
<1>4. \A f \in DOMAIN sent : Ran(f)' <=> Ran(f)
  BY <1>2, <1>3 DEF Ran, Running
<1>5. \A f \in DOMAIN sent : Touched(f)' <=> Touched(f)
  BY <1>2, <1>3 DEF Touched
<1>6. Telling' = Telling /\ Telling \subseteq DOMAIN sent
  BY DEF Telling
<1>7. ASSUME NEW g \in Hooks, hook[g].pc # "idle", hook[g].ev = e PROVE g = h
  BY <1>7 DEF Ordering, OneHook
<1>8. OneHook'
  BY <1>2, <1>7 DEF Ordering, OneHook
<1>9. InTurn'
  BY <1>4, <1>5, <1>6 DEF Ordering, InTurn
<1>10. e \in Telling => Ran(e)
  <2>1. row[e] \in RowStatus
    BY <1>1 DEF Intake, Log
  <2>2. \A g \in Hooks : ~(Running(g) /\ hook[g].ev = e)
    BY <1>7 DEF Running
  <2> QED BY <2>1, <2>2 DEF Ordering, TellersRun, Ran, RowStatus
<1>11. TellersRun'
  BY <1>3, <1>4, <1>6, <1>10 DEF Ordering, TellersRun
<1>12. PaymentsRun'
  BY <1>3, <1>5 DEF Ordering, PaymentsRun, St
<1> QED BY <1>4, <1>8, <1>9, <1>11, <1>12 DEF Ordering, Tellers

(* A claim runs nothing yet. *)
LEMMA ClaimMoves ==
    ASSUME Intake, Ordering, NEW h \in Hooks, Claim(h), stripe' = stripe
    PROVE  Ordering' /\ \A f \in Tellers : Ran(f)' <=> Ran(f)
<1>0. PICK e : e = hook[h].ev
  OBVIOUS
<1>1. hook[h].pc = "seen" /\ e \in DOMAIN sent /\ e \in Events /\ DOMAIN sent \subseteq Events /\ sent' = sent
  BY <1>0, LogIsFinite DEF Claim, Intake, Deliveries
<1>2. CASE Claims(h)
  <2>1. row[e] \in {"none", "failed"} /\ acked' = acked
    BY <1>0, <1>2 DEF Claims, Claim
  <2>2. row' = [row EXCEPT ![e] = "reserved"] /\ hook' = [hook EXCEPT ![h].pc = "run"]
    BY <1>0, <1>2 DEF Claim
  <2>3. row'[e] = "reserved" /\ \A f \in Events : f # e => row'[f] = row[f]
    BY <1>1, <2>2 DEF Intake, Log
  <2>4. /\ hook'[h].pc = "run" /\ hook'[h].ev = e
        /\ \A g \in Hooks : g # h => hook'[g] = hook[g]
    BY <1>0, <2>2 DEF Intake, Deliveries, Delivery
  <2>5. \A f \in DOMAIN sent : Ran(f)' <=> Ran(f)
    <3>1. ~Ran(e) /\ ~Ran(e)'
      BY <2>1, <2>4 DEF Ran, Running
    <3>2. ASSUME NEW f \in DOMAIN sent, f # e PROVE Ran(f)' <=> Ran(f)
      <4>1. row'[f] = row[f]
        BY <1>1, <2>3, <3>2
      <4>2. \A g \in Hooks : Running(g)' /\ hook'[g].ev = f <=> Running(g) /\ hook[g].ev = f
        BY <1>0, <1>1, <2>4, <3>2 DEF Running
      <4> QED BY <4>1, <4>2 DEF Ran
    <3> QED BY <3>1, <3>2
  <2>6. \A f \in DOMAIN sent : Touched(f)' <=> Touched(f)
    <3>1. Touched(e) /\ Touched(e)'
      BY <1>0, <1>1, <2>4 DEF Touched
    <3>2. ASSUME NEW f \in DOMAIN sent, f # e PROVE Touched(f)' <=> Touched(f)
      BY <1>0, <1>1, <2>3, <2>4, <3>2 DEF Touched
    <3> QED BY <3>1, <3>2
  <2>7. Telling' = Telling /\ Telling \subseteq DOMAIN sent
    BY <1>1 DEF Telling
  <2>8. OneHook'
    BY <1>0, <1>1, <2>1, <2>4 DEF Ordering, OneHook
  <2>9. InTurn'
    BY <1>1, <2>5, <2>6, <2>7 DEF Ordering, InTurn
  <2>10. \A f \in DOMAIN sent : row'[f] = "failed" => row[f] = "failed"
    BY <1>1, <2>3
  <2>11. TellersRun'
    BY <2>1, <2>5, <2>7, <2>10 DEF Ordering, TellersRun
  <2>12. PaymentsRun'
    BY <1>1, <2>1, <2>6, <2>10 DEF Ordering, PaymentsRun, St
  <2> QED BY <2>5, <2>7, <2>8, <2>9, <2>11, <2>12 DEF Ordering, Tellers
<1>3. CASE ~Claims(h)
  <2>1. hook[h].seen \in RowStatus /\ row[e] \in RowStatus
    BY <1>1, <1>3 DEF Intake, Deliveries, Delivery, Log
  <2>2. row[e] # "none"
    BY <1>0, <1>1, <1>3, <2>1 DEF Claims, Intake, Deliveries, RowStatus
  <2> QED BY <1>0, <1>1, <1>3, <2>2, LetGoMoves DEF Claim
<1> QED BY <1>2, <1>3

(* Only an event that writes no row is given up. *)
LEMMA AbandonMoves ==
    ASSUME Intake, Ordering, NEW e \in DOMAIN sent \ Telling, Abandon(e), stripe' = stripe
    PROVE  Ordering' /\ \A f \in Tellers : Ran(f)' <=> Ran(f)
<1>1. UNCHANGED <<sent, row, hook>> /\ acked' = acked \cup {e} /\ \A h \in Hooks : hook[h].ev # e
  BY DEF Abandon, Handled
<1>2. \A f : (Ran(f)' <=> Ran(f)) /\ (Touched(f)' <=> Touched(f))
  BY <1>1 DEF Ran, Touched, Running
<1>3. Telling' = Telling /\ e \notin Telling
  BY <1>1 DEF Telling
<1>4. OneHook' /\ InTurn' /\ TellersRun'
  BY <1>1, <1>2, <1>3 DEF Ordering, OneHook, InTurn, TellersRun
<1>5. PaymentsRun'
  BY <1>1, <1>2 DEF Ordering, PaymentsRun, St
<1> QED BY <1>2, <1>4, <1>5 DEF Ordering

(* When all events were answered, the log says nothing the row does not. *)
LEMMA ExpireKeeps ==
    ASSUME Regular, Intake, Ordering, History, RowFacts, Jobs, Expire, UNCHANGED <<us, stripe, job>>
    PROVE  Ordering' /\ History' /\ RowFacts' /\ Jobs'
<1>1. sent' = << >> /\ acked' = {} /\ hook' = hook /\ \A h \in Hooks : hook[h].pc = "idle"
  BY DEF Expire, Resting
<1>2. DOMAIN sent' = {} /\ Tellers' = {} /\ Pending' = {} /\ Telling' = {}
  BY <1>1 DEF Tellers, Pending, Telling
<1>3. Mine' = Mine /\ NextId' = NextId /\ St' = St
  BY DEF Mine, RowOf, NextId, Held, St
<1>4. Pending = {}
  BY DEF Expire, Ordering, TellersRun, Pending, Tellers, Telling, TellTypes
<1>5. Ordering'
  BY <1>1, <1>2 DEF Ordering, OneHook, InTurn, TellersRun, PaymentsRun
<1>6. History'
  BY <1>2 DEF History, EventsFit, NewestTells, ChainFits
<1>7. OneRow' /\ RowAppears' /\ ActiveIsFresh' /\ Replaced' /\ NoGaps' /\ Room'
  BY <1>2, <1>3, <1>4 DEF RowFacts, OneRow, RowAppears, ActiveIsFresh, Replaced, NoGaps, Room
<1>8. RowFollows' /\ RowExpects' /\ Payable'
  BY <1>2, <1>3, <1>4 DEF RowFacts, RowFollows, RowExpects, Payable, Mirrors
<1>9. \A p \in Requests : Fitting(p)'
  BY <1>3, <1>4 DEF Jobs, Fitting, At
<1>10. Jobs'
  BY <1>9 DEF Jobs, At
<1> QED BY <1>5, <1>6, <1>7, <1>8, <1>10 DEF RowFacts

(* A handler has run: what was first is no longer pending. *)
LEMMA HandlerRuns ==
    ASSUME Intake, Ordering, NEW h \in Hooks, Running(h), NEW e, e = hook[h].ev
    PROVE  /\ e \in DOMAIN sent /\ Touched(e) /\ e \notin acked /\ ~Ran(e)
           /\ \A f \in Telling : f < e => Ran(f)
           /\ Tellers \subseteq Telling
BY DEF Running, Intake, Deliveries, Ordering, OneHook, InTurn, Touched, Ran, Telling, Tellers, TellTypes

(* A handler ends well: its event has run. *)
LEMMA HandlerEnds ==
    ASSUME Intake, Ordering, NEW h \in Hooks, Running(h), NEW e, e = hook[h].ev,
           Done(h), UNCHANGED <<sent, stripe>>
    PROVE  /\ Ordering'
           /\ Ran(e)' /\ \A f \in DOMAIN sent : f # e => (Ran(f)' <=> Ran(f))
<1>1. hook[h].pc = "run" /\ hook' = [hook EXCEPT ![h].pc = "done"] /\ UNCHANGED <<row, acked>>
  BY DEF Running, Done
<1>2. e \in DOMAIN sent /\ row[e] = "reserved"
  BY <1>1 DEF Intake, Deliveries, AtWork
<1>3. hook'[h].pc = "done" /\ hook'[h].ev = e /\ \A g \in Hooks : g # h => hook'[g] = hook[g]
  BY <1>1 DEF Intake, Deliveries, Delivery
<1>4. \A g \in Hooks : g # h /\ hook[g].pc # "idle" => hook[g].ev # e
  BY <1>1 DEF Ordering, OneHook
<1>5. Ran(e)'
  BY <1>1, <1>2, <1>3, <1>4 DEF Ran, Running
<1>6. ASSUME NEW f \in DOMAIN sent, f # e PROVE Ran(f)' <=> Ran(f)
  BY <1>1, <1>3, <1>6 DEF Ran, Running
<1>7. \A f \in DOMAIN sent : Touched(f)' <=> Touched(f)
  BY <1>1, <1>3 DEF Touched
<1>8. Telling' = Telling /\ Telling \subseteq DOMAIN sent
  BY DEF Telling
<1>9. OneHook'
  BY <1>1, <1>3 DEF Ordering, OneHook
<1>10. InTurn' /\ TellersRun'
  BY <1>1, <1>5, <1>6, <1>7, <1>8 DEF Ordering, InTurn, TellersRun
<1>11. PaymentsRun'
  BY <1>1, <1>7 DEF Ordering, PaymentsRun, St
<1> QED BY <1>5, <1>6, <1>9, <1>10, <1>11 DEF Ordering

(* A refusal: only payments of a subscription that is gone, failures, and notes. *)
LEMMA RefusalKeeps ==
    ASSUME Intake, Ordering, NEW h \in Hooks, Running(h), NEW e, e = hook[h].ev,
           Failed(h), UNCHANGED <<sent, stripe>>,
           sent[e].type \in {"failed", "note"} \/ (sent[e].type = "paid" /\ St.status = "canceled")
    PROVE  Ordering' /\ \A f \in Tellers : Ran(f)' <=> Ran(f)
<1>1. e \in DOMAIN sent /\ row[e] = "reserved" /\ hook[h].pc = "run" /\ e \notin Telling
  BY DEF Running, Intake, Deliveries, AtWork, Telling
<1>2. e \in Events /\ DOMAIN sent \subseteq Events
  BY <1>1, LogIsFinite
<1>3. hook'[h].pc = "idle" /\ \A g \in Hooks : g # h => hook'[g] = hook[g]
  BY DEF Intake, Deliveries, Resting, Failed
<1>4. row'[e] = "failed" /\ acked' = acked /\ \A f \in Events : f # e => row'[f] = row[f]
  BY <1>1, <1>2 DEF Failed, Intake, Log
<1>5. \A f \in DOMAIN sent : f # e => (Ran(f)' <=> Ran(f))
  BY <1>2, <1>3, <1>4 DEF Ran, Running
<1>6. \A f \in DOMAIN sent : Touched(f)' <=> Touched(f)
  BY <1>1, <1>2, <1>3, <1>4 DEF Touched
<1>7. Telling' = Telling /\ Telling \subseteq DOMAIN sent /\ Tellers \subseteq Telling
  BY DEF Telling, Tellers, TellTypes
<1>8. OneHook'
  BY <1>3, <1>4 DEF Ordering, OneHook
<1>9. InTurn'
  BY <1>1, <1>5, <1>6, <1>7 DEF Ordering, InTurn
<1>10. TellersRun'
  <2>1. \A f \in Telling : f # e /\ row'[f] = row[f]
    BY <1>1, <1>2, <1>4, <1>7
  <2> QED BY <1>4, <1>5, <1>7, <2>1 DEF Ordering, TellersRun
<1>11. PaymentsRun'
  BY <1>2, <1>4, <1>6 DEF Ordering, PaymentsRun, St
<1> QED BY <1>1, <1>5, <1>7, <1>8, <1>9, <1>10, <1>11 DEF Ordering

(* After a teller has run, the next one comes just after it. *)
LEMMA NextAfter ==
    ASSUME Regular, Intake, Ordering, NEW h \in Hooks, Running(h), NEW e, e = hook[h].ev, e \in Tellers,
           Done(h), UNCHANGED <<sent, stripe>>
    PROVE  /\ Tellers' = Tellers /\ Pending' = Pending \ {e} /\ First(e)
           /\ Pending' = {} => Newest(e)
           /\ \A f \in Pending : First(f)' => Before(e, f)
           /\ \A f \in DOMAIN sent : f > e /\ (\A g \in Tellers : g < f => Ran(g)') => Before(e, f)
           /\ St.status # "canceled" => \A f \in DOMAIN sent : sent[f].type = "paid" /\ f \notin acked => f > e
<1>1. /\ e \in DOMAIN sent /\ Touched(e) /\ e \notin acked /\ ~Ran(e)
      /\ \A f \in Telling : f < e => Ran(f)
      /\ Tellers \subseteq Telling /\ Tellers' = Tellers
  BY HandlerRuns DEF Tellers
<1>2. Ran(e)' /\ \A f \in DOMAIN sent : f # e => (Ran(f)' <=> Ran(f))
  BY HandlerEnds
<1>3. DOMAIN sent \subseteq Nat /\ Tellers \subseteq DOMAIN sent
  BY DEF Intake, Log, Tellers
<1>4. Pending' = Pending \ {e} /\ First(e)
  BY <1>1, <1>2, <1>3 DEF Pending, First
<1>5. ASSUME NEW g \in Tellers, e < g PROVE ~Ran(g) /\ ~Ran(g)'
  <2>1. ~Touched(g)
    BY <1>1, <1>3, <1>5 DEF Ordering, InTurn
  <2>2. ~Ran(g)
    BY <2>1 DEF Ran, Touched
  <2> QED BY <1>2, <1>3, <1>5, <2>2
<1>6. Pending' = {} => Newest(e)
  BY <1>1, <1>3, <1>5 DEF Pending, Newest
<1>7. \A f \in DOMAIN sent : f > e /\ (\A g \in Tellers : g < f => Ran(g)') => Before(e, f)
  BY <1>3, <1>5 DEF Before
<1>8. ASSUME NEW f \in Pending, First(f)' PROVE Before(e, f)
  <2>1. f \in Tellers /\ f \in Pending' /\ f # e /\ \A g \in Tellers : g < f => Ran(g)'
    BY <1>1, <1>4, <1>8 DEF First, Pending
  <2>2. f > e
    BY <1>1, <1>3, <2>1, <1>8 DEF Pending
  <2> QED BY <1>3, <1>7, <2>1, <2>2
<1>9. ASSUME St.status # "canceled", NEW f \in DOMAIN sent, sent[f].type = "paid", f \notin acked PROVE f > e
  <2>1. f # e
    BY <1>9 DEF Tellers, TellTypes
  <2>2. ~(e > f)
    BY <1>1, <1>9 DEF Ordering, PaymentsRun
  <2> QED BY <1>1, <1>3, <2>1, <2>2
<1> QED BY <1>1, <1>4, <1>6, <1>7, <1>8, <1>9

(* What a teller must write for the row to follow. *)
LEMMA TellerWrites ==
    ASSUME Regular, Intake, Ordering, History, NEW h \in Hooks, Running(h), NEW e, e = hook[h].ev, e \in Tellers,
           Done(h), UNCHANGED <<sent, stripe>>,
           \A r \in Mine' :
               /\ Newest(e) => /\ us'[r].status \in IF St.status = "canceled" THEN Ended ELSE {St.status}
                               /\ us'[r].plan = St.plan
                               /\ us'[r].status \in {"past_due"} \cup Ended \/ us'[r].due = "never"
               /\ \A f \in DOMAIN sent : Before(e, f) =>
                     /\ sent[f].type = "deleted" => us'[r].plan = sent[f].now.plan
                     /\ sent[f].type = "resumed" => us'[r].due = "never" /\ us'[r].status \notin {"active", "past_due"}
                     /\ sent[f].type = "paid" => us'[r].status \in {"active", "past_due"},
           Mine' # {}
    PROVE  RowFollows' /\ RowExpects' /\ Payable'
<1>1. /\ Tellers' = Tellers /\ Pending' = Pending \ {e} /\ First(e)
      /\ Pending' = {} => Newest(e)
      /\ \A f \in Pending : First(f)' => Before(e, f)
      /\ \A f \in DOMAIN sent : f > e /\ (\A g \in Tellers : g < f => Ran(g)') => Before(e, f)
      /\ St.status # "canceled" => \A f \in DOMAIN sent : sent[f].type = "paid" /\ f \notin acked => f > e
  BY NextAfter
<1>2. St' = St /\ Tellers \subseteq DOMAIN sent /\ Pending \subseteq DOMAIN sent /\ acked' = acked
  BY DEF St, Tellers, Pending, Done
<1>3. RowFollows'
  BY <1>1, <1>2 DEF RowFollows, Mirrors, Ended
<1>4. RowExpects'
  BY <1>1, <1>2 DEF RowExpects
<1>5. Payable'
  BY <1>1, <1>2 DEF Payable
<1> QED BY <1>3, <1>4, <1>5

Steady == Typed /\ Intake /\ Ordering /\ History /\ RowFacts /\ Jobs

(* The order of the natural numbers, as the relation the library speaks of. *)
LEMMA LessThanRelation == OpToRel(<, Nat) = {ss \in Nat \X Nat : ss[1] < ss[2]}
BY DEF OpToRel

(* A bounded set of numbers has a greatest one. *)
LEMMA MaxIsMember ==
    ASSUME NEW n \in Nat, NEW S \in SUBSET (0 .. n), S # {}
    PROVE  Max(S) \in S /\ \A y \in S : y <= Max(S)
<1> DEFINE T == {x \in 0 .. n : n - x \in S}
<1>1. T \subseteq Nat /\ T # {}
  <2>1. PICK y \in S : TRUE
    OBVIOUS
  <2>2. y \in 0 .. n
    BY <2>1
  <2>3. n - y \in 0 .. n /\ n - (n - y) = y
    BY <2>2
  <2>4. n - y \in T
    BY <2>1, <2>3
  <2>5. T \subseteq Nat
    <3>1. 0 .. n \subseteq Nat
      OBVIOUS
    <3> QED BY <3>1
  <2> QED BY <2>4, <2>5
<1>2. PICK x \in T : \A y \in T : ~(<<y, x>> \in OpToRel(<, Nat))
  BY <1>1, WFMin, NatLessThanWellFounded
<1>3. \A y \in T : <<y, x>> \notin {ss \in Nat \X Nat : ss[1] < ss[2]}
  BY <1>2, LessThanRelation
<1>4. ASSUME NEW y \in T PROVE x <= y
  <2>1. x \in Nat /\ y \in Nat
    BY <1>1
  <2>2. ~(y < x)
    <3>1. <<y, x>> \in Nat \X Nat
      BY <2>1
    <3> QED BY <1>3, <3>1
  <2> QED BY <2>1, <2>2
<1>5. n - x \in S /\ \A y \in S : n - x >= y
  <2>1. n - x \in S /\ x \in 0 .. n
    OBVIOUS
  <2>2. \A y \in S : n - y \in T
    <3>1. \A y \in S : n - y \in 0 .. n /\ n - (n - y) = y
      OBVIOUS
    <3> QED BY <3>1
  <2>3. \A y \in S : x <= n - y
    BY <1>4, <2>2
  <2> HIDE DEF T
  <2>4. ASSUME NEW y \in S PROVE n - x >= y
    <3>1. y \in 0 .. n /\ x <= n - y
      BY <2>3
    <3> QED BY <2>1, <3>1
  <2> QED BY <2>1, <2>4
<1>6. Max(S) \in S /\ \A y \in S : Max(S) >= y
  BY <1>5 DEF Max
<1> QED BY <1>6

(* Rows are numbered from one. *)
LEMMA RowsAreNumbered ==
    /\ Max(Rows) \in Nat \ {0} /\ Rows = 1 .. Max(Rows) /\ Min(Rows) = 1
<1>1. PICK n \in Nat \ {0} : Rows = 1 .. n
  <2>1. Cardinality(Rows) \in Nat /\ Rows = 1 .. Cardinality(Rows) /\ Rows # {}
    BY SubscriptionAssumption, FS_CardinalityType
  <2>2. Cardinality(Rows) # 0
    BY <2>1
  <2> QED BY <2>1, <2>2
<1>2. \A x \in Rows : (\A y \in Rows : x >= y) => x = n
  BY <1>1
<1>3. n \in Rows /\ \A y \in Rows : n >= y
  BY <1>1
<1>4. Max(Rows) = n
  BY <1>2, <1>3 DEF Max
<1>5. \A x \in Rows : (\A y \in Rows : x <= y) => x = 1
  BY <1>1
<1>6. 1 \in Rows /\ \A y \in Rows : 1 <= y
  BY <1>1
<1>7. Min(Rows) = 1
  BY <1>5, <1>6 DEF Min
<1> QED BY <1>1, <1>4, <1>7

(* The next row comes after all the others, and right after one of them. *)
LEMMA NextIdFollows ==
    /\ NextId \in Nat \ {0}
    /\ \A r \in Held : r < NextId
    /\ NextId - 1 \in Held \cup {0}
<1>1. Max(Rows) \in Nat /\ Held \subseteq 1 .. Max(Rows)
  BY RowsAreNumbered DEF Held
<1>2. NextId = Max(Held \cup {0}) + 1
  BY RowsAreNumbered DEF NextId
<1>3. Held \cup {0} \in SUBSET (0 .. Max(Rows)) /\ Held \cup {0} # {}
  BY <1>1
<1>4. Max(Held \cup {0}) \in Held \cup {0} /\ \A y \in Held \cup {0} : y <= Max(Held \cup {0})
  BY <1>1, <1>3, MaxIsMember
<1> DEFINE m == Max(Held \cup {0})
<1>5. m \in Nat /\ NextId = m + 1
  <2>1. Held \cup {0} \subseteq Nat
    BY <1>1
  <2> QED BY <1>2, <1>4, <2>1
<1> HIDE DEF m
<1>6. \A r \in Held : r \in Nat /\ r <= m
  <2>1. \A r \in Held : r <= m
    BY <1>4 DEF m
  <2> QED BY <1>1, <2>1
<1>7. NextId - 1 = m /\ m \in Held \cup {0}
  BY <1>4, <1>5 DEF m
<1> QED BY <1>5, <1>6, <1>7

(* Fewer rows are held: the next id is no greater. *)
LEMMA NextIdShrinks ==
    ASSUME Held' \subseteq Held
    PROVE  NextId' <= NextId
<1>1. NextId \in Nat /\ \A r \in Held : r < NextId
  BY NextIdFollows
<1>2. NextId' \in Nat \ {0} /\ NextId' - 1 \in Held' \cup {0}
  <2>1. (NextId \in Nat \ {0} /\ NextId - 1 \in Held \cup {0})'
    BY NextIdFollows, PTL
  <2> QED BY <2>1
<1>3. NextId \in Nat \ {0}
  BY NextIdFollows
<1>4. \A r \in Held : r \in Nat
  BY RowsAreNumbered DEF Held
<1> QED BY <1>1, <1>2, <1>3, <1>4

(* No row appears or goes. *)
LEMMA NextIdStays ==
    ASSUME \A r \in Rows : us'[r].kind = us[r].kind
    PROVE  Held' = Held /\ NextId' = NextId
BY DEF Held, NextId

(* The requests stay out of the way of the handlers. *)
LEMMA QuietJobs ==
    ASSUME Quiet, job' = job
    PROVE  Jobs'
<1>1. \A p \in Requests : job'[p].op = "idle" /\ job'[p] = Idle
  BY DEF Quiet, Idle
<1> QED BY <1>1 DEF Jobs, Fitting, At

(* An event is about the one subscription, which was sold. *)
LEMMA EventIsOfSole ==
    ASSUME Regular, Typed, Intake, History, NEW h \in Hooks, Running(h)
    PROVE  /\ hook[h].ev \in DOMAIN sent /\ Event(h).sub = Sole /\ RowOf(Event(h).sub) = Mine
           /\ Event(h).now.replaces = St.replaces /\ Event(h) \in EventState
           /\ St.status \notin {"none", "open"} /\ St \in SubState
<1>1. hook[h].ev \in DOMAIN sent
  BY DEF Running, Intake, Deliveries
<1>2. Event(h).sub = Sole /\ Event(h).now.replaces = St.replaces
  BY <1>1 DEF History, EventsFit, Event
<1> QED BY <1>1, <1>2, SoleSub DEF History, Typed, Event, Mine, St

(* The row is there when a later teller is handled. *)
LEMMA RowIsThere ==
    ASSUME Regular, Steady, NEW h \in Hooks, Running(h), NEW e, e = hook[h].ev, e \in Tellers, sent[e].type # "created"
    PROVE  Mine # {} /\ \A f \in Pending : sent[f].type # "created"
<1>1. e \in DOMAIN sent /\ \A f \in Tellers : f < e => Ran(f)
  BY HandlerRuns DEF Steady
<1>2. ASSUME NEW f \in Pending, sent[f].type = "created" PROVE FALSE
  <2>1. f \in DOMAIN sent /\ ~Ran(f) /\ f \in Tellers
    BY DEF Pending, Tellers
  <2>2. f <= e
    BY <1>2, <2>1 DEF Steady, History, EventsFit
  <2>3. f < e
    BY <1>1, <1>2, <2>1, <2>2 DEF Steady, Intake, Log
  <2> QED BY <1>1, <2>1, <2>3
<1>3. St.status \notin {"none", "open"}
  BY <1>1 DEF Steady, History
<1> QED BY <1>2, <1>3 DEF Steady, RowFacts, RowAppears

(* A handler that writes the row of its subscription leaves it where it is. *)
LEMMA RewriteKeeps ==
    ASSUME Regular, Steady, NEW h \in Hooks, Running(h), Quiet,
           NEW e, e = hook[h].ev, e \in Tellers, sent[e].type # "created",
           us' \in [Rows -> RowState],
           \A r \in Rows : us'[r].kind = us[r].kind /\ us'[r].sub = us[r].sub /\ (r \notin Mine => us'[r] = us[r]),
           Answer(h), UNCHANGED <<stripe, job>>
    PROVE  /\ Done(h) /\ UNCHANGED <<sent, stripe>> /\ Mine' = Mine /\ Mine # {}
           /\ Typed' /\ Intake' /\ Ordering' /\ History' /\ Jobs'
           /\ OneRow' /\ RowAppears' /\ Replaced' /\ NoGaps' /\ Room'
<1>1. Mine # {} /\ RowOf(Event(h).sub) = Mine /\ \A c \in Pending : sent[c].type # "created"
  BY RowIsThere, EventIsOfSole DEF Steady
<1>2. Done(h) /\ UNCHANGED <<sent, stripe, job, row, acked>>
  BY DEF Answer, Done
<1>3. /\ us' \in [Rows -> RowState] /\ Mine \subseteq Rows
      /\ \A r \in Rows : us'[r].kind = us[r].kind /\ us'[r].sub = us[r].sub /\ (r \notin Mine => us'[r] = us[r])
  BY DEF Mine, RowOf
<1>4. Mine' = Mine
  BY <1>3 DEF Mine, RowOf
<1>5. Typed'
  BY <1>2, <1>3 DEF Steady, Typed
<1>6. Intake'
  BY <1>2, TurnKeepsIntake DEF Steady, Running, Done
<1>7. Ordering'
  BY <1>2, HandlerEnds DEF Steady
<1>8. History'
  BY <1>2, HistoryStays DEF Steady
<1>9. Jobs'
  BY <1>2, QuietJobs
<1>10. OneRow'
  BY <1>3, <1>4 DEF Steady, RowFacts, OneRow, Mine, RowOf, NoRow
<1>11. RowAppears'
  <2>1. Pending' \subseteq Pending
    BY <1>2, NextAfter DEF Steady
  <2> QED BY <1>1, <1>2, <1>4, <2>1, EventIsOfSole DEF Steady, RowAppears, St
<1>12. Replaced' /\ NoGaps'
  BY <1>2, <1>3, <1>4 DEF Steady, RowFacts, Replaced, NoGaps, St
<1>13. Room'
  BY <1>1, <1>4 DEF Room
<1> QED BY <1>1, <1>2, <1>3, <1>4, <1>5, <1>6, <1>7, <1>8, <1>9, <1>10, <1>11, <1>12, <1>13

(* The event a handler is at. *)
LEMMA EventIsTeller ==
    ASSUME Steady, NEW h \in Hooks, NEW type, Handling(h, type), Orderly
    PROVE  /\ Running(h) /\ Quiet /\ hook[h].ev \in DOMAIN sent /\ sent[hook[h].ev].type = type
           /\ Event(h) = sent[hook[h].ev]
           /\ type \in TellTypes => hook[h].ev \in Tellers
BY DEF Handling, Steady, Running, Intake, Deliveries, Event, Tellers

(* customer.subscription.updated: the row becomes what Stripe has. *)
LEMMA UpdatedKeeps ==
    ASSUME Regular, Steady, NEW h \in Hooks, HookUpdated(h)
    PROVE  Steady'
<1>0. PICK e : e = hook[h].ev
  OBVIOUS
<1>1. /\ Running(h) /\ Quiet /\ e \in Tellers /\ e \in DOMAIN sent
      /\ sent[e].type = "updated" /\ Event(h) = sent[e]
  BY <1>0, EventIsTeller DEF HookUpdated, Regular, TellTypes
<1>2. Mine # {} /\ RowOf(Event(h).sub) = Mine /\ sent[e].now \in SubState
  BY <1>0, <1>1, RowIsThere, EventIsOfSole DEF Steady, EventState
<1>3. /\ us' = [r \in Rows |-> IF r \in Mine THEN Adopted(sent[e], us[r]) ELSE us[r]]
      /\ Answer(h) /\ UNCHANGED <<stripe, job>>
  BY <1>1, <1>2 DEF HookUpdated, Rewrite
<1>4. \A r \in Rows : /\ Adopted(sent[e], us[r]) \in RowState
                      /\ Adopted(sent[e], us[r]).kind = us[r].kind /\ Adopted(sent[e], us[r]).sub = us[r].sub
                      /\ Adopted(sent[e], us[r]).status = sent[e].now.status
                      /\ Adopted(sent[e], us[r]).plan = sent[e].now.plan
                      /\ sent[e].now.status # "past_due" => Adopted(sent[e], us[r]).due = "never"
  <2> SUFFICES ASSUME NEW r \in Rows
               PROVE  /\ Adopted(sent[e], us[r]) \in RowState
                      /\ Adopted(sent[e], us[r]).kind = us[r].kind /\ Adopted(sent[e], us[r]).sub = us[r].sub
                      /\ Adopted(sent[e], us[r]).status = sent[e].now.status
                      /\ Adopted(sent[e], us[r]).plan = sent[e].now.plan
                      /\ sent[e].now.status # "past_due" => Adopted(sent[e], us[r]).due = "never"
    OBVIOUS
  <2>1. us[r] \in RowState
    BY DEF Steady, Typed
  <2> QED BY <1>2, <2>1 DEF Adopted, Stamped, RowState, SubState
<1>5. /\ us' \in [Rows -> RowState]
      /\ \A r \in Rows : us'[r].kind = us[r].kind /\ us'[r].sub = us[r].sub /\ (r \notin Mine => us'[r] = us[r])
  BY <1>3, <1>4 DEF Steady, Typed
<1>6. /\ Done(h) /\ UNCHANGED <<sent, stripe>> /\ Mine' = Mine
      /\ Typed' /\ Intake' /\ Ordering' /\ History' /\ Jobs'
      /\ OneRow' /\ RowAppears' /\ Replaced' /\ NoGaps' /\ Room'
  BY <1>0, <1>1, <1>3, <1>5, RewriteKeeps
<1>7. \A r \in Mine' : /\ us'[r].status = sent[e].now.status /\ us'[r].plan = sent[e].now.plan
                       /\ sent[e].now.status # "past_due" => us'[r].due = "never"
  BY <1>3, <1>4, <1>6 DEF Mine, RowOf
<1>8. ActiveIsFresh'
  BY <1>7 DEF ActiveIsFresh
<1>9. \A r \in Mine' :
        /\ Newest(e) => /\ us'[r].status \in IF St.status = "canceled" THEN Ended ELSE {St.status}
                        /\ us'[r].plan = St.plan
                        /\ us'[r].status \in {"past_due"} \cup Ended \/ us'[r].due = "never"
        /\ \A f \in DOMAIN sent : Before(e, f) =>
              /\ sent[f].type = "deleted" => us'[r].plan = sent[f].now.plan
              /\ sent[f].type = "resumed" => us'[r].due = "never" /\ us'[r].status \notin {"active", "past_due"}
              /\ sent[f].type = "paid" => us'[r].status \in {"active", "past_due"}
  BY <1>1, <1>7 DEF Steady, History, NewestTells, ChainFits, Ended
<1>10. RowFollows' /\ RowExpects' /\ Payable'
  BY <1>0, <1>1, <1>2, <1>6, <1>9, TellerWrites DEF Steady
<1> QED BY <1>6, <1>8, <1>10 DEF Steady, RowFacts

(* customer.subscription.deleted: the plan is the one told last. *)
LEMMA DeletedKeeps ==
    ASSUME Regular, Steady, NEW h \in Hooks, HookDeleted(h)
    PROVE  Steady'
<1>0. PICK e : e = hook[h].ev
  OBVIOUS
<1>1. /\ Running(h) /\ Quiet /\ e \in Tellers /\ e \in DOMAIN sent
      /\ sent[e].type = "deleted" /\ Event(h) = sent[e]
  BY <1>0, EventIsTeller DEF HookDeleted, Regular, TellTypes
<1>2. Mine # {} /\ RowOf(Event(h).sub) = Mine
  BY <1>0, <1>1, RowIsThere, EventIsOfSole DEF Steady
<1>3. /\ us' = [r \in Rows |-> IF r \in Mine THEN [us[r] EXCEPT !.status = "cancelled"] ELSE us[r]]
      /\ Answer(h) /\ UNCHANGED <<stripe, job>>
  BY <1>1, <1>2 DEF HookDeleted, Rewrite
<1>4. \A r \in Rows : us[r] \in RowState
  BY DEF Steady, Typed
<1>5. /\ us' \in [Rows -> RowState]
      /\ \A r \in Rows : /\ us'[r].kind = us[r].kind /\ us'[r].sub = us[r].sub /\ us'[r].plan = us[r].plan
                         /\ r \notin Mine => us'[r] = us[r]
      /\ \A r \in Mine : us'[r].status = "cancelled"
  BY <1>3, <1>4 DEF RowState, Mine, RowOf
<1>6. /\ Done(h) /\ UNCHANGED <<sent, stripe>> /\ Mine' = Mine
      /\ Typed' /\ Intake' /\ Ordering' /\ History' /\ Jobs'
      /\ OneRow' /\ RowAppears' /\ Replaced' /\ NoGaps' /\ Room'
  BY <1>0, <1>1, <1>3, <1>5, RewriteKeeps
<1>7. \A r \in Mine' : us'[r].status = "cancelled" /\ us'[r].plan = sent[e].now.plan
  <2>1. First(e) /\ e \in Pending
    BY <1>0, <1>1, <1>6, NextAfter DEF Steady, First
  <2>2. \A r \in Mine : us[r].plan = sent[e].now.plan
    BY <1>1, <2>1 DEF Steady, RowFacts, RowExpects
  <2> QED BY <1>5, <1>6, <2>2 DEF Mine, RowOf
<1>8. ActiveIsFresh'
  BY <1>7 DEF ActiveIsFresh
<1>9. St.status = "canceled"
  BY <1>1 DEF Steady, History, EventsFit
<1>10. \A r \in Mine' :
        /\ Newest(e) => /\ us'[r].status \in IF St.status = "canceled" THEN Ended ELSE {St.status}
                        /\ us'[r].plan = St.plan
                        /\ us'[r].status \in {"past_due"} \cup Ended \/ us'[r].due = "never"
        /\ \A f \in DOMAIN sent : Before(e, f) =>
              /\ sent[f].type = "deleted" => us'[r].plan = sent[f].now.plan
              /\ sent[f].type = "resumed" => us'[r].due = "never" /\ us'[r].status \notin {"active", "past_due"}
              /\ sent[f].type = "paid" => us'[r].status \in {"active", "past_due"}
  BY <1>1, <1>7, <1>9 DEF Steady, History, NewestTells, ChainFits, Ended
<1>11. RowFollows' /\ RowExpects' /\ Payable'
  BY <1>0, <1>1, <1>2, <1>6, <1>10, TellerWrites DEF Steady
<1> QED BY <1>6, <1>8, <1>11 DEF Steady, RowFacts

(* customer.subscription.paused: an update follows. *)
LEMMA PausedKeeps ==
    ASSUME Regular, Steady, NEW h \in Hooks, HookPaused(h)
    PROVE  Steady'
<1>0. PICK e : e = hook[h].ev
  OBVIOUS
<1>1. /\ Running(h) /\ Quiet /\ e \in Tellers /\ e \in DOMAIN sent
      /\ sent[e].type = "paused" /\ Event(h) = sent[e]
  BY <1>0, EventIsTeller DEF HookPaused, Regular, TellTypes
<1>2. Mine # {} /\ RowOf(Event(h).sub) = Mine
  BY <1>0, <1>1, RowIsThere, EventIsOfSole DEF Steady
<1>3. /\ us' = [r \in Rows |-> IF r \in Mine THEN [us[r] EXCEPT !.status = "paused"] ELSE us[r]]
      /\ Answer(h) /\ UNCHANGED <<stripe, job>>
  BY <1>1, <1>2 DEF HookPaused, Rewrite
<1>4. \A r \in Rows : us[r] \in RowState
  BY DEF Steady, Typed
<1>5. /\ us' \in [Rows -> RowState]
      /\ \A r \in Rows : us'[r].kind = us[r].kind /\ us'[r].sub = us[r].sub /\ (r \notin Mine => us'[r] = us[r])
      /\ \A r \in Mine : us'[r].status = "paused"
  BY <1>3, <1>4 DEF RowState, StripeStatus, Mine, RowOf
<1>6. /\ Done(h) /\ UNCHANGED <<sent, stripe>> /\ Mine' = Mine
      /\ Typed' /\ Intake' /\ Ordering' /\ History' /\ Jobs'
      /\ OneRow' /\ RowAppears' /\ Replaced' /\ NoGaps' /\ Room'
  BY <1>0, <1>1, <1>3, <1>5, RewriteKeeps
<1>7. ActiveIsFresh'
  BY <1>5, <1>6 DEF ActiveIsFresh
<1>8. ~Newest(e) /\ \A f \in DOMAIN sent : Before(e, f) => sent[f].type \notin {"deleted", "resumed", "paid"}
  BY <1>1 DEF Steady, History, NewestTells, ChainFits
<1>9. RowFollows' /\ RowExpects' /\ Payable'
  BY <1>0, <1>1, <1>2, <1>6, <1>8, TellerWrites DEF Steady
<1> QED BY <1>6, <1>7, <1>9 DEF Steady, RowFacts

(* customer.subscription.resumed: the row was paused, so its stamp was cleared. *)
LEMMA ResumedKeeps ==
    ASSUME Regular, Steady, NEW h \in Hooks, HookResumed(h)
    PROVE  Steady' /\ \A r \in Rows : us'[r].status = "past_due" => us[r].status = "past_due"
<1>0. PICK e : e = hook[h].ev
  OBVIOUS
<1>1. /\ Running(h) /\ Quiet /\ e \in Tellers /\ e \in DOMAIN sent
      /\ sent[e].type = "resumed" /\ Event(h) = sent[e]
  BY <1>0, EventIsTeller DEF HookResumed, Regular, TellTypes
<1>2. Mine # {} /\ RowOf(Event(h).sub) = Mine /\ sent[e].now.status = "active"
  BY <1>0, <1>1, RowIsThere, EventIsOfSole DEF Steady, History, EventsFit
<1>3. /\ us' = [r \in Rows |-> IF r \in Mine THEN [us[r] EXCEPT !.status = "active"] ELSE us[r]]
      /\ Answer(h) /\ UNCHANGED <<stripe, job>>
  BY <1>1, <1>2 DEF HookResumed, Rewrite
<1>4. \A r \in Rows : us[r] \in RowState
  BY DEF Steady, Typed
<1>5. /\ us' \in [Rows -> RowState]
      /\ \A r \in Rows : us'[r].kind = us[r].kind /\ us'[r].sub = us[r].sub /\ (r \notin Mine => us'[r] = us[r])
      /\ \A r \in Mine : us'[r].status = "active" /\ us'[r].due = us[r].due
  BY <1>3, <1>4 DEF RowState, StripeStatus, Mine, RowOf
<1>6. /\ Done(h) /\ UNCHANGED <<sent, stripe>> /\ Mine' = Mine
      /\ Typed' /\ Intake' /\ Ordering' /\ History' /\ Jobs'
      /\ OneRow' /\ RowAppears' /\ Replaced' /\ NoGaps' /\ Room'
  BY <1>0, <1>1, <1>3, <1>5, RewriteKeeps
<1>7. ActiveIsFresh'
  <2>1. First(e) /\ e \in Pending
    BY <1>0, <1>1, <1>6, NextAfter DEF Steady, First
  <2>2. \A r \in Mine : us[r].due = "never"
    BY <1>1, <2>1 DEF Steady, RowFacts, RowExpects
  <2> QED BY <1>5, <1>6, <2>2 DEF ActiveIsFresh
<1>8. ~Newest(e) /\ \A f \in DOMAIN sent : Before(e, f) => sent[f].type \notin {"deleted", "resumed", "paid"}
  BY <1>1 DEF Steady, History, NewestTells, ChainFits
<1>9. RowFollows' /\ RowExpects' /\ Payable'
  BY <1>0, <1>1, <1>2, <1>6, <1>8, TellerWrites DEF Steady
<1>10. \A r \in Rows : us'[r].status = "past_due" => us[r].status = "past_due"
  BY <1>5
<1> QED BY <1>6, <1>7, <1>9, <1>10 DEF Steady, RowFacts

(* A handler of an event that is no teller has ended: nothing else has run. *)
LEMMA OtherEnds ==
    ASSUME Regular, Steady, NEW h \in Hooks, Running(h), NEW e, e = hook[h].ev, e \notin Tellers,
           Answer(h), UNCHANGED <<stripe, job>>, Quiet
    PROVE  /\ Intake' /\ Ordering' /\ History' /\ Jobs'
           /\ Tellers' = Tellers /\ Pending' = Pending /\ St' = St /\ UNCHANGED <<sent, acked>>
           /\ \A f \in Tellers : Ran(f)' <=> Ran(f)
<1>1. Done(h) /\ UNCHANGED <<sent, row, acked>>
  BY DEF Answer, Done
<1>2. Ordering' /\ \A f \in DOMAIN sent : f # e => (Ran(f)' <=> Ran(f))
  BY <1>1, HandlerEnds DEF Steady
<1>3. Tellers' = Tellers /\ Tellers \subseteq DOMAIN sent /\ St' = St
  BY <1>1 DEF Tellers, St
<1>4. \A f \in Tellers : Ran(f)' <=> Ran(f)
  BY <1>2, <1>3
<1>5. Pending' = Pending
  BY <1>3, <1>4 DEF Pending
<1>6. Intake'
  BY <1>1, TurnKeepsIntake DEF Steady, Running, Done
<1> QED BY <1>1, <1>2, <1>3, <1>4, <1>5, <1>6, HistoryStays, QuietJobs DEF Steady

(* The row of the subscription stays as it is. *)
LEMMA AsideKeeps ==
    ASSUME RowFacts, UNCHANGED <<stripe, sent>>, acked \subseteq acked', \A e \in Tellers : Ran(e)' <=> Ran(e),
           Mine' = Mine, \A r \in Mine : us'[r] = us[r]
    PROVE  RowAppears' /\ RowFollows' /\ RowExpects' /\ ActiveIsFresh' /\ Payable'
<1>1. Tellers' = Tellers /\ St' = St
  BY DEF Tellers, St
<1>2. Pending' = Pending /\ \A e \in DOMAIN sent : First(e)' <=> First(e)
  BY <1>1 DEF Pending, First
<1>3. Tellers \subseteq DOMAIN sent /\ Pending \subseteq DOMAIN sent
  BY DEF Tellers, Pending
<1>4. RowAppears' /\ ActiveIsFresh'
  BY <1>1, <1>2 DEF RowFacts, RowAppears, ActiveIsFresh
<1>5. RowFollows' /\ RowExpects'
  BY <1>1, <1>2, <1>3 DEF RowFacts, RowFollows, RowExpects, Mirrors
<1>6. Payable'
  BY <1>1 DEF RowFacts, Payable
<1> QED BY <1>4, <1>5, <1>6

(* The free row that the checkout was to replace goes, the others stay. *)
LEMMA WithoutRemoves ==
    ASSUME Regular, Steady, NEW id
    PROVE  /\ Without(id) \in [Rows -> RowState]
           /\ \A r \in Rows : r # id => Without(id)[r] = us[r]
           /\ \A r \in Rows : us[r].kind # "free" => Without(id)[r] = us[r]
           /\ \A r \in Rows : Without(id)[r] \in {us[r], NoRow}
           /\ \A r \in Rows : r = id => Without(id)[r].kind # "free"
           /\ \A r \in Mine : Without(id)[r] = us[r] /\ us[r].kind = "paid"
<1>1. NoRow \in RowState /\ NoRow.kind = "none"
  BY DEF NoRow, RowState, StripeStatus, AnyPlan
<1>2. us \in [Rows -> RowState]
  BY DEF Steady, Typed
<1>3. \A r \in Mine : r \in Rows /\ us[r].kind = "paid"
  BY DEF Steady, RowFacts, OneRow, Mine, RowOf
<1> HIDE DEF NoRow
<1> QED BY <1>1, <1>2, <1>3 DEF Without

(* checkout.session.completed: only the replaced row goes. *)
LEMMA CompletedKeeps ==
    ASSUME Regular, Steady, NEW h \in Hooks, HookCompleted(h)
    PROVE  Steady'
<1>0. PICK e : e = hook[h].ev
  OBVIOUS
<1> DEFINE left == Without(St.replaces)
<1>1. Running(h) /\ Quiet /\ e \notin Tellers /\ Answer(h) /\ UNCHANGED <<stripe, job>>
  BY <1>0, EventIsTeller DEF HookCompleted, Regular, Tellers, TellTypes
<1>2. us' = left
  BY <1>1, EventIsOfSole DEF Steady, HookCompleted
<1>3. /\ Intake' /\ Ordering' /\ History' /\ Jobs'
      /\ Tellers' = Tellers /\ Pending' = Pending /\ St' = St /\ UNCHANGED <<sent, acked>>
      /\ \A f \in Tellers : Ran(f)' <=> Ran(f)
  BY <1>0, <1>1, OtherEnds
<1>4. /\ left \in [Rows -> RowState]
      /\ \A r \in Rows : r # St.replaces => left[r] = us[r]
      /\ \A r \in Rows : left[r] \in {us[r], NoRow}
      /\ \A r \in Rows : r = St.replaces => left[r].kind # "free"
      /\ \A r \in Mine : left[r] = us[r] /\ us[r].kind = "paid"
  BY WithoutRemoves
<1>5. NoRow.kind = "none" /\ NoRow.sub # Sole
  BY SoleSub DEF NoRow
<1> HIDE DEF left, NoRow
<1>6. Mine' = Mine
  BY <1>2, <1>4, <1>5 DEF Mine, RowOf
<1>7. Typed'
  BY <1>1, <1>2, <1>3, <1>4 DEF Steady, Typed
<1>8. OneRow'
  BY <1>2, <1>4, <1>5, <1>6 DEF Steady, RowFacts, OneRow
<1>9. Replaced'
  BY <1>2, <1>3, <1>4, <1>6 DEF Steady, RowFacts, Replaced
<1>10. NoGaps'
  <2>1. \A r \in Rows : us'[r].kind # "none" => us[r].kind # "none"
    BY <1>2, <1>4, <1>5
  <2> QED BY <1>2, <1>3, <1>4, <2>1 DEF Steady, RowFacts, NoGaps
<1>11. Room'
  <2>1. Held' \subseteq Held
    BY <1>2, <1>4, <1>5 DEF Held
  <2>2. NextId' <= NextId /\ NextId \in Nat /\ NextId' \in Nat
    <3>1. (NextId \in Nat \ {0})'
      BY NextIdFollows, PTL
    <3> QED BY <2>1, <3>1, NextIdShrinks, NextIdFollows
  <2>3. Max(Rows) \in Nat
    BY RowsAreNumbered
  <2> QED BY <1>6, <2>2, <2>3 DEF Steady, RowFacts, Room
<1>12. RowAppears' /\ RowFollows' /\ RowExpects' /\ ActiveIsFresh' /\ Payable'
  BY <1>1, <1>2, <1>3, <1>4, <1>6, AsideKeeps DEF Steady
<1> QED BY <1>3, <1>7, <1>8, <1>9, <1>10, <1>11, <1>12 DEF Steady, RowFacts

(* A credit note touches no row. *)
LEMMA NoteKeepsSteady ==
    ASSUME Regular, Steady, NEW h \in Hooks, Handling(h, "note"), Answer(h), UNCHANGED <<us, stripe, job>>
    PROVE  Steady'
<1>1. Running(h) /\ Quiet /\ hook[h].ev \notin Tellers /\ UNCHANGED <<us, stripe, job>>
  BY EventIsTeller DEF Handling, Regular, Tellers, TellTypes
<1>2. /\ Intake' /\ Ordering' /\ History' /\ Jobs'
      /\ UNCHANGED <<sent, acked>>
      /\ \A f \in Tellers : Ran(f)' <=> Ran(f)
  BY <1>1, OtherEnds
<1>3. RowFacts'
  BY <1>1, <1>2, MoveKeepsRows DEF Steady
<1>4. Typed'
  BY <1>1, <1>2 DEF Steady, Typed
<1> QED BY <1>2, <1>3, <1>4 DEF Steady

(* Nor does the read of the invoice. *)
LEMMA SameKeepsSteady ==
    ASSUME Steady, UNCHANGED <<us, stripe, job, eventVars>>
    PROVE  Steady'
<1>1. \A e \in Tellers : Ran(e)' <=> Ran(e)
  BY DEF eventVars, Ran, Running
<1>2. UNCHANGED <<sent, row, acked, hook>>
  BY DEF eventVars
<1>3. Intake' /\ Ordering'
  BY <1>2 DEF Steady, Intake, Log, Deliveries, AtWork, Ordering, OneHook, InTurn, TellersRun, PaymentsRun,
              Touched, Ran, Running, Telling, St
<1>4. History' /\ RowFacts' /\ Jobs'
  BY <1>1, <1>2, MoveKeepsRows DEF Steady
<1>5. Typed'
  BY <1>2 DEF Steady, Typed
<1> QED BY <1>3, <1>4, <1>5 DEF Steady

(* The customer's paid row is the one of the subscription. *)
LEMMA CustomersAreMine ==
    ASSUME Steady
    PROVE  /\ Customers(Entitling) = {r \in Mine : us[r].status \in {"active", "past_due"}}
           /\ Customers(Billable) = {r \in Mine : us[r].status = "active"}
BY DEF Steady, RowFacts, OneRow, Customers, Entitling, Billable, Mine, RowOf

(* A payment that is handled when all tellers have run finds Stripe paid. *)
LEMMA PaidMeansActive ==
    ASSUME Regular, Steady, NEW h \in Hooks, Running(h), NEW e, e = hook[h].ev, sent[e].type = "paid",
           Pending = {}, St.status # "canceled"
    PROVE  St.status = "active"
<1>1. e \in DOMAIN sent /\ e \notin acked /\ e \notin Tellers
  BY HandlerRuns DEF Steady, Tellers, TellTypes
<1>2. CASE Tellers = {}
  BY <1>1, <1>2 DEF Steady, History, EventsFit
<1>3. CASE Tellers # {}
  <2>1. PICK n \in Nat : DOMAIN sent = 1 .. n
    BY DEF Steady, Intake, Log
  <2>2. Tellers \in SUBSET (0 .. n)
    BY <2>1 DEF Tellers
  <2>3. PICK f \in Tellers : \A g \in Tellers : g <= f
    BY <1>3, <2>2, MaxIsMember
  <2>4. Ran(f) /\ f \in DOMAIN sent
    BY DEF Pending, Tellers
  <2>5. Touched(f)
    BY <2>4 DEF Ran, Touched
  <2>6. ~(f > e) /\ f # e
    BY <1>1, <2>4, <2>5 DEF Steady, Ordering, PaymentsRun
  <2>7. f < e
    BY <1>1, <2>1, <2>4, <2>6
  <2>8. Before(f, e) /\ Newest(f)
    <3>1. \A g \in Tellers : g \in Nat /\ g <= f
      BY <2>2, <2>3
    <3>2. f \in Nat
      BY <3>1
    <3> QED BY <1>1, <2>7, <3>1, <3>2 DEF Before, Newest
  <2> QED BY <1>1, <2>4, <2>8 DEF Steady, History, NewestTells, ChainFits
<1> QED BY <1>2, <1>3

(* Dunning moves one row between active and past due, its stamp with it. *)
LEMMA DunningKeeps ==
    ASSUME Regular, Steady, NEW h \in Hooks, Running(h), NEW e, e = hook[h].ev, e \notin Tellers,
           Answer(h), UNCHANGED <<stripe, job>>, Quiet,
           NEW r \in Mine, us[r].status \in {"active", "past_due"}, NEW st \in {"active", "past_due"},
           NEW due \in {"never", "fresh", "overdue"}, st = "active" => due = "never",
           us' = [us EXCEPT ![r].status = st, ![r].due = due],
           Pending = {} => St.status \in {"canceled", st}
    PROVE  Steady'
<1>1. /\ Intake' /\ Ordering' /\ History' /\ Jobs'
      /\ Tellers' = Tellers /\ Pending' = Pending /\ St' = St /\ UNCHANGED <<sent, acked>>
      /\ \A f \in Tellers : Ran(f)' <=> Ran(f)
  BY OtherEnds
<1>2. r \in Rows /\ us[r] \in RowState /\ us \in [Rows -> RowState] /\ \A q \in Mine : q = r
  BY DEF Steady, Typed, Mine, RowOf, RowFacts, OneRow
<1>3. us'[r] = [us[r] EXCEPT !.status = st, !.due = due] /\ \A q \in Rows : q # r => us'[q] = us[q]
  BY <1>2
<1>4. /\ us'[r] \in RowState /\ us'[r].status = st /\ us'[r].due = due
      /\ us'[r].kind = us[r].kind /\ us'[r].sub = us[r].sub /\ us'[r].plan = us[r].plan
  BY <1>2, <1>3 DEF RowState, StripeStatus
<1>5. us' \in [Rows -> RowState] /\ \A q \in Rows : us'[q].kind = us[q].kind /\ us'[q].sub = us[q].sub
  BY <1>2, <1>3, <1>4
<1>6. Mine' = Mine
  BY <1>5 DEF Mine, RowOf
<1>7. Typed'
  BY <1>1, <1>5 DEF Steady, Typed
<1>8. OneRow'
  BY <1>2, <1>3, <1>5, <1>6 DEF Steady, RowFacts, OneRow, Mine, RowOf, NoRow
<1>9. RowAppears' /\ ActiveIsFresh' /\ Replaced' /\ NoGaps'
  BY <1>1, <1>2, <1>4, <1>5, <1>6 DEF Steady, RowFacts, RowAppears, ActiveIsFresh, Replaced, NoGaps
<1>10. Room'
  BY <1>5, <1>6, NextIdStays DEF Steady, RowFacts, Room
<1>11. \A f \in Tellers : First(f)' <=> First(f)
  BY <1>1 DEF First
<1>12. RowExpects'
  <2>1. Pending \subseteq Tellers
    BY DEF Pending
  <2> QED BY <1>1, <1>2, <1>4, <1>6, <1>11, <2>1 DEF Steady, RowFacts, RowExpects
<1>13. RowFollows'
  <2> SUFFICES ASSUME St.status \notin {"none", "open"}, Pending = {}
               PROVE  Mirrors(r, St)' /\ (us'[r].status \in {"past_due"} \cup Ended \/ us'[r].due = "never")
    BY <1>1, <1>2, <1>6 DEF RowFollows
  <2>1. Mirrors(r, St)
    BY DEF Steady, RowFacts, RowFollows
  <2>2. St.status # "canceled"
    BY <2>1 DEF Mirrors
  <2> QED BY <1>1, <1>4, <2>1, <2>2 DEF Mirrors
<1>14. Payable'
  BY <1>1, <1>4, <1>6 DEF Payable
<1> QED BY <1>1, <1>7, <1>8, <1>9, <1>10, <1>12, <1>13, <1>14 DEF Steady, RowFacts

(* A refusal leaves the rows alone. *)
LEMMA RefusalKeepsSteady ==
    ASSUME Regular, Steady, NEW h \in Hooks, Running(h), Refuse(h), UNCHANGED <<us, stripe, job>>,
           sent[hook[h].ev].type \in {"failed", "note"} \/ (sent[hook[h].ev].type = "paid" /\ St.status = "canceled")
    PROVE  Steady'
<1>1. Failed(h) /\ UNCHANGED <<sent, acked>>
  BY DEF Refuse, Failed
<1>2. Ordering' /\ \A f \in Tellers : Ran(f)' <=> Ran(f)
  BY <1>1, RefusalKeeps DEF Steady
<1>3. Intake'
  BY <1>1, MarkKeepsIntake DEF Steady, Failed, AtWork, Running
<1>4. History' /\ RowFacts' /\ Jobs'
  BY <1>1, <1>2, MoveKeepsRows DEF Steady
<1>5. Typed'
  BY <1>1 DEF Steady, Typed
<1> QED BY <1>2, <1>3, <1>4, <1>5 DEF Steady

(* invoice.payment_succeeded: Stripe has the subscription active, or tells soon. *)
LEMMA PaidKeeps ==
    ASSUME Regular, Steady, NEW h \in Hooks, HookPaid(h)
    PROVE  Steady' /\ \A r \in Rows : us'[r].status = "past_due" => us[r].status = "past_due"
<1>0. PICK e : e = hook[h].ev
  OBVIOUS
<1>1. /\ Running(h) /\ Quiet /\ e \notin Tellers /\ e \in DOMAIN sent /\ sent[e].type = "paid"
      /\ UNCHANGED <<stripe, job>>
  BY <1>0, EventIsTeller DEF HookPaid, Regular, Tellers, TellTypes
<1>2. e \notin acked /\ \A f \in Tellers : f < e => Ran(f)
  BY <1>0, <1>1, HandlerRuns DEF Steady
<1>3. CASE Customers(Entitling) = {}
  <2>1. Refuse(h) /\ us' = us
    BY <1>3 DEF HookPaid
  <2>2. St.status = "canceled"
    BY <1>1, <1>2, <1>3, CustomersAreMine DEF Steady, RowFacts, Payable
  <2> QED BY <1>0, <1>1, <2>1, <2>2, RefusalKeepsSteady
<1>4. CASE Customers(Entitling) # {}
  <2>1. PICK r \in Customers(Entitling) :
            us' = IF us[r].status = "past_due" THEN [us EXCEPT ![r].status = "active", ![r].due = "never"] ELSE us
    BY <1>4 DEF HookPaid
  <2>2. Answer(h)
    BY <1>4 DEF HookPaid
  <2>3. r \in Mine /\ us[r].status \in {"active", "past_due"} /\ us \in [Rows -> RowState] /\ r \in Rows
    BY CustomersAreMine DEF Steady, Typed, Mine, RowOf
  <2>4. CASE us[r].status = "past_due"
    <3>1. us' = [us EXCEPT ![r].status = "active", ![r].due = "never"]
      BY <2>1, <2>4
    <3>2. Pending = {} => St.status \in {"canceled", "active"}
      BY <1>0, <1>1, PaidMeansActive
    <3>3. Steady'
      BY <1>0, <1>1, <2>2, <2>3, <3>1, <3>2, DunningKeeps
    <3> QED BY <2>3, <3>1, <3>3 DEF RowState
  <2>5. CASE us[r].status # "past_due"
    <3>1. us' = us
      BY <2>1, <2>5
    <3>2. /\ Intake' /\ Ordering' /\ History' /\ Jobs' /\ UNCHANGED <<sent, acked>>
          /\ \A f \in Tellers : Ran(f)' <=> Ran(f)
      BY <1>0, <1>1, <2>2, OtherEnds
    <3>3. RowFacts'
      BY <1>1, <3>1, <3>2, MoveKeepsRows DEF Steady
    <3>4. Typed'
      BY <1>1, <3>1, <3>2 DEF Steady, Typed
    <3> QED BY <3>1, <3>2, <3>3, <3>4 DEF Steady
  <2> QED BY <2>4, <2>5
<1> QED BY <1>3, <1>4

(* invoice.payment_failed: not answered, it comes before the recovery. *)
LEMMA FailedKeeps ==
    ASSUME Regular, Steady, NEW h \in Hooks, HookFailed(h)
    PROVE  Steady'
<1>0. PICK e : e = hook[h].ev
  OBVIOUS
<1>1. /\ Running(h) /\ Quiet /\ e \notin Tellers /\ e \in DOMAIN sent /\ sent[e].type = "failed"
      /\ UNCHANGED <<stripe, job>>
  BY <1>0, EventIsTeller DEF HookFailed, Regular, Tellers, TellTypes
<1>2. e \notin acked
  BY <1>0, <1>1, HandlerRuns DEF Steady
<1>3. CASE Customers(Billable) = {}
  <2>1. Refuse(h) /\ us' = us
    BY <1>3 DEF HookFailed
  <2> QED BY <1>0, <1>1, <2>1, RefusalKeepsSteady
<1>4. CASE Customers(Billable) # {}
  <2>1. PICK r \in Customers(Billable) :
            us' = [us EXCEPT ![r].status = "past_due", ![r].due = Stamped(us[r].due)]
    BY <1>4 DEF HookFailed
  <2>2. Answer(h)
    BY <1>4 DEF HookFailed
  <2>3. r \in Mine /\ us[r].status = "active" /\ us[r].due = "never"
    BY CustomersAreMine DEF Steady, RowFacts, ActiveIsFresh
  <2>4. us' = [us EXCEPT ![r].status = "past_due", ![r].due = "fresh"]
    BY <2>1, <2>3 DEF Stamped
  <2>5. St.status \in {"past_due", "canceled"}
    BY <1>1, <1>2 DEF Steady, History, EventsFit
  <2> QED BY <1>0, <1>1, <2>2, <2>3, <2>4, <2>5, DunningKeeps
<1> QED BY <1>3, <1>4

(* The rows below the next id are held, but for the one that was replaced. *)
LEMMA BelowNextId ==
    ASSUME Steady, NEW i \in Rows, i < NextId, i # St.replaces
    PROVE  us[i].kind # "none"
<1>1. NextId - 1 \in Held \cup {0} /\ NextId \in Nat \ {0} /\ i \in Nat \ {0}
  BY NextIdFollows, RowsAreNumbered
<1> DEFINE m == NextId - 1
<1>2. m \in Held /\ i <= m
  BY <1>1
<1>3. m \in Rows /\ us[m].kind # "none"
  BY <1>2 DEF Held
<1>4. CASE i = m
  BY <1>3, <1>4
<1>5. CASE i < m
  BY <1>3, <1>5 DEF Steady, RowFacts, NoGaps
<1> QED BY <1>1, <1>2, <1>4, <1>5

(* The row to be replaced was given its id before. *)
LEMMA ReplacesIsBelow ==
    ASSUME Steady
    PROVE  St.replaces <= NextId
<1>1. NextId \in Nat \ {0} /\ \A r \in Held : r < NextId
  BY NextIdFollows
<1>2. CASE St.replaces = 0
  BY <1>1, <1>2
<1>3. CASE St.replaces \in Rows
  <2>1. St.replaces \in Nat \ {0} /\ Rows = 1 .. Max(Rows) /\ Max(Rows) \in Nat
    BY <1>3, RowsAreNumbered
  <2>2. CASE NextId < St.replaces
    <3>1. NextId \in Rows /\ NextId # St.replaces
      BY <1>1, <2>1, <2>2, <1>3
    <3>2. us[NextId].kind # "none"
      BY <1>3, <2>2, <3>1 DEF Steady, RowFacts, NoGaps
    <3>3. NextId \in Held
      BY <3>1, <3>2 DEF Held
    <3> QED BY <1>1, <3>3
  <2> QED BY <1>1, <2>1, <2>2
<1> QED BY <1>2, <1>3 DEF Steady, RowFacts, NoGaps

(* customer.subscription.created: the row appears in place of the free one. *)
LEMMA CreatedKeeps ==
    ASSUME Regular, Steady, NEW h \in Hooks, HookCreated(h)
    PROVE  Steady'
<1>0. PICK e : e = hook[h].ev
  OBVIOUS
<1> DEFINE left == Without(St.replaces)
           new == [NoRow EXCEPT !.kind = "paid", !.status = sent[e].now.status, !.sub = Sole, !.plan = sent[e].now.plan]
<1>1. /\ Running(h) /\ Quiet /\ e \in Tellers /\ e \in DOMAIN sent
      /\ sent[e].type = "created" /\ Event(h) = sent[e]
  BY <1>0, EventIsTeller DEF HookCreated, Regular, TellTypes
<1>2. /\ RowOf(Event(h).sub) = Mine /\ sent[e].now \in SubState /\ sent[e].now.replaces = St.replaces
      /\ sent[e].sub = Sole /\ St.status \notin {"none", "open"}
  BY <1>0, <1>1, EventIsOfSole DEF Steady, EventState
<1>3. Mine = {}
  <2>1. e \in Pending
    BY <1>0, <1>1, HandlerRuns DEF Steady, Pending
  <2> QED BY <1>1, <1>2, <2>1 DEF Steady, RowFacts, RowAppears
<1>4. Answer(h) /\ Done(h) /\ UNCHANGED <<sent, row, acked, stripe, job>>
  BY <1>1 DEF HookCreated, Answer, Done
<1>5. us' = [left EXCEPT ![NextId] = new]
  BY <1>1, <1>2, <1>3 DEF HookCreated
<1>6. /\ left \in [Rows -> RowState]
      /\ \A r \in Rows : r # St.replaces => left[r] = us[r]
      /\ \A r \in Rows : left[r] \in {us[r], NoRow}
      /\ \A r \in Rows : r = St.replaces => left[r].kind # "free"
  BY WithoutRemoves
<1>7. NoRow.kind = "none" /\ NoRow.sub # Sole
  BY SoleSub DEF NoRow
<1>8. /\ new \in RowState /\ new.kind = "paid" /\ new.sub = Sole /\ new.due = "never"
      /\ new.status = sent[e].now.status /\ new.plan = sent[e].now.plan
  BY <1>2, SoleSub DEF NoRow, RowState, SubState, StripeStatus
<1>9. NextId \in Rows
  BY <1>3, RowsAreNumbered, NextIdFollows DEF Steady, RowFacts, Room
<1> HIDE DEF left, new, NoRow
<1>10. PICK n : n = NextId
  OBVIOUS
<1>11. us' \in [Rows -> RowState] /\ us'[n] = new /\ \A r \in Rows : r # n => us'[r] = left[r]
  BY <1>5, <1>6, <1>8, <1>9, <1>10
<1>12. Mine' = {n}
  <2>1. \A r \in Rows : us[r].sub # Sole
    BY <1>3 DEF Mine, RowOf
  <2>2. \A r \in Rows : left[r].sub # Sole
    BY <1>6, <1>7, <2>1
  <2> QED BY <1>8, <1>9, <1>10, <1>11, <2>2 DEF Mine, RowOf
<1>13. Typed' /\ Intake' /\ Ordering' /\ History' /\ Jobs'
  <2>1. Typed'
    BY <1>4, <1>11 DEF Steady, Typed
  <2>2. Intake'
    BY <1>1, <1>4, TurnKeepsIntake DEF Steady, Running, Done
  <2>3. Ordering'
    BY <1>0, <1>1, <1>4, HandlerEnds DEF Steady
  <2> QED BY <1>1, <1>4, <2>1, <2>2, <2>3, HistoryStays, QuietJobs DEF Steady
<1>14. OneRow'
  <2>1. \A r \in Rows : (us[r].sub = Sole <=> us[r].kind = "paid") /\ (us[r].kind = "none" => us[r] = NoRow)
    BY DEF Steady, RowFacts, OneRow
  <2>2. \A r \in Rows : (left[r].sub = Sole <=> left[r].kind = "paid") /\ (left[r].kind = "none" => left[r] = NoRow)
    BY <1>6, <1>7, <2>1
  <2> QED BY <1>8, <1>11, <1>12, <2>2 DEF OneRow
<1>15. St' = St
  BY <1>4 DEF St
<1>16. RowAppears'
  <2>1. Tellers' = Tellers /\ Pending' = Pending \ {e}
    BY <1>0, <1>1, <1>4, NextAfter DEF Steady
  <2>2. ASSUME NEW c \in Pending', sent[c].type = "created" PROVE FALSE
    <3>1. c \in Tellers /\ c # e /\ c \in DOMAIN sent
      BY <2>1 DEF Pending, Tellers
    <3>2. c <= e /\ e <= c
      BY <1>1, <2>2, <3>1 DEF Steady, History, EventsFit
    <3> QED BY <1>1, <3>1, <3>2 DEF Steady, Intake, Log
  <2> QED BY <1>2, <1>4, <1>12, <1>15, <2>2 DEF RowAppears
<1>17. Replaced'
  <2>1. St.replaces <= n /\ \A q \in Rows : q = St.replaces => us'[q].kind # "free"
    BY <1>6, <1>8, <1>10, <1>11, ReplacesIsBelow
  <2> QED BY <1>12, <1>15, <2>1 DEF Replaced
<1>18. NoGaps'
  <2>1. ASSUME NEW i \in Rows, NEW j \in Rows, i < j, us'[j].kind # "none" \/ j = St.replaces, i # St.replaces
        PROVE  us'[i].kind # "none"
    <3>1. CASE i = n
      BY <1>8, <1>11, <3>1
    <3>2. CASE i # n /\ j = n
      BY <1>6, <1>10, <1>11, <2>1, <3>2, BelowNextId
    <3>3. CASE i # n /\ j # n
      <4>1. us[j].kind # "none" \/ j = St.replaces
        BY <1>6, <1>7, <1>11, <2>1, <3>3
      <4>2. us[i].kind # "none"
        BY <2>1, <4>1 DEF Steady, RowFacts, NoGaps
      <4> QED BY <1>6, <1>11, <2>1, <3>3, <4>2
    <3> QED BY <3>1, <3>2, <3>3
  <2> QED BY <1>15, <2>1 DEF Steady, RowFacts, NoGaps
<1>19. Room' /\ ActiveIsFresh'
  BY <1>8, <1>11, <1>12 DEF Room, ActiveIsFresh
<1>20. RowFollows' /\ RowExpects' /\ Payable'
  <2>1. \A r \in Mine' :
          /\ Newest(e) => /\ us'[r].status \in IF St.status = "canceled" THEN Ended ELSE {St.status}
                          /\ us'[r].plan = St.plan
                          /\ us'[r].status \in {"past_due"} \cup Ended \/ us'[r].due = "never"
          /\ \A f \in DOMAIN sent : Before(e, f) =>
                /\ sent[f].type = "deleted" => us'[r].plan = sent[f].now.plan
                /\ sent[f].type = "resumed" => us'[r].due = "never" /\ us'[r].status \notin {"active", "past_due"}
                /\ sent[f].type = "paid" => us'[r].status \in {"active", "past_due"}
    BY <1>1, <1>8, <1>11, <1>12 DEF Steady, History, NewestTells, ChainFits, Ended
  <2>2. Mine' # {}
    BY <1>12
  <2> QED BY <1>0, <1>1, <1>4, <2>1, <2>2, TellerWrites DEF Steady
<1> QED BY <1>13, <1>14, <1>16, <1>17, <1>18, <1>19, <1>20 DEF Steady, RowFacts

(* One request is at work, and the others rest. *)
LEMMA OthersRest ==
    ASSUME Steady, NEW p \in Requests, ~At(p, "idle") \/ Quiet
    PROVE  \A q \in Requests : q # p => job[q] = Idle
BY DEF Steady, Jobs, Quiet

(* A request turns to its next step. *)
LEMMA RequestTurns ==
    ASSUME Steady, NEW p \in Requests, ~At(p, "idle") \/ Quiet,
           NEW j \in JobState, Go(p, j), j.op = "idle" => j = Idle, Fitting(p)'
    PROVE  Jobs' /\ job' \in [Requests -> JobState]
<1>1. job' \in [Requests -> JobState] /\ job'[p] = j /\ \A q \in Requests : q # p => job'[q] = job[q]
  BY DEF Go, Steady, Typed
<1>2. \A q \in Requests : q # p => job'[q] = Idle
  BY <1>1, OthersRest
<1>3. ASSUME NEW q \in Requests, q # p PROVE Fitting(q)' /\ job'[q].op = "idle"
  BY <1>2, <1>3 DEF Fitting, At, Idle
<1> QED BY <1>1, <1>2, <1>3 DEF Jobs, At

(* The records are what they should be. *)
LEMMA IdleIsJob == Idle \in JobState /\ Idle.op = "idle" /\ NoRow \in RowState /\ NoSub \in SubState
BY DEF Idle, JobState, NoRow, NoSub, RowState, SubState, StripeStatus, AnyPlan

(* A request ends. *)
LEMMA RequestRests ==
    ASSUME Steady, NEW p \in Requests, ~At(p, "idle") \/ Quiet, Go(p, Idle)
    PROVE  Jobs' /\ job' \in [Requests -> JobState]
<1>1. job'[p] = Idle
  BY DEF Go, Steady, Typed
<1>2. Fitting(p)'
  BY <1>1, IdleIsJob DEF Fitting, At
<1> QED BY <1>2, IdleIsJob, RequestTurns

(* Nothing happens at Stripe, and no event moves. *)
LEMMA EventsStay ==
    ASSUME Steady, UNCHANGED <<stripe, eventVars>>
    PROVE  /\ Intake' /\ Ordering' /\ History' /\ UNCHANGED <<sent, row, acked, hook>>
           /\ Tellers' = Tellers /\ Pending' = Pending /\ St' = St
           /\ \A e \in Tellers : Ran(e)' <=> Ran(e)
<1>1. UNCHANGED <<sent, row, acked, hook>>
  BY DEF eventVars
<1>2. Intake'
  BY <1>1 DEF Steady, Intake, Log, Deliveries, AtWork
<1>3. Tellers' = Tellers /\ Pending' = Pending /\ St' = St
  BY <1>1 DEF Tellers, Pending, Ran, Running, St
<1>4. \A e : (Ran(e)' <=> Ran(e)) /\ (Touched(e)' <=> Touched(e))
  BY <1>1 DEF Ran, Touched, Running
<1>5. Telling' = Telling
  BY <1>1 DEF Telling
<1>6. Ordering'
  BY <1>1, <1>3, <1>4, <1>5 DEF Steady, Ordering, OneHook, InTurn, TellersRun, PaymentsRun
<1> QED BY <1>1, <1>2, <1>3, <1>4, <1>6, HistoryStays DEF Steady

(* Rows are written, but none appears or goes. *)
LEMMA WriteKeeps ==
    ASSUME Steady, UNCHANGED <<stripe, eventVars>>, us' \in [Rows -> RowState],
           \A r \in Rows : us'[r].kind = us[r].kind /\ us'[r].sub = us[r].sub /\ (us[r].kind = "none" => us'[r] = us[r])
    PROVE  /\ OneRow' /\ RowAppears' /\ Replaced' /\ NoGaps' /\ Room'
           /\ Mine' = Mine /\ NextId' = NextId
<1>1. Mine' = Mine
  BY DEF Mine, RowOf
<1>2. St' = St /\ sent' = sent /\ Pending' = Pending
  BY EventsStay
<1>3. OneRow'
  BY <1>1 DEF Steady, RowFacts, OneRow
<1>4. RowAppears' /\ Replaced' /\ NoGaps'
  BY <1>1, <1>2 DEF Steady, RowFacts, RowAppears, Replaced, NoGaps
<1>5. Room' /\ NextId' = NextId
  BY <1>1, NextIdStays DEF Steady, RowFacts, Room
<1> QED BY <1>1, <1>3, <1>4, <1>5

(* Only requests move. *)
LEMMA JobOnly ==
    ASSUME Steady, UNCHANGED <<us, stripe, eventVars>>, Jobs', job' \in [Requests -> JobState]
    PROVE  Steady'
<1>1. /\ Intake' /\ Ordering' /\ History' /\ UNCHANGED <<sent, acked>>
      /\ Tellers' = Tellers /\ Pending' = Pending /\ St' = St
      /\ \A e \in Tellers : Ran(e)' <=> Ran(e)
  BY EventsStay
<1>2. Typed'
  BY <1>1 DEF Steady, Typed
<1>3. Mine' = Mine /\ NextId' = NextId
  BY DEF Mine, RowOf, NextId, Held
<1>4. \A r \in Mine : us'[r] = us[r]
  OBVIOUS
<1>5. RowAppears' /\ RowFollows' /\ RowExpects' /\ ActiveIsFresh' /\ Payable'
  BY <1>1, <1>3, <1>4, AsideKeeps DEF Steady
<1>6. OneRow' /\ Replaced' /\ NoGaps' /\ Room'
  BY <1>1, <1>3 DEF Steady, RowFacts, OneRow, Replaced, NoGaps, Room
<1> QED BY <1>1, <1>2, <1>5, <1>6 DEF Steady, RowFacts

(* A row that the customer need not pay for is granted. *)
LEMMA GrantKeeps ==
    ASSUME Regular, Steady, UNCHANGED <<stripe, eventVars>>,
           NEW v \in [Rows -> RowState],
           \A r \in Rows : v[r].kind = us[r].kind /\ v[r].sub = us[r].sub /\ (us[r].kind = "none" \/ r \in Mine => v[r] = us[r]),
           NEW g \in RowState, g.kind \in {"free", "assigned"}, g.sub = 0,
           us' = [v EXCEPT ![NextId] = g],
           Mine = {} => NextId < Max(Rows)
    PROVE  RowFacts' /\ us' \in [Rows -> RowState]
<1>0. PICK n : n = NextId
  OBVIOUS
<1>1. us' \in [Rows -> RowState] /\ \A r \in Rows : us'[r] = IF r = n THEN g ELSE v[r]
  BY <1>0
<1>2. /\ \A r \in Rows : us[r].kind # "none" => r < n
      /\ n \in Nat \ {0} /\ Rows \subseteq Nat
  BY <1>0, NextIdFollows, RowsAreNumbered DEF Held
<1>3. \A r \in Rows : r = n => us[r].kind = "none"
  BY <1>2
<1>4. \A r \in Mine : r \in Rows /\ us[r].kind = "paid" /\ r # n
  BY <1>3 DEF Steady, RowFacts, OneRow, Mine, RowOf
<1>5. Sole # 0 /\ \A r \in Mine : us'[r] = us[r]
  BY <1>1, <1>4, SoleSub
<1>6. Mine' = Mine
  BY <1>1, <1>4, <1>5 DEF Mine, RowOf
<1>7. /\ St' = St /\ Tellers' = Tellers /\ Pending' = Pending /\ UNCHANGED <<sent, acked>>
      /\ \A e \in Tellers : Ran(e)' <=> Ran(e)
  BY EventsStay
<1>8. RowAppears' /\ RowFollows' /\ RowExpects' /\ ActiveIsFresh' /\ Payable'
  BY <1>5, <1>6, <1>7, AsideKeeps DEF Steady
<1>9. OneRow'
  BY <1>1, <1>5, <1>6 DEF Steady, RowFacts, OneRow
<1>10. Replaced'
  <2>1. \A r \in Mine : St.replaces <= r /\ r < n /\ r \in Nat
    BY <1>2, <1>4 DEF Steady, RowFacts, Replaced
  <2>2. St.replaces \in Rows \cup {0}
    BY DEF Steady, RowFacts, NoGaps
  <2>3. \A r \in Mine : St.replaces # n
    BY <1>2, <2>1, <2>2
  <2> QED BY <1>1, <1>6, <1>7, <2>3 DEF Steady, RowFacts, Replaced
<1>11. NoGaps'
  <2>1. ASSUME NEW i \in Rows, NEW j \in Rows, i < j, us'[j].kind # "none" \/ j = St.replaces, i # St.replaces
        PROVE  us'[i].kind # "none"
    <3>1. CASE i = n
      BY <1>1, <3>1
    <3>2. CASE i # n /\ j = n
      <4>1. us[i].kind # "none"
        BY <1>0, <2>1, <3>2, BelowNextId
      <4> QED BY <1>1, <3>2, <4>1
    <3>3. CASE i # n /\ j # n
      <4>1. us[j].kind # "none" \/ j = St.replaces
        BY <1>1, <2>1, <3>3
      <4>2. us[i].kind # "none"
        BY <2>1, <4>1 DEF Steady, RowFacts, NoGaps
      <4> QED BY <1>1, <3>3, <4>2
    <3> QED BY <3>1, <3>2, <3>3
  <2> QED BY <1>7, <2>1 DEF Steady, RowFacts, NoGaps
<1>12. Room'
  <2>1. Held' \subseteq Held \cup {n}
    BY <1>1 DEF Held
  <2>2. NextId' \in Nat \ {0} /\ NextId' - 1 \in Held' \cup {0}
    <3>1. (NextId \in Nat \ {0} /\ NextId - 1 \in Held \cup {0})'
      BY NextIdFollows, PTL
    <3> QED BY <3>1
  <2>3. \A r \in Held : r < n /\ r \in Nat
    BY <1>2 DEF Held
  <2>4. NextId' <= n + 1
    BY <1>2, <2>1, <2>2, <2>3
  <2>5. Max(Rows) \in Nat
    BY RowsAreNumbered
  <2> QED BY <1>0, <1>2, <1>6, <2>2, <2>4, <2>5 DEF Room
<1> QED BY <1>1, <1>8, <1>9, <1>10, <1>11, <1>12 DEF RowFacts

(* The purchase to come keeps its place. *)
LEMMA SpareLeavesRoom ==
    ASSUME Regular, Spare, Mine = {}
    PROVE  NextId < Max(Rows)
<1>1. {s \in Subs : RowOf(s) = {}} = {Sole}
  BY SoleSub DEF Mine
<1>2. Cardinality({Sole}) = 1
  BY FS_Singleton
<1>3. NextId \in Nat /\ Max(Rows) \in Nat
  BY NextIdFollows, RowsAreNumbered
<1>4. Max(Rows) - NextId >= Cardinality({s \in Subs : RowOf(s) = {}})
  BY DEF Spare
<1>5. Max(Rows) - NextId >= 1
  BY <1>1, <1>2, <1>4
<1> QED BY <1>3, <1>5

(* GetActiveUserSubscription finds a row that grants a plan. *)
LEMMA CurrentIsEntitling ==
    ASSUME Current # 0
    PROVE  Current \in Entitling /\ Current \in Rows
<1>1. Entitling # {} /\ Current = Max(Entitling)
  BY DEF Current
<1>2. Entitling \in SUBSET (0 .. Max(Rows)) /\ Max(Rows) \in Nat
  BY RowsAreNumbered DEF Entitling
<1>3. Max(Entitling) \in Entitling
  BY <1>1, <1>2, MaxIsMember
<1> QED BY <1>1, <1>3 DEF Entitling

(* The requests that write rows of their own, or none. *)
LEMMA EnsureLookKeeps ==
    ASSUME Regular, Steady, NEW p \in Requests, EnsureLook(p)
    PROVE  Steady'
<1> DEFINE j == [Idle EXCEPT !.op = "free"]
<1>1. Quiet /\ Spare /\ Go(p, j) /\ UNCHANGED <<us, stripe, eventVars>>
  BY DEF EnsureLook, Begin, Regular
<1>2. j \in JobState /\ j.op = "free"
  BY IdleIsJob DEF JobState
<1>3. job'[p].op = "free"
  BY <1>1, <1>2 DEF Go, Steady, Typed
<1> HIDE DEF j
<1>4. Mine' = Mine /\ NextId' = NextId
  BY <1>1 DEF Mine, RowOf, NextId, Held
<1>5. Fitting(p)'
  BY <1>1, <1>3, <1>4, SpareLeavesRoom DEF Fitting, At
<1>6. Jobs' /\ job' \in [Requests -> JobState]
  BY <1>1, <1>2, <1>5, RequestTurns
<1> QED BY <1>1, <1>6, JobOnly

(* The free row takes the next id. *)
LEMMA EnsureCreateKeeps ==
    ASSUME Regular, Steady, NEW p \in Requests, EnsureCreate(p)
    PROVE  Steady'
<1>1. /\ At(p, "free") /\ us' = [us EXCEPT ![NextId] = Free] /\ Go(p, Idle)
      /\ UNCHANGED <<stripe, eventVars>>
  BY DEF EnsureCreate
<1>2. ~At(p, "idle") /\ (Mine = {} => NextId < Max(Rows))
  BY <1>1 DEF At, Steady, Jobs, Fitting
<1>3. Free \in RowState /\ Free.kind = "free" /\ Free.sub = 0
  BY DEF Free, NoRow, RowState, StripeStatus, AnyPlan
<1>4. us \in [Rows -> RowState]
  BY DEF Steady, Typed
<1>5. RowFacts' /\ us' \in [Rows -> RowState]
  BY <1>1, <1>2, <1>3, <1>4, GrantKeeps
<1>6. Jobs' /\ job' \in [Requests -> JobState]
  BY <1>1, <1>2, RequestRests
<1>7. Intake' /\ Ordering' /\ History' /\ sent' = sent
  BY <1>1, EventsStay
<1>8. Typed'
  BY <1>1, <1>5, <1>6, <1>7 DEF Steady, Typed
<1> QED BY <1>5, <1>6, <1>7, <1>8 DEF Steady

(* An assignment replaces no row that mirrors Stripe. *)
LEMMA AssignKeeps ==
    ASSUME Regular, Steady, NEW p \in Requests, Assign(p)
    PROVE  Steady'
<1> DEFINE granted == [NoRow EXCEPT !.kind = "assigned", !.status = "active"]
<1>1. /\ Quiet /\ Spare /\ Customers(Entitling) = {} /\ UNCHANGED <<stripe, job, eventVars>>
  BY DEF Assign, Begin, Regular
<1>2. granted \in RowState /\ granted.kind = "assigned" /\ granted.sub = 0
  BY DEF NoRow, RowState, StripeStatus, AnyPlan
<1>3. us \in [Rows -> RowState]
  BY DEF Steady, Typed
<1>4. PICK v \in [Rows -> RowState] :
        /\ us' = [v EXCEPT ![NextId] = granted]
        /\ \A r \in Rows : v[r].kind = us[r].kind /\ v[r].sub = us[r].sub /\ (us[r].kind = "none" \/ r \in Mine => v[r] = us[r])
  <2>1. CASE Entitling = {}
    BY <1>3, <2>1 DEF Assign
  <2>2. CASE Entitling # {}
    <3>1. PICK r \in Entitling : us' = [us EXCEPT ![r].status = "replaced", ![NextId] = granted]
      BY <2>2 DEF Assign
    <3>2. r \in Rows /\ r \notin Mine /\ us[r].kind # "none"
      <4>1. r \in Rows /\ us[r].status \in {"active", "past_due"}
        BY DEF Entitling
      <4>2. r \notin Mine
        BY <1>1, <4>1, CustomersAreMine
      <4>3. us[r].kind = "none" => us[r] = NoRow
        BY <4>1 DEF Steady, RowFacts, OneRow
      <4>4. NoRow.status = "none"
        BY DEF NoRow
      <4> QED BY <4>1, <4>2, <4>3, <4>4
    <3> DEFINE v == [us EXCEPT ![r].status = "replaced"]
    <3>3. v \in [Rows -> RowState] /\ v[r].kind = us[r].kind /\ v[r].sub = us[r].sub /\ \A q \in Rows : q # r => v[q] = us[q]
      BY <1>3, <3>2 DEF RowState
    <3>4. us' = [v EXCEPT ![NextId] = granted]
      BY <3>1
    <3> HIDE DEF v, granted
    <3> QED BY <3>2, <3>3, <3>4
  <2> QED BY <2>1, <2>2
<1> HIDE DEF granted
<1>5. RowFacts' /\ us' \in [Rows -> RowState]
  BY <1>1, <1>2, <1>4, GrantKeeps, SpareLeavesRoom
<1>6. Jobs'
  BY <1>1, QuietJobs
<1>7. Intake' /\ Ordering' /\ History' /\ sent' = sent
  BY <1>1, EventsStay
<1>8. Typed'
  BY <1>1, <1>5, <1>7 DEF Steady, Typed
<1> QED BY <1>5, <1>6, <1>7, <1>8 DEF Steady

(* Nor does the cancellation of a free row touch one. *)
LEMMA CancelFreeKeeps ==
    ASSUME Regular, Steady, NEW p \in Requests, NEW r \in Rows, CancelFree(p, r)
    PROVE  Steady'
<1>1. /\ Quiet /\ us[r].kind # "none" /\ us[r].sub = 0 /\ us' = [us EXCEPT ![r].status = "cancelled"]
      /\ UNCHANGED <<stripe, job, eventVars>>
  BY DEF CancelFree, Begin, Regular
<1>2. us[r] \in RowState /\ us \in [Rows -> RowState] /\ r \notin Mine
  BY <1>1, SoleSub DEF Steady, Typed, Mine, RowOf
<1>3. /\ us' \in [Rows -> RowState]
      /\ us'[r].kind = us[r].kind /\ us'[r].sub = us[r].sub /\ \A q \in Rows : q # r => us'[q] = us[q]
  BY <1>1, <1>2 DEF RowState
<1>4. OneRow' /\ RowAppears' /\ Replaced' /\ NoGaps' /\ Room' /\ Mine' = Mine
  BY <1>1, <1>3, WriteKeeps
<1>5. /\ Intake' /\ Ordering' /\ History' /\ UNCHANGED <<sent, acked>>
      /\ \A e \in Tellers : Ran(e)' <=> Ran(e)
  BY <1>1, EventsStay
<1>6. \A q \in Mine : us'[q] = us[q]
  BY <1>2, <1>3 DEF Mine, RowOf
<1>7. RowAppears' /\ RowFollows' /\ RowExpects' /\ ActiveIsFresh' /\ Payable'
  BY <1>1, <1>4, <1>5, <1>6, AsideKeeps DEF Steady
<1>8. Jobs'
  BY <1>1, QuietJobs
<1>9. Typed'
  BY <1>1, <1>3, <1>5 DEF Steady, Typed
<1> QED BY <1>4, <1>5, <1>7, <1>8, <1>9 DEF Steady, RowFacts

(* The grace window closes: the row is past due, or its dunning is over soon. *)
LEMMA GraceKeeps ==
    ASSUME Regular, Steady, NEW r \in Rows, GraceElapses(r)
    PROVE  Steady'
<1>1. us[r].due = "fresh" /\ us' = [us EXCEPT ![r].due = "overdue"] /\ UNCHANGED <<stripe, job, eventVars>>
  BY DEF GraceElapses
<1>2. us[r] \in RowState /\ us \in [Rows -> RowState] /\ us[r].kind # "none"
  BY <1>1 DEF Steady, Typed, RowFacts, OneRow, NoRow
<1>3. /\ us' \in [Rows -> RowState]
      /\ us'[r].kind = us[r].kind /\ us'[r].sub = us[r].sub /\ us'[r].status = us[r].status /\ us'[r].plan = us[r].plan
      /\ us'[r].due = "overdue"
      /\ \A q \in Rows : q # r => us'[q] = us[q]
  BY <1>1, <1>2 DEF RowState
<1>4. OneRow' /\ RowAppears' /\ Replaced' /\ NoGaps' /\ Room' /\ Mine' = Mine /\ NextId' = NextId
  BY <1>1, <1>2, <1>3, WriteKeeps
<1>5. /\ Intake' /\ Ordering' /\ History' /\ UNCHANGED <<sent, acked>>
      /\ Tellers' = Tellers /\ Pending' = Pending /\ St' = St
      /\ \A e \in Tellers : Ran(e)' <=> Ran(e)
  BY <1>1, EventsStay
<1>6. \A q \in Mine : /\ us'[q].status = us[q].status /\ us'[q].plan = us[q].plan /\ us'[q].kind = us[q].kind /\ us'[q].sub = us[q].sub
                      /\ us[q].due = "never" => us'[q].due = "never"
                      /\ us'[q].due = "never" => us[q].due = "never"
  BY <1>1, <1>3 DEF Mine, RowOf
<1>7. \A e \in Tellers : First(e)' <=> First(e)
  BY <1>5 DEF First
<1>8. Pending \subseteq Tellers /\ Tellers \subseteq DOMAIN sent
  BY DEF Pending, Tellers
<1>9. RowFollows' /\ RowExpects' /\ ActiveIsFresh' /\ Payable'
  <2>1. RowFollows'
    BY <1>4, <1>5, <1>6 DEF Steady, RowFacts, RowFollows, Mirrors
  <2>2. RowExpects'
    BY <1>4, <1>5, <1>6, <1>7, <1>8 DEF Steady, RowFacts, RowExpects
  <2>3. ActiveIsFresh'
    BY <1>4, <1>6 DEF Steady, RowFacts, ActiveIsFresh
  <2>4. Payable'
    BY <1>4, <1>5, <1>6 DEF Steady, RowFacts, Payable
  <2> QED BY <2>1, <2>2, <2>3, <2>4
<1>10. ASSUME NEW p \in Requests, Fitting(p) PROVE Fitting(p)'
  <2>1. (At(p, "free") /\ Mine = {} => NextId < Max(Rows))'
    BY <1>1, <1>4, <1>10 DEF Fitting, At
  <2>2. (At(p, "sync") /\ job[p].seen[Sole].status \notin {"none", "open"} =>
          \E q \in Mine : us[q].status = job[p].seen[Sole].status \/ {us[q].status, job[p].seen[Sole].status} \subseteq Ended)'
    BY <1>1, <1>4, <1>6, <1>10 DEF Fitting, At
  <2>3. (At(p, "mark") => job[p].id \in Mine /\ St.status = "canceled" /\ Copies(job[p].copy, us[job[p].id]))'
    BY <1>1, <1>4, <1>5, <1>6, <1>10 DEF Fitting, At, Copies
  <2>4. \A e \in Pending : sent'[e] = sent[e] /\ \A f \in Tellers : sent'[f] = sent[f]
    BY <1>5
  <2>5. (At(p, "upgrade") =>
          /\ job[p].copy.sub = Sole
          /\ \E e \in Pending : sent[e].type = "updated" /\ \A f \in Tellers : f <= e => sent[f].type # "deleted")'
    BY <1>1, <1>5, <1>10 DEF Fitting, At
  <2> QED BY <2>1, <2>2, <2>3, <2>5 DEF Fitting
<1>11. Jobs'
  BY <1>1, <1>10 DEF Steady, Jobs, At
<1>12. Typed'
  BY <1>1, <1>3, <1>5 DEF Steady, Typed
<1> QED BY <1>4, <1>5, <1>9, <1>11, <1>12 DEF Steady, RowFacts

(* The sync ends. *)
LEMMA SyncEndKeeps ==
    ASSUME Regular, Steady, NEW p \in Requests, SyncEnd(p)
    PROVE  Steady'
<1>1. ~At(p, "idle") /\ Go(p, Idle) /\ UNCHANGED <<us, stripe, eventVars>>
  BY DEF SyncEnd, At
<1>2. Jobs' /\ job' \in [Requests -> JobState]
  BY <1>1, RequestRests
<1> QED BY <1>1, <1>2, JobOnly

(* When the events were answered, the row is what Stripe would list. *)
LEMMA CaughtUpMirrors ==
    ASSUME Regular, Steady, CaughtUp, St.status \notin {"none", "open"}
    PROVE  \E r \in Mine : us[r].status = St.status \/ {us[r].status, St.status} \subseteq Ended
<1>1. Pending = {}
  BY DEF CaughtUp, Regular, Steady, Ordering, TellersRun, Pending, Tellers, Telling, TellTypes
<1>2. Mine # {} /\ \A r \in Mine : Mirrors(r, St)
  BY <1>1 DEF Steady, RowFacts, RowAppears, RowFollows
<1> QED BY <1>2 DEF Mirrors, Ended

(* The sync lists what the row says already. *)
LEMMA SyncListKeeps ==
    ASSUME Regular, Steady, NEW p \in Requests, SyncList(p)
    PROVE  Steady'
<1> DEFINE j == [Idle EXCEPT !.op = "sync", !.seen = stripe]
<1>1. Quiet /\ CaughtUp /\ Go(p, j) /\ UNCHANGED <<us, stripe, eventVars>>
  BY DEF SyncList, Begin, Regular
<1>2. j \in JobState /\ j.op = "sync" /\ j.seen = stripe
  BY IdleIsJob DEF JobState, Steady, Typed
<1>3. job'[p] = j
  BY <1>1, <1>2 DEF Go, Steady, Typed
<1> HIDE DEF j
<1>4. Mine' = Mine /\ us' = us
  BY <1>1 DEF Mine, RowOf
<1>5. Fitting(p)'
  BY <1>1, <1>2, <1>3, <1>4, CaughtUpMirrors DEF Fitting, At, St
<1>6. Jobs' /\ job' \in [Requests -> JobState]
  BY <1>1, <1>2, <1>5, RequestTurns
<1> QED BY <1>1, <1>6, JobOnly

(* The sync writes the status that was listed when the events were answered. *)
LEMMA SyncRowKeeps ==
    ASSUME Regular, Steady, NEW p \in Requests, NEW s \in Subs, SyncRow(p, s)
    PROVE  Steady'
<1>0. s = Sole /\ Sole \in Subs
  BY SoleSub
<1> DEFINE listed == job[p].seen[Sole].status
           j == [job[p] EXCEPT !.seen[Sole] = NoSub]
<1>1. At(p, "sync") /\ listed \notin {"none", "open"} /\ Go(p, j) /\ UNCHANGED <<stripe, eventVars>>
  BY <1>0 DEF SyncRow
<1>2. /\ j \in JobState /\ j.op = "sync" /\ j.seen[Sole] = NoSub /\ listed \in StripeStatus
  <2>1. job[p] \in JobState /\ job[p].seen \in [Subs -> SubState] /\ job[p].op = "sync"
    BY <1>1 DEF Steady, Typed, JobState, At
  <2> QED BY <1>0, <2>1, IdleIsJob DEF JobState, SubState
<1>3. /\ us \in [Rows -> RowState] /\ job \in [Requests -> JobState]
      /\ Mine # {} /\ \A r \in Mine : us[r].status = listed \/ {us[r].status, listed} \subseteq Ended
  BY <1>1 DEF Steady, Typed, Jobs, Fitting, RowFacts, OneRow
<1>4. us' = [r \in Rows |-> IF r \in Mine THEN [us[r] EXCEPT !.status = listed] ELSE us[r]]
  BY <1>0, <1>3 DEF SyncRow, Mine
<1>5. job'[p] = j
  BY <1>1, <1>3 DEF Go
<1> HIDE DEF j, listed
<1>6. ASSUME NEW r \in Rows
      PROVE  /\ us'[r] \in RowState
             /\ us'[r].kind = us[r].kind /\ us'[r].sub = us[r].sub /\ us'[r].plan = us[r].plan /\ us'[r].due = us[r].due
             /\ us'[r].status = us[r].status \/ {us[r].status, us'[r].status} \subseteq Ended
             /\ r \notin Mine => us'[r] = us[r]
  <2>1. us[r] \in RowState
    BY <1>3
  <2> QED BY <1>2, <1>3, <1>4, <2>1 DEF RowState
<1>7. us' \in [Rows -> RowState]
  BY <1>4, <1>6
<1>8. Mine \subseteq Rows /\ \A r \in Mine : us[r].kind # "none"
  BY DEF Steady, RowFacts, OneRow, Mine, RowOf
<1>9. OneRow' /\ RowAppears' /\ Replaced' /\ NoGaps' /\ Room' /\ Mine' = Mine
  BY <1>1, <1>6, <1>7, <1>8, WriteKeeps
<1>10. /\ Intake' /\ Ordering' /\ History' /\ UNCHANGED <<sent, acked>>
       /\ Tellers' = Tellers /\ Pending' = Pending /\ St' = St
       /\ \A e \in Tellers : Ran(e)' <=> Ran(e)
  BY <1>1, EventsStay
<1>11. \A e \in Tellers : First(e)' <=> First(e)
  BY <1>10 DEF First
<1>12. Pending \subseteq Tellers /\ Tellers \subseteq DOMAIN sent
  BY DEF Pending, Tellers
<1>13. RowFollows'
  <2> SUFFICES ASSUME St.status \notin {"none", "open"}, Pending = {}, NEW r \in Mine
               PROVE  /\ us'[r].status \in IF St.status = "canceled" THEN {"canceled", "cancelled"} ELSE {St.status}
                      /\ us'[r].plan = St.plan
                      /\ us'[r].status \in {"past_due"} \cup Ended \/ us'[r].due = "never"
    BY <1>9, <1>10 DEF RowFollows, Mirrors
  <2>1. Mirrors(r, St) /\ (us[r].status \in {"past_due"} \cup Ended \/ us[r].due = "never")
    BY DEF Steady, RowFacts, RowFollows
  <2>2. us'[r].status = us[r].status \/ {us[r].status, us'[r].status} \subseteq Ended
    BY <1>6, <1>8
  <2>3. us'[r].plan = us[r].plan /\ us'[r].due = us[r].due
    BY <1>6, <1>8
  <2>4. St.status # "cancelled"
    BY <1>0 DEF Steady, Typed, St, SubState, StripeStatus
  <2> QED BY <2>1, <2>2, <2>3, <2>4 DEF Mirrors, Ended
<1>14. RowExpects' /\ ActiveIsFresh'
  <2>1. ASSUME NEW r \in Mine
        PROVE  us'[r].status \in {"active", "past_due"} => us[r].status = us'[r].status
    BY <1>6, <1>8, <2>1 DEF Ended
  <2>2. ASSUME NEW r \in Mine
        PROVE us'[r].plan = us[r].plan /\ us'[r].due = us[r].due
    BY <1>6, <1>8, <2>2
  <2>3. ActiveIsFresh'
    BY <1>9, <2>1, <2>2 DEF Steady, RowFacts, ActiveIsFresh
  <2>4. RowExpects'
    BY <1>9, <1>10, <1>11, <1>12, <2>1, <2>2 DEF Steady, RowFacts, RowExpects
  <2> QED BY <2>3, <2>4
<1>15. Payable'
  <2>1. ASSUME NEW r \in Mine, us[r].status \in {"active", "past_due"} PROVE us'[r].status \in {"active", "past_due"}
    BY <1>6, <1>8, <2>1 DEF Ended
  <2> QED BY <1>9, <1>10, <2>1 DEF Steady, RowFacts, Payable
<1>16. Fitting(p)'
  BY <1>2, <1>5, IdleIsJob DEF Fitting, At, NoSub
<1>17. Jobs' /\ job' \in [Requests -> JobState]
  BY <1>1, <1>2, <1>16, RequestTurns DEF At
<1>18. Typed'
  BY <1>1, <1>7, <1>10, <1>17 DEF Steady, Typed
<1> QED BY <1>9, <1>10, <1>13, <1>14, <1>15, <1>17, <1>18 DEF Steady, RowFacts

(* The row that was read is still the row, but for its stamp. *)
LEMMA MarkKeepsSteady ==
    ASSUME Regular, Steady, NEW p \in Requests, Mark(p)
    PROVE  Steady'
<1> DEFINE r == job[p].id
           c == job[p].copy
<1>1. /\ At(p, "mark") /\ us' = [us EXCEPT ![r] = [c EXCEPT !.status = "cancelled"]] /\ Go(p, Idle)
      /\ UNCHANGED <<stripe, eventVars>>
  BY DEF Mark
<1>2. ~At(p, "idle") /\ r \in Mine /\ St.status = "canceled" /\ Copies(c, us[r])
  BY <1>1 DEF At, Steady, Jobs, Fitting
<1>3. c \in RowState /\ us \in [Rows -> RowState]
  BY DEF Steady, Typed, JobState
<1>4. r \in Rows /\ us[r].kind = "paid" /\ \A q \in Mine : q = r
  BY <1>2 DEF Mine, RowOf, Steady, RowFacts, OneRow
<1> HIDE DEF r, c
<1>5. /\ us' \in [Rows -> RowState] /\ us'[r].status = "cancelled"
      /\ us'[r].kind = us[r].kind /\ us'[r].sub = us[r].sub /\ us'[r].plan = us[r].plan
      /\ us[r].due = "never" => us'[r].due = "never"
      /\ \A q \in Rows : q # r => us'[q] = us[q]
  BY <1>1, <1>2, <1>3, <1>4 DEF RowState, Copies
<1>6. OneRow' /\ RowAppears' /\ Replaced' /\ NoGaps' /\ Room' /\ Mine' = Mine
  BY <1>1, <1>4, <1>5, WriteKeeps
<1>7. /\ Intake' /\ Ordering' /\ History' /\ UNCHANGED <<sent, acked>>
      /\ Tellers' = Tellers /\ Pending' = Pending /\ St' = St
      /\ \A e \in Tellers : Ran(e)' <=> Ran(e)
  BY <1>1, EventsStay
<1>8. \A e \in Tellers : First(e)' <=> First(e)
  BY <1>7 DEF First
<1>9. Pending \subseteq Tellers /\ Tellers \subseteq DOMAIN sent
  BY DEF Pending, Tellers
<1>10. RowFollows'
  <2>1. ASSUME Pending = {} PROVE us[r].plan = St.plan
    BY <1>2, <2>1 DEF Steady, RowFacts, RowFollows, Mirrors
  <2> QED BY <1>2, <1>4, <1>5, <1>6, <1>7, <2>1 DEF RowFollows, Mirrors, Ended
<1>11. ActiveIsFresh' /\ Payable'
  BY <1>2, <1>4, <1>5, <1>6, <1>7 DEF ActiveIsFresh, Payable
<1>12. RowExpects'
  BY <1>2, <1>4, <1>5, <1>6, <1>7, <1>8, <1>9 DEF Steady, RowFacts, RowExpects
<1>13. Jobs' /\ job' \in [Requests -> JobState]
  BY <1>1, <1>2, RequestRests
<1>14. Typed'
  BY <1>1, <1>5, <1>7, <1>13 DEF Steady, Typed
<1> QED BY <1>6, <1>7, <1>10, <1>11, <1>12, <1>13, <1>14 DEF Steady, RowFacts

(* The plan of the row is written before the event that tells of it runs. *)
LEMMA UpgradeRowKeeps ==
    ASSUME Regular, Steady, NEW p \in Requests, UpgradeRow(p)
    PROVE  Steady'
<1>0. PICK r : r = Current
  OBVIOUS
<1>1. /\ At(p, "upgrade") /\ us' = [us EXCEPT ![r].plan = job[p].plan] /\ Go(p, Idle)
      /\ UNCHANGED <<stripe, eventVars>> /\ Current # 0
  BY <1>0 DEF UpgradeRow
<1>2. ~At(p, "idle") /\ \E e \in Pending : sent[e].type = "updated" /\ \A f \in Tellers : f <= e => sent[f].type # "deleted"
  BY <1>1 DEF At, Steady, Jobs, Fitting
<1>3. job[p].plan \in AnyPlan /\ us \in [Rows -> RowState]
  BY DEF Steady, Typed, JobState
<1>4. r \in Rows /\ us[r].kind # "none"
  <2>1. r \in Rows /\ us[r].status \in {"active", "past_due"}
    BY <1>0, <1>1, CurrentIsEntitling DEF Entitling
  <2> QED BY <2>1 DEF Steady, RowFacts, OneRow, NoRow
<1>5. /\ us' \in [Rows -> RowState] /\ us'[r].status = us[r].status
      /\ us'[r].kind = us[r].kind /\ us'[r].sub = us[r].sub /\ us'[r].due = us[r].due
      /\ \A q \in Rows : q # r => us'[q] = us[q]
  <2>1. us[r] \in RowState
    BY <1>3, <1>4
  <2> QED BY <1>1, <1>3, <1>4, <2>1 DEF RowState
<1>6. OneRow' /\ RowAppears' /\ Replaced' /\ NoGaps' /\ Room' /\ Mine' = Mine
  BY <1>1, <1>4, <1>5, WriteKeeps
<1>7. /\ Intake' /\ Ordering' /\ History' /\ UNCHANGED <<sent, acked>>
      /\ Tellers' = Tellers /\ Pending' = Pending /\ St' = St
      /\ \A e \in Tellers : Ran(e)' <=> Ran(e)
  BY <1>1, EventsStay
<1>8. \A e \in Tellers : First(e)' <=> First(e)
  BY <1>7 DEF First
<1>9. Pending \subseteq Tellers /\ Tellers \subseteq DOMAIN sent /\ Pending # {}
  BY <1>2 DEF Pending, Tellers
<1>10. Mine \subseteq Rows /\ \A q \in Mine : us'[q].status = us[q].status /\ us'[q].due = us[q].due
  BY <1>5 DEF Mine, RowOf
<1>11. RowFollows'
  BY <1>7, <1>9 DEF RowFollows
<1>12. ActiveIsFresh' /\ Payable'
  BY <1>6, <1>7, <1>10 DEF Steady, RowFacts, ActiveIsFresh, Payable
<1>13. \A e \in Pending : First(e) => sent[e].type # "deleted"
  <2>1. PICK e \in Pending : sent[e].type = "updated" /\ \A f \in Tellers : f <= e => sent[f].type # "deleted"
    BY <1>2
  <2>2. e \in Nat /\ Tellers \subseteq Nat
    BY <1>9, LogIsFinite, EventsAssumption DEF Steady, Events
  <2>3. ASSUME NEW f \in Pending, First(f) PROVE ~(e < f)
    BY <1>9, <2>3 DEF First, Pending
  <2> QED BY <1>9, <2>1, <2>2, <2>3
<1>14. RowExpects'
  BY <1>6, <1>7, <1>8, <1>9, <1>10, <1>13 DEF Steady, RowFacts, RowExpects
<1>15. Jobs' /\ job' \in [Requests -> JobState]
  BY <1>1, <1>2, RequestRests
<1>16. Typed'
  BY <1>1, <1>5, <1>7, <1>15 DEF Steady, Typed
<1> QED BY <1>6, <1>7, <1>11, <1>12, <1>14, <1>15, <1>16 DEF Steady, RowFacts

(* The checkout is opened: nothing is told yet. *)
LEMMA CheckoutKeeps ==
    ASSUME Regular, Steady, NEW p \in Requests, NEW s \in Subs, NEW plan \in Plans, Checkout(p, s, plan)
    PROVE  Steady'
<1>0. PICK n : n = Current
  OBVIOUS
<1> DEFINE st == [NoSub EXCEPT !.status = "open", !.plan = plan, !.meta = plan, !.replaces = n]
<1>1. /\ Quiet /\ s = Sole /\ Sole \in Subs /\ St.status = "none" /\ (n # 0 => us[n].kind = "free")
      /\ stripe' = [stripe EXCEPT ![Sole] = st] /\ UNCHANGED <<us, job, eventVars>>
  BY <1>0, SoleSub DEF Checkout, Begin, Regular, St
<1>2. n = 0 \/ (n \in Rows /\ us[n].kind = "free")
  BY <1>0, <1>1, CurrentIsEntitling
<1>3. st \in SubState /\ st.status = "open" /\ st.replaces = n
  <2>1. n \in Nat
    BY <1>2, RowsAreNumbered
  <2> QED BY <2>1, IdleIsJob DEF SubState, StripeStatus, AnyPlan
<1> HIDE DEF st
<1>4. stripe' \in [Subs -> SubState] /\ St' = st
  BY <1>1, <1>3 DEF Steady, Typed, St
<1>5. DOMAIN sent = {} /\ Mine = {}
  BY <1>1 DEF Steady, History, RowFacts, RowAppears
<1>6. UNCHANGED <<sent, row, acked, hook>>
  BY <1>1 DEF eventVars
<1>7. Tellers = {} /\ Tellers' = {} /\ Pending' = {} /\ Telling' = {}
  BY <1>5, <1>6 DEF Tellers, Pending, Telling
<1>8. Intake'
  BY <1>6 DEF Steady, Intake, Log, Deliveries, AtWork
<1>9. Ordering'
  BY <1>5, <1>6, <1>7 DEF Steady, Ordering, OneHook, InTurn, TellersRun, PaymentsRun
<1>10. History'
  BY <1>5, <1>6, <1>7 DEF History, EventsFit, NewestTells, ChainFits
<1>11. Mine' = {} /\ NextId' = NextId
  BY <1>1, <1>5 DEF Mine, RowOf, NextId, Held
<1>12. OneRow' /\ RowAppears' /\ RowFollows' /\ RowExpects' /\ ActiveIsFresh' /\ Payable' /\ Replaced' /\ Room'
  <2>1. OneRow' /\ Room'
    BY <1>1, <1>5, <1>11 DEF Steady, RowFacts, OneRow, Room
  <2>2. RowAppears' /\ RowFollows' /\ RowExpects' /\ ActiveIsFresh' /\ Replaced'
    BY <1>3, <1>4, <1>7, <1>11 DEF RowAppears, RowFollows, RowExpects, ActiveIsFresh, Replaced
  <2>3. Payable'
    BY <1>5, <1>6 DEF Payable
  <2> QED BY <2>1, <2>2, <2>3
<1>13. NoGaps'
  <2>1. ASSUME NEW i \in Rows, NEW k \in Rows, i < k, us[k].kind # "none" \/ k = n, i # n PROVE us[i].kind # "none"
    <3>1. us[k].kind # "none" /\ St.replaces = 0 /\ i # 0
      BY <1>1, <1>2, <2>1, RowsAreNumbered DEF Steady, RowFacts, NoGaps
    <3> QED BY <2>1, <3>1 DEF Steady, RowFacts, NoGaps
  <2> QED BY <1>1, <1>2, <1>3, <1>4, <2>1 DEF NoGaps
<1>14. Jobs'
  BY <1>1, QuietJobs
<1>15. Typed'
  BY <1>1, <1>4, <1>6 DEF Steady, Typed
<1> QED BY <1>8, <1>9, <1>10, <1>12, <1>13, <1>14, <1>15 DEF Steady, RowFacts

(* What Stripe tells of a change that fits leaves everything in place. *)
LEMMA TellKeeps ==
    ASSUME Regular, Steady, NEW st \in SubState, NEW k \in {1, 2}, NEW types, DOMAIN types = 1 .. k,
           Fits(k, types, st), Changes(Sole, st, types), UNCHANGED <<us, row, acked, hook>>
    PROVE  /\ Intake' /\ Ordering' /\ History' /\ RowFacts'
           /\ stripe' \in [Subs -> SubState] /\ stripe'[Sole] = st
           /\ \A e \in DOMAIN sent' : sent'[e] \in EventState
           /\ \E n : Appends(n, k, types, st)
<1> DEFINE es == [i \in DOMAIN types |-> About(types[i], Sole, st)]
<1>1. Emit(es) /\ DOMAIN es = 1 .. k /\ \A i \in 1 .. k : es[i] = About(types[i], Sole, st)
  BY DEF Changes
<1> HIDE DEF es
<1>2. stripe' = [stripe EXCEPT ![Sole] = st] /\ k \in Nat
  BY DEF Changes
<1>3. PICK n \in Nat : n <= MaxEvents /\ DOMAIN sent = 1 .. n
  BY DEF Steady, Intake, Log
<1>4. /\ DOMAIN sent' = 1 .. (n + k)
      /\ \A i \in 1 .. n : sent'[i] = sent[i]
      /\ \A i \in (n + 1) .. (n + k) : sent'[i] = es[i - n]
  BY <1>1, <1>2, <1>3, EmitAppends
<1>5. \A i \in 1 .. k : sent'[n + i] = About(types[i], Sole, st)
  <2> SUFFICES ASSUME NEW i \in 1 .. k PROVE sent'[n + i] = About(types[i], Sole, st)
    OBVIOUS
  <2>1. n + i \in (n + 1) .. (n + k) /\ (n + i) - n = i
    OBVIOUS
  <2> QED BY <1>1, <1>4, <2>1
<1>6. Appends(n, k, types, st)
  BY <1>2, <1>3, <1>4, <1>5 DEF Appends
<1>7. Intake'
  BY <1>1, <1>2, EmitKeepsIntake DEF Steady
<1>8. Ordering' /\ History' /\ RowFacts'
  BY <1>6, <1>7, AppendKeepsOrdering, AppendKeepsHistory, AppendKeepsRows DEF Steady
<1>9. stripe' \in [Subs -> SubState] /\ stripe'[Sole] = st
  BY <1>2, SoleSub DEF Steady, Typed
<1>10. ASSUME NEW e \in DOMAIN sent' PROVE sent'[e] \in EventState
  <2>1. CASE e \in 1 .. n
    BY <1>3, <1>4, <2>1 DEF Steady, Typed
  <2>2. ASSUME NEW i \in 1 .. k, e = n + i PROVE sent'[e] \in EventState
    <3>1. types[i] \in Told \cup {"note"} /\ Sole \in Subs
      BY SoleSub DEF Fits
    <3>2. sent'[e] = [type |-> types[i], sub |-> Sole, now |-> st]
      BY <1>5, <2>2 DEF About
    <3> QED BY <3>1, <3>2 DEF EventState
  <2>3. e \in 1 .. n \/ \E i \in 1 .. k : e = n + i
    BY <1>6, AppendedRange
  <2> QED BY <2>1, <2>2, <2>3
<1> QED BY <1>6, <1>7, <1>8, <1>9, <1>10

(* A change at Stripe that no request made. *)
LEMMA TellKeepsSteady ==
    ASSUME Regular, Steady, NEW st \in SubState, NEW k \in {1, 2}, NEW types, DOMAIN types = 1 .. k,
           Fits(k, types, st), Changes(Sole, st, types), UNCHANGED <<us, row, acked, hook, job>>
    PROVE  Steady'
<1>1. /\ Intake' /\ Ordering' /\ History' /\ RowFacts'
      /\ stripe' \in [Subs -> SubState]
      /\ \A e \in DOMAIN sent' : sent'[e] \in EventState
  BY TellKeeps
<1>2. PICK n : Appends(n, k, types, st)
  BY TellKeeps
<1>3. ASSUME NEW p \in Requests PROVE Fitting(p)'
  <2>1. Fitting(p)
    BY DEF Steady, Jobs
  <2> QED BY <1>1, <1>2, <2>1, AppendKeepsFitting DEF Steady
<1>4. Jobs'
  BY <1>3 DEF Steady, Jobs, At
<1>5. Typed'
  BY <1>1 DEF Steady, Typed
<1> QED BY <1>1, <1>4, <1>5 DEF Steady

(* The subscription of a row is the one at Stripe, and it was sold. *)
LEMMA RowIsSold ==
    ASSUME Regular, Steady, NEW r \in Rows, us[r].sub # 0
    PROVE  us[r].sub = Sole /\ r \in Mine /\ St.status \notin {"none", "open"} /\ St \in SubState
<1>1. us[r].sub \in Subs \cup {0}
  BY DEF Steady, Typed, RowState
<1>2. us[r].sub = Sole /\ r \in Mine /\ St \in SubState
  BY <1>1, SoleSub DEF Mine, RowOf, Steady, Typed, St
<1> QED BY <1>2 DEF Steady, RowFacts, RowAppears

(* The ways a subscription changes. *)
LEMMA ChangedIsSub ==
    ASSUME Regular, Steady
    PROVE  /\ St \in SubState
           /\ \A to \in StripeStatus :
                LET st == [St EXCEPT !.status = to] IN
                st \in SubState /\ st.status = to /\ st.plan = St.plan /\ st.replaces = St.replaces
           /\ \A plan \in AnyPlan :
                LET st == [St EXCEPT !.plan = plan] IN
                st \in SubState /\ st.status = St.status /\ st.plan = plan /\ st.replaces = St.replaces
           /\ \A ending \in BOOLEAN :
                LET st == [St EXCEPT !.ending = ending] IN
                st \in SubState /\ st.status = St.status /\ st.plan = St.plan /\ st.replaces = St.replaces
<1>1. St \in SubState
  BY SoleSub DEF Steady, Typed, St
<1>2. ASSUME NEW to \in StripeStatus
      PROVE  LET st == [St EXCEPT !.status = to] IN
             st \in SubState /\ st.status = to /\ st.plan = St.plan /\ st.replaces = St.replaces
  BY <1>1 DEF SubState
<1>3. ASSUME NEW plan \in AnyPlan
      PROVE  LET st == [St EXCEPT !.plan = plan] IN
             st \in SubState /\ st.status = St.status /\ st.plan = plan /\ st.replaces = St.replaces
  BY <1>1 DEF SubState
<1>4. ASSUME NEW ending \in BOOLEAN
      PROVE  LET st == [St EXCEPT !.ending = ending] IN
             st \in SubState /\ st.status = St.status /\ st.plan = St.plan /\ st.replaces = St.replaces
  BY <1>1 DEF SubState
<1> QED BY <1>1, <1>2, <1>3, <1>4

(* A plan or an ending that changes is told as an update. *)
LEMMA UpdateFits ==
    ASSUME St.status \notin {"none", "open"}, NEW st, st.status = St.status, st.replaces = St.replaces,
           NEW types, types = <<"updated">>
    PROVE  Fits(1, types, st) /\ DOMAIN types = 1 .. 1
BY DEF Fits, TellTypes, Told

(* A request starts with a change at Stripe. *)
LEMMA TellWithJob ==
    ASSUME Regular, Steady, Quiet, NEW p \in Requests, NEW st \in SubState, NEW types, NEW j,
           DOMAIN types = 1 .. 1, Fits(1, types, st), Changes(Sole, st, types),
           UNCHANGED <<us, row, acked, hook>>, j \in JobState, j.op # "idle", Go(p, j), Fitting(p)'
    PROVE  Steady'
<1>1. /\ Intake' /\ Ordering' /\ History' /\ RowFacts'
      /\ stripe' \in [Subs -> SubState]
      /\ \A e \in DOMAIN sent' : sent'[e] \in EventState
  BY TellKeeps
<1>2. Jobs' /\ job' \in [Requests -> JobState]
  BY RequestTurns
<1>3. us' \in [Rows -> RowState]
  BY DEF Steady, Typed
<1>4. Typed'
  BY <1>1, <1>2, <1>3 DEF Typed
<1> QED BY <1>1, <1>2, <1>4 DEF Steady

(* A cancellation at once: Stripe first, the row in its hands. *)
LEMMA CancelNowKeeps ==
    ASSUME Regular, Steady, NEW p \in Requests, NEW r \in Rows, CancelNow(p, r)
    PROVE  Steady'
<1> DEFINE j == [Idle EXCEPT !.op = "mark", !.id = r, !.copy = us[r]]
<1>0. PICK st : st = [St EXCEPT !.status = "canceled"]
  OBVIOUS
<1>00. PICK types : types = <<"deleted">>
  OBVIOUS
<1>1. Quiet /\ us[r].sub # 0 /\ Go(p, j) /\ UNCHANGED <<us, row, acked, hook>>
  BY DEF CancelNow, Begin, Regular
<1>2. us[r].sub = Sole /\ r \in Mine /\ St.status \notin {"none", "open"}
  BY <1>1, RowIsSold
<1>3. us[r] \in RowState /\ r \in Nat
  BY RowsAreNumbered DEF Steady, Typed
<1>4. j \in JobState /\ j.op = "mark" /\ j.id = r /\ j.copy = us[r]
  BY <1>3, IdleIsJob DEF JobState
<1>5. job'[p] = j
  BY <1>1 DEF Go, Steady, Typed
<1> HIDE DEF j
<1>6. Mine' = Mine /\ us' = us
  BY <1>1 DEF Mine, RowOf
<1>7. St'.status = "canceled" => Fitting(p)'
  BY <1>2, <1>4, <1>5, <1>6 DEF Fitting, At, Copies
<1>8. CASE St.status = "canceled"
  <2>1. UNCHANGED <<us, stripe, eventVars>> /\ St' = St
    BY <1>1, <1>2, <1>8 DEF CancelNow, eventVars, St
  <2>2. Jobs' /\ job' \in [Requests -> JobState]
    BY <1>1, <1>4, <1>7, <1>8, <2>1, RequestTurns
  <2> QED BY <2>1, <2>2, JobOnly
<1>9. CASE St.status # "canceled"
  <2>1. Changes(Sole, st, types)
    BY <1>0, <1>00, <1>2, <1>9 DEF CancelNow, St
  <2>2. st \in SubState /\ st.status = "canceled" /\ st.plan = St.plan /\ st.replaces = St.replaces
    BY <1>0, ChangedIsSub DEF StripeStatus
  <2>3. Fits(1, types, st) /\ DOMAIN types = 1 .. 1
    BY <1>00, <1>2, <1>9, <2>2 DEF Fits, TellTypes, Told
  <2>4. St'.status = "canceled"
    BY <1>1, <2>1, <2>2, <2>3, TellKeeps DEF St
  <2> QED BY <1>1, <1>4, <1>7, <2>1, <2>2, <2>3, <2>4, TellWithJob
<1> QED BY <1>8, <1>9

(* A cancellation at the end of the period, followed by a sync. *)
LEMMA CancelAtEndKeeps ==
    ASSUME Regular, Steady, NEW p \in Requests, NEW r \in Rows, CancelAtEnd(p, r)
    PROVE  Steady'
<1> DEFINE j == [Idle EXCEPT !.op = "sync", !.seen = stripe']
<1>0. PICK st : st = [St EXCEPT !.ending = TRUE]
  OBVIOUS
<1>00. PICK types : types = <<"updated">>
  OBVIOUS
<1>1. Quiet /\ CaughtUp /\ us[r].sub # 0 /\ Go(p, j) /\ UNCHANGED <<us, row, acked, hook>>
  BY DEF CancelAtEnd, Begin, Regular
<1>2. us[r].sub = Sole /\ St.status \notin {"none", "open"}
  BY <1>1, RowIsSold
<1>3. Changes(Sole, st, types)
  BY <1>0, <1>00, <1>2 DEF CancelAtEnd, St
<1>4. st \in SubState /\ st.status = St.status /\ st.plan = St.plan /\ st.replaces = St.replaces
  BY <1>0, ChangedIsSub
<1>5. Fits(1, types, st) /\ DOMAIN types = 1 .. 1
  BY <1>00, <1>2, <1>4, UpdateFits
<1>6. stripe' \in [Subs -> SubState] /\ stripe'[Sole] = st
  BY <1>1, <1>3, <1>4, <1>5, TellKeeps
<1>7. j \in JobState /\ j.op = "sync" /\ j.seen = stripe'
  BY <1>6, IdleIsJob DEF JobState
<1>8. job'[p] = j
  BY <1>1 DEF Go, Steady, Typed
<1> HIDE DEF j
<1>9. Mine' = Mine /\ us' = us
  BY <1>1 DEF Mine, RowOf
<1>10. \E q \in Mine : us[q].status = St.status \/ {us[q].status, St.status} \subseteq Ended
  BY <1>1, <1>2, CaughtUpMirrors
<1>11. Fitting(p)'
  BY <1>4, <1>6, <1>7, <1>8, <1>9, <1>10 DEF Fitting, At
<1> QED BY <1>1, <1>3, <1>4, <1>5, <1>7, <1>11, TellWithJob

(* The customer stays. *)
LEMMA ReactivateKeeps ==
    ASSUME Regular, Steady, NEW p \in Requests, NEW r \in Rows, Reactivate(p, r)
    PROVE  Steady'
<1>0. PICK st : st = [St EXCEPT !.ending = FALSE]
  OBVIOUS
<1>00. PICK types : types = <<"updated">>
  OBVIOUS
<1>1. us[r].sub # 0 /\ UNCHANGED <<us, job, row, acked, hook>>
  BY DEF Reactivate
<1>2. us[r].sub = Sole /\ St.status \notin {"none", "open"}
  BY <1>1, RowIsSold
<1>3. Changes(Sole, st, types)
  BY <1>0, <1>00, <1>2 DEF Reactivate, St
<1>4. st \in SubState /\ st.status = St.status /\ st.plan = St.plan /\ st.replaces = St.replaces
  BY <1>0, ChangedIsSub
<1>5. Fits(1, types, st) /\ DOMAIN types = 1 .. 1
  BY <1>00, <1>2, <1>4, UpdateFits
<1> QED BY <1>1, <1>3, <1>4, <1>5, TellKeepsSteady

(* An upgrade: the update that tells of it is still to come. *)
LEMMA UpgradeKeeps ==
    ASSUME Regular, Steady, NEW p \in Requests, NEW plan \in Plans, Upgrade(p, plan)
    PROVE  Steady'
<1>c. PICK c : c = Current
  OBVIOUS
<1> DEFINE j == [Idle EXCEPT !.op = "upgrade", !.copy = us[c], !.plan = plan]
<1>0. PICK st : st = [St EXCEPT !.plan = plan]
  OBVIOUS
<1>00. PICK types : types = <<"updated">>
  OBVIOUS
<1>1. /\ Quiet /\ c \in Rows /\ us[c].sub # 0 /\ Go(p, j) /\ UNCHANGED <<us, row, acked, hook>>
  BY <1>c, CurrentIsEntitling DEF Upgrade, Begin, Regular
<1>2. us[c].sub = Sole /\ St.status \notin {"none", "open"}
  BY <1>1, RowIsSold
<1>3. Changes(Sole, st, types) /\ St.status # "canceled"
  BY <1>c, <1>0, <1>00, <1>2 DEF Upgrade, St
<1>4. st \in SubState /\ st.status = St.status /\ st.replaces = St.replaces
  BY <1>0, ChangedIsSub DEF AnyPlan
<1>5. Fits(1, types, st) /\ DOMAIN types = 1 .. 1
  BY <1>00, <1>2, <1>4, UpdateFits
<1>6. PICK n : Appends(n, 1, types, st)
  BY <1>1, <1>3, <1>4, <1>5, TellKeeps
<1>7. j \in JobState /\ j.op = "upgrade" /\ j.copy.sub = Sole
  <2>1. us[c] \in RowState
    BY <1>1 DEF Steady, Typed
  <2> QED BY <1>2, <2>1, IdleIsJob DEF JobState, AnyPlan
<1>8. job'[p] = j
  BY <1>1 DEF Go, Steady, Typed
<1> HIDE DEF j
<1>9. n + 1 \in Pending' /\ sent'[n + 1].type = "updated"
  <2>1. Intake'
    BY <1>1, <1>3, <1>4, <1>5, TellKeeps
  <2>2. 1 \in 1 .. 1 /\ types[1] = "updated" /\ n \in Nat
    BY <1>00, <1>6 DEF Appends
  <2>3. n + 1 \in Tellers' /\ sent'[n + 1].type = "updated"
    BY <1>6, <2>2, AppendedTellers, AppendedEvents DEF TellTypes
  <2>4. n + 1 \in DOMAIN sent' /\ n + 1 \notin DOMAIN sent
    BY <1>6, <2>2 DEF Appends
  <2>5. ~Ran(n + 1)'
    BY <1>6, <2>1, <2>4, AppendedIsNew DEF Steady
  <2> QED BY <2>3, <2>5 DEF Pending
<1>10. \A f \in Tellers' : sent'[f].type # "deleted"
  <2> SUFFICES ASSUME NEW f \in Tellers' PROVE sent'[f].type # "deleted"
    OBVIOUS
  <2>1. CASE f \in 1 .. n
    <3>1. f \in DOMAIN sent /\ sent'[f] = sent[f]
      BY <1>6, <2>1 DEF Appends
    <3> QED BY <1>3, <3>1 DEF Steady, History, EventsFit
  <2>2. CASE f = n + 1
    BY <1>9, <2>2
  <2>3. f \in 1 .. n \/ f = n + 1
    BY <1>6, AppendedTellers
  <2> QED BY <2>1, <2>2, <2>3
<1>11. Fitting(p)'
  BY <1>7, <1>8, <1>9, <1>10 DEF Fitting, At
<1> QED BY <1>1, <1>3, <1>4, <1>5, <1>7, <1>11, TellWithJob

(* An upgrade that failed is told as another update, or not undone. *)
LEMMA UpgradeFailsKeeps ==
    ASSUME Regular, Steady, NEW p \in Requests, UpgradeFails(p)
    PROVE  Steady'
<1>0. PICK st : st = [St EXCEPT !.plan = job[p].copy.plan]
  OBVIOUS
<1>00. PICK types : types = <<"updated">>
  OBVIOUS
<1>1. /\ At(p, "upgrade") /\ Go(p, Idle) /\ UNCHANGED <<us, row, acked, hook>>
  BY DEF UpgradeFails
<1>2. job[p].copy.sub = Sole /\ Pending # {} /\ ~At(p, "idle")
  BY <1>1 DEF Steady, Jobs, Fitting, At
<1>3. Jobs' /\ job' \in [Requests -> JobState]
  BY <1>1, <1>2, RequestRests
<1>4. St.status \notin {"none", "open"}
  BY <1>2 DEF Steady, History, Pending, Tellers
<1>5. CASE UNCHANGED <<stripe, sent>>
  BY <1>1, <1>3, <1>5, JobOnly DEF eventVars
<1>6. CASE Changes(Sole, st, types)
  <2>1. job[p].copy.plan \in AnyPlan
    BY DEF Steady, Typed, JobState, RowState
  <2>2. st \in SubState /\ st.status = St.status /\ st.replaces = St.replaces
    BY <1>0, <2>1, ChangedIsSub
  <2>3. Fits(1, types, st) /\ DOMAIN types = 1 .. 1
    BY <1>00, <1>4, <2>2, UpdateFits
  <2>4. /\ Intake' /\ Ordering' /\ History' /\ RowFacts'
        /\ stripe' \in [Subs -> SubState]
        /\ \A e \in DOMAIN sent' : sent'[e] \in EventState
    BY <1>1, <1>6, <2>2, <2>3, TellKeeps
  <2>5. Typed'
    BY <1>1, <1>3, <2>4 DEF Steady, Typed
  <2> QED BY <1>3, <2>4, <2>5 DEF Steady
<1>7. Changes(Sole, st, types) \/ UNCHANGED <<stripe, sent>>
  BY <1>0, <1>00, <1>2 DEF UpgradeFails, St
<1> QED BY <1>5, <1>6, <1>7

(* What Stripe does by itself fits, and changes nothing here. *)
LEMMA BecomesKeeps ==
    ASSUME Regular, Steady, NEW s \in Subs, NEW from, NEW to \in StripeStatus, NEW types, NEW k \in {1, 2},
           Becomes(s, from, to, types), DOMAIN types = 1 .. k,
           \A st \in SubState :
               (St.status = from /\ st.status = to /\ st.plan = St.plan /\ st.replaces = St.replaces) => Fits(k, types, st),
           UNCHANGED <<us, row, acked, hook, job>>
    PROVE  Steady'
<1>0. PICK st : st = [St EXCEPT !.status = to]
  OBVIOUS
<1>1. s = Sole /\ St.status = from /\ Changes(Sole, st, types)
  BY <1>0, SoleSub DEF Becomes, St
<1>2. st \in SubState /\ st.status = to /\ st.plan = St.plan /\ st.replaces = St.replaces
  BY <1>0, ChangedIsSub
<1> QED BY <1>1, <1>2, TellKeepsSteady

(* A checkout is paid. *)
LEMMA SellKeeps ==
    ASSUME Regular, Steady, NEW s \in Subs, Sell(s), UNCHANGED <<us, row, acked, hook, job>>
    PROVE  Steady'
<1>1. "active" \in StripeStatus /\ "incomplete" \in StripeStatus
  BY DEF StripeStatus
<1>2. ASSUME NEW types, types = <<"created", "completed">> \/ types = <<"completed", "created">>,
             Becomes(s, "open", "active", types)
      PROVE  Steady'
  <2>1. DOMAIN types = 1 .. 2 /\ \A st \in SubState :
           (St.status = "open" /\ st.status = "active" /\ st.plan = St.plan /\ st.replaces = St.replaces) => Fits(2, types, st)
    BY <1>2 DEF Fits, TellTypes, Told
  <2> QED BY <1>1, <1>2, <2>1, BecomesKeeps
<1>3. ASSUME NEW types, types = <<"created">>, Becomes(s, "open", "incomplete", types)
      PROVE  Steady'
  <2>1. DOMAIN types = 1 .. 1 /\ \A st \in SubState :
           (St.status = "open" /\ st.status = "incomplete" /\ st.plan = St.plan /\ st.replaces = St.replaces) => Fits(1, types, st)
    BY <1>3 DEF Fits, TellTypes, Told
  <2> QED BY <1>1, <1>3, <2>1, BecomesKeeps
<1>4. ASSUME NEW types, types = <<"updated", "completed">>, Becomes(s, "incomplete", "active", types)
      PROVE  Steady'
  <2>1. DOMAIN types = 1 .. 2 /\ \A st \in SubState :
           (St.status = "incomplete" /\ st.status = "active" /\ st.plan = St.plan /\ st.replaces = St.replaces) => Fits(2, types, st)
    BY <1>4 DEF Fits, TellTypes, Told
  <2> QED BY <1>1, <1>4, <2>1, BecomesKeeps
<1> QED BY <1>2, <1>3, <1>4 DEF Sell

(* A renewal succeeds, fails, is tried again or is cured. *)
LEMMA BillingKeeps ==
    ASSUME Regular, Steady, NEW s \in Subs, Renew(s) \/ Fail(s) \/ Recharge(s) \/ Recover(s),
           UNCHANGED <<us, row, acked, hook, job>>
    PROVE  Steady'
<1>1. "active" \in StripeStatus /\ "past_due" \in StripeStatus
  BY DEF StripeStatus
<1>2. ASSUME NEW types, types = <<"paid">>, Becomes(s, "active", "active", types) PROVE Steady'
  <2>1. DOMAIN types = 1 .. 1 /\ \A st \in SubState :
           (St.status = "active" /\ st.status = "active" /\ st.plan = St.plan /\ st.replaces = St.replaces) => Fits(1, types, st)
    BY <1>2 DEF Fits, TellTypes, Told
  <2> QED BY <1>1, <1>2, <2>1, BecomesKeeps
<1>3. ASSUME NEW types, types = <<"failed", "updated">>, Becomes(s, "active", "past_due", types) PROVE Steady'
  <2>1. DOMAIN types = 1 .. 2 /\ \A st \in SubState :
           (St.status = "active" /\ st.status = "past_due" /\ st.plan = St.plan /\ st.replaces = St.replaces) => Fits(2, types, st)
    BY <1>3 DEF Fits, TellTypes, Told
  <2> QED BY <1>1, <1>3, <2>1, BecomesKeeps
<1>4. ASSUME NEW types, types = <<"failed">>, Becomes(s, "past_due", "past_due", types) PROVE Steady'
  <2>1. DOMAIN types = 1 .. 1 /\ \A st \in SubState :
           (St.status = "past_due" /\ st.status = "past_due" /\ st.plan = St.plan /\ st.replaces = St.replaces) => Fits(1, types, st)
    BY <1>4 DEF Fits, TellTypes, Told
  <2> QED BY <1>1, <1>4, <2>1, BecomesKeeps
<1>5. ASSUME NEW types, types = <<"updated", "paid">>, Becomes(s, "past_due", "active", types),
             \A e \in DOMAIN sent \ acked : sent[e].type # "failed"
      PROVE  Steady'
  <2>1. DOMAIN types = 1 .. 2 /\ \A st \in SubState :
           (St.status = "past_due" /\ st.status = "active" /\ st.plan = St.plan /\ st.replaces = St.replaces) => Fits(2, types, st)
    BY <1>5 DEF Fits, TellTypes, Told
  <2> QED BY <1>1, <1>5, <2>1, BecomesKeeps
<1> QED BY <1>2, <1>3, <1>4, <1>5 DEF Regular, Renew, Fail, Recharge, Recover

(* The subscription ends, or pauses and resumes. *)
LEMMA EndingKeeps ==
    ASSUME Regular, Steady, NEW s \in Subs, GiveUp(s) \/ End(s) \/ Pause(s) \/ Resume(s),
           UNCHANGED <<us, row, acked, hook, job>>
    PROVE  Steady'
<1>1. "active" \in StripeStatus /\ "canceled" \in StripeStatus /\ "paused" \in StripeStatus
  BY DEF StripeStatus
<1>2. ASSUME NEW types, types = <<"deleted">>, NEW from \in {"active", "past_due"}, Becomes(s, from, "canceled", types)
      PROVE  Steady'
  <2>1. DOMAIN types = 1 .. 1 /\ \A st \in SubState :
           (St.status = from /\ st.status = "canceled" /\ st.plan = St.plan /\ st.replaces = St.replaces) => Fits(1, types, st)
    BY <1>2 DEF Fits, TellTypes, Told
  <2> QED BY <1>1, <1>2, <2>1, BecomesKeeps
<1>3. ASSUME NEW types, types = <<"paused", "updated">>, Becomes(s, "active", "paused", types) PROVE Steady'
  <2>1. DOMAIN types = 1 .. 2 /\ \A st \in SubState :
           (St.status = "active" /\ st.status = "paused" /\ st.plan = St.plan /\ st.replaces = St.replaces) => Fits(2, types, st)
    BY <1>3 DEF Fits, TellTypes, Told
  <2> QED BY <1>1, <1>3, <2>1, BecomesKeeps
<1>4. ASSUME NEW types, types = <<"resumed", "updated">>, Becomes(s, "paused", "active", types) PROVE Steady'
  <2>1. DOMAIN types = 1 .. 2 /\ \A st \in SubState :
           (St.status = "paused" /\ st.status = "active" /\ st.plan = St.plan /\ st.replaces = St.replaces) => Fits(2, types, st)
    BY <1>4 DEF Fits, TellTypes, Told
  <2> QED BY <1>1, <1>4, <2>1, BecomesKeeps
<1> QED BY <1>2, <1>3, <1>4 DEF GiveUp, End, Pause, Resume

(* Whatever Stripe does. *)
LEMMA StripeStepKeeps ==
    ASSUME Regular, Steady, NEW s \in Subs, StripeStep(s)
    PROVE  Steady'
<1>1. CASE Refund(s)
  <2>0. PICK types : types = <<"note">>
    OBVIOUS
  <2>1. DOMAIN types = 1 .. 1 /\ \A st \in SubState :
           (St.status = "active" /\ st.status = "active" /\ st.plan = St.plan /\ st.replaces = St.replaces) => Fits(1, types, st)
    BY <2>0 DEF Fits, TellTypes, Told
  <2>2. Becomes(s, "active", "active", types) /\ UNCHANGED <<us, row, acked, hook, job>>
    BY <1>1, <2>0 DEF Refund
  <2>3. "active" \in StripeStatus
    BY DEF StripeStatus
  <2> QED BY <2>1, <2>2, <2>3, BecomesKeeps
<1>2. CASE /\ \/ Sell(s) \/ Renew(s) \/ Fail(s) \/ Recharge(s) \/ Recover(s) \/ GiveUp(s)
              \/ End(s) \/ Pause(s) \/ Resume(s)
           /\ UNCHANGED <<us, invoice, job, row, acked, hook>>
  BY <1>2, SellKeeps, BillingKeeps, EndingKeeps
<1> QED BY <1>1, <1>2 DEF StripeStep

-----------------------------------------------------------------------------
(* The steps of the deliveries change nothing but the deliveries. *)
LEMMA MoveKeepsSteady ==
    ASSUME Steady, UNCHANGED <<us, stripe, job, sent>>, acked \subseteq acked', Intake', Ordering',
           \A e \in Tellers : Ran(e)' <=> Ran(e)
    PROVE  Steady'
<1>1. Typed'
  BY DEF Steady, Typed
<1> QED BY <1>1, MoveKeepsRows DEF Steady

(* An event is delivered. *)
LEMMA DeliverKeeps ==
    ASSUME Regular, Steady, NEW e \in Events, Deliver(e)
    PROVE  Steady'
<1>1. PICK h \in Hooks : Post(h, e)
  BY DEF Deliver
<1>2. Intake' /\ Ordering' /\ \A f \in Tellers : Ran(f)' <=> Ran(f)
  BY <1>1, PostKeepsIntake, PostMoves DEF Steady, Deliver
<1> QED BY <1>1, <1>2, MoveKeepsSteady DEF Deliver, Post

(* It is claimed, or acknowledged as a duplicate. *)
LEMMA ClaimKeeps ==
    ASSUME Regular, Steady, NEW h \in Hooks, Claim(h), UNCHANGED <<us, stripe, job>>
    PROVE  Steady'
<1>1. Intake' /\ Ordering' /\ \A f \in Tellers : Ran(f)' <=> Ran(f)
  BY ClaimKeepsIntake, ClaimMoves DEF Steady
<1>2. sent' = sent /\ acked \subseteq acked'
  BY DEF Claim
<1> QED BY <1>1, <1>2, MoveKeepsSteady

(* It is marked and answered. *)
LEMMA AcknowledgeKeeps ==
    ASSUME Regular, Steady, NEW h \in Hooks, Acknowledge(h), UNCHANGED <<us, stripe, job>>
    PROVE  Steady'
<1>0. PICK e : e = hook[h].ev
  OBVIOUS
<1>1. AtWork(h) /\ hook[h].pc = "done" /\ sent' = sent
  BY DEF Acknowledge, AtWork
<1>2. Intake' /\ row' = [row EXCEPT ![e] = "processed"] /\ row[e] = "reserved"
  BY <1>0, <1>1, MarkKeepsIntake DEF Steady, Acknowledge, Processed, Intake, Deliveries
<1>3. hook' = [hook EXCEPT ![h] = Resting] /\ acked' = acked \cup {e}
  BY <1>0 DEF Acknowledge, Processed
<1>4. Ordering' /\ \A f \in Tellers : Ran(f)' <=> Ran(f)
  BY <1>0, <1>1, <1>2, <1>3, LetGoMoves DEF Steady
<1> QED BY <1>1, <1>2, <1>3, <1>4, MoveKeepsSteady

(* The server dies before it could be. *)
LEMMA DiesKeeps ==
    ASSUME Regular, Steady, NEW h \in Hooks, Dies(h)
    PROVE  Steady'
<1>0. PICK e : e = hook[h].ev
  OBVIOUS
<1>1. hook[h].pc = "done" /\ hook' = [hook EXCEPT ![h] = Resting] /\ UNCHANGED <<us, stripe, job, sent, row, acked>>
  BY DEF Dies, HookDies
<1>2. row[e] = "reserved"
  BY <1>0, <1>1 DEF Steady, Intake, Deliveries, AtWork
<1>3. Intake'
  BY <1>1, RestKeepsIntake DEF Steady
<1>4. Ordering' /\ \A f \in Tellers : Ran(f)' <=> Ran(f)
  BY <1>0, <1>1, <1>2, LetGoMoves DEF Steady
<1> QED BY <1>1, <1>3, <1>4, MoveKeepsSteady

(* Stripe or the cleanup forgets it. *)
LEMMA ForgetKeepsSteady ==
    ASSUME Regular, Steady, Forget
    PROVE  Steady'
<1>1. (Expire \/ \E e \in DOMAIN sent \ Telling : Abandon(e)) /\ UNCHANGED <<us, stripe, job>>
  BY DEF Forget
<1>2. Intake'
  BY <1>1, ForgetKeepsIntake DEF Steady
<1>3. CASE Expire
  <2>1. sent' = << >>
    BY <1>3 DEF Expire
  <2>2. Typed'
    BY <1>1, <2>1 DEF Steady, Typed
  <2> QED BY <1>1, <1>2, <1>3, <2>2, ExpireKeeps DEF Steady
<1>4. ASSUME NEW e \in DOMAIN sent \ Telling, Abandon(e) PROVE Steady'
  <2>1. Ordering' /\ \A f \in Tellers : Ran(f)' <=> Ran(f)
    BY <1>1, <1>4, AbandonMoves DEF Steady
  <2>2. sent' = sent /\ acked \subseteq acked'
    BY <1>4 DEF Abandon
  <2> QED BY <1>1, <1>2, <2>1, <2>2, MoveKeepsSteady
<1> QED BY <1>1, <1>3, <1>4

(* Every handler. *)
LEMMA HookStepKeeps ==
    ASSUME Regular, Steady, NEW h \in Hooks, HookStep(h)
    PROVE  Steady'
<1>1. CASE HookCreated(h)
  BY <1>1, CreatedKeeps
<1>2. CASE HookCompleted(h)
  BY <1>2, CompletedKeeps
<1>3. CASE HookUpdated(h)
  BY <1>3, UpdatedKeeps
<1>4. CASE HookDeleted(h)
  BY <1>4, DeletedKeeps
<1>5. CASE HookPaused(h)
  BY <1>5, PausedKeeps
<1>6. CASE HookResumed(h)
  BY <1>6, ResumedKeeps
<1>7. CASE HookPaid(h)
  BY <1>7, PaidKeeps
<1>8. CASE HookFailed(h)
  BY <1>8, FailedKeeps
<1>9. CASE HookNote(h) \/ SaveNote(h)
  <2>1. Handling(h, "note") /\ Running(h) /\ sent[hook[h].ev].type = "note" /\ UNCHANGED <<us, stripe, job>>
    BY <1>9 DEF HookNote, SaveNote, Handling, Event
  <2>2. CASE Answer(h)
    BY <2>1, <2>2, NoteKeepsSteady
  <2>3. CASE Refuse(h)
    BY <2>1, <2>3, RefusalKeepsSteady
  <2>4. CASE UNCHANGED eventVars
    BY <2>1, <2>4, SameKeepsSteady
  <2> QED BY <1>9, <2>2, <2>3, <2>4 DEF HookNote, SaveNote
<1>10. CASE (Claim(h) \/ Acknowledge(h)) /\ UNCHANGED <<us, stripe, invoice, job>>
  BY <1>10, ClaimKeeps, AcknowledgeKeeps
<1> QED BY <1>1, <1>2, <1>3, <1>4, <1>5, <1>6, <1>7, <1>8, <1>9, <1>10 DEF HookStep

(* Every request. *)
LEMMA RequestStepKeeps ==
    ASSUME Regular, Steady, NEW p \in Requests, RequestStep(p)
    PROVE  Steady'
<1>1. CASE EnsureLook(p) \/ EnsureCreate(p)
  BY <1>1, EnsureLookKeeps, EnsureCreateKeeps
<1>2. ASSUME NEW s \in Subs, NEW plan \in Plans, Checkout(p, s, plan) PROVE Steady'
  BY <1>2, CheckoutKeeps
<1>3. ASSUME NEW r \in Rows, CancelFree(p, r) \/ CancelNow(p, r) \/ CancelAtEnd(p, r) \/ Reactivate(p, r) PROVE Steady'
  BY <1>3, CancelFreeKeeps, CancelNowKeeps, CancelAtEndKeeps, ReactivateKeeps
<1>4. CASE Mark(p) \/ SyncList(p) \/ SyncEnd(p)
  BY <1>4, MarkKeepsSteady, SyncListKeeps, SyncEndKeeps
<1>5. ASSUME NEW s \in Subs, SyncRow(p, s) PROVE Steady'
  BY <1>5, SyncRowKeeps
<1>6. ASSUME NEW plan \in Plans, Upgrade(p, plan) PROVE Steady'
  BY <1>6, UpgradeKeeps
<1>7. CASE UpgradeRow(p) \/ UpgradeFails(p) \/ Assign(p)
  BY <1>7, UpgradeRowKeeps, UpgradeFailsKeeps, AssignKeeps
<1> QED BY <1>1, <1>2, <1>3, <1>4, <1>5, <1>6, <1>7 DEF RequestStep

(* Every step. *)
LEMMA StepKeepsSteady == Regular /\ Steady /\ [Next]_vars => Steady'
<1> SUFFICES ASSUME Regular, Steady, [Next]_vars PROVE Steady'
  OBVIOUS
<1>1. CASE UNCHANGED vars
  <2>1. UNCHANGED <<us, stripe, job, eventVars>>
    BY <1>1 DEF vars, eventVars
  <2>2. Jobs' /\ job' \in [Requests -> JobState]
    <3>1. Mine' = Mine /\ NextId' = NextId /\ St' = St /\ Tellers' = Tellers /\ Pending' = Pending /\ sent' = sent
      BY <2>1, EventsStay DEF Mine, RowOf, NextId, Held
    <3>2. ASSUME NEW p \in Requests, Fitting(p) PROVE Fitting(p)'
      BY <2>1, <3>1, <3>2 DEF Fitting, At
    <3> QED BY <2>1, <3>2 DEF Steady, Jobs, At, Typed
  <2> QED BY <2>1, <2>2, JobOnly
<1>2. CASE \E p \in Requests : RequestStep(p)
  BY <1>2, RequestStepKeeps
<1>3. CASE (\E e \in Events : Deliver(e)) \/ Forget
  BY <1>3, DeliverKeeps, ForgetKeepsSteady
<1>4. CASE \E h \in Hooks : HookStep(h) \/ Dies(h)
  BY <1>4, HookStepKeeps, DiesKeeps
<1>5. CASE (\E s \in Subs : StripeStep(s)) \/ \E r \in Rows : GraceElapses(r)
  BY <1>5, StripeStepKeeps, GraceKeeps
<1> QED BY <1>1, <1>2, <1>3, <1>4, <1>5 DEF Next

(* Nothing is sold at first. *)
LEMMA InitIsSteady == Regular /\ Init => Steady
<1> SUFFICES ASSUME Regular, Init PROVE Steady
  OBVIOUS
<1>1. /\ DOMAIN sent = {} /\ row = [e \in Events |-> "none"] /\ acked = {} /\ hook = [h \in Hooks |-> Resting]
      /\ us = [r \in Rows |-> NoRow] /\ stripe = [s \in Subs |-> NoSub] /\ job = [p \in Requests |-> Idle]
  BY DEF Init, EventsInit
<1>2. Intake
  BY InitIsExact DEF Exact
<1>3. Typed
  BY <1>1, IdleIsJob DEF Typed
<1>4. St = NoSub /\ NoSub.status = "none" /\ NoSub.replaces = 0
  BY <1>1, SoleSub DEF St, NoSub
<1>5. Tellers = {} /\ Pending = {} /\ Telling = {}
  BY <1>1 DEF Tellers, Pending, Telling
<1>6. Resting.pc = "idle"
  BY DEF Resting
<1>7. Ordering
  BY <1>1, <1>5, <1>6 DEF Ordering, OneHook, InTurn, TellersRun, PaymentsRun
<1>8. History
  BY <1>1, <1>5 DEF History, EventsFit, NewestTells, ChainFits
<1>9. NoRow.kind = "none" /\ NoRow.sub = 0
  BY DEF NoRow
<1>10. Mine = {} /\ Held = {}
  BY <1>1, <1>9, SoleSub DEF Mine, RowOf, Held
<1>11. OneRow
  BY <1>1, <1>9, <1>10, SoleSub DEF OneRow
<1>12. RowAppears /\ RowFollows /\ RowExpects /\ ActiveIsFresh /\ Payable /\ Replaced
  BY <1>1, <1>4, <1>5, <1>10 DEF RowAppears, RowFollows, RowExpects, ActiveIsFresh, Payable, Replaced
<1>13. NoGaps
  BY <1>1, <1>4, <1>9, RowsAreNumbered DEF NoGaps
<1>14. Room
  <2>1. NextId - 1 \in {0} /\ NextId \in Nat
    BY <1>10, NextIdFollows
  <2> QED BY <2>1, RowsAreNumbered DEF Room
<1>15. Jobs
  <2>1. \A p \in Requests : job[p] = Idle
    BY <1>1
  <2> QED BY <2>1, IdleIsJob DEF Jobs, Fitting, At
<1> QED BY <1>2, <1>3, <1>7, <1>8, <1>11, <1>12, <1>13, <1>14, <1>15 DEF Steady, RowFacts

(* What the invariant says when everything is settled. *)
LEMMA SteadyIsBilled == Regular /\ Steady => SettledIsBilled
<1> SUFFICES ASSUME Regular, Steady, Settled, NEW s \in Subs, stripe[s].status \notin {"none", "open"}
             PROVE  /\ Cardinality(RowOf(s)) = 1
                    /\ \A r \in RowOf(s) : Mirrors(r, stripe[s])
                    /\ \A r \in Rows : r = stripe[s].replaces => us[r].kind # "free"
  BY DEF SettledIsBilled
<1>1. s = Sole /\ RowOf(s) = Mine /\ stripe[s] = St
  BY SoleSub DEF Mine, St
<1>2. Pending = {}
  BY DEF Settled, Steady, Ordering, TellersRun, Pending, Tellers, Telling, TellTypes
<1>3. Mine # {} /\ \A r \in Mine : Mirrors(r, St)
  BY <1>1, <1>2 DEF Steady, RowFacts, RowAppears, RowFollows
<1>4. PICK r : r \in Mine
  BY <1>3
<1>5. Mine = {r}
  BY <1>4 DEF Steady, RowFacts, OneRow
<1>6. Cardinality(Mine) = 1
  BY <1>5, FS_Singleton
<1>7. \A q \in Rows : q = St.replaces => us[q].kind # "free"
  BY <1>4 DEF Steady, RowFacts, Replaced
<1> QED BY <1>1, <1>3, <1>6, <1>7

(***************************************************************************)
(* With one subscription at Stripe, requests that neither overlap nor race  *)
(* with Stripe, and events that arrive in order and one delivery at a time, *)
(* the row that user_subscriptions keeps is the subscription that Stripe    *)
(* bills, for any number of rows, plans, hooks, events and requests.       *)
(***************************************************************************)
THEOREM RegularIsBilled ==
    ASSUME Regular
    PROVE  Spec => []SettledIsBilled
<1>1. Init => Steady
  BY InitIsSteady
<1>2. Steady /\ [Next]_vars => Steady'
  BY StepKeepsSteady
<1>3. Steady => SettledIsBilled
  BY SteadyIsBilled
<1> QED BY <1>1, <1>2, <1>3, PTL DEF Spec

(* A webhook that puts an active row in dunning stamps it afresh. *)
LEMMA HookStampsFresh ==
    ASSUME Regular, Steady, NEW h \in Hooks, HookStep(h) \/ Dies(h),
           NEW r \in Rows, us[r].status = "active", us'[r].status = "past_due"
    PROVE  us'[r].due = "fresh"
<1>1. us \in [Rows -> RowState]
  BY DEF Steady, Typed
<1>2. r \in Mine => us[r].due = "never"
  BY DEF Steady, RowFacts, ActiveIsFresh
<1>3. us' # us
  OBVIOUS
<1>4. CASE HookCreated(h)
  <2>1. Running(h) /\ sent[hook[h].ev].type = "created" /\ hook[h].ev \in DOMAIN sent /\ Event(h) = sent[hook[h].ev]
    BY <1>4, EventIsTeller DEF HookCreated, Regular
  <2>2. Event(h).now.status \in {"active", "incomplete"}
    BY <2>1 DEF Steady, History, EventsFit
  <2>3. PICK left : left = Without(Event(h).now.replaces)
    OBVIOUS
  <2>4. left \in [Rows -> RowState] /\ left[r] \in {us[r], NoRow}
    BY <2>3, WithoutRemoves
  <2>5. PICK new : new = [NoRow EXCEPT !.kind = "paid", !.status = Event(h).now.status, !.sub = Event(h).sub,
                                       !.plan = Event(h).now.plan]
    OBVIOUS
  <2>6. new.status = Event(h).now.status
    BY <2>5 DEF NoRow
  <2>7. us' = left \/ us' = [left EXCEPT ![NextId] = new]
    BY <1>4, <2>3, <2>5 DEF HookCreated
  <2>8. us'[r] \in {us[r], NoRow, new}
    BY <2>4, <2>7
  <2> QED BY <2>2, <2>6, <2>8 DEF NoRow
<1>5. CASE HookCompleted(h)
  <2>1. us'[r] \in {us[r], NoRow}
    BY <1>5, WithoutRemoves DEF HookCompleted
  <2> QED BY <2>1 DEF NoRow
<1>6. ASSUME HookUpdated(h) \/ HookDeleted(h) \/ HookPaused(h), us' # us
      PROVE  /\ r \in Mine
             /\ HookUpdated(h) => us'[r] = Adopted(Event(h), us[r])
             /\ HookDeleted(h) => us'[r].status = "cancelled"
             /\ HookPaused(h) => us'[r].status = "paused"
  <2>1. Running(h)
    BY <1>6 DEF HookUpdated, HookDeleted, HookPaused, Handling
  <2>2. RowOf(Event(h).sub) = Mine
    BY <2>1, EventIsOfSole DEF Steady
  <2>3. us[r] \in RowState
    BY <1>1
  <2>4. ASSUME HookUpdated(h) PROVE r \in Mine /\ us'[r] = Adopted(Event(h), us[r])
    BY <1>6, <2>2, <2>4 DEF HookUpdated, Rewrite
  <2>5. ASSUME HookDeleted(h) PROVE r \in Mine /\ us'[r].status = "cancelled"
    BY <1>6, <2>2, <2>3, <2>5 DEF HookDeleted, Rewrite, RowState
  <2>6. ASSUME HookPaused(h) PROVE r \in Mine /\ us'[r].status = "paused"
    BY <1>6, <2>2, <2>3, <2>6 DEF HookPaused, Rewrite, RowState
  <2> QED BY <1>6, <2>4, <2>5, <2>6
<1>7. CASE HookUpdated(h)
  <2>1. us'[r] = Adopted(Event(h), us[r]) /\ us[r].due = "never" /\ us[r] \in RowState
    BY <1>1, <1>2, <1>3, <1>6, <1>7
  <2> QED BY <2>1 DEF Adopted, Stamped, RowState
<1>8. CASE HookDeleted(h) \/ HookPaused(h)
  BY <1>3, <1>6, <1>8
<1>9. CASE HookResumed(h) \/ HookPaid(h)
  BY <1>9, ResumedKeeps, PaidKeeps
<1>10. CASE HookFailed(h)
  <2>1. PICK q \in Customers(Billable) : us' = [us EXCEPT ![q].status = "past_due", ![q].due = Stamped(@)]
    BY <1>3, <1>10 DEF HookFailed
  <2>2. q \in Mine /\ q = r
    BY <1>1, <2>1, CustomersAreMine
  <2>3. us[r] \in RowState /\ us[r].due = "never"
    BY <1>1, <1>2, <2>2
  <2> QED BY <1>1, <2>1, <2>2, <2>3 DEF Stamped, RowState
<1> QED BY <1>3, <1>4, <1>5, <1>7, <1>8, <1>9, <1>10 DEF HookStep, Dies, HookNote, SaveNote

(***************************************************************************)
(* Under the same conditions, a webhook that moves a row from active to     *)
(* past_due starts a new grace window: the stamp of an earlier dunning      *)
(* was cleared before, or the row could not be active.                     *)
(***************************************************************************)
THEOREM RegularGraceIsFresh ==
    ASSUME Regular
    PROVE  Spec => FreshGrace
<1> DEFINE Stamps == \A r \in Rows : (us[r].status = "active" /\ us'[r].status = "past_due" /\ hook' # hook)
                                       => us'[r].due = "fresh"
<1>1. Steady /\ [Next]_vars => Stamps
  <2> SUFFICES ASSUME Steady, [Next]_vars, NEW r \in Rows,
                      us[r].status = "active", us'[r].status = "past_due", hook' # hook
               PROVE  us'[r].due = "fresh"
    OBVIOUS
  <2>1. us' # us /\ Next
    BY DEF vars
  <2>2. ASSUME NEW p \in Requests, RequestStep(p) PROVE hook' = hook
    BY <2>2 DEF RequestStep, EnsureLook, EnsureCreate, Checkout, CancelFree, CancelNow, CancelAtEnd, Reactivate,
                Mark, SyncList, SyncEnd, SyncRow, Upgrade, UpgradeRow, UpgradeFails, Assign, eventVars
  <2>3. ASSUME NEW s \in Subs, StripeStep(s) PROVE us' = us
    BY <2>3 DEF StripeStep, Refund
  <2>4. ASSUME NEW q \in Rows, GraceElapses(q) PROVE hook' = hook
    BY <2>4 DEF GraceElapses, eventVars
  <2>5. PICK h \in Hooks : HookStep(h) \/ Dies(h)
    BY <2>1, <2>2, <2>3, <2>4 DEF Next, Deliver, Forget
  <2> QED BY <2>5, HookStampsFresh
<1>2. Init => Steady
  BY InitIsSteady
<1>3. Steady /\ [Next]_vars => Steady'
  BY StepKeepsSteady
<1> QED BY <1>1, <1>2, <1>3, PTL DEF Spec, FreshGrace
=============================================================================
