--------------------------- MODULE PlanSyncProofs ---------------------------
(***************************************************************************)
(* A plan keeps one product at Stripe whatever happens to the calls; on the *)
(* orderly schedules its price is live, and once nothing is under way its   *)
(* product shows the row: for any plans, amounts, requests, edits, retries  *)
(* and restarts.                                                           *)
(***************************************************************************)
EXTENDS PlanSync, SequenceTheorems, TLAPS

-----------------------------------------------------------------------------
(* The sets the variables range over. *)
RowType == [state : {"none", "live", "deleted"}, rev : Nat, on : BOOLEAN,
            amount : Nat, product : Nat, price : Nat]

EntryType == [op : {"create", "update", "archive"}, plan : Plans, copy : RowType, tries : Nat,
              state : {"pending", "succeeded", "failed"}]

ProductType == [key : {<<p>> : p \in Plans}, plan : Plans, asked : Nat, rev : Nat, on : BOOLEAN]
PriceType == [key : {"create", "migrate"} \X Plans \X Nat, asked : Nat, on : BOOLEAN]

Steps == {"idle", "reread", "hook", "delete", "product", "price", "drift", "save", "retire", "update",
          "archive", "mark", "next", "mirror"}
PlanSteps == {"product", "price", "drift", "save", "reread", "hook", "retire", "update", "archive", "delete"}

Todos == UNION {[S -> RowType] : S \in SUBSET Plans}

HandType == [at : Steps, plan : Plans \cup {NoPlan}, copy : RowType, entry : Nat,
             todo : Todos, all : BOOLEAN, old : Nat]

HandTyped ==
    /\ hand \in [Pushers -> HandType]
    /\ \A h \in Pushers : hand[h].at \in PlanSteps => hand[h].plan \in Plans

Typed ==
    /\ plan \in [Plans -> RowType]
    /\ queue \in Seq(EntryType)
    /\ product \in Seq(ProductType)
    /\ price \in Seq(PriceType)
    /\ pass \subseteq Outstanding
    /\ HandTyped
    /\ Busy("worker") => hand["worker"].entry \in pass
    /\ applied \in [Plans -> Nat]

-----------------------------------------------------------------------------
(* Sequences that grow at the end, or change at one place. *)
LEMMA Appended ==
    ASSUME NEW S, NEW s \in Seq(S), NEW x \in S
    PROVE  /\ Append(s, x) \in Seq(S) /\ DOMAIN s = 1 .. Len(s) /\ Len(s) \in Nat
           /\ DOMAIN Append(s, x) = (DOMAIN s) \cup {Len(s) + 1}
           /\ \A i \in DOMAIN s : Append(s, x)[i] = s[i]
           /\ Append(s, x)[Len(s) + 1] = x
<1>1. Append(s, x) \in Seq(S) /\ Len(Append(s, x)) = Len(s) + 1 /\ Len(s) \in Nat
  BY AppendProperties, LenProperties
<1>2. /\ DOMAIN s = 1 .. Len(s) /\ DOMAIN Append(s, x) = 1 .. Len(s) + 1
  BY <1>1, LenProperties
<1>3. \A i \in 1 .. Len(s) : Append(s, x)[i] = s[i]
  BY AppendProperties
<1>4. Append(s, x)[Len(s) + 1] = x
  BY AppendProperties
<1>5. 1 .. Len(s) + 1 = (1 .. Len(s)) \cup {Len(s) + 1}
  BY <1>1
<1> QED BY <1>1, <1>2, <1>3, <1>4, <1>5

LEMMA Changed ==
    ASSUME NEW S, NEW s \in Seq(S), NEW i, NEW x, i \in DOMAIN s => x \in S
    PROVE  /\ [s EXCEPT ![i] = x] \in Seq(S) /\ DOMAIN [s EXCEPT ![i] = x] = DOMAIN s
           /\ \A j \in DOMAIN s : [s EXCEPT ![i] = x][j] = IF j = i THEN x ELSE s[j]
<1>1. s \in [1 .. Len(s) -> S] /\ Len(s) \in Nat /\ DOMAIN s = 1 .. Len(s)
  BY LenProperties
<1>2. [s EXCEPT ![i] = x] \in [1 .. Len(s) -> S]
  BY <1>1
<1>3. [s EXCEPT ![i] = x] \in Seq(S)
  BY <1>1, <1>2, SeqDef
<1> QED BY <1>1, <1>3

LEMMA Indexed ==
    ASSUME NEW S, NEW s \in Seq(S)
    PROVE  \A i \in DOMAIN s : s[i] \in S /\ i \in Nat /\ i # 0
BY LenProperties, ElementOfSeq

LEMMA Constants1 ==
    /\ <<>> \in Todos /\ DOMAIN <<>> = {}
    /\ Blank \in RowType /\ Blank.price = 0 /\ Blank.state = "none"
    /\ Idle \in HandType
    /\ Idle = [at |-> "idle", plan |-> NoPlan, copy |-> Blank, entry |-> 0,
               todo |-> <<>>, all |-> FALSE, old |-> 0]
<1>1. DOMAIN <<>> = {}
  OBVIOUS
<1>2. <<>> \in [{} -> RowType]
  OBVIOUS
<1>3. <<>> \in Todos
  BY <1>2 DEF Todos
<1>4. Blank \in RowType /\ Blank.price = 0 /\ Blank.state = "none"
  BY DEF Blank, RowType
<1> QED BY <1>1, <1>3, <1>4 DEF Idle, HandType, Steps

(* Where a push that ends leaves its request, and the worker. *)
LEMMA RestTyped ==
    ASSUME HandTyped, NEW h \in Pushers
    PROVE  /\ Rest(h) \in HandType /\ Succeeded(h) \in HandType
           /\ Rest(h).at \in {"idle", "next"} /\ Succeeded(h).at \in {"idle", "next", "mark"}
           /\ \/ Rest(h) = Idle /\ DOMAIN hand[h].todo = {} /\ ~hand[h].all
              \/ Rest(h) = [Idle EXCEPT !.at = "next", !.todo = hand[h].todo, !.all = hand[h].all]
<1>1. hand[h] \in HandType
  BY DEF HandTyped
<1>2. LET x == [Idle EXCEPT !.at = "next", !.todo = hand[h].todo, !.all = hand[h].all]
      IN  x \in HandType /\ x.at = "next"
  BY <1>1, Constants1 DEF HandType, Steps
<1>3. [hand[h] EXCEPT !.at = "mark"] \in HandType /\ [hand[h] EXCEPT !.at = "mark"].at = "mark"
  BY <1>1 DEF HandType, Steps
<1>4. Idle \in HandType /\ Idle.at = "idle"
  BY Constants1
<1>5. \/ Rest(h) = Idle /\ DOMAIN hand[h].todo = {} /\ ~hand[h].all
      \/ Rest(h) = [Idle EXCEPT !.at = "next", !.todo = hand[h].todo, !.all = hand[h].all]
  BY DEF Rest
<1>6. Rest(h) \in HandType /\ Rest(h).at \in {"idle", "next"}
  BY <1>2, <1>4, <1>5
<1>7. Succeeded(h) \in HandType /\ Succeeded(h).at \in {"idle", "next", "mark"}
  BY <1>3, <1>6 DEF Succeeded
<1> QED BY <1>5, <1>6, <1>7

(* One hand moves. *)
LEMMA Moves ==
    ASSUME HandTyped, NEW h \in Pushers, NEW k \in HandType, k.at \in PlanSteps => k.plan \in Plans,
           hand' = [hand EXCEPT ![h] = k]
    PROVE  HandTyped' /\ hand'[h] = k /\ \A g \in Pushers : g # h => hand'[g] = hand[g]
BY DEF HandTyped

QueueTyped == queue \in Seq(EntryType) /\ pass \subseteq Outstanding

LEMMA Enqueued ==
    ASSUME QueueTyped, NEW op \in {"create", "update", "archive"}, NEW p \in Plans, NEW r \in RowType,
           Enqueue(op, p, r), pass' = pass
    PROVE  /\ QueueTyped' /\ (DOMAIN queue)' = (DOMAIN queue) \cup {Len(queue) + 1}
           /\ Len(queue) + 1 \notin DOMAIN queue
           /\ \A i \in DOMAIN queue : queue'[i] = queue[i]
           /\ queue'[Len(queue) + 1] = [op |-> op, plan |-> p, copy |-> r, tries |-> 0, state |-> "pending"]
<1> DEFINE e == [op |-> op, plan |-> p, copy |-> r, tries |-> 0, state |-> "pending"]
<1>1. e \in EntryType
  BY DEF EntryType
<1> HIDE DEF e
<1>2. queue' = Append(queue, e) /\ queue \in Seq(EntryType)
  BY DEF Enqueue, QueueTyped, e
<1>3. /\ queue' \in Seq(EntryType) /\ DOMAIN queue = 1 .. Len(queue) /\ Len(queue) \in Nat
      /\ DOMAIN queue' = (DOMAIN queue) \cup {Len(queue) + 1}
      /\ \A i \in DOMAIN queue : queue'[i] = queue[i]
      /\ queue'[Len(queue) + 1] = e
  BY <1>1, <1>2, Appended
<1>4. Outstanding \subseteq Outstanding'
  BY <1>3 DEF Outstanding, Pending
<1> QED BY <1>3, <1>4 DEF QueueTyped, e

(* An entry that is marked. *)
LEMMA Marked ==
    ASSUME QueueTyped, NEW n, NEW e, n \in DOMAIN queue => e \in EntryType,
           queue' = [queue EXCEPT ![n] = e], pass' = pass \ {n}
    PROVE  /\ QueueTyped' /\ (DOMAIN queue)' = DOMAIN queue
           /\ \A i \in DOMAIN queue : queue'[i] = IF i = n THEN e ELSE queue[i]
<1>1. /\ queue' \in Seq(EntryType) /\ DOMAIN queue' = DOMAIN queue
      /\ \A i \in DOMAIN queue : queue'[i] = IF i = n THEN e ELSE queue[i]
  BY Changed DEF QueueTyped
<1>2. Outstanding \ {n} \subseteq Outstanding'
  BY <1>1 DEF Outstanding, Pending
<1> QED BY <1>1, <1>2 DEF QueueTyped

LEMMA FailureType ==
    ASSUME NEW e \in EntryType
    PROVE  /\ MarkFailure(e) \in EntryType /\ MarkFailure(e).op = e.op
           /\ MarkFailure(e).plan = e.plan /\ MarkFailure(e).copy = e.copy
<1>1. PICK s \in {"pending", "failed"} : MarkFailure(e) = [e EXCEPT !.tries = @ + 1, !.state = s]
  BY DEF MarkFailure
<1>2. e.tries + 1 \in Nat
  BY DEF EntryType
<1> QED BY <1>1, <1>2 DEF EntryType

(* How a push goes on, or ends. *)
LEMMA FailTyped ==
    ASSUME QueueTyped, HandTyped, NEW h \in Pushers, Fail(h),
           h = "worker" => hand[h].entry \in pass
    PROVE  /\ QueueTyped' /\ HandTyped' /\ (DOMAIN queue)' = DOMAIN queue
           /\ hand'[h] = Rest(h) \/ (h = "worker" /\ hand'[h] = Idle)
           /\ \A g \in Pushers : g # h => hand'[g] = hand[g]
           /\ \A i \in DOMAIN queue : /\ queue'[i].op = queue[i].op /\ queue'[i].plan = queue[i].plan
                                      /\ queue'[i].copy = queue[i].copy
                                      /\ Pending(i)' => Pending(i)
           /\ Outstanding' \subseteq Outstanding
<1>1. CASE h = "worker"
  <2> DEFINE n == hand[h].entry
             e == MarkFailure(queue[n])
  <2>1. queue' = [queue EXCEPT ![n] = e] /\ pass' = pass \ {n} /\ hand' = [hand EXCEPT ![h] = Idle]
    BY <1>1 DEF Fail
  <2>2. \A i \in DOMAIN queue : queue[i] \in EntryType
    BY Indexed DEF QueueTyped
  <2>3. /\ n \in DOMAIN queue => e \in EntryType
        /\ n \in DOMAIN queue => e.op = queue[n].op /\ e.plan = queue[n].plan /\ e.copy = queue[n].copy
    BY <2>2, FailureType
  <2>4. Pending(n)
    BY <1>1 DEF QueueTyped, Outstanding
  <2> HIDE DEF n, e
  <2>5. /\ QueueTyped' /\ (DOMAIN queue)' = DOMAIN queue
        /\ \A i \in DOMAIN queue : queue'[i] = IF i = n THEN e ELSE queue[i]
    BY <2>1, <2>3, Marked
  <2>6. HandTyped' /\ hand'[h] = Idle /\ \A g \in Pushers : g # h => hand'[g] = hand[g]
    <3>1. Idle \in HandType /\ Idle.at \notin PlanSteps
      BY Constants1 DEF PlanSteps
    <3> QED BY <2>1, <3>1, Moves
  <2>7. \A i \in DOMAIN queue : queue'[i].op = queue[i].op /\ queue'[i].plan = queue[i].plan
                                /\ queue'[i].copy = queue[i].copy
    BY <2>3, <2>5
  <2>8. \A i \in DOMAIN queue : Pending(i)' => Pending(i)
    BY <2>4, <2>5 DEF Pending
  <2>9. Outstanding' \subseteq Outstanding
    BY <2>5, <2>8 DEF Outstanding
  <2> QED BY <1>1, <2>5, <2>6, <2>7, <2>8, <2>9
<1>2. CASE h # "worker"
  <2>1. hand' = [hand EXCEPT ![h] = Rest(h)] /\ queue' = queue /\ pass' = pass
    BY <1>2 DEF Fail, Go
  <2>2. HandTyped' /\ hand'[h] = Rest(h) /\ \A g \in Pushers : g # h => hand'[g] = hand[g]
    BY <2>1, Moves, RestTyped DEF PlanSteps
  <2> QED BY <2>1, <2>2 DEF QueueTyped, Outstanding, Pending
<1> QED BY <1>1, <1>2

-----------------------------------------------------------------------------
(* Every step keeps the types. *)
Kept == UNCHANGED <<plan, product, price, applied>>

LEMMA FieldsTyped ==
    ASSUME Typed, NEW h \in Pushers
    PROVE  /\ hand[h] \in HandType /\ hand[h].copy \in RowType /\ hand[h].old \in Nat
           /\ hand[h].at \in PlanSteps => hand[h].plan \in Plans
           /\ \A p \in DOMAIN hand[h].todo : p \in Plans /\ hand[h].todo[p] \in RowType
           /\ QueueTyped /\ HandTyped
<1>1. hand[h] \in HandType
  BY DEF Typed, HandTyped
<1>2. \A p \in DOMAIN hand[h].todo : p \in Plans /\ hand[h].todo[p] \in RowType
  BY <1>1 DEF HandType, Todos
<1> QED BY <1>1, <1>2 DEF Typed, HandTyped, HandType, QueueTyped

(* A step of one hand, and what it does to the worker's list. *)
LEMMA TypedByHand ==
    ASSUME Typed, NEW h \in Pushers, QueueTyped', HandTyped',
           \A g \in Pushers : g # h => hand'[g] = hand[g],
           \/ pass' = pass /\ (h = "worker" => Busy(h) /\ hand'[h].entry = hand[h].entry)
           \/ h = "worker" /\ hand'[h].at = "idle",
           plan' \in [Plans -> RowType], product' \in Seq(ProductType), price' \in Seq(PriceType),
           applied' \in [Plans -> Nat]
    PROVE  Typed'
<1>1. "worker" \in Pushers
  BY DEF Pushers
<1>2. Busy("worker")' => hand'["worker"].entry \in pass'
  BY <1>1 DEF Typed, Busy
<1> QED BY <1>2 DEF Typed, QueueTyped

LEMMA GoTyped ==
    ASSUME Typed, NEW h \in Pushers, NEW k \in HandType, k.at \in PlanSteps => k.plan \in Plans,
           hand' = [hand EXCEPT ![h] = k], UNCHANGED <<queue, pass>>, Busy(h),
           k.entry = hand[h].entry \/ k.at = "idle" \/ h # "worker",
           plan' \in [Plans -> RowType], product' \in Seq(ProductType), price' \in Seq(PriceType),
           applied' \in [Plans -> Nat]
    PROVE  Typed' /\ hand'[h] = k /\ \A g \in Pushers : g # h => hand'[g] = hand[g]
<1>1. HandTyped' /\ hand'[h] = k /\ \A g \in Pushers : g # h => hand'[g] = hand[g]
  BY Moves, FieldsTyped
<1>2. QueueTyped'
  BY DEF Typed, QueueTyped, Outstanding, Pending
<1>3. QueueTyped /\ Typed
  BY DEF Typed, QueueTyped
<1>4. "worker" \in Pushers
  BY DEF Pushers
<1>5. Busy("worker")' => hand'["worker"].entry \in pass'
  BY <1>1, <1>4 DEF Typed, Busy
<1> QED BY <1>1, <1>2, <1>5 DEF Typed, QueueTyped

LEMMA FailKeepsTyped ==
    ASSUME Typed, NEW h \in Pushers, Fail(h), Busy(h),
           plan' \in [Plans -> RowType], product' \in Seq(ProductType), price' \in Seq(PriceType),
           applied' \in [Plans -> Nat]
    PROVE  Typed'
<1>1. h = "worker" => hand[h].entry \in pass
  BY DEF Typed
<1>2. /\ QueueTyped' /\ HandTyped'
      /\ hand'[h] = Rest(h) \/ (h = "worker" /\ hand'[h] = Idle)
      /\ \A g \in Pushers : g # h => hand'[g] = hand[g]
  BY <1>1, FieldsTyped, FailTyped
<1>3. h = "worker" => hand'[h] = Idle
  <2>1. h = "worker" => hand' = [hand EXCEPT ![h] = Idle]
    BY DEF Fail
  <2> QED BY <2>1 DEF Typed, HandTyped
<1>4. h # "worker" => pass' = pass
  BY DEF Fail, Go
<1> QED BY <1>2, <1>3, <1>4, TypedByHand, Constants1

LEMMA SucceededKeepsTyped ==
    ASSUME Typed, NEW h \in Pushers, Go(h, Succeeded(h)), Busy(h),
           plan' \in [Plans -> RowType], product' \in Seq(ProductType), price' \in Seq(PriceType),
           applied' \in [Plans -> Nat]
    PROVE  Typed'
<1>1. Succeeded(h) \in HandType /\ Succeeded(h).at \in {"idle", "next", "mark"}
  BY RestTyped, FieldsTyped
<1>2. h = "worker" => Succeeded(h).entry = hand[h].entry
  BY FieldsTyped DEF Succeeded, HandType
<1> QED BY <1>1, <1>2, GoTyped DEF Go, PlanSteps

(* What is made under a key. *)
LEMMA MadeIs ==
    ASSUME NEW S, NEW s \in Seq(S), NEW key, NEW asked
    PROVE  LET id == Made(s, key, asked)
           IN  /\ id \in Nat /\ (id > Len(s) <=> id = Len(s) + 1)
               /\ \/ id = 0
                  \/ id = Len(s) + 1 /\ \A i \in DOMAIN s : s[i].key # key
                  \/ id \in DOMAIN s /\ s[id].key = key /\ \E i \in DOMAIN s : s[i].key = key /\ s[i].asked = asked
<1> DEFINE known == {i \in DOMAIN s : s[i].key = key}
           id == Made(s, key, asked)
<1>1. Len(s) \in Nat /\ DOMAIN s = 1 .. Len(s)
  BY LenProperties
<1>2. \/ id = 0
      \/ id = Len(s) + 1 /\ known = {}
      \/ id \in known /\ \E i \in known : s[i].asked = asked
  <2>1. CASE known = {}
    BY <2>1 DEF Made
  <2>2. CASE known # {} /\ \E i \in known : s[i].asked = asked
    <3>1. id = CHOOSE i \in known : TRUE
      BY <2>2 DEF Made
    <3>2. id \in known
      BY <2>2, <3>1
    <3> QED BY <2>2, <3>2
  <2>3. CASE known # {} /\ ~\E i \in known : s[i].asked = asked
    BY <2>3 DEF Made
  <2> QED BY <2>1, <2>2, <2>3
<1> QED BY <1>1, <1>2

LEMMA ProductCallTyped ==
    ASSUME Typed, NEW h \in Pushers, CallProduct(h)
    PROVE  Typed'
<1> DEFINE k == hand[h]
           id == Made(product, ProductKey(k), k.copy.rev)
           x == [key |-> ProductKey(k), plan |-> k.plan, asked |-> k.copy.rev,
                 rev |-> k.copy.rev, on |-> TRUE]
           step == [k EXCEPT !.at = "price", !.copy.product = id]
<1>1. /\ k.at = "product" /\ k \in HandType /\ k.copy \in RowType /\ k.plan \in Plans
      /\ product \in Seq(ProductType) /\ id \in Nat
  BY FieldsTyped, MadeIs DEF CallProduct, Typed, PlanSteps
<1>2. x \in ProductType
  BY <1>1 DEF ProductType, ProductKey, RowType
<1>3. product' = IF id > Len(product) THEN Append(product, x) ELSE product
  BY DEF CallProduct
<1>4. product' \in Seq(ProductType)
  <2> HIDE DEF x, id
  <2> QED BY <1>1, <1>2, <1>3, Appended
<1>5. UNCHANGED <<plan, price, applied>> /\ Typed /\ Busy(h)
  BY <1>1 DEF CallProduct, Busy
<1>6. CASE Fail(h)
  BY <1>4, <1>5, <1>6, FailKeepsTyped DEF Typed
<1>7. CASE Go(h, step)
  <2>1. step \in HandType /\ step.plan = k.plan /\ step.entry = k.entry
    <3> HIDE DEF id
    <3> QED BY <1>1 DEF HandType, Steps, RowType
  <2> HIDE DEF step
  <2> QED BY <1>1, <1>4, <1>5, <1>7, <2>1, GoTyped DEF Typed, Go
<1> QED BY <1>6, <1>7 DEF CallProduct, Answered

LEMMA PriceCallTyped ==
    ASSUME Typed, NEW h \in Pushers, CallPrice(h)
    PROVE  Typed'
<1> DEFINE k == hand[h]
           id == Made(price, PriceKey(k), k.copy.amount)
           x == [key |-> PriceKey(k), asked |-> k.copy.amount, on |-> TRUE]
           step == [k EXCEPT !.at = "save", !.old = k.copy.price, !.copy.price = id]
<1>1. /\ k.at \in {"price", "drift"} /\ k \in HandType /\ k.copy \in RowType /\ k.plan \in Plans
      /\ price \in Seq(PriceType) /\ id \in Nat
  BY FieldsTyped, MadeIs DEF CallPrice, Typed, PlanSteps
<1>2. x \in PriceType
  BY <1>1 DEF PriceType, PriceKey, RowType
<1>3. price' = IF id > Len(price) THEN Append(price, x) ELSE price
  BY DEF CallPrice
<1>4. price' \in Seq(PriceType)
  <2> HIDE DEF x, id
  <2> QED BY <1>1, <1>2, <1>3, Appended
<1>5. UNCHANGED <<plan, product, applied>> /\ Typed /\ Busy(h)
  BY <1>1 DEF CallPrice, Busy
<1>6. CASE Fail(h)
  BY <1>4, <1>5, <1>6, FailKeepsTyped DEF Typed
<1>7. CASE Go(h, step)
  <2>1. step \in HandType /\ step.plan = k.plan /\ step.entry = k.entry
    <3> HIDE DEF id
    <3> QED BY <1>1 DEF HandType, Steps, RowType
  <2> HIDE DEF step
  <2> QED BY <1>1, <1>4, <1>5, <1>7, <2>1, GoTyped DEF Typed, Go
<1> QED BY <1>6, <1>7 DEF CallPrice, Answered

LEMMA UpdateCallTyped ==
    ASSUME Typed, NEW h \in Pushers, CallUpdate(h)
    PROVE  Typed'
<1> DEFINE k == hand[h]
           n == k.copy.product
           x == Pushed(k, product[n])
           step == IF h = "worker" THEN Succeeded(h) ELSE [k EXCEPT !.at = "drift"]
<1>1. /\ k.at \in {"update", "archive"} /\ k \in HandType /\ k.copy \in RowType /\ k.plan \in Plans
      /\ product \in Seq(ProductType) /\ k.entry \in Nat
  BY FieldsTyped DEF CallUpdate, Typed, PlanSteps, HandType
<1>2. n \in DOMAIN product => x \in ProductType
  <2>1. n \in DOMAIN product => product[n] \in ProductType
    BY <1>1, Indexed
  <2> QED BY <1>1, <2>1 DEF Pushed, ProductType, RowType
<1>3. product' = [product EXCEPT ![n] = x]
  BY DEF CallUpdate
<1>4. product' \in Seq(ProductType)
  <2> HIDE DEF x, n
  <2> QED BY <1>1, <1>2, <1>3, Changed
<1>5. UNCHANGED <<plan, price>> /\ Typed /\ Busy(h)
  BY <1>1 DEF CallUpdate, Busy
<1>6. applied' \in [Plans -> Nat]
  BY <1>1 DEF CallUpdate, Typed
<1>7. CASE Fail(h)
  BY <1>4, <1>5, <1>6, <1>7, FailKeepsTyped DEF Typed
<1>8. CASE Go(h, step)
  <2>1. CASE h = "worker"
    BY <1>4, <1>5, <1>6, <1>8, <2>1, SucceededKeepsTyped DEF Typed
  <2>2. CASE h # "worker"
    <3>1. step \in HandType /\ step.plan = k.plan
      BY <1>1, <2>2 DEF HandType, Steps
    <3> HIDE DEF step
    <3> QED BY <1>1, <1>4, <1>5, <1>6, <1>8, <2>2, <3>1, GoTyped DEF Typed, Go
  <2> QED BY <2>1, <2>2
<1> QED BY <1>7, <1>8 DEF CallUpdate, Answered

LEMMA SaveTyped ==
    ASSUME Typed, NEW h \in Pushers, Save(h)
    PROVE  Typed'
<1> DEFINE k == hand[h]
           p == k.plan
           row == [k.copy EXCEPT !.on = @ \/ plan[p].on]
           step == [k EXCEPT !.at = "reread"]
<1>1. /\ k.at = "save" /\ k \in HandType /\ k.copy \in RowType /\ p \in Plans
      /\ UNCHANGED <<product, price, applied>> /\ Busy(h)
  BY FieldsTyped DEF Save, PlanSteps, Busy
<1>2. CASE plan' = plan /\ Fail(h)
  BY <1>1, <1>2, FailKeepsTyped DEF Typed
<1>3. CASE plan' = [plan EXCEPT ![p] = row] /\ Go(h, step)
  <2>1. row \in RowType
    BY <1>1 DEF RowType, Typed
  <2>2. step \in HandType /\ step.plan = p /\ step.entry = k.entry
    BY <1>1 DEF HandType, Steps
  <2>3. plan' \in [Plans -> RowType]
    <3> HIDE DEF row
    <3> QED BY <1>1, <1>3, <2>1 DEF Typed
  <2> HIDE DEF step
  <2> QED BY <1>1, <1>3, <2>2, <2>3, GoTyped DEF Typed, Go
<1> QED BY <1>2, <1>3 DEF Save

LEMMA RereadTyped ==
    ASSUME Typed, NEW h \in Pushers, Reread(h)
    PROVE  Typed'
<1> DEFINE k == hand[h]
           fresh == [k EXCEPT !.at = "hook", !.copy = plan[k.plan]]
           same == [k EXCEPT !.at = "hook"]
<1>1. /\ k.at = "reread" /\ k \in HandType /\ k.plan \in Plans /\ Busy(h)
      /\ UNCHANGED <<plan, product, price, applied>>
  BY FieldsTyped DEF Reread, PlanSteps, Busy
<1>2. PICK n : n \in {fresh, same} /\ Go(h, n)
  BY DEF Reread
<1>3. n \in HandType /\ n.plan \in Plans /\ n.entry = k.entry
  BY <1>1, <1>2 DEF HandType, Steps, Typed
<1> QED BY <1>1, <1>2, <1>3, GoTyped DEF Typed, Go

LEMMA HookTyped ==
    ASSUME Typed, NEW h \in Pushers, Hook(h)
    PROVE  Typed'
<1> DEFINE k == hand[h]
           step == IF k.old # 0 THEN [k EXCEPT !.at = "retire"] ELSE Succeeded(h)
<1>1. /\ k.at = "hook" /\ k \in HandType /\ k.copy \in RowType /\ k.plan \in Plans
      /\ UNCHANGED <<plan, product, price, applied, pass>> /\ Busy(h) /\ QueueTyped /\ HandTyped
      /\ hand' = [hand EXCEPT ![h] = step]
  BY FieldsTyped DEF Hook, PlanSteps, Busy
<1>3. QueueTyped'
  <2>1. CASE queue' = queue
    BY <1>1, <2>1 DEF QueueTyped, Outstanding, Pending
  <2>2. CASE Enqueue("update", k.plan, k.copy)
    BY <1>1, <2>2, Enqueued
  <2> QED BY <2>1, <2>2 DEF Hook, Hooked
<1>4. step \in HandType /\ (step.at \in PlanSteps => step.plan \in Plans)
      /\ (h = "worker" => step.entry = k.entry)
  <2>1. CASE k.old # 0
    BY <1>1, <2>1 DEF HandType, Steps
  <2>2. CASE k.old = 0
    BY <1>1, <2>2, RestTyped DEF PlanSteps, Succeeded, HandType
  <2> QED BY <2>1, <2>2
<1>5. HandTyped' /\ hand'[h] = step /\ \A g \in Pushers : g # h => hand'[g] = hand[g]
  <2> HIDE DEF step
  <2> QED BY <1>1, <1>4, Moves
<1> QED BY <1>1, <1>3, <1>4, <1>5, TypedByHand DEF Typed

LEMMA PushTyped ==
    ASSUME Typed, NEW h \in Pushers, PushStep(h)
    PROVE  Typed'
<1>1. CASE NoDrift(h)
  BY <1>1, SucceededKeepsTyped DEF NoDrift, Typed, Busy
<1>2. CASE Retire(h)
  <2>1. price' = [price EXCEPT ![hand[h].old].on = FALSE] /\ Go(h, Succeeded(h)) /\ Busy(h)
        /\ UNCHANGED <<plan, product, applied>>
    BY <1>2 DEF Retire, Busy
  <2>2. hand[h].old \in DOMAIN price => [price[hand[h].old] EXCEPT !.on = FALSE] \in PriceType
    <3>1. hand[h].old \in DOMAIN price => price[hand[h].old] \in PriceType
      BY Indexed DEF Typed
    <3> QED BY <3>1 DEF PriceType
  <2>3. price' \in Seq(PriceType)
    <3> DEFINE n == hand[h].old
               x == [price[n] EXCEPT !.on = FALSE]
    <3>1. price' = [price EXCEPT ![n] = x] /\ price \in Seq(PriceType)
      BY <2>1 DEF Typed
    <3> HIDE DEF n, x
    <3> QED BY <2>2, <3>1, Changed DEF n, x
  <2> QED BY <2>1, <2>3, SucceededKeepsTyped DEF Typed
<1>3. CASE Refused(h)
  BY <1>3, FailKeepsTyped DEF Refused, Typed, Busy
<1> QED BY <1>1, <1>2, <1>3, ProductCallTyped, PriceCallTyped, UpdateCallTyped, SaveTyped, RereadTyped,
        HookTyped DEF PushStep

-----------------------------------------------------------------------------
(* A request that turns to something else. *)
LEMMA RequestGoes ==
    ASSUME Typed, NEW r \in Requests, NEW k \in HandType, k.at \in PlanSteps => k.plan \in Plans,
           hand' = [hand EXCEPT ![r] = k], pass' = pass, QueueTyped',
           plan' \in [Plans -> RowType], product' \in Seq(ProductType), UNCHANGED <<price, applied>>
    PROVE  Typed' /\ hand'[r] = k /\ \A g \in Pushers : g # r => hand'[g] = hand[g]
<1>1. r \in Pushers /\ r # "worker"
  BY SyncAssumption DEF Pushers
<1>2. HandTyped' /\ hand'[r] = k /\ \A g \in Pushers : g # r => hand'[g] = hand[g]
  BY <1>1, Moves, FieldsTyped
<1>3. price' \in Seq(PriceType) /\ applied' \in [Plans -> Nat]
  BY DEF Typed
<1> QED BY <1>1, <1>2, <1>3, TypedByHand

LEMMA SameQueue ==
    ASSUME Typed, UNCHANGED <<queue, pass>>
    PROVE  QueueTyped'
BY DEF Typed, QueueTyped, Outstanding, Pending

LEMMA EditedTyped ==
    ASSUME NEW row \in RowType, NEW new \in Edited(row)
    PROVE  /\ new \in RowType /\ new.price = row.price /\ new.state = row.state /\ new.product = row.product
           /\ new.amount = row.amount \/ new.amount \in Amounts
<1>1. \/ new = [row EXCEPT !.rev = @ + 1] \/ new = [row EXCEPT !.on = ~@]
      \/ \E a \in Amounts : new = [row EXCEPT !.amount = a]
  BY DEF Edited
<1>2. row.rev + 1 \in Nat /\ (~row.on) \in BOOLEAN /\ Amounts \subseteq Nat
  BY SyncAssumption DEF RowType
<1> QED BY <1>1, <1>2 DEF RowType

LEMMA AdminTyped ==
    ASSUME Typed, AdminStep
    PROVE  Typed'
<1>1. ASSUME NEW p \in Plans, NEW a \in NewAmounts, Add(p, a) PROVE Typed'
  <2> DEFINE row == [Blank EXCEPT !.state = "live", !.on = TRUE, !.amount = a]
  <2>1. row \in RowType
    BY SyncAssumption DEF Blank, RowType
  <2>2. plan' = [plan EXCEPT ![p] = row]
        /\ (queue' = queue \/ Enqueue("create", p, row)) /\ UNCHANGED <<product, price, pass, hand, applied>>
    <3>1. plan' = [plan EXCEPT ![p] = row] /\ (queue' = queue \/ Enqueue("create", p, plan'[p]))
          /\ UNCHANGED <<product, price, pass, hand, applied>>
      BY <1>1 DEF Add, Hooked
    <3>2. plan'[p] = row
      <4> HIDE DEF row
      <4> QED BY <3>1 DEF Typed
    <3> QED BY <3>1, <3>2
  <2> HIDE DEF row
  <2>3. QueueTyped'
    BY <2>1, <2>2, SameQueue, Enqueued DEF Typed, QueueTyped
  <2> QED BY <2>1, <2>2, <2>3 DEF Typed, HandTyped, QueueTyped, Busy
<1>2. ASSUME NEW p \in Plans, NEW r \in Requests, NEW row \in Edited(plan[p]), Edit(r, p, row)
      PROVE  Typed'
  <2> DEFINE k == [Idle EXCEPT !.at = "reread", !.plan = p]
  <2>1. row \in RowType
    BY EditedTyped DEF Typed
  <2>2. k \in HandType /\ k.plan = p
    BY Constants1 DEF HandType, Steps
  <2>3. plan' = [plan EXCEPT ![p] = row] /\ hand' = [hand EXCEPT ![r] = k]
        /\ UNCHANGED <<queue, product, price, pass, applied>>
    BY <1>2 DEF Edit
  <2> HIDE DEF k
  <2> QED BY <2>1, <2>2, <2>3, RequestGoes, SameQueue DEF Typed
<1>3. ASSUME NEW p \in Plans, NEW r \in Requests, StartDelete(r, p) PROVE Typed'
  <2> DEFINE k == [Idle EXCEPT !.at = "delete", !.plan = p, !.copy = plan[p]]
  <2>1. k \in HandType /\ k.plan = p
    BY Constants1 DEF HandType, Steps, Typed
  <2>2. hand' = [hand EXCEPT ![r] = k] /\ UNCHANGED <<plan, queue, product, price, pass, applied>>
    BY <1>3 DEF StartDelete
  <2> HIDE DEF k
  <2> QED BY <2>1, <2>2, RequestGoes, SameQueue DEF Typed
<1>4. ASSUME NEW p \in Plans, NEW r \in Requests, SyncOne(r, p) PROVE Typed'
  <2> DEFINE k == [Idle EXCEPT !.at = "product", !.plan = p, !.copy = plan[p]]
  <2>1. k \in HandType /\ k.plan = p
    BY Constants1 DEF HandType, Steps, Typed
  <2>2. hand' = [hand EXCEPT ![r] = k] /\ UNCHANGED <<plan, queue, product, price, pass, applied>>
    BY <1>4 DEF SyncOne
  <2> HIDE DEF k
  <2> QED BY <2>1, <2>2, RequestGoes, SameQueue DEF Typed
<1> QED BY <1>1, <1>2, <1>3, <1>4 DEF AdminStep

(* The plans a request has still to push. *)
LEMMA FewerTodo ==
    ASSUME NEW k \in HandType, NEW p \in DOMAIN k.todo
    PROVE  LET left == [k EXCEPT !.todo = [q \in DOMAIN k.todo \ {p} |-> k.todo[q]]]
           IN  left \in HandType /\ p \in Plans /\ k.todo[p] \in RowType
               /\ left = [k EXCEPT !.todo = left.todo] /\ DOMAIN left.todo = DOMAIN k.todo \ {p}
               /\ \A q \in DOMAIN left.todo : left.todo[q] = k.todo[q]
<1> DEFINE t == [q \in DOMAIN k.todo \ {p} |-> k.todo[q]]
<1>1. PICK S \in SUBSET Plans : k.todo \in [S -> RowType]
  BY DEF HandType, Todos
<1>2. t \in [S \ {p} -> RowType] /\ DOMAIN t = DOMAIN k.todo \ {p}
      /\ \A q \in DOMAIN t : t[q] = k.todo[q]
  BY <1>1
<1>3. t \in Todos
  BY <1>2 DEF Todos
<1> HIDE DEF t
<1>4. [k EXCEPT !.todo = t] \in HandType /\ [k EXCEPT !.todo = t].todo = t
  BY <1>3 DEF HandType
<1> QED BY <1>1, <1>2, <1>4 DEF t

LEMMA RequestTyped ==
    ASSUME Typed, NEW r \in Requests, RequestStep(r) \/ SyncAll(r)
    PROVE  Typed'
<1>0. r \in Pushers /\ hand[r] \in HandType
  BY FieldsTyped DEF Pushers
<1>i. Idle \in HandType /\ Idle.at \notin PlanSteps
  BY Constants1 DEF PlanSteps
<1>1. CASE Delete(r)
  <2> DEFINE p == hand[r].plan
             row == hand[r].copy
  <2>1. hand' = [hand EXCEPT ![r] = Idle] /\ UNCHANGED <<product, price, pass, applied>> /\ p \in Plans
    BY <1>0, <1>1, FieldsTyped DEF Delete, PlanSteps
  <2>2. plan' \in [Plans -> RowType]
    <3>1. plan' = plan \/ plan' = [plan EXCEPT ![p].state = "deleted"]
      BY <1>1 DEF Delete
    <3>2. plan[p] \in RowType /\ [plan[p] EXCEPT !.state = "deleted"] \in RowType
      BY <2>1 DEF Typed, RowType
    <3> QED BY <2>1, <3>1, <3>2 DEF Typed
  <2>3. QueueTyped'
    <3>1. CASE queue' = queue
      BY <2>1, <3>1, SameQueue
    <3>2. CASE Live(p) /\ Enqueue("archive", p, row)
      <4>1. row \in RowType
        BY <1>0 DEF HandType
      <4> QED BY <2>1, <3>2, <4>1, Enqueued DEF Typed, QueueTyped
    <3> QED BY <1>1, <3>1, <3>2 DEF Delete, Hooked
  <2> QED BY <1>i, <2>1, <2>2, <2>3, RequestGoes DEF Typed
<1>2. CASE NextPlan(r)
  <2> DEFINE k == hand[r]
  <2>1. UNCHANGED <<plan, queue, product, price, pass, applied>>
    BY <1>2 DEF NextPlan
  <2>2. QueueTyped' /\ plan' \in [Plans -> RowType] /\ product' \in Seq(ProductType)
    BY <2>1, SameQueue DEF Typed
  <2>3. ASSUME NEW p \in DOMAIN k.todo, NEW at \in {"product", "update"},
               LET left == [k EXCEPT !.todo = [q \in DOMAIN k.todo \ {p} |-> k.todo[q]]]
               IN  hand' = [hand EXCEPT ![r] = [left EXCEPT !.plan = p, !.copy = k.todo[p], !.at = at]]
        PROVE  Typed'
    <3> DEFINE left == [k EXCEPT !.todo = [q \in DOMAIN k.todo \ {p} |-> k.todo[q]]]
               x == [left EXCEPT !.plan = p, !.copy = k.todo[p], !.at = at]
    <3>1. left \in HandType /\ p \in Plans /\ k.todo[p] \in RowType
      BY <1>0, FewerTodo
    <3>2. x \in HandType /\ x.plan = p
      <4> HIDE DEF left
      <4> QED BY <3>1 DEF HandType, Steps
    <3>3. hand' = [hand EXCEPT ![r] = x]
      BY <2>3
    <3> HIDE DEF x
    <3> QED BY <2>1, <2>2, <3>1, <3>2, <3>3, RequestGoes
  <2>4. ASSUME NEW p \in DOMAIN k.todo,
               LET left == [k EXCEPT !.todo = [q \in DOMAIN k.todo \ {p} |-> k.todo[q]]]
               IN  hand' = [hand EXCEPT ![r] = left]
        PROVE  Typed'
    <3> DEFINE left == [k EXCEPT !.todo = [q \in DOMAIN k.todo \ {p} |-> k.todo[q]]]
    <3>1. left \in HandType /\ left.at = "next"
      BY <1>0, <1>2, FewerTodo DEF NextPlan, HandType
    <3>2. hand' = [hand EXCEPT ![r] = left]
      BY <2>4
    <3> HIDE DEF left
    <3> QED BY <2>1, <2>2, <3>1, <3>2, RequestGoes DEF PlanSteps
  <2>5. ASSUME NEW x \in {Idle, [Idle EXCEPT !.at = "mirror"]}, hand' = [hand EXCEPT ![r] = x]
        PROVE  Typed'
    <3>1. x \in HandType /\ x.at \notin PlanSteps
      BY Constants1 DEF HandType, Steps, PlanSteps
    <3> QED BY <2>1, <2>2, <2>5, <3>1, RequestGoes
  <2> QED BY <1>2, <2>3, <2>4, <2>5 DEF NextPlan
<1>3. CASE Mirror(r)
  <2>1. UNCHANGED <<plan, queue, price, pass, applied>> /\ QueueTyped'
    BY <1>3, SameQueue DEF Mirror
  <2>2. CASE product' = product /\ hand' = [hand EXCEPT ![r] = Idle]
    BY <1>i, <2>1, <2>2, RequestGoes DEF Typed
  <2>3. ASSUME hand' = hand, NEW i \in DOMAIN product, product' = [product EXCEPT ![i].on = FALSE]
        PROVE  Typed'
    <3> DEFINE x == [product[i] EXCEPT !.on = FALSE]
    <3>1. x \in ProductType
      <4>1. product[i] \in ProductType
        BY Indexed DEF Typed
      <4> QED BY <4>1 DEF ProductType
    <3>2. product' = [product EXCEPT ![i] = x] /\ product \in Seq(ProductType)
      BY <2>3 DEF Typed
    <3>3. product' \in Seq(ProductType)
      <4> HIDE DEF x
      <4> QED BY <3>1, <3>2, Changed
    <3> QED BY <2>1, <2>3, <3>3 DEF Typed, HandTyped, QueueTyped, Busy
  <2> QED BY <1>3, <2>2, <2>3 DEF Mirror
<1>4. CASE PushStep(r)
  BY <1>0, <1>4, PushTyped
<1>5. CASE SyncAll(r)
  <2> DEFINE t == [p \in {q \in Plans : Live(q)} |-> plan[p]]
             x == [Idle EXCEPT !.at = "next", !.all = TRUE, !.todo = t]
  <2>1. t \in Todos
    <3>1. t \in [{q \in Plans : Live(q)} -> RowType]
      BY DEF Typed
    <3> HIDE DEF t
    <3> QED BY <3>1 DEF Todos
  <2>2. hand' = [hand EXCEPT ![r] = x] /\ UNCHANGED <<plan, queue, product, price, pass, applied>>
    BY <1>5 DEF SyncAll
  <2>3. x \in HandType /\ x.at = "next"
    <3> HIDE DEF t
    <3> QED BY <2>1, Constants1 DEF HandType, Steps
  <2> HIDE DEF x
  <2> QED BY <2>2, <2>3, RequestGoes, SameQueue DEF PlanSteps, Typed
<1> QED BY <1>1, <1>2, <1>3, <1>4, <1>5 DEF RequestStep

LEMMA WorkerTyped ==
    ASSUME Typed, WorkerStep
    PROVE  Typed'
<1>0. "worker" \in Pushers
  BY DEF Pushers
<1>1. CASE Poll
  <2>1. pass' \subseteq Outstanding /\ UNCHANGED <<plan, queue, product, price, hand, applied>>
        /\ ~Busy("worker")
    BY <1>1 DEF Poll
  <2> QED BY <2>1 DEF Typed, HandTyped, Busy, Outstanding, Pending
<1>2. CASE Take
  <2>1. PICK i \in pass : hand' = [hand EXCEPT !["worker"] =
                [Idle EXCEPT !.at = IF queue[i].op = "create" THEN "product" ELSE queue[i].op,
                             !.plan = queue[i].plan, !.copy = queue[i].copy, !.entry = i]]
    BY <1>2 DEF Take
  <2> DEFINE x == [Idle EXCEPT !.at = IF queue[i].op = "create" THEN "product" ELSE queue[i].op,
                               !.plan = queue[i].plan, !.copy = queue[i].copy, !.entry = i]
  <2>2. queue[i] \in EntryType /\ i \in Nat
    BY Indexed DEF Typed, Outstanding
  <2>3. x \in HandType /\ x.plan \in Plans /\ x.entry = i
    BY <2>2, Constants1 DEF HandType, Steps, EntryType
  <2>4. hand' = [hand EXCEPT !["worker"] = x]
        /\ UNCHANGED <<plan, queue, product, price, pass, applied>>
    BY <1>2, <2>1 DEF Take
  <2> HIDE DEF x
  <2>5. HandTyped' /\ hand'["worker"] = x
    BY <1>0, <2>3, <2>4, Moves DEF Typed
  <2> QED BY <2>3, <2>4, <2>5 DEF Typed, Busy, Outstanding, Pending
<1>3. CASE MarkSuccess
  <2> DEFINE n == hand["worker"].entry
             e == [queue[n] EXCEPT !.state = "succeeded"]
  <2>1. queue' = [queue EXCEPT ![n] = e] /\ pass' = pass \ {n} /\ hand' = [hand EXCEPT !["worker"] = Idle]
        /\ UNCHANGED <<plan, product, price, applied>>
    BY <1>3 DEF MarkSuccess
  <2>2. n \in DOMAIN queue => e \in EntryType
    <3>1. n \in DOMAIN queue => queue[n] \in EntryType
      BY Indexed DEF Typed
    <3> QED BY <3>1 DEF EntryType
  <2>3. QueueTyped'
    <3> HIDE DEF n, e
    <3> QED BY <2>1, <2>2, Marked DEF Typed, QueueTyped
  <2>4. Idle \in HandType /\ Idle.at \notin PlanSteps
    BY Constants1 DEF PlanSteps
  <2>5. HandTyped' /\ hand'["worker"] = Idle /\ \A g \in Pushers : g # "worker" => hand'[g] = hand[g]
    BY <1>0, <2>1, <2>4, Moves DEF Typed
  <2>6. hand'["worker"].at = "idle" /\ plan' \in [Plans -> RowType] /\ product' \in Seq(ProductType)
        /\ price' \in Seq(PriceType) /\ applied' \in [Plans -> Nat]
    BY <2>1, <2>5, Constants1 DEF Typed
  <2> QED BY <1>0, <2>3, <2>5, <2>6, TypedByHand
<1>4. CASE PushStep("worker")
  BY <1>0, <1>4, PushTyped
<1> QED BY <1>1, <1>2, <1>3, <1>4 DEF WorkerStep

LEMMA StepTyped ==
    ASSUME Typed, [Next]_vars
    PROVE  Typed'
<1>1. CASE Crash
  <2>1. pass' = {} /\ hand' = [h \in Pushers |-> Idle] /\ UNCHANGED <<plan, queue, product, price, applied>>
    BY <1>1 DEF Crash
  <2> QED BY <2>1, Constants1 DEF Typed, HandTyped, Busy, PlanSteps, Pushers
<1>2. CASE UNCHANGED vars
  BY <1>2 DEF vars, Typed, HandTyped, Busy, Outstanding, Pending
<1> QED BY <1>1, <1>2, WorkerTyped, AdminTyped, RequestTyped DEF Next

LEMMA InitTyped == Init => Typed
<1> SUFFICES ASSUME Init PROVE Typed
  OBVIOUS
<1>1. HandTyped /\ ~Busy("worker")
  BY Constants1 DEF Init, HandTyped, PlanSteps, Busy, Pushers
<1>2. queue \in Seq(EntryType) /\ pass \subseteq Outstanding /\ applied \in [Plans -> Nat]
  BY DEF Init
<1>3. CASE plan = [p \in Plans |-> Blank] /\ product = <<>> /\ price = <<>>
  BY <1>1, <1>2, <1>3, Constants1 DEF Typed
<1>4. ASSUME NEW p \in Plans, NEW a \in NewAmounts,
             /\ plan = [q \in Plans |-> IF q # p THEN Blank ELSE
                    [state |-> "live", rev |-> 0, on |-> TRUE, amount |-> a, product |-> 1, price |-> 1]]
             /\ product = <<[key |-> <<p>>, plan |-> p, asked |-> 0, rev |-> 0, on |-> TRUE]>>
             /\ price = <<[key |-> <<"create", p, 0>>, asked |-> a, on |-> TRUE]>>
      PROVE  Typed
  <2>1. [state |-> "live", rev |-> 0, on |-> TRUE, amount |-> a, product |-> 1, price |-> 1] \in RowType
    BY SyncAssumption DEF RowType
  <2>2. plan \in [Plans -> RowType]
    BY <1>4, <2>1, Constants1
  <2>3. [key |-> <<p>>, plan |-> p, asked |-> 0, rev |-> 0, on |-> TRUE] \in ProductType
    BY DEF ProductType
  <2>4. [key |-> <<"create", p, 0>>, asked |-> a, on |-> TRUE] \in PriceType
    BY SyncAssumption DEF PriceType
  <2>5. product \in Seq(ProductType) /\ price \in Seq(PriceType)
    BY <1>4, <2>3, <2>4
  <2> QED BY <1>1, <1>2, <2>2, <2>5 DEF Typed
<1> QED BY <1>3, <1>4 DEF Init

-----------------------------------------------------------------------------
(* The key under which a product was made is its plan's. *)
OneEach ==
    /\ \A i \in DOMAIN product : product[i].key = <<product[i].plan>>
    /\ \A i, j \in DOMAIN product : product[i].key = product[j].key => i = j

(* A product is made under a new key, or changes but for its key and plan. *)
LEMMA ProductSteps ==
    ASSUME Typed, Next
    PROVE  \/ DOMAIN product' = DOMAIN product
              /\ \A i \in DOMAIN product : /\ product'[i].key = product[i].key
                                           /\ product'[i].plan = product[i].plan
           \/ \E x \in ProductType : /\ product' = Append(product, x) /\ x.key = <<x.plan>>
                                     /\ \A i \in DOMAIN product : product[i].key # x.key
<1> DEFINE Same == DOMAIN product' = DOMAIN product
              /\ \A i \in DOMAIN product : /\ product'[i].key = product[i].key
                                           /\ product'[i].plan = product[i].plan
<1>0. product \in Seq(ProductType) /\ \A i \in DOMAIN product : product[i] \in ProductType
  BY Indexed DEF Typed
<1>1. product' = product => Same
  OBVIOUS
<1>2. ASSUME NEW i, NEW x, product' = [product EXCEPT ![i] = x],
             i \in DOMAIN product => x.key = product[i].key /\ x.plan = product[i].plan
      PROVE  Same
  BY <1>0, <1>2
<1>3. ASSUME NEW h \in Pushers, CallProduct(h)
      PROVE  \/ Same
             \/ \E x \in ProductType : /\ product' = Append(product, x) /\ x.key = <<x.plan>>
                                       /\ \A i \in DOMAIN product : product[i].key # x.key
  <2> DEFINE k == hand[h]
             id == Made(product, ProductKey(k), k.copy.rev)
             x == [key |-> ProductKey(k), plan |-> k.plan, asked |-> k.copy.rev,
                   rev |-> k.copy.rev, on |-> TRUE]
  <2>1. k.copy \in RowType /\ k.plan \in Plans
    BY <1>3, FieldsTyped DEF CallProduct, PlanSteps
  <2>2. x \in ProductType /\ x.key = <<x.plan>> /\ x.key = ProductKey(k)
    BY <2>1 DEF ProductType, ProductKey, RowType
  <2>3. product' = IF id > Len(product) THEN Append(product, x) ELSE product
    BY <1>3 DEF CallProduct
  <2>4. id > Len(product) => \A i \in DOMAIN product : product[i].key # ProductKey(k)
    <3>1. Len(product) \in Nat /\ DOMAIN product = 1 .. Len(product)
      BY <1>0, LenProperties
    <3> QED BY <1>0, <3>1, MadeIs
  <2> HIDE DEF x, id
  <2> QED BY <1>1, <2>2, <2>3, <2>4
<1>4. ASSUME NEW h \in Pushers, CallUpdate(h) PROVE Same
  <2> DEFINE n == hand[h].copy.product
             x == Pushed(hand[h], product[n])
  <2>1. product' = [product EXCEPT ![n] = x]
    BY <1>4 DEF CallUpdate
  <2>2. n \in DOMAIN product => x.key = product[n].key /\ x.plan = product[n].plan
    BY <1>0 DEF Pushed, ProductType
  <2> HIDE DEF n, x
  <2> QED BY <1>2, <2>1, <2>2
<1>5. ASSUME NEW r \in Requests, Mirror(r) PROVE Same
  <2>1. ASSUME NEW i \in DOMAIN product, product' = [product EXCEPT ![i].on = FALSE] PROVE Same
    BY <1>0, <2>1 DEF ProductType
  <2> QED BY <1>1, <1>5, <2>1 DEF Mirror
<1>6. ASSUME NEW h \in Pushers, PushStep(h), ~CallProduct(h), ~CallUpdate(h) PROVE product' = product
  BY <1>6 DEF PushStep, CallPrice, NoDrift, Save, Reread, Hook, Retire, Refused
<1>7. ASSUME AdminStep \/ Crash \/ Poll \/ Take \/ MarkSuccess PROVE product' = product
  BY <1>7 DEF AdminStep, Add, Edit, StartDelete, SyncOne, Crash, Poll, Take, MarkSuccess
<1>8. ASSUME NEW r \in Requests, Delete(r) \/ NextPlan(r) \/ SyncAll(r) PROVE product' = product
  BY <1>8 DEF Delete, NextPlan, SyncAll
<1>9. "worker" \in Pushers /\ Requests \subseteq Pushers
  BY DEF Pushers
<1> HIDE DEF Same
<1>10. ASSUME NEW h \in Pushers, PushStep(h)
       PROVE  \/ Same
              \/ \E x \in ProductType : /\ product' = Append(product, x) /\ x.key = <<x.plan>>
                                        /\ \A i \in DOMAIN product : product[i].key # x.key
  BY <1>1, <1>3, <1>4, <1>6, <1>10
<1>11. \/ Same
       \/ \E x \in ProductType : /\ product' = Append(product, x) /\ x.key = <<x.plan>>
                                 /\ \A i \in DOMAIN product : product[i].key # x.key
  BY <1>1, <1>5, <1>7, <1>8, <1>9, <1>10 DEF Next, WorkerStep, RequestStep
<1> QED BY <1>11 DEF Same

LEMMA ProductsOneEach == Spec => [](Typed /\ OneEach)
<1>1. Init => OneEach
  BY DEF Init, OneEach
<1>2. Typed /\ OneEach /\ [Next]_vars => OneEach'
  <2> SUFFICES ASSUME Typed, OneEach, [Next]_vars PROVE OneEach'
    OBVIOUS
  <2>1. CASE UNCHANGED vars
    BY <2>1 DEF vars, OneEach
  <2>2. ASSUME DOMAIN product' = DOMAIN product,
               \A i \in DOMAIN product : /\ product'[i].key = product[i].key
                                         /\ product'[i].plan = product[i].plan
        PROVE  OneEach'
    BY <2>2 DEF OneEach
  <2>3. ASSUME NEW x \in ProductType, product' = Append(product, x), x.key = <<x.plan>>,
               \A i \in DOMAIN product : product[i].key # x.key
        PROVE  OneEach'
    <3>1. /\ DOMAIN product' = (DOMAIN product) \cup {Len(product) + 1}
          /\ \A i \in DOMAIN product : product'[i] = product[i]
          /\ product'[Len(product) + 1] = x
          /\ Len(product) + 1 \notin DOMAIN product
      <4>1. product \in Seq(ProductType)
        BY DEF Typed
      <4> QED BY <2>3, <4>1, Appended
    <3> QED BY <2>3, <3>1 DEF OneEach
  <2> QED BY <2>1, <2>2, <2>3, ProductSteps
<1> QED BY <1>1, <1>2, InitTyped, StepTyped, PTL DEF Spec

(***************************************************************************)
(* A plan never gets a second product at Stripe, for any plans, requests,   *)
(* edits, retries, answers lost and restarts, on any schedule: whoever makes *)
(* a product makes it under the key of the plan.                           *)
(***************************************************************************)
THEOREM OneProductPerPlan == Spec => []NoDuplicates
<1>1. OneEach => NoDuplicates
  BY DEF OneEach, NoDuplicates
<1> QED BY <1>1, ProductsOneEach, PTL

-----------------------------------------------------------------------------
(***************************************************************************)
(* The prices.  A price belongs to the plan its key names.  It is archived  *)
(* by the request that has migrated the plan away from it, and by then no   *)
(* row, no push and no entry of the queue leads back to it: a request that  *)
(* pushes every plan is alone with each of them until it is done.          *)
(***************************************************************************)
Owns(p, id) == id \in DOMAIN price /\ price[id].key[2] = p
AllOn(p) == \A i \in DOMAIN price : price[i].key[2] = p => price[i].on
Current(p, a) == \A i \in DOMAIN price : price[i].key = <<"migrate", p, a>> => price[i].on

Keys ==
    /\ \A i, j \in DOMAIN price : price[i].key = price[j].key => i = j
    /\ \A i \in DOMAIN price : \/ price[i].key = <<"create", price[i].key[2], 0>>
                               \/ price[i].key = <<"migrate", price[i].key[2], price[i].asked>>

Pulls(h) == h # "worker" /\ hand[h].at \in {"update", "drift"}
Migrates(h, p) == hand[h].plan = p /\ (hand[h].old # 0 \/ Pulls(h))
Claims(h, p) == p \in DOMAIN hand[h].todo \/ Migrates(h, p)
Saves(h, p) == hand[h].plan = p /\ hand[h].at \in {"product", "price", "save"}
Creating(p) == \E i \in Outstanding : queue[i].op = "create" /\ queue[i].plan = p

Copies ==
    \A i \in DOMAIN queue : queue[i].op = "create" =>
        queue[i].copy.price = 0 /\ queue[i].copy.state = "live"

(* A plan that a request claims is nobody else's to save. *)
Alone(p) ==
    \A h \in Pushers : Claims(h, p) =>
        /\ \A g \in Pushers : g # h => ~Saves(g, p)
        /\ ~Creating(p) /\ plan[p].state # "none"
        /\ Migrates(h, p) => plan[p].price # 0

OneHolder == \A g, h \in Pushers : hand[g].all /\ hand[h].all => g = h

RowOK(p) ==
    /\ plan[p].price # 0 => Owns(p, plan[p].price)
    /\ Live(p) /\ plan[p].price # 0 => price[plan[p].price].on
    /\ plan[p].price = 0 \/ Creating(p) => AllOn(p)
    /\ Live(p) => Current(p, plan[p].amount)
    /\ plan[p].state = "none" => plan[p].price = 0

Shape(h) ==
    LET k == hand[h]
    IN  /\ h = "worker" => ~k.all /\ k.at # "drift"
        /\ h # "worker" => k.at # "archive"
        /\ k.old # 0 => k.at \in {"save", "reread", "hook", "retire"}
        /\ k.old # 0 \/ Pulls(h) \/ DOMAIN k.todo # {} => k.all
        /\ k.all => k.at \notin {"idle", "mirror"}
        /\ k.at \in PlanSteps => k.plan \notin DOMAIN k.todo
        /\ k.at \in {"product", "price", "save"} \/ Pulls(h) => k.copy.state = "live"
        /\ k.at \in {"product", "price"} => k.copy.price = 0

Sale(h) ==
    LET k == hand[h]
        p == k.plan
    IN  /\ k.at \in {"product", "price"} \/ (k.at = "save" /\ k.old = 0) => AllOn(p)
        /\ k.at = "save" => Owns(p, k.copy.price) /\ k.copy.price # 0 /\ price[k.copy.price].on
        /\ k.at = "save" /\ k.old # 0 => /\ price[k.copy.price].key = <<"migrate", p, k.copy.amount>>
                                         /\ k.old # k.copy.price
        /\ k.old # 0 => Owns(p, k.old)
        /\ Pulls(h) => Current(p, k.copy.amount) /\ k.copy.price # 0 /\ Owns(p, k.copy.price)
        /\ k.old # 0 /\ k.at \in {"reread", "hook", "retire"} => plan[p].price # k.old
        /\ k.old # 0 /\ k.at \in {"reread", "hook", "retire"} /\ Live(p) =>
              price[k.old].key # <<"migrate", p, plan[p].amount>>
        /\ \A q \in DOMAIN k.todo : /\ k.todo[q].state = "live" /\ plan[q].price = k.todo[q].price
                                    /\ Current(q, k.todo[q].amount)

Selling ==
    /\ Keys /\ Copies /\ OneHolder
    /\ \A p \in Plans : Alone(p) /\ RowOK(p)
    /\ \A h \in Pushers : Shape(h) /\ Sale(h)

-----------------------------------------------------------------------------
LEMMA ClaimsHold ==
    ASSUME Typed, Selling, NEW h \in Pushers, NEW p, Claims(h, p)
    PROVE  p \in Plans /\ hand[h].all
<1>1. Shape(h)
  BY DEF Selling
<1>2. CASE p \in DOMAIN hand[h].todo
  BY <1>1, <1>2, FieldsTyped DEF Shape
<1>3. CASE Migrates(h, p)
  <2>1. hand[h].at \in PlanSteps
    BY <1>1, <1>3 DEF Migrates, Shape, Pulls, PlanSteps
  <2> QED BY <1>1, <1>3, <2>1, FieldsTyped DEF Migrates, Shape
<1> QED BY <1>2, <1>3 DEF Claims

(* A hand that does not move, while those of M do: what its invariant says   *)
(* of the prices still holds.                                              *)
LEMMA Untouched ==
    ASSUME Typed, Selling, NEW M \in SUBSET Pushers, NEW g \in Pushers, g \notin M,
           hand'[g] = hand[g],
           \A i \in DOMAIN price : i \in DOMAIN price' /\ price'[i].key = price[i].key,
           \A i \in DOMAIN price' : ~price'[i].on =>
              i \in DOMAIN price /\ (~price[i].on \/ \E h \in M : Claims(h, price[i].key[2])),
           \A q \in Plans : Claims(g, q) => plan'[q].price = plan[q].price,
           hand[g].old # 0 /\ hand[g].at \in {"reread", "hook", "retire"} /\ Live(hand[g].plan)' =>
              price[hand[g].old].key # <<"migrate", hand[g].plan, plan'[hand[g].plan].amount>>
    PROVE  Shape(g)' /\ Sale(g)'
<1> DEFINE k == hand[g]
           p == hand[g].plan
<1>0. Shape(g) /\ Sale(g) /\ (\A q \in Plans : Alone(q)) /\ \A h \in M : h \in Pushers /\ h # g
  BY DEF Selling
<1>1. Shape(g)'
  BY <1>0 DEF Shape, Pulls
<1>2. \A q, id : Owns(q, id) => Owns(q, id)' /\ price'[id].key = price[id].key
  BY DEF Owns
<1>3. k.at \in {"product", "price", "save"} =>
         /\ p \in Plans /\ \A h \in M : ~Claims(h, p)
         /\ AllOn(p) => AllOn(p)'
         /\ \A id : Owns(p, id) /\ price[id].on => price'[id].on
  <2> SUFFICES ASSUME k.at \in {"product", "price", "save"}
               PROVE  /\ p \in Plans /\ \A h \in M : ~Claims(h, p)
                      /\ AllOn(p) => AllOn(p)'
                      /\ \A id : Owns(p, id) /\ price[id].on => price'[id].on
    OBVIOUS
  <2>1. p \in Plans
    BY FieldsTyped DEF PlanSteps
  <2>2. \A h \in M : ~Claims(h, p)
    BY <1>0, <2>1 DEF Alone, Saves
  <2>3. AllOn(p) => AllOn(p)'
    BY <2>2 DEF AllOn
  <2>4. \A id : Owns(p, id) /\ price[id].on => price'[id].on
    BY <2>2 DEF Owns
  <2> QED BY <2>1, <2>2, <2>3, <2>4
<1>4. k.all => \A q, a : Current(q, a) => Current(q, a)'
  <2> SUFFICES ASSUME k.all, NEW q, NEW a, Current(q, a) PROVE Current(q, a)'
    OBVIOUS
  <2>1. \A x : \A h \in M : ~Claims(h, x)
    BY <1>0, ClaimsHold DEF Selling, OneHolder
  <2> QED BY <2>1 DEF Current
<1>5. Pulls(g)' <=> Pulls(g)
  BY DEF Pulls
<1>6. (k.old # 0 \/ Pulls(g)) => Claims(g, p) /\ k.all /\ p \in Plans /\ plan'[p].price = plan[p].price
  BY ClaimsHold DEF Claims, Migrates
<1>7. \A q \in DOMAIN k.todo : Claims(g, q) /\ k.all /\ q \in Plans /\ plan'[q].price = plan[q].price
  BY ClaimsHold DEF Claims
<1>8. Sale(g)'
  <2>1. k.at \in {"product", "price"} \/ (k.at = "save" /\ k.old = 0) => AllOn(p)'
    BY <1>0, <1>3 DEF Sale
  <2>2. k.at = "save" => Owns(p, k.copy.price)' /\ k.copy.price # 0 /\ price'[k.copy.price].on
    BY <1>0, <1>2, <1>3 DEF Sale
  <2>3. k.at = "save" /\ k.old # 0 => /\ price'[k.copy.price].key = <<"migrate", p, k.copy.amount>>
                                      /\ k.old # k.copy.price
    BY <1>0, <1>2 DEF Sale
  <2>4. k.old # 0 => Owns(p, k.old)' /\ price'[k.old].key = price[k.old].key
    BY <1>0, <1>2 DEF Sale
  <2>5. Pulls(g) => Current(p, k.copy.amount)' /\ k.copy.price # 0 /\ Owns(p, k.copy.price)'
    BY <1>0, <1>2, <1>4, <1>6 DEF Sale
  <2>6. k.old # 0 /\ k.at \in {"reread", "hook", "retire"} => plan'[p].price # k.old
    BY <1>0, <1>6 DEF Sale
  <2>8. k.old # 0 /\ k.at \in {"reread", "hook", "retire"} /\ Live(p)' =>
           price'[k.old].key # <<"migrate", p, plan'[p].amount>>
    BY <2>4
  <2>7. \A q \in DOMAIN k.todo : /\ k.todo[q].state = "live" /\ plan'[q].price = k.todo[q].price
                                 /\ Current(q, k.todo[q].amount)'
    BY <1>0, <1>4, <1>7 DEF Sale
  <2> QED BY <1>5, <2>1, <2>2, <2>3, <2>4, <2>5, <2>6, <2>7, <2>8 DEF Sale
<1> QED BY <1>1, <1>8

(* A step in which the hands of M move. *)
LEMMA Step ==
    ASSUME Typed, Typed', Selling, NEW M \in SUBSET Pushers,
           \A g \in Pushers \ M : hand'[g] = hand[g],
           Keys', Copies', \A p \in Plans : RowOK(p)',
           \A i \in DOMAIN price : i \in DOMAIN price' /\ price'[i].key = price[i].key,
           \A i \in DOMAIN price' : ~price'[i].on =>
              i \in DOMAIN price /\ (~price[i].on \/ \E h \in M : Claims(h, price[i].key[2])),
           \A g \in Pushers \ M : \A q \in Plans : Claims(g, q) =>
              plan'[q].price = plan[q].price /\ plan'[q].state # "none" /\ ~Creating(q)',
           \A g \in Pushers \ M :
              hand[g].old # 0 /\ hand[g].at \in {"reread", "hook", "retire"} /\ Live(hand[g].plan)' =>
                 price[hand[g].old].key # <<"migrate", hand[g].plan, plan'[hand[g].plan].amount>>,
           \A h \in M : Shape(h)' /\ Sale(h)',
           \A h \in M, g \in Pushers : g # h => ~(hand'[h].all /\ hand'[g].all),
           \A h \in M, g \in Pushers, p \in Plans :
              g # h => ~(Claims(h, p)' /\ Saves(g, p)') /\ ~(Claims(g, p)' /\ Saves(h, p)'),
           \A h \in M, p \in Plans : Claims(h, p)' =>
              ~Creating(p)' /\ plan'[p].state # "none" /\ (Migrates(h, p)' => plan'[p].price # 0)
    PROVE  Selling'
<1>1. \A g \in Pushers : Shape(g)' /\ Sale(g)'
  <2>1. ASSUME NEW g \in Pushers, g \notin M PROVE Shape(g)' /\ Sale(g)'
    BY <2>1, Untouched
  <2> QED BY <2>1
<1>2. OneHolder'
  <2>1. OneHolder
    BY DEF Selling
  <2>2. ASSUME NEW g \in Pushers, NEW h \in Pushers, hand'[g].all, hand'[h].all, g # h PROVE FALSE
    <3>1. g \notin M /\ h \notin M
      BY <2>2
    <3>2. hand'[g] = hand[g] /\ hand'[h] = hand[h]
      BY <3>1
    <3> QED BY <2>1, <2>2, <3>2 DEF OneHolder
  <2> QED BY <2>2 DEF OneHolder
<1>3. ASSUME NEW p \in Plans PROVE Alone(p)'
  <2>1. ASSUME NEW h \in Pushers, Claims(h, p)', NEW g \in Pushers, g # h PROVE ~Saves(g, p)'
    <3>1. CASE h \in M \/ g \in M
      BY <2>1, <3>1
    <3>2. CASE h \notin M /\ g \notin M
      <4>1. hand'[h] = hand[h] /\ hand'[g] = hand[g]
        BY <3>2
      <4>2. Claims(h, p) /\ (Saves(g, p)' <=> Saves(g, p))
        BY <2>1, <4>1 DEF Claims, Migrates, Pulls, Saves
      <4> QED BY <2>1, <4>2 DEF Selling, Alone
    <3> QED BY <3>1, <3>2
  <2>2. ASSUME NEW h \in Pushers, Claims(h, p)'
        PROVE  /\ ~Creating(p)' /\ plan'[p].state # "none"
               /\ Migrates(h, p)' => plan'[p].price # 0
    <3>1. CASE h \in M
      BY <2>2, <3>1
    <3>2. CASE h \notin M
      <4>1. hand'[h] = hand[h]
        BY <3>2
      <4>2. Claims(h, p) /\ (Migrates(h, p)' => Migrates(h, p))
        BY <2>2, <4>1 DEF Claims, Migrates, Pulls
      <4>3. Migrates(h, p) => plan[p].price # 0
        BY <4>2 DEF Selling, Alone
      <4> QED BY <3>2, <4>2, <4>3
    <3> QED BY <3>1, <3>2
  <2> QED BY <2>1, <2>2 DEF Alone
<1> QED BY <1>1, <1>2, <1>3 DEF Selling

-----------------------------------------------------------------------------
(* Prices that are only added, and are active. *)
Grown ==
    /\ \A i \in DOMAIN price : i \in DOMAIN price' /\ price'[i] = price[i]
    /\ \A i \in DOMAIN price' : i \notin DOMAIN price => price'[i].on

LEMMA Grows ==
    ASSUME Grown
    PROVE  /\ \A p, id : Owns(p, id) => Owns(p, id)' /\ price'[id] = price[id]
           /\ \A p : AllOn(p) => AllOn(p)'
           /\ \A p, a : Current(p, a) => Current(p, a)'
<1>1. \A p, id : Owns(p, id) => Owns(p, id)' /\ price'[id] = price[id]
  BY DEF Grown, Owns
<1>2. \A p : AllOn(p) => AllOn(p)'
  BY DEF Grown, AllOn
<1>3. \A p, a : Current(p, a) => Current(p, a)'
  BY DEF Grown, Current
<1> QED BY <1>1, <1>2, <1>3

(* A step of one hand that changes no plan. *)
LEMMA HandStep ==
    ASSUME NEW h \in Pushers, Typed, Typed', Selling, \A g \in Pushers : g # h => hand'[g] = hand[g],
           plan' = plan, Grown, Keys', Copies', \A p \in Plans : Creating(p)' => Creating(p),
           Shape(h)', Sale(h)',
           hand'[h].all => hand[h].all \/ \A g \in Pushers : g # h => ~hand[g].all,
           \A p \in Plans : Saves(h, p)' => \A g \in Pushers : g # h => ~Claims(g, p),
           \A p \in Plans : Claims(h, p)' => \A g \in Pushers : g # h => ~Saves(g, p),
           \A p \in Plans : Claims(h, p)' =>
              ~Creating(p) /\ plan[p].state # "none" /\ (Migrates(h, p)' => plan[p].price # 0)
    PROVE  Selling'
<1> DEFINE M == {h}
<1>0. \A g \in Pushers \ M : g # h /\ hand'[g] = hand[g]
  OBVIOUS
<1>1. \A p \in Plans : RowOK(p)'
  <2> SUFFICES ASSUME NEW p \in Plans PROVE RowOK(p)'
    OBVIOUS
  <2>1. RowOK(p) /\ Creating(p)' => Creating(p)
    BY DEF Selling
  <2>2. RowOK(p)
    BY DEF Selling
  <2>3. plan[p].price # 0 => Owns(p, plan[p].price)' /\ price'[plan[p].price] = price[plan[p].price]
    BY <2>2, Grows DEF RowOK
  <2>4. plan[p].price = 0 \/ Creating(p)' => AllOn(p)'
    BY <2>2, Grows DEF RowOK
  <2>5. Live(p) => Current(p, plan[p].amount)'
    BY <2>2, Grows DEF RowOK
  <2>6. Live(p)' <=> Live(p)
    BY DEF Live
  <2> QED BY <2>2, <2>3, <2>4, <2>5, <2>6 DEF RowOK
<1>2. /\ \A i \in DOMAIN price : i \in DOMAIN price' /\ price'[i].key = price[i].key
      /\ \A i \in DOMAIN price' : ~price'[i].on =>
              i \in DOMAIN price /\ (~price[i].on \/ \E g \in M : Claims(g, price[i].key[2]))
  BY DEF Grown
<1>3. \A g \in Pushers \ M : \A q \in Plans : Claims(g, q) =>
              plan'[q].price = plan[q].price /\ plan'[q].state # "none" /\ ~Creating(q)'
  BY DEF Selling, Alone
<1>4. \A g \in Pushers \ M :
              hand[g].old # 0 /\ hand[g].at \in {"reread", "hook", "retire"} /\ Live(hand[g].plan)' =>
                 price[hand[g].old].key # <<"migrate", hand[g].plan, plan'[hand[g].plan].amount>>
  BY DEF Selling, Sale, Live
<1>5. \A x \in M, g \in Pushers : g # x => ~(hand'[x].all /\ hand'[g].all)
  <2>1. \A g \in Pushers : g # h /\ hand[g].all => ~hand'[h].all
    BY DEF Selling, OneHolder
  <2> QED BY <2>1
<1>6. \A x \in M, g \in Pushers, p \in Plans :
              g # x => ~(Claims(x, p)' /\ Saves(g, p)') /\ ~(Claims(g, p)' /\ Saves(x, p)')
  <2> SUFFICES ASSUME NEW g \in Pushers, NEW p \in Plans, g # h
               PROVE  ~(Claims(h, p)' /\ Saves(g, p)') /\ ~(Claims(g, p)' /\ Saves(h, p)')
    OBVIOUS
  <2>1. hand'[g] = hand[g]
    OBVIOUS
  <2>2. (Claims(g, p)' <=> Claims(g, p)) /\ (Saves(g, p)' <=> Saves(g, p))
    BY <2>1 DEF Claims, Migrates, Pulls, Saves
  <2> QED BY <2>2
<1>7. \A x \in M, p \in Plans : Claims(x, p)' =>
              ~Creating(p)' /\ plan'[p].state # "none" /\ (Migrates(x, p)' => plan'[p].price # 0)
  OBVIOUS
<1>8. M \in SUBSET Pushers /\ \A x \in M : Shape(x)' /\ Sale(x)'
  OBVIOUS
<1> HIDE DEF M
<1> QED BY <1>0, <1>1, <1>2, <1>3, <1>4, <1>5, <1>6, <1>7, <1>8, Step

(* A step that moves no hand and changes neither rows nor prices nor entries. *)
LEMMA SameSelling ==
    ASSUME Selling, UNCHANGED <<plan, price, hand, queue>>
    PROVE  Selling'
<1>1. Keys' /\ Copies' /\ OneHolder'
  BY DEF Selling, Keys, Copies, OneHolder
<1>2. ASSUME NEW p PROVE /\ AllOn(p)' <=> AllOn(p)
                         /\ Live(p)' <=> Live(p)
                         /\ Creating(p)' <=> Creating(p)
                         /\ \A id : Owns(p, id)' <=> Owns(p, id)
                         /\ \A a : Current(p, a)' <=> Current(p, a)
                         /\ \A h : Claims(h, p)' <=> Claims(h, p)
                         /\ \A h : Saves(h, p)' <=> Saves(h, p)
                         /\ \A h : Migrates(h, p)' <=> Migrates(h, p)
                         /\ \A h : Pulls(h)' <=> Pulls(h)
  BY DEF AllOn, Live, Creating, Outstanding, Pending, Owns, Current, Claims, Saves, Migrates, Pulls
<1>3. \A p \in Plans : Alone(p)' /\ RowOK(p)'
  BY <1>2 DEF Selling, Alone, RowOK
<1>4. \A h \in Pushers : Shape(h)' /\ Sale(h)'
  <2> SUFFICES ASSUME NEW h \in Pushers PROVE Shape(h)' /\ Sale(h)'
    OBVIOUS
  <2>1. Shape(h) /\ Sale(h)
    BY DEF Selling
  <2>2. Shape(h)'
    BY <2>1, <1>2 DEF Shape
  <2>3. Sale(h)'
    BY <2>1, <1>2 DEF Sale
  <2> QED BY <2>2, <2>3
<1> QED BY <1>1, <1>3, <1>4 DEF Selling

(* The end of a push. *)
Ended(h) ==
    \/ hand'[h] = Idle
    \/ hand'[h] = Rest(h)
    \/ h = "worker" /\ hand'[h] = [hand[h] EXCEPT !.at = "mark"]

LEMMA Ends ==
    ASSUME NEW h \in Pushers, Typed, Selling, Ended(h)
    PROVE  /\ Shape(h)'
           /\ hand'[h].at \notin {"product", "price", "save"} /\ ~Pulls(h)' /\ hand'[h].old = 0
           /\ hand'[h].all => hand[h].all
           /\ \A p \in DOMAIN hand'[h].todo : p \in DOMAIN hand[h].todo /\ hand'[h].todo[p] = hand[h].todo[p]
           /\ \A p : ~Saves(h, p)' /\ ~Migrates(h, p)' /\ (Claims(h, p)' => p \in DOMAIN hand[h].todo)
<1> DEFINE k == hand[h]
           n == hand'[h]
<1>1. k \in HandType /\ Shape(h)
  BY FieldsTyped DEF Selling
<1>2. /\ Idle.at = "idle" /\ Idle.old = 0 /\ ~Idle.all /\ DOMAIN Idle.todo = {}
      /\ LET x == [Idle EXCEPT !.at = "next", !.todo = k.todo, !.all = k.all]
         IN  x.at = "next" /\ x.old = 0 /\ x.todo = k.todo /\ x.all = k.all
  BY Constants1
<1>3. CASE n = Idle \/ n = [Idle EXCEPT !.at = "next", !.todo = k.todo, !.all = k.all]
  <2>1. /\ n.at \in {"idle", "next"} /\ n.old = 0 /\ (n.all => k.all) /\ (n.at = "idle" => ~n.all)
        /\ \/ n.todo = k.todo /\ n.all = k.all
           \/ DOMAIN n.todo = {}
    BY <1>2, <1>3
  <2>2. ~Pulls(h)'
    BY <2>1 DEF Pulls
  <2>3. Shape(h)'
    BY <1>1, <2>1, <2>2 DEF Shape, PlanSteps
  <2> QED BY <2>1, <2>2, <2>3 DEF Saves, Migrates, Claims
<1>4. CASE h = "worker" /\ n = [k EXCEPT !.at = "mark"]
  <2>1. n.at = "mark" /\ n.old = k.old /\ n.all = k.all /\ n.todo = k.todo
    BY <1>1, <1>4 DEF HandType
  <2>2. k.old = 0 /\ ~k.all /\ DOMAIN k.todo = {}
    BY <1>1, <1>4 DEF Shape
  <2>3. ~Pulls(h)'
    BY <2>1 DEF Pulls
  <2>4. Shape(h)'
    BY <2>1, <2>2, <2>3 DEF Shape, PlanSteps
  <2> QED BY <2>1, <2>2, <2>3, <2>4 DEF Saves, Migrates, Claims
<1>5. Rest(h) = Idle \/ Rest(h) = [Idle EXCEPT !.at = "next", !.todo = k.todo, !.all = k.all]
  BY FieldsTyped, RestTyped
<1> QED BY <1>3, <1>4, <1>5 DEF Ended

(* Entries that are kept, and stay answered. *)
KeptEntries ==
    /\ \A i \in DOMAIN queue' : /\ i \in DOMAIN queue
                                /\ queue'[i].op = queue[i].op /\ queue'[i].plan = queue[i].plan
                                /\ queue'[i].copy = queue[i].copy
    /\ Outstanding' \subseteq Outstanding

LEMMA KeptCopies ==
    ASSUME Copies, KeptEntries
    PROVE  Copies' /\ \A p : Creating(p)' => Creating(p)
<1>1. Copies'
  BY DEF Copies, KeptEntries
<1>2. ASSUME NEW p, Creating(p)' PROVE Creating(p)
  <2>1. PICK i \in Outstanding' : queue'[i].op = "create" /\ queue'[i].plan = p
    BY <1>2 DEF Creating
  <2>2. i \in Outstanding /\ i \in DOMAIN queue'
    BY <2>1 DEF KeptEntries, Outstanding
  <2> QED BY <2>1, <2>2 DEF KeptEntries, Creating
<1> QED BY <1>1, <1>2

(* A push that ends, having changed no plan, keeps the invariant. *)
LEMMA EndStep ==
    ASSUME NEW h \in Pushers, Typed, Typed', Selling, Ended(h),
           \A g \in Pushers : g # h => hand'[g] = hand[g],
           plan' = plan, Grown, Keys', Copies', \A p \in Plans : Creating(p)' => Creating(p)
    PROVE  Selling'
<1> DEFINE k == hand[h]
<1>0. PICK n : n = hand'[h]
  OBVIOUS
<1>1. /\ Shape(h)'
      /\ n.at \notin {"product", "price", "save"} /\ ~Pulls(h)' /\ n.old = 0
      /\ n.all => k.all
      /\ \A p \in DOMAIN n.todo : p \in DOMAIN k.todo /\ n.todo[p] = k.todo[p]
      /\ \A p : ~Saves(h, p)' /\ ~Migrates(h, p)' /\ (Claims(h, p)' => p \in DOMAIN k.todo)
  BY <1>0, Ends
<1>2. Sale(h) /\ \A p \in Plans : Alone(p)
  BY DEF Selling
<1>3. \A q \in DOMAIN n.todo : /\ n.todo[q].state = "live" /\ plan'[q].price = n.todo[q].price
                               /\ Current(q, n.todo[q].amount)'
  BY <1>1, <1>2, Grows DEF Sale
<1>4. Sale(h)'
  BY <1>0, <1>1, <1>3 DEF Sale
<1>5. \A p \in Plans : Claims(h, p)' => Claims(h, p) /\ ~Migrates(h, p)'
  BY <1>1 DEF Claims
<1>6. hand'[h].all => k.all
  BY <1>0, <1>1
<1>7. \A p \in Plans : Claims(h, p)' => \A g \in Pushers : g # h => ~Saves(g, p)
  BY <1>2, <1>5 DEF Alone
<1>8. \A p \in Plans : Claims(h, p)' =>
         ~Creating(p) /\ plan[p].state # "none" /\ (Migrates(h, p)' => plan[p].price # 0)
  BY <1>2, <1>5 DEF Alone
<1>9. \A p \in Plans : ~Saves(h, p)'
  BY <1>1
<1> QED BY <1>1, <1>4, <1>6, <1>7, <1>8, <1>9, HandStep

-----------------------------------------------------------------------------
(* A push fails, or a request is done. *)
LEMMA FailEnds ==
    ASSUME NEW h \in Pushers, Typed, Fail(h), Busy(h), Selling
    PROVE  /\ Ended(h) /\ \A g \in Pushers : g # h => hand'[g] = hand[g]
           /\ Copies' /\ \A p : Creating(p)' => Creating(p)
<1>1. h = "worker" => hand[h].entry \in pass
  BY DEF Typed
<1>2. /\ (DOMAIN queue)' = DOMAIN queue
      /\ hand'[h] = Rest(h) \/ (h = "worker" /\ hand'[h] = Idle)
      /\ \A g \in Pushers : g # h => hand'[g] = hand[g]
      /\ \A i \in DOMAIN queue : /\ queue'[i].op = queue[i].op /\ queue'[i].plan = queue[i].plan
                                 /\ queue'[i].copy = queue[i].copy
      /\ Outstanding' \subseteq Outstanding
  BY <1>1, FieldsTyped, FailTyped
<1>3. KeptEntries
  BY <1>2 DEF KeptEntries
<1> QED BY <1>2, <1>3, KeptCopies DEF Ended, Selling

LEMMA GoKeeps ==
    ASSUME NEW h \in Pushers, Typed, NEW k, Go(h, k), Selling
    PROVE  /\ hand'[h] = k /\ \A g \in Pushers : g # h => hand'[g] = hand[g]
           /\ Copies' /\ \A p : Creating(p)' => Creating(p)
<1>1. hand' = [hand EXCEPT ![h] = k] /\ queue' = queue
  BY DEF Go
<1>2. hand'[h] = k /\ \A g \in Pushers : g # h => hand'[g] = hand[g]
  BY <1>1 DEF Typed, HandTyped
<1>3. KeptEntries
  BY <1>1 DEF KeptEntries, Outstanding, Pending
<1> QED BY <1>2, <1>3, KeptCopies DEF Selling

LEMMA SucceededEnds ==
    ASSUME NEW h \in Pushers, Typed, hand'[h] = Succeeded(h)
    PROVE  Ended(h)
BY DEF Succeeded, Ended

LEMMA SamePrices ==
    ASSUME Selling, price' = price
    PROVE  Grown /\ Keys'
BY DEF Selling, Keys, Grown

LEMMA LightPush ==
    ASSUME NEW h \in Pushers, Typed, Typed', Selling, Refused(h) \/ NoDrift(h)
    PROVE  Selling'
<1>1. plan' = plan /\ price' = price /\ Busy(h)
  BY DEF Refused, NoDrift, Busy
<1>2. CASE Fail(h)
  BY <1>1, <1>2, FailEnds, SamePrices, EndStep
<1>3. CASE Go(h, Succeeded(h))
  BY <1>1, <1>3, GoKeeps, SucceededEnds, SamePrices, EndStep
<1> QED BY <1>2, <1>3 DEF Refused, NoDrift

LEMMA ProductCall ==
    ASSUME NEW h \in Pushers, Typed, Typed', Selling, CallProduct(h)
    PROVE  Selling'
<1> DEFINE k == hand[h]
           id == Made(product, ProductKey(k), k.copy.rev)
           step == [k EXCEPT !.at = "price", !.copy.product = id]
<1>1. plan' = plan /\ price' = price /\ Busy(h) /\ k.at = "product" /\ k \in HandType
      /\ k.copy \in RowType
  BY FieldsTyped DEF CallProduct, Busy
<1>2. CASE Fail(h)
  BY <1>1, <1>2, FailEnds, SamePrices, EndStep
<1>3. CASE Go(h, step)
  <2>1. /\ step.at = "price" /\ step.plan = k.plan /\ step.todo = k.todo /\ step.all = k.all
        /\ step.old = k.old /\ step.copy.price = k.copy.price /\ step.copy.state = k.copy.state
    <3> HIDE DEF id
    <3> QED BY <1>1 DEF HandType, RowType
  <2> HIDE DEF step
  <2>2. /\ hand'[h] = step /\ \A g \in Pushers : g # h => hand'[g] = hand[g]
        /\ Copies' /\ \A p : Creating(p)' => Creating(p)
    BY <1>3, GoKeeps
  <2>3. PICK n : n = hand'[h]
    OBVIOUS
  <2>4. /\ n.at = "price" /\ n.plan = k.plan /\ n.todo = k.todo /\ n.all = k.all
        /\ n.old = k.old /\ n.copy.price = k.copy.price /\ n.copy.state = k.copy.state
    BY <2>1, <2>2, <2>3
  <2>5. Shape(h) /\ Sale(h) /\ Grown /\ Keys' /\ \A p \in Plans : Alone(p)
    BY <1>1, SamePrices DEF Selling
  <2>6. ~Pulls(h)' /\ ~Pulls(h) /\ n.old = 0
    BY <1>1, <2>3, <2>4, <2>5 DEF Pulls, Shape
  <2>7. Shape(h)'
    BY <1>1, <2>3, <2>4, <2>5, <2>6 DEF Shape, PlanSteps
  <2>8. Sale(h)'
    <3>1. AllOn(n.plan)'
      <4>1. AllOn(n.plan)
        BY <1>1, <2>4, <2>5 DEF Sale
      <4> QED BY <2>5, <4>1, Grows
    <3>2. \A q \in DOMAIN n.todo : /\ n.todo[q].state = "live" /\ plan'[q].price = n.todo[q].price
                                   /\ Current(q, n.todo[q].amount)'
      BY <1>1, <2>4, <2>5, Grows DEF Sale
    <3> QED BY <2>3, <2>4, <2>6, <3>1, <3>2 DEF Sale
  <2>9. \A p : /\ Saves(h, p)' => Saves(h, p)
               /\ Claims(h, p)' => Claims(h, p) /\ ~Migrates(h, p)'
    BY <1>1, <2>3, <2>4, <2>6 DEF Saves, Claims, Migrates
  <2>10. hand'[h].all => k.all
    BY <2>3, <2>4
  <2>11. \A p \in Plans : /\ Saves(h, p)' => \A g \in Pushers : g # h => ~Claims(g, p)
                          /\ Claims(h, p)' => \A g \in Pushers : g # h => ~Saves(g, p)
                          /\ Claims(h, p)' => /\ ~Creating(p) /\ plan[p].state # "none"
                                              /\ (Migrates(h, p)' => plan[p].price # 0)
    BY <2>5, <2>9 DEF Alone
  <2> QED BY <1>1, <2>2, <2>5, <2>7, <2>8, <2>10, <2>11, HandStep
<1> QED BY <1>2, <1>3 DEF CallProduct, Answered

-----------------------------------------------------------------------------
(* What is asked of Stripe for a price, and what comes back. *)
LEMMA PriceIsMade ==
    ASSUME NEW h \in Pushers, Typed, Selling, CallPrice(h)
    PROVE  LET k == hand[h]
               id == Made(price, PriceKey(k), k.copy.amount)
           IN  /\ Grown /\ Keys'
               /\ id # 0 => /\ id \in DOMAIN price' /\ price'[id].key = PriceKey(k)
                            /\ id \in DOMAIN price => price[id].asked = k.copy.amount
<1> DEFINE k == hand[h]
           a == k.copy.amount
           id == Made(price, PriceKey(k), a)
           x == [key |-> PriceKey(k), asked |-> a, on |-> TRUE]
<1>1. /\ price \in Seq(PriceType) /\ Keys /\ k.copy \in RowType /\ k.plan \in Plans
      /\ k.at \in {"price", "drift"}
  BY FieldsTyped DEF Typed, Selling, CallPrice, PlanSteps
<1>2. x \in PriceType /\ x.key = PriceKey(k) /\ x.asked = a /\ x.on
      /\ (x.key = <<"create", x.key[2], 0>> \/ x.key = <<"migrate", x.key[2], x.asked>>)
  BY <1>1 DEF PriceType, PriceKey, RowType
<1>3. price' = IF id > Len(price) THEN Append(price, x) ELSE price
  BY DEF CallPrice
<1>4. /\ id > Len(price) <=> id = Len(price) + 1
      /\ \/ id = 0
         \/ id = Len(price) + 1 /\ \A i \in DOMAIN price : price[i].key # PriceKey(k)
         \/ /\ id \in DOMAIN price /\ price[id].key = PriceKey(k)
            /\ \E i \in DOMAIN price : price[i].key = PriceKey(k) /\ price[i].asked = a
  <2> HIDE DEF a
  <2> QED BY <1>1, MadeIs
<1>5. /\ DOMAIN price = 1 .. Len(price) /\ Len(price) \in Nat
      /\ DOMAIN Append(price, x) = (DOMAIN price) \cup {Len(price) + 1}
      /\ \A i \in DOMAIN price : Append(price, x)[i] = price[i]
      /\ Append(price, x)[Len(price) + 1] = x
  <2> HIDE DEF x
  <2> QED BY <1>1, <1>2, Appended
<1> HIDE DEF x, id, a
<1>6. CASE id = 0 \/ id \in DOMAIN price
  <2>1. price' = price
    <3>1. Len(price) \in Nat /\ (id = 0 \/ id \in 1 .. Len(price))
      BY <1>5, <1>6
    <3>2. ~(id > Len(price))
      BY <3>1
    <3> QED BY <1>3, <3>2
  <2>2. id # 0 => price[id].key = PriceKey(k) /\ price[id].asked = a
    BY <1>1, <1>4, <1>5, <1>6 DEF Keys
  <2>3. Grown /\ Keys'
    BY <2>1, SamePrices
  <2> QED BY <1>6, <2>1, <2>2, <2>3 DEF id, a
<1>7. CASE id = Len(price) + 1 /\ \A i \in DOMAIN price : price[i].key # PriceKey(k)
  <2>1. price' = Append(price, x)
    BY <1>3, <1>4, <1>7
  <2>2. Grown
    BY <1>2, <1>5, <2>1 DEF Grown
  <2>3. Keys'
    BY <1>1, <1>2, <1>5, <1>7, <2>1 DEF Keys
  <2>4. id \in DOMAIN price' /\ price'[id].key = PriceKey(k) /\ id \notin DOMAIN price
    BY <1>2, <1>5, <1>7, <2>1
  <2> QED BY <2>2, <2>3, <2>4 DEF id, a
<1> QED BY <1>4, <1>6, <1>7

LEMMA PriceCall ==
    ASSUME NEW h \in Pushers, Typed, Typed', Selling, CallPrice(h)
    PROVE  Selling'
<1> DEFINE k == hand[h]
           id == Made(price, PriceKey(k), k.copy.amount)
           step == [k EXCEPT !.at = "save", !.old = k.copy.price, !.copy.price = id]
<1>1. plan' = plan /\ Busy(h) /\ k.at \in {"price", "drift"} /\ k \in HandType
      /\ k.copy \in RowType /\ k.plan \in Plans
      /\ (k.at = "drift" => price[k.copy.price].asked # k.copy.amount)
  BY FieldsTyped DEF CallPrice, Busy, PlanSteps
<1>2. /\ Grown /\ Keys'
      /\ id # 0 => /\ id \in DOMAIN price' /\ price'[id].key = PriceKey(k)
                   /\ id \in DOMAIN price => price[id].asked = k.copy.amount
  BY PriceIsMade
<1>3. CASE Fail(h)
  BY <1>1, <1>2, <1>3, FailEnds, EndStep
<1>4. CASE id # 0 /\ Go(h, step)
  <2>1. /\ step.at = "save" /\ step.plan = k.plan /\ step.todo = k.todo /\ step.all = k.all
        /\ step.old = k.copy.price /\ step.copy.price = id /\ step.copy.state = k.copy.state
        /\ step.copy.amount = k.copy.amount
    <3> HIDE DEF id
    <3> QED BY <1>1 DEF HandType, RowType
  <2>2. /\ hand'[h] = step /\ \A g \in Pushers : g # h => hand'[g] = hand[g]
        /\ Copies' /\ \A p : Creating(p)' => Creating(p)
    <3> HIDE DEF step
    <3> QED BY <1>4, GoKeeps
  <2> HIDE DEF step
  <2>3. PICK n : n = hand'[h]
    OBVIOUS
  <2>4. PICK key : key = PriceKey(k)
    OBVIOUS
  <2>5. /\ n.at = "save" /\ n.plan = k.plan /\ n.todo = k.todo /\ n.all = k.all
        /\ n.old = k.copy.price /\ n.copy.state = k.copy.state /\ n.copy.amount = k.copy.amount
        /\ n.copy.price = id /\ n.copy.price # 0 /\ n.copy.price \in DOMAIN price'
        /\ price'[n.copy.price].key = key
        /\ n.copy.price \in DOMAIN price => price[n.copy.price].asked = k.copy.amount
    BY <1>2, <1>4, <2>1, <2>2, <2>3, <2>4
  <2> HIDE DEF id
  <2>6. Shape(h) /\ Sale(h) /\ \A p \in Plans : Alone(p)
    BY DEF Selling
  <2>7. ~Pulls(h)' /\ (Pulls(h) <=> k.at = "drift") /\ (k.at = "price" => n.old = 0)
        /\ k.old = 0
    BY <1>1, <2>3, <2>5, <2>6 DEF Pulls, Shape
  <2>8. Shape(h)'
    BY <1>1, <2>3, <2>5, <2>6, <2>7 DEF Shape, PlanSteps
  <2>9. k.at = "price" => AllOn(n.plan)'
    <3>1. k.at = "price" => AllOn(n.plan)
      BY <2>5, <2>6 DEF Sale
    <3> QED BY <1>2, <3>1, Grows
  <2>10. k.at = "drift" => /\ Current(n.plan, n.copy.amount)' /\ Owns(n.plan, n.old)' /\ n.old # 0
                           /\ n.old \in DOMAIN price
    <3>1. k.at = "drift" => /\ Current(n.plan, n.copy.amount) /\ Owns(n.plan, n.old) /\ n.old # 0
      BY <2>5, <2>6, <2>7 DEF Sale
    <3> QED BY <1>2, <3>1, Grows DEF Owns
  <2>11. k.at = "price" => key = <<"create", n.plan, 0>>
    BY <2>4, <2>5 DEF PriceKey
  <2>12. k.at = "drift" => key = <<"migrate", n.plan, n.copy.amount>>
    BY <2>4, <2>5 DEF PriceKey
  <2>13. Sale(h)'
    <3>1. Owns(n.plan, n.copy.price)'
      BY <1>1, <2>5, <2>11, <2>12 DEF Owns
    <3>2. price'[n.copy.price].on
      <4>1. CASE k.at = "price"
        BY <2>5, <2>9, <2>11, <4>1 DEF AllOn
      <4>2. CASE k.at = "drift"
        BY <2>5, <2>10, <2>12, <4>2 DEF Current
      <4> QED BY <1>1, <4>1, <4>2
    <3>3. n.old # 0 => /\ price'[n.copy.price].key = <<"migrate", n.plan, n.copy.amount>>
                       /\ n.old # n.copy.price /\ Owns(n.plan, n.old)'
      BY <1>1, <2>5, <2>7, <2>10, <2>12
    <3>4. n.old = 0 => AllOn(n.plan)'
      BY <1>1, <2>9, <2>10
    <3>5. \A q \in DOMAIN n.todo : /\ n.todo[q].state = "live" /\ plan'[q].price = n.todo[q].price
                                   /\ Current(q, n.todo[q].amount)'
      BY <1>1, <1>2, <2>5, <2>6, Grows DEF Sale
    <3> QED BY <2>3, <2>5, <2>7, <3>1, <3>2, <3>3, <3>4, <3>5 DEF Sale
  <2>14. \A p : /\ Claims(h, p)' => Claims(h, p) /\ (Migrates(h, p)' => Migrates(h, p))
                /\ Saves(h, p)' => Saves(h, p) \/ Claims(h, p)
    BY <1>1, <2>3, <2>5, <2>7 DEF Saves, Claims, Migrates
  <2>15. \A p \in Plans : Claims(h, p) => \A g \in Pushers : g # h => ~Claims(g, p)
    BY ClaimsHold DEF Selling, OneHolder
  <2>16. hand'[h].all => k.all
    BY <2>3, <2>5
  <2>17. \A p \in Plans : /\ Saves(h, p)' => \A g \in Pushers : g # h => ~Claims(g, p)
                          /\ Claims(h, p)' => \A g \in Pushers : g # h => ~Saves(g, p)
                          /\ Claims(h, p)' => /\ ~Creating(p) /\ plan[p].state # "none"
                                              /\ (Migrates(h, p)' => plan[p].price # 0)
    BY <2>6, <2>14, <2>15 DEF Alone
  <2> QED BY <1>1, <1>2, <2>2, <2>8, <2>13, <2>16, <2>17, HandStep
<1> QED BY <1>3, <1>4 DEF CallPrice, Answered

-----------------------------------------------------------------------------
(* An entry is added to the queue. *)
LEMMA EntryAdded ==
    ASSUME Typed, Selling, NEW op \in {"create", "update", "archive"}, NEW p \in Plans, NEW r \in RowType,
           Enqueue(op, p, r), pass' = pass, op = "create" => r.price = 0 /\ r.state = "live"
    PROVE  Copies' /\ \A q : Creating(q)' => Creating(q) \/ (op = "create" /\ q = p)
<1> DEFINE e == [op |-> op, plan |-> p, copy |-> r, tries |-> 0, state |-> "pending"]
<1>1. /\ (DOMAIN queue)' = (DOMAIN queue) \cup {Len(queue) + 1}
      /\ \A i \in DOMAIN queue : queue'[i] = queue[i]
      /\ queue'[Len(queue) + 1] = e
  BY Enqueued DEF Typed, QueueTyped
<1>2. e.op = op /\ e.plan = p /\ e.copy = r
  OBVIOUS
<1> HIDE DEF e
<1>3. Copies'
  BY <1>1, <1>2 DEF Copies, Selling
<1>4. ASSUME NEW q, Creating(q)' PROVE Creating(q) \/ (op = "create" /\ q = p)
  <2>1. PICK i \in DOMAIN queue' : queue'[i].state = "pending" /\ queue'[i].op = "create" /\ queue'[i].plan = q
    BY <1>4 DEF Creating, Outstanding, Pending
  <2> QED BY <1>1, <1>2, <2>1 DEF Creating, Outstanding, Pending
<1> QED BY <1>3, <1>4

(* A hand goes on with its plan, after the save. *)
LEMMA AfterSave ==
    ASSUME NEW h \in Pushers, Typed, Typed', Selling, UNCHANGED <<plan, price>>,
           \A g \in Pushers : g # h => hand'[g] = hand[g],
           Copies', \A p : Creating(p)' => Creating(p),
           hand[h].at \in {"reread", "hook"}, hand'[h].at \in {"hook", "retire"},
           hand'[h].plan = hand[h].plan, hand'[h].todo = hand[h].todo, hand'[h].all = hand[h].all,
           hand'[h].old = hand[h].old
    PROVE  Selling'
<1> DEFINE k == hand[h]
<1>1. k \in HandType /\ k.plan \in Plans
  BY FieldsTyped DEF PlanSteps
<1>4. Grown /\ Keys'
  BY SamePrices
<1>6. PICK n : n = hand'[h]
  OBVIOUS
<1>7. Shape(h) /\ Sale(h) /\ \A p \in Plans : Alone(p)
  BY DEF Selling
<1>8. ~Pulls(h)' /\ ~Pulls(h)
  BY DEF Pulls
<1>9. Shape(h)'
  BY <1>6, <1>7, <1>8 DEF Shape, PlanSteps
<1>10. Sale(h)'
  <2>1. n.old # 0 => Owns(n.plan, n.old)'
    <3>1. n.old # 0 => Owns(n.plan, n.old)
      BY <1>6, <1>7 DEF Sale
    <3> QED BY <1>4, <3>1, Grows
  <2>2. n.old # 0 =>
           /\ plan'[n.plan].price # n.old
           /\ plan'[n.plan].state = "live" => price'[n.old].key # <<"migrate", n.plan, plan'[n.plan].amount>>
    BY <1>6, <1>7 DEF Sale, Live
  <2>3. \A q \in DOMAIN n.todo : /\ n.todo[q].state = "live" /\ plan'[q].price = n.todo[q].price
                                 /\ Current(q, n.todo[q].amount)'
    BY <1>4, <1>6, <1>7, Grows DEF Sale
  <2> QED BY <1>6, <1>8, <2>1, <2>2, <2>3 DEF Sale, Live
<1>11. \A p : ~Saves(h, p)' /\ (Claims(h, p)' => Claims(h, p)) /\ (Migrates(h, p)' => Migrates(h, p))
  BY <1>8 DEF Saves, Claims, Migrates
<1>12. \A p \in Plans : /\ Claims(h, p)' => \A g \in Pushers : g # h => ~Saves(g, p)
                        /\ Claims(h, p)' => /\ ~Creating(p) /\ plan[p].state # "none"
                                            /\ (Migrates(h, p)' => plan[p].price # 0)
  BY <1>7, <1>11 DEF Alone
<1> QED BY <1>4, <1>9, <1>10, <1>11, <1>12, HandStep

LEMMA RereadStep ==
    ASSUME NEW h \in Pushers, Typed, Typed', Selling, Reread(h)
    PROVE  Selling'
<1> DEFINE k == hand[h]
           fresh == [k EXCEPT !.at = "hook", !.copy = plan[k.plan]]
           same == [k EXCEPT !.at = "hook"]
<1>1. k.at = "reread" /\ k \in HandType /\ UNCHANGED <<plan, price>>
  BY FieldsTyped DEF Reread
<1>2. PICK n : n \in {fresh, same} /\ Go(h, n)
  BY DEF Reread
<1>3. n.at = "hook" /\ n.plan = k.plan /\ n.todo = k.todo /\ n.all = k.all /\ n.old = k.old
  BY <1>1, <1>2 DEF HandType
<1>4. /\ hand'[h] = n /\ \A g \in Pushers : g # h => hand'[g] = hand[g]
      /\ Copies' /\ \A p : Creating(p)' => Creating(p)
  BY <1>2, GoKeeps
<1> QED BY <1>1, <1>3, <1>4, AfterSave

LEMMA HookStep ==
    ASSUME NEW h \in Pushers, Typed, Typed', Selling, Hook(h)
    PROVE  Selling'
<1> DEFINE k == hand[h]
           step == IF k.old # 0 THEN [k EXCEPT !.at = "retire"] ELSE Succeeded(h)
<1>1. /\ k.at = "hook" /\ UNCHANGED <<plan, price, pass>> /\ k \in HandType /\ k.plan \in Plans
      /\ hand' = [hand EXCEPT ![h] = step]
      /\ queue' = queue \/ Enqueue("update", k.plan, k.copy)
  BY FieldsTyped DEF Hook, Hooked, PlanSteps
<1>2. Copies' /\ \A p : Creating(p)' => Creating(p)
  <2>1. CASE queue' = queue
    BY <2>1 DEF Copies, Selling, Creating, Outstanding, Pending
  <2>2. CASE Enqueue("update", k.plan, k.copy)
    BY <1>1, <2>2, FieldsTyped, EntryAdded
  <2> QED BY <1>1, <2>1, <2>2
<1>3. hand'[h] = step /\ \A g \in Pushers : g # h => hand'[g] = hand[g]
  BY <1>1 DEF Typed, HandTyped
<1>4. Grown /\ Keys'
  BY <1>1, SamePrices
<1>5. CASE k.old = 0
  BY <1>1, <1>2, <1>3, <1>4, <1>5, SucceededEnds, EndStep
<1>6. CASE k.old # 0
  <2>1. PICK n : n = hand'[h]
    OBVIOUS
  <2>2. n.at = "retire" /\ n.plan = k.plan /\ n.todo = k.todo /\ n.all = k.all /\ n.old = k.old
    BY <1>1, <1>3, <1>6, <2>1 DEF HandType
  <2> QED BY <1>1, <1>2, <1>3, <2>1, <2>2, AfterSave
<1> QED BY <1>5, <1>6

LEMMA UpdateCall ==
    ASSUME NEW h \in Pushers, Typed, Typed', Selling, CallUpdate(h)
    PROVE  Selling'
<1> DEFINE k == hand[h]
           step == [k EXCEPT !.at = "drift"]
<1>1. plan' = plan /\ price' = price /\ Busy(h) /\ k.at \in {"update", "archive"} /\ k \in HandType
  BY FieldsTyped DEF CallUpdate, Busy
<1>2. Grown /\ Keys'
  BY <1>1, SamePrices
<1>3. CASE Fail(h)
  BY <1>1, <1>2, <1>3, FailEnds, EndStep
<1>4. CASE h = "worker" /\ Go(h, Succeeded(h))
  BY <1>1, <1>2, <1>4, GoKeeps, SucceededEnds, EndStep
<1>5. CASE h # "worker" /\ Go(h, step)
  <2>1. /\ hand'[h] = step /\ \A g \in Pushers : g # h => hand'[g] = hand[g]
        /\ Copies' /\ \A p : Creating(p)' => Creating(p)
    <3> HIDE DEF step
    <3> QED BY <1>5, GoKeeps
  <2>2. PICK n : n = hand'[h]
    OBVIOUS
  <2>3. n.at = "drift" /\ n.plan = k.plan /\ n.todo = k.todo /\ n.all = k.all /\ n.old = k.old
        /\ n.copy = k.copy
    BY <1>1, <2>1, <2>2 DEF HandType
  <2>4. Shape(h) /\ Sale(h) /\ \A p \in Plans : Alone(p)
    BY DEF Selling
  <2>5. Pulls(h)' /\ Pulls(h) /\ k.old = 0 /\ k.at = "update"
    BY <1>1, <1>5, <2>2, <2>3, <2>4 DEF Pulls, Shape
  <2>6. Shape(h)'
    BY <1>5, <2>2, <2>3, <2>4, <2>5 DEF Shape, PlanSteps
  <2>7. Sale(h)'
    <3>1. Current(n.plan, n.copy.amount)' /\ n.copy.price # 0 /\ Owns(n.plan, n.copy.price)'
      <4>1. Current(n.plan, n.copy.amount) /\ n.copy.price # 0 /\ Owns(n.plan, n.copy.price)
        BY <2>3, <2>4, <2>5 DEF Sale
      <4> QED BY <1>2, <4>1, Grows
    <3>2. \A q \in DOMAIN n.todo : /\ n.todo[q].state = "live" /\ plan'[q].price = n.todo[q].price
                                   /\ Current(q, n.todo[q].amount)'
      BY <1>1, <1>2, <2>3, <2>4, Grows DEF Sale
    <3> QED BY <2>2, <2>3, <2>5, <3>1, <3>2 DEF Sale
  <2>8. \A p : ~Saves(h, p)' /\ (Claims(h, p)' => Claims(h, p)) /\ (Migrates(h, p)' => Migrates(h, p))
    BY <2>2, <2>3, <2>5 DEF Saves, Claims, Migrates
  <2>9. hand'[h].all => k.all
    BY <2>2, <2>3
  <2>10. \A p \in Plans : /\ Claims(h, p)' => \A g \in Pushers : g # h => ~Saves(g, p)
                          /\ Claims(h, p)' => /\ ~Creating(p) /\ plan[p].state # "none"
                                              /\ (Migrates(h, p)' => plan[p].price # 0)
    BY <2>4, <2>8 DEF Alone
  <2> QED BY <1>1, <1>2, <2>1, <2>6, <2>7, <2>8, <2>9, <2>10, HandStep
<1> QED BY <1>3, <1>4, <1>5 DEF CallUpdate, Answered

-----------------------------------------------------------------------------
(* A push saves its plan: nobody else claims it. *)
LEMMA SaveStep ==
    ASSUME NEW h \in Pushers, Typed, Typed', Selling, Save(h)
    PROVE  Selling'
<1> DEFINE row == [hand[h].copy EXCEPT !.on = @ \/ plan[hand[h].plan].on]
           step == [hand[h] EXCEPT !.at = "reread"]
           M == {h}
<1>0. PICK k : k = hand[h]
  OBVIOUS
<1>1. /\ k.at = "save" /\ price' = price /\ Busy(h) /\ k \in HandType /\ k.copy \in RowType
      /\ k.plan \in Plans
  BY <1>0, FieldsTyped DEF Save, Busy, PlanSteps
<1>2. Grown /\ Keys'
  BY <1>1, SamePrices
<1>3. CASE plan' = plan /\ Fail(h)
  BY <1>1, <1>2, <1>3, FailEnds, EndStep
<1>4. CASE plan' = [plan EXCEPT ![hand[h].plan] = row] /\ Go(h, step)
  <2>1. /\ hand'[h] = step /\ \A g \in Pushers : g # h => hand'[g] = hand[g]
        /\ Copies' /\ \A q : Creating(q)' => Creating(q)
    <3> HIDE DEF step
    <3> QED BY <1>4, GoKeeps
  <2>2. PICK n : n = hand'[h]
    OBVIOUS
  <2>3. PICK p \in Plans : p = k.plan
    BY <1>1
  <2>4. n.at = "reread" /\ n.plan = p /\ n.todo = k.todo /\ n.all = k.all /\ n.old = k.old
        /\ n.copy = k.copy
    BY <1>0, <1>1, <2>1, <2>2, <2>3 DEF HandType
  <2>5. Shape(h) /\ Sale(h) /\ \A q \in Plans : Alone(q) /\ RowOK(q)
    BY DEF Selling
  <2>6. row.state = "live" /\ row.price = k.copy.price /\ row.amount = k.copy.amount
    BY <1>0, <1>1, <2>5 DEF RowType, Shape
  <2> HIDE DEF row
  <2>7. /\ plan'[p].state = "live" /\ plan'[p].price = k.copy.price /\ plan'[p].amount = k.copy.amount
        /\ \A q \in Plans : q # p => plan'[q] = plan[q]
    BY <1>0, <1>4, <2>3, <2>6 DEF Typed
  <2>8. \A g \in Pushers : g # h => ~Claims(g, p)
    BY <1>0, <1>1, <2>3, <2>5 DEF Saves, Alone
  <2>9. Owns(p, k.copy.price) /\ k.copy.price # 0 /\ price[k.copy.price].on
    BY <1>0, <1>1, <2>3, <2>5 DEF Sale
  <2>10. k.old # 0 => /\ price[k.copy.price].key = <<"migrate", p, k.copy.amount>>
                      /\ k.old # k.copy.price /\ Owns(p, k.old)
    BY <1>0, <1>1, <2>3, <2>5 DEF Sale
  <2>11. Current(p, k.copy.amount)
    <3>1. CASE k.old = 0
      BY <1>0, <1>1, <2>3, <2>5, <3>1 DEF Sale, AllOn, Current
    <3>2. CASE k.old # 0
      BY <2>9, <2>10, <3>2 DEF Current, Selling, Keys, Owns
    <3> QED BY <3>1, <3>2
  <2>12. \A q \in Plans : RowOK(q)'
    <3>1. RowOK(p)'
      <4>1. Owns(p, k.copy.price)' /\ price'[k.copy.price].on
        BY <1>1, <2>9 DEF Owns
      <4>2. Creating(p)' => AllOn(p)'
        BY <1>2, <2>1, <2>5, Grows DEF RowOK
      <4>3. Current(p, k.copy.amount)'
        BY <1>2, <2>11, Grows
      <4> QED BY <2>7, <2>9, <4>1, <4>2, <4>3 DEF RowOK
    <3>2. ASSUME NEW q \in Plans, q # p PROVE RowOK(q)'
      <4>1. plan'[q] = plan[q] /\ (Live(q)' <=> Live(q)) /\ RowOK(q)
        BY <2>5, <2>7, <3>2 DEF Live
      <4>2. plan[q].price # 0 => Owns(q, plan[q].price)' /\ price'[plan[q].price] = price[plan[q].price]
        BY <1>2, <4>1, Grows DEF RowOK
      <4>3. plan[q].price = 0 \/ Creating(q)' => AllOn(q)'
        BY <1>2, <2>1, <4>1, Grows DEF RowOK
      <4>4. Live(q) => Current(q, plan[q].amount)'
        BY <1>2, <4>1, Grows DEF RowOK
      <4> QED BY <4>1, <4>2, <4>3, <4>4 DEF RowOK
    <3> QED BY <3>1, <3>2
  <2>13. Shape(h)'
    <3>1. ~Pulls(h)'
      BY <2>2, <2>4 DEF Pulls
    <3> QED BY <1>0, <1>1, <2>2, <2>3, <2>4, <2>5, <3>1 DEF Shape, PlanSteps
  <2>14. \A q \in DOMAIN k.todo : q # p /\ q \in Plans
    BY <1>0, <1>1, <2>3, <2>5, FieldsTyped DEF Shape, PlanSteps
  <2>15. Sale(h)'
    <3>1. n.old # 0 => Owns(n.plan, n.old)'
      BY <1>1, <2>4, <2>10 DEF Owns
    <3>2. n.old # 0 => plan'[p].price # n.old
      BY <2>4, <2>7, <2>10
    <3>3. n.old # 0 => price'[n.old].key # <<"migrate", p, plan'[p].amount>>
      BY <1>1, <2>4, <2>7, <2>9, <2>10 DEF Selling, Keys, Owns
    <3>4. \A q \in DOMAIN n.todo : /\ n.todo[q].state = "live" /\ plan'[q].price = n.todo[q].price
                                   /\ Current(q, n.todo[q].amount)'
      BY <1>0, <1>2, <2>4, <2>5, <2>7, <2>14, Grows DEF Sale
    <3>5. ~Pulls(h)'
      BY <2>2, <2>4 DEF Pulls
    <3> QED BY <2>2, <2>4, <3>1, <3>2, <3>3, <3>4, <3>5 DEF Sale
  <2>16. \A q : ~Saves(h, q)' /\ (Claims(h, q)' => Claims(h, q)) /\ (Migrates(h, q)' => q = p)
    BY <1>0, <2>2, <2>3, <2>4 DEF Saves, Claims, Migrates, Pulls
  <2>17. \A q \in Plans : Claims(h, q)' =>
              ~Creating(q)' /\ plan'[q].state # "none" /\ (Migrates(h, q)' => plan'[q].price # 0)
    BY <2>1, <2>5, <2>7, <2>9, <2>16 DEF Alone
  <2>18. \A g \in Pushers \ M : g # h /\ hand'[g] = hand[g]
    BY <2>1
  <2>19. \A g \in Pushers \ M : \A q \in Plans : Claims(g, q) =>
              plan'[q].price = plan[q].price /\ plan'[q].state # "none" /\ ~Creating(q)'
    BY <2>1, <2>5, <2>7, <2>8, <2>18 DEF Alone
  <2>20. \A g \in Pushers \ M :
              hand[g].old # 0 /\ hand[g].at \in {"reread", "hook", "retire"} /\ Live(hand[g].plan)' =>
                 price[hand[g].old].key # <<"migrate", hand[g].plan, plan'[hand[g].plan].amount>>
    <3> SUFFICES ASSUME NEW g \in Pushers, g # h, NEW q, q = hand[g].plan,
                        hand[g].old # 0, hand[g].at \in {"reread", "hook", "retire"}, plan'[q].state = "live"
                 PROVE  price[hand[g].old].key # <<"migrate", q, plan'[q].amount>>
      BY <2>18 DEF Live
    <3>1. Sale(g) /\ Claims(g, q)
      BY DEF Selling, Claims, Migrates
    <3>2. q \in Plans /\ plan'[q] = plan[q]
      BY <2>7, <2>8, <3>1, ClaimsHold
    <3> QED BY <3>1, <3>2 DEF Sale, Live
  <2>21. \A x \in M, g \in Pushers : g # x => ~(hand'[x].all /\ hand'[g].all)
    <3>1. \A g \in Pushers : g # h /\ hand[g].all => ~hand'[h].all
      BY <1>0, <2>2, <2>4 DEF Selling, OneHolder
    <3> QED BY <2>1, <3>1
  <2>22. \A x \in M, g \in Pushers, q \in Plans :
              g # x => ~(Claims(x, q)' /\ Saves(g, q)') /\ ~(Claims(g, q)' /\ Saves(x, q)')
    <3> SUFFICES ASSUME NEW g \in Pushers, NEW q \in Plans, g # h PROVE ~(Claims(h, q)' /\ Saves(g, q)')
      BY <2>16
    <3>1. Saves(g, q)' => Saves(g, q)
      BY <2>1 DEF Saves
    <3> QED BY <2>5, <2>16, <3>1 DEF Alone
  <2>23. /\ \A i \in DOMAIN price : i \in DOMAIN price' /\ price'[i].key = price[i].key
         /\ \A i \in DOMAIN price' : ~price'[i].on =>
              i \in DOMAIN price /\ (~price[i].on \/ \E g \in M : Claims(g, price[i].key[2]))
    BY <1>1
  <2>24. M \in SUBSET Pushers /\ \A x \in M : Shape(x)' /\ Sale(x)'
    BY <2>13, <2>15
  <2>25. \A x \in M, q \in Plans : Claims(x, q)' =>
              ~Creating(q)' /\ plan'[q].state # "none" /\ (Migrates(x, q)' => plan'[q].price # 0)
    BY <2>17
  <2>26. Keys' /\ Copies'
    BY <1>2, <2>1
  <2> HIDE DEF M
  <2> QED BY <2>12, <2>18, <2>19, <2>20, <2>21, <2>22, <2>23, <2>24, <2>25, <2>26, Step
<1> QED BY <1>3, <1>4 DEF Save

-----------------------------------------------------------------------------
(* The superseded price is archived: nothing that is left leads to it. *)
LEMMA RetireStep ==
    ASSUME NEW h \in Pushers, Typed, Typed', Selling, Retire(h)
    PROVE  Selling'
<1> DEFINE M == {h}
<1>0. PICK k : k = hand[h]
  OBVIOUS
<1>1. /\ k.at = "retire" /\ plan' = plan /\ Go(h, Succeeded(h)) /\ k \in HandType /\ k.plan \in Plans
      /\ price' = [price EXCEPT ![k.old].on = FALSE]
  BY <1>0, FieldsTyped DEF Retire, PlanSteps
<1>2. /\ Ended(h) /\ \A g \in Pushers : g # h => hand'[g] = hand[g]
      /\ Copies' /\ \A q : Creating(q)' => Creating(q)
  BY <1>1, GoKeeps, SucceededEnds
<1>3. CASE k.old \notin DOMAIN price
  <2>1. price' = price
    BY <1>1, <1>3 DEF Typed
  <2> QED BY <1>1, <1>2, <2>1, SamePrices, EndStep
<1>4. CASE k.old \in DOMAIN price
  <2>1. PICK p \in Plans : p = k.plan
    BY <1>1
  <2>2. k.old # 0
    BY <1>4, Indexed DEF Typed
  <2>3. Shape(h) /\ Sale(h) /\ Keys /\ \A q \in Plans : Alone(q) /\ RowOK(q)
    BY DEF Selling
  <2>4. /\ DOMAIN price' = DOMAIN price
        /\ \A i \in DOMAIN price : /\ price'[i].key = price[i].key /\ price'[i].asked = price[i].asked
                                   /\ i # k.old => price'[i] = price[i]
    <3>1. \A i \in DOMAIN price : price[i] \in PriceType
      BY Indexed DEF Typed
    <3> QED BY <1>1, <1>4, <3>1 DEF PriceType
  <2>5. Claims(h, p) /\ Migrates(h, p) /\ price[k.old].key[2] = p
    BY <1>0, <2>1, <2>2, <2>3 DEF Claims, Migrates, Sale, Owns
  <2>6. /\ plan[p].price # k.old
        /\ Live(p) => price[k.old].key # <<"migrate", p, plan[p].amount>>
    BY <1>0, <1>1, <2>1, <2>2, <2>3 DEF Sale
  <2>7. Keys'
    BY <2>3, <2>4 DEF Keys
  <2>8. /\ \A q, id : Owns(q, id) => Owns(q, id)' /\ price'[id].key = price[id].key
        /\ \A q, id : Owns(q, id) /\ q # p /\ price[id].on => price'[id].on
        /\ \A q : q # p /\ AllOn(q) => AllOn(q)'
        /\ \A q, a : q # p /\ Current(q, a) => Current(q, a)'
    <3>1. \A q, id : Owns(q, id) => Owns(q, id)' /\ price'[id].key = price[id].key
      BY <2>4 DEF Owns
    <3>2. \A q, id : Owns(q, id) /\ q # p /\ price[id].on => price'[id].on
      BY <2>4, <2>5 DEF Owns
    <3>3. \A q : q # p /\ AllOn(q) => AllOn(q)'
      BY <2>4, <2>5 DEF AllOn
    <3>4. \A q, a : q # p /\ Current(q, a) => Current(q, a)'
      BY <2>4, <2>5 DEF Current
    <3> QED BY <3>1, <3>2, <3>3, <3>4
  <2>9. \A q \in Plans : RowOK(q)'
    <3>1. RowOK(p)'
      <4>1. RowOK(p) /\ ~Creating(p)' /\ plan[p].price # 0
        BY <1>2, <2>3, <2>5 DEF Alone
      <4>2. Owns(p, plan[p].price)' /\ (Live(p) => price'[plan[p].price].on)
        BY <1>1, <2>4, <2>6, <2>8, <4>1 DEF RowOK, Owns
      <4>3. Live(p) => Current(p, plan[p].amount)'
        BY <1>1, <2>4, <2>6, <4>1 DEF RowOK, Current
      <4> QED BY <1>1, <4>1, <4>2, <4>3 DEF RowOK, Live
    <3>2. ASSUME NEW q \in Plans, q # p PROVE RowOK(q)'
      <4>1. RowOK(q) /\ (Live(q)' <=> Live(q))
        BY <1>1, <2>3 DEF Live
      <4>2. plan[q].price # 0 => Owns(q, plan[q].price)' /\ (Live(q) => price'[plan[q].price].on)
        BY <1>1, <2>8, <3>2, <4>1 DEF RowOK
      <4>3. plan[q].price = 0 \/ Creating(q)' => AllOn(q)'
        BY <1>2, <2>8, <3>2, <4>1 DEF RowOK
      <4>4. Live(q) => Current(q, plan[q].amount)'
        BY <1>1, <2>8, <3>2, <4>1 DEF RowOK
      <4> QED BY <1>1, <4>1, <4>2, <4>3, <4>4 DEF RowOK
    <3> QED BY <3>1, <3>2
  <2>10. PICK n : n = hand'[h]
    OBVIOUS
  <2>11. /\ Shape(h)'
         /\ n.at \notin {"product", "price", "save"} /\ ~Pulls(h)' /\ n.old = 0
         /\ n.all => k.all
         /\ \A q \in DOMAIN n.todo : q \in DOMAIN k.todo /\ n.todo[q] = k.todo[q]
         /\ \A q : ~Saves(h, q)' /\ ~Migrates(h, q)' /\ (Claims(h, q)' => q \in DOMAIN k.todo)
    BY <1>0, <1>2, <2>10, Ends
  <2>12. \A q \in DOMAIN k.todo : q # p
    BY <1>0, <1>1, <2>1, <2>3 DEF Shape, PlanSteps
  <2>13. Sale(h)'
    <3>1. \A q \in DOMAIN n.todo : /\ n.todo[q].state = "live" /\ plan'[q].price = n.todo[q].price
                                   /\ Current(q, n.todo[q].amount)'
      BY <1>0, <1>1, <2>3, <2>8, <2>11, <2>12 DEF Sale
    <3> QED BY <2>10, <2>11, <3>1 DEF Sale
  <2>14. \A q : Claims(h, q)' => Claims(h, q)
    BY <1>0, <2>11 DEF Claims
  <2>15. \A g \in Pushers \ M : g # h /\ hand'[g] = hand[g]
    BY <1>2
  <2>16. \A g \in Pushers \ M : \A q \in Plans : Claims(g, q) =>
              plan'[q].price = plan[q].price /\ plan'[q].state # "none" /\ ~Creating(q)'
    BY <1>1, <1>2, <2>3, <2>15 DEF Alone
  <2>17. \A g \in Pushers \ M :
              hand[g].old # 0 /\ hand[g].at \in {"reread", "hook", "retire"} /\ Live(hand[g].plan)' =>
                 price[hand[g].old].key # <<"migrate", hand[g].plan, plan'[hand[g].plan].amount>>
    BY <1>1, <2>15 DEF Selling, Sale, Live
  <2>18. \A x \in M, g \in Pushers : g # x => ~(hand'[x].all /\ hand'[g].all)
    <3>1. \A g \in Pushers : g # h /\ hand[g].all => ~hand'[h].all
      BY <1>0, <2>10, <2>11 DEF Selling, OneHolder
    <3> QED BY <1>2, <3>1
  <2>19. \A x \in M, g \in Pushers, q \in Plans :
              g # x => ~(Claims(x, q)' /\ Saves(g, q)') /\ ~(Claims(g, q)' /\ Saves(x, q)')
    <3> SUFFICES ASSUME NEW g \in Pushers, NEW q \in Plans, g # h PROVE ~(Claims(h, q)' /\ Saves(g, q)')
      BY <2>11
    <3>1. Saves(g, q)' => Saves(g, q)
      BY <1>2 DEF Saves
    <3> QED BY <2>3, <2>14, <3>1 DEF Alone
  <2>20. /\ \A i \in DOMAIN price : i \in DOMAIN price' /\ price'[i].key = price[i].key
         /\ \A i \in DOMAIN price' : ~price'[i].on =>
              i \in DOMAIN price /\ (~price[i].on \/ \E g \in M : Claims(g, price[i].key[2]))
    BY <2>4, <2>5
  <2>21. M \in SUBSET Pushers /\ \A x \in M : Shape(x)' /\ Sale(x)'
    BY <2>11, <2>13
  <2>22. \A x \in M, q \in Plans : Claims(x, q)' =>
              ~Creating(q)' /\ plan'[q].state # "none" /\ (Migrates(x, q)' => plan'[q].price # 0)
    BY <1>1, <1>2, <2>3, <2>11, <2>14 DEF Alone
  <2> HIDE DEF M
  <2> QED BY <1>2, <2>7, <2>9, <2>15, <2>16, <2>17, <2>18, <2>19, <2>20, <2>21, <2>22, Step
<1> QED BY <1>3, <1>4

LEMMA PushSells ==
    ASSUME NEW h \in Pushers, Typed, Typed', Selling, PushStep(h)
    PROVE  Selling'
BY LightPush, ProductCall, PriceCall, RereadStep, HookStep, UpdateCall, SaveStep, RetireStep DEF PushStep

-----------------------------------------------------------------------------
(* A hand that takes something up: nothing else moves. *)
LEMMA Turns ==
    ASSUME NEW h \in Pushers, NEW k, Typed, Selling, hand' = [hand EXCEPT ![h] = k],
           UNCHANGED <<plan, price, queue>>
    PROVE  /\ hand'[h] = k /\ \A g \in Pushers : g # h => hand'[g] = hand[g]
           /\ plan' = plan /\ Grown /\ Keys' /\ Copies'
           /\ \A p : Creating(p)' => Creating(p)
<1>1. hand'[h] = k /\ \A g \in Pushers : g # h => hand'[g] = hand[g]
  BY DEF Typed, HandTyped
<1>2. KeptEntries
  BY DEF KeptEntries, Outstanding, Pending
<1>3. Copies' /\ \A p : Creating(p)' => Creating(p)
  BY <1>2, KeptCopies DEF Selling
<1>4. Grown /\ Keys'
  BY SamePrices
<1> QED BY <1>1, <1>3, <1>4

(* A hand that takes up one plan and claims none. *)
LEMMA TakesUp ==
    ASSUME NEW h \in Pushers, NEW k, Typed, Typed', Selling, hand' = [hand EXCEPT ![h] = k],
           UNCHANGED <<plan, price, queue>>,
           DOMAIN k.todo = {}, ~k.all, k.old = 0, k.at # "save",
           h = "worker" => k.at # "drift",
           h # "worker" => k.at \notin {"update", "drift", "archive"},
           k.at \in {"product", "price"} =>
              /\ k.copy.state = "live" /\ k.copy.price = 0 /\ AllOn(k.plan)
              /\ \A g \in Pushers : g # h => ~Claims(g, k.plan)
    PROVE  Selling'
<1>1. /\ hand'[h] = k /\ \A g \in Pushers : g # h => hand'[g] = hand[g]
      /\ plan' = plan /\ Grown /\ Keys' /\ Copies'
      /\ \A p : Creating(p)' => Creating(p)
  BY Turns
<1>2. ~Pulls(h)'
  BY <1>1 DEF Pulls
<1>3. Shape(h)'
  BY <1>1, <1>2 DEF Shape
<1>4. k.at \in {"product", "price"} => AllOn(k.plan)'
  BY <1>1, Grows
<1>5. Sale(h)'
  BY <1>1, <1>2, <1>4 DEF Sale
<1>6. \A p \in Plans : ~Claims(h, p)'
  BY <1>1, <1>2 DEF Claims, Migrates
<1>7. \A p \in Plans : Saves(h, p)' => \A g \in Pushers : g # h => ~Claims(g, p)
  BY <1>1 DEF Saves
<1>8. ~hand'[h].all
  BY <1>1
<1> QED BY <1>1, <1>3, <1>5, <1>6, <1>7, <1>8, HandStep

LEMMA WorkerSells ==
    ASSUME Typed, Typed', Selling, WorkerStep
    PROVE  Selling'
<1>0. "worker" \in Pushers
  BY DEF Pushers
<1>1. CASE Poll
  BY <1>1, SameSelling DEF Poll
<1>2. CASE Take
  <2>1. PICK i \in pass : hand' = [hand EXCEPT !["worker"] =
                [Idle EXCEPT !.at = IF queue[i].op = "create" THEN "product" ELSE queue[i].op,
                             !.plan = queue[i].plan, !.copy = queue[i].copy, !.entry = i]]
    BY <1>2 DEF Take
  <2> DEFINE x == [Idle EXCEPT !.at = IF queue[i].op = "create" THEN "product" ELSE queue[i].op,
                               !.plan = queue[i].plan, !.copy = queue[i].copy, !.entry = i]
  <2>2. i \in Outstanding /\ i \in DOMAIN queue /\ queue[i] \in EntryType
    BY Indexed DEF Typed, Outstanding
  <2>3. /\ DOMAIN x.todo = {} /\ ~x.all /\ x.old = 0 /\ x.plan = queue[i].plan /\ x.copy = queue[i].copy
        /\ x.at = IF queue[i].op = "create" THEN "product" ELSE queue[i].op
    BY Constants1
  <2> HIDE DEF x
  <2>4. x.at \in {"product", "update", "archive"} /\ (x.at = "product" => queue[i].op = "create")
    BY <2>2, <2>3 DEF EntryType
  <2>5. queue[i].op = "create" =>
           /\ x.copy.state = "live" /\ x.copy.price = 0 /\ x.plan \in Plans /\ Creating(x.plan)
    BY <2>2, <2>3 DEF Selling, Copies, Creating, EntryType
  <2>6. queue[i].op = "create" => AllOn(x.plan) /\ \A g \in Pushers : ~Claims(g, x.plan)
    BY <2>5 DEF Selling, Alone, RowOK
  <2>7. hand' = [hand EXCEPT !["worker"] = x] /\ UNCHANGED <<plan, price, queue>>
    BY <1>2, <2>1 DEF Take, x
  <2> QED BY <1>0, <2>3, <2>4, <2>5, <2>6, <2>7, TakesUp
<1>3. CASE MarkSuccess
  <2> DEFINE n == hand["worker"].entry
             e == [queue[n] EXCEPT !.state = "succeeded"]
  <2>1. queue' = [queue EXCEPT ![n] = e] /\ hand' = [hand EXCEPT !["worker"] = Idle]
        /\ plan' = plan /\ price' = price
    BY <1>3 DEF MarkSuccess
  <2>2. n \in DOMAIN queue => e.op = queue[n].op /\ e.plan = queue[n].plan /\ e.copy = queue[n].copy
                              /\ e.state = "succeeded"
    <3>1. n \in DOMAIN queue => queue[n] \in EntryType
      BY Indexed DEF Typed
    <3> QED BY <3>1 DEF EntryType
  <2> HIDE DEF n, e
  <2>3. DOMAIN queue' = DOMAIN queue /\ \A i \in DOMAIN queue : queue'[i] = IF i = n THEN e ELSE queue[i]
    BY <2>1, Changed DEF Typed
  <2>4. KeptEntries
    BY <2>2, <2>3 DEF KeptEntries, Outstanding, Pending
  <2>5. Ended("worker") /\ \A g \in Pushers : g # "worker" => hand'[g] = hand[g]
    BY <1>0, <2>1 DEF Ended, Typed, HandTyped
  <2> QED BY <1>0, <2>1, <2>4, <2>5, KeptCopies, SamePrices, EndStep DEF Selling
<1>4. CASE PushStep("worker")
  BY <1>0, <1>4, PushSells
<1> QED BY <1>1, <1>2, <1>3, <1>4 DEF WorkerStep

-----------------------------------------------------------------------------
(* A request pushes a plan by hand, or starts to push every plan. *)
LEMMA OneByHand ==
    ASSUME Orderly, NEW p \in Plans, NEW r \in Requests, Typed, Typed', Selling,
           SyncOne(r, p) \/ StartDelete(r, p)
    PROVE  Selling'
<1>0. r \in Pushers /\ r # "worker" /\ Requests = Pushers \ {"worker"}
  BY SyncAssumption DEF Pushers
<1>1. CASE SyncOne(r, p)
  <2> DEFINE k == [Idle EXCEPT !.at = "product", !.plan = p, !.copy = plan[p]]
  <2>1. /\ DOMAIN k.todo = {} /\ ~k.all /\ k.old = 0 /\ k.at = "product" /\ k.plan = p /\ k.copy = plan[p]
    BY Constants1
  <2>2. hand' = [hand EXCEPT ![r] = k] /\ UNCHANGED <<plan, price, queue>> /\ Live(p) /\ plan[p].price = 0
        /\ \A h \in Requests : p \notin DOMAIN hand[h].todo
    BY <1>1 DEF SyncOne, Calm
  <2>3. AllOn(p)
    BY <2>2 DEF Selling, RowOK
  <2>4. ASSUME NEW g \in Pushers, Claims(g, p) PROVE FALSE
    <3>1. p \notin DOMAIN hand[g].todo
      <4>1. g = "worker" => ~hand[g].all /\ DOMAIN hand[g].todo = {}
        BY DEF Selling, Shape
      <4> QED BY <1>0, <2>2, <4>1
    <3>2. Migrates(g, p) => plan[p].price # 0
      BY <2>4 DEF Selling, Alone
    <3> QED BY <2>2, <2>4, <3>1, <3>2 DEF Claims
  <2> HIDE DEF k
  <2> QED BY <1>0, <2>1, <2>2, <2>3, <2>4, TakesUp DEF Live
<1>2. CASE StartDelete(r, p)
  <2> DEFINE k == [Idle EXCEPT !.at = "delete", !.plan = p, !.copy = plan[p]]
  <2>1. DOMAIN k.todo = {} /\ ~k.all /\ k.old = 0 /\ k.at = "delete"
    BY Constants1
  <2>2. hand' = [hand EXCEPT ![r] = k] /\ UNCHANGED <<plan, price, queue>>
    BY <1>2 DEF StartDelete
  <2> HIDE DEF k
  <2> QED BY <1>0, <2>1, <2>2, TakesUp
<1> QED BY <1>1, <1>2

LEMMA AllByHand ==
    ASSUME Orderly, NEW r \in Requests, Typed, Typed', Selling, SyncAll(r)
    PROVE  Selling'
<1> DEFINE t == [p \in {q \in Plans : Live(q)} |-> plan[p]]
           x == [Idle EXCEPT !.at = "next", !.all = TRUE, !.todo = t]
<1>0. r \in Pushers /\ r # "worker"
  BY SyncAssumption DEF Pushers
<1>1. hand' = [hand EXCEPT ![r] = x] /\ UNCHANGED <<plan, price, queue>> /\ Outstanding = {}
      /\ \A h \in Pushers : hand[h].at \in {"idle", "mirror"}
  BY DEF SyncAll, Calm
<1>2. x.at = "next" /\ x.all /\ x.old = 0 /\ x.todo = t
  BY Constants1
<1>3. /\ \A q \in DOMAIN t : q \in Plans /\ plan[q].state = "live" /\ t[q] = plan[q]
  BY DEF Live
<1> HIDE DEF t
<1>4. /\ hand'[r] = x /\ \A g \in Pushers : g # r => hand'[g] = hand[g]
      /\ plan' = plan /\ Grown /\ Keys' /\ Copies'
      /\ \A p : Creating(p)' => Creating(p)
  BY <1>0, <1>1, Turns
<1>5. PICK n : n = hand'[r]
  OBVIOUS
<1>6. /\ n.at = "next" /\ n.all /\ n.old = 0
      /\ \A q \in DOMAIN n.todo : q \in Plans /\ plan[q].state = "live" /\ n.todo[q] = plan[q]
  BY <1>2, <1>3, <1>4, <1>5
<1>7. ~Pulls(r)'
  BY <1>5, <1>6 DEF Pulls
<1>8. Shape(r)'
  BY <1>0, <1>5, <1>6, <1>7 DEF Shape, PlanSteps
<1>9. Sale(r)'
  <2>1. \A q \in DOMAIN n.todo : /\ n.todo[q].state = "live" /\ plan'[q].price = n.todo[q].price
                                 /\ Current(q, n.todo[q].amount)'
    <3> SUFFICES ASSUME NEW q \in DOMAIN n.todo
                 PROVE  n.todo[q].state = "live" /\ plan'[q].price = n.todo[q].price
                        /\ Current(q, n.todo[q].amount)'
      OBVIOUS
    <3>1. Current(q, n.todo[q].amount)
      BY <1>6 DEF Selling, RowOK, Live
    <3> QED BY <1>4, <1>6, <3>1, Grows
  <2> QED BY <1>5, <1>6, <1>7, <2>1 DEF Sale
<1>10. \A g \in Pushers : ~hand[g].all /\ \A p : ~Saves(g, p)
  BY <1>1 DEF Selling, Shape, Saves
<1>11. \A p \in Plans : ~Creating(p)
  BY <1>1 DEF Creating
<1>12. \A p \in Plans : ~Saves(r, p)' /\ ~Migrates(r, p)' /\ (Claims(r, p)' => plan[p].state # "none")
  BY <1>5, <1>6, <1>7 DEF Saves, Migrates, Claims
<1> QED BY <1>0, <1>4, <1>8, <1>9, <1>10, <1>11, <1>12, HandStep

(* The next of the plans a request pushes. *)
LEMMA NextIsPushed ==
    ASSUME NEW r \in Requests, Typed, Typed', Selling, NEW p \in DOMAIN hand[r].todo,
           hand[r].at = "next", NEW n, n = hand'[r],
           \A g \in Pushers : g # r => hand'[g] = hand[g],
           UNCHANGED <<plan, price, queue>>,
           \/ n.at = "next"
           \/ /\ n.plan = p /\ n.copy = hand[r].todo[p]
              /\ n.at = IF n.copy.price = 0 THEN "product" ELSE "update",
           DOMAIN n.todo = DOMAIN hand[r].todo \ {p}, n.all = hand[r].all, n.old = hand[r].old,
           \A q \in DOMAIN n.todo : n.todo[q] = hand[r].todo[q]
    PROVE  Selling'
<1>0. r \in Pushers /\ r # "worker" /\ Requests = Pushers \ {"worker"}
  BY SyncAssumption DEF Pushers
<1>1. PICK k : k = hand[r]
  OBVIOUS
<1>2. Shape(r) /\ Sale(r) /\ \A q \in Plans : Alone(q) /\ RowOK(q)
  BY <1>0 DEF Selling
<1>3. n.old = 0 /\ n.all /\ k.all /\ p \notin DOMAIN n.todo
  BY <1>1, <1>2 DEF Shape
<1>4. Grown /\ Keys' /\ Copies' /\ \A q : Creating(q)' => Creating(q)
  <2>1. KeptEntries
    BY DEF KeptEntries, Outstanding, Pending
  <2> QED BY <2>1, KeptCopies, SamePrices DEF Selling
<1>5. k.todo[p].state = "live" /\ plan[p].price = k.todo[p].price /\ Current(p, k.todo[p].amount)
      /\ p \in Plans /\ Claims(r, p)
  BY <1>0, <1>1, <1>2, FieldsTyped DEF Sale, Claims
<1>6. Pulls(r)' <=> n.at = "update"
  BY <1>0 DEF Pulls
<1>7. n.at # "next" => n.plan = p /\ n.copy.state = "live" /\ n.copy.price = plan[p].price
  BY <1>1, <1>5
<1>8. Shape(r)'
  BY <1>0, <1>3, <1>6, <1>7 DEF Shape, PlanSteps
<1>9. Sale(r)'
  <2>1. n.at = "product" => AllOn(n.plan)'
    <3>1. n.at = "product" => AllOn(n.plan)
      BY <1>2, <1>5, <1>7 DEF RowOK
    <3> QED BY <1>4, <3>1, Grows
  <2>2. n.at = "update" => Current(n.plan, n.copy.amount)' /\ n.copy.price # 0 /\ Owns(n.plan, n.copy.price)'
    <3>1. n.at = "update" => Current(n.plan, n.copy.amount) /\ n.copy.price # 0 /\ Owns(n.plan, n.copy.price)
      BY <1>1, <1>2, <1>5, <1>7 DEF RowOK
    <3> QED BY <1>4, <3>1, Grows
  <2>3. \A q \in DOMAIN n.todo : /\ n.todo[q].state = "live" /\ plan'[q].price = n.todo[q].price
                                 /\ Current(q, n.todo[q].amount)'
    BY <1>1, <1>2, <1>4, Grows DEF Sale
  <2>4. n.at \in {"next", "product", "update"}
    OBVIOUS
  <2> QED BY <1>3, <1>6, <2>1, <2>2, <2>3, <2>4 DEF Sale
<1>10. \A q \in Plans : /\ Claims(r, q)' => Claims(r, q)
                        /\ Migrates(r, q)' => plan[q].price # 0
                        /\ Saves(r, q)' => q = p
  BY <1>1, <1>3, <1>5, <1>6, <1>7 DEF Claims, Migrates, Saves
<1>11. \A g \in Pushers : g # r => ~hand[g].all
  BY <1>0, <1>1, <1>3 DEF Selling, OneHolder
<1>12. \A g \in Pushers : g # r => \A q \in Plans : ~Claims(g, q)
  BY <1>11, ClaimsHold
<1>13. \A q \in Plans : Claims(r, q)' => \A g \in Pushers : g # r => ~Saves(g, q)
  BY <1>0, <1>2, <1>10 DEF Alone
<1>14. \A q \in Plans : Claims(r, q)' =>
         ~Creating(q) /\ plan[q].state # "none" /\ (Migrates(r, q)' => plan[q].price # 0)
  BY <1>0, <1>2, <1>10 DEF Alone
<1> QED BY <1>0, <1>4, <1>8, <1>9, <1>11, <1>12, <1>13, <1>14, HandStep

LEMMA NextSells ==
    ASSUME NEW r \in Requests, Typed, Typed', Selling, NextPlan(r)
    PROVE  Selling'
<1>0. r \in Pushers /\ r # "worker" /\ hand[r] \in HandType
  BY SyncAssumption, FieldsTyped DEF Pushers
<1>1. hand[r].at = "next" /\ UNCHANGED <<plan, price, queue>>
  BY DEF NextPlan
<1>2. ASSUME NEW p \in DOMAIN hand[r].todo, NEW x,
             LET row == hand[r].todo[p]
                 left == [hand[r] EXCEPT !.todo = [q \in DOMAIN hand[r].todo \ {p} |-> hand[r].todo[q]]]
             IN  \/ x = left
                 \/ x = [left EXCEPT !.plan = p, !.copy = row,
                                     !.at = IF row.price = 0 THEN "product" ELSE "update"],
             hand' = [hand EXCEPT ![r] = x]
      PROVE  Selling'
  <2> DEFINE left == [hand[r] EXCEPT !.todo = [q \in DOMAIN hand[r].todo \ {p} |-> hand[r].todo[q]]]
             y == [left EXCEPT !.plan = p, !.copy = hand[r].todo[p],
                               !.at = IF hand[r].todo[p].price = 0 THEN "product" ELSE "update"]
  <2>1. /\ left \in HandType /\ left = [hand[r] EXCEPT !.todo = left.todo]
        /\ DOMAIN left.todo = DOMAIN hand[r].todo \ {p}
        /\ \A q \in DOMAIN left.todo : left.todo[q] = hand[r].todo[q]
    BY <1>0, FewerTodo
  <2>2. x = left \/ x = y
    BY <1>2
  <2>3. left.at = "next" /\ left.all = hand[r].all /\ left.old = hand[r].old
    BY <1>0, <1>1 DEF HandType
  <2>4. /\ y.todo = left.todo /\ y.all = left.all /\ y.old = left.old /\ y.plan = p
        /\ y.copy = hand[r].todo[p] /\ y.at = IF y.copy.price = 0 THEN "product" ELSE "update"
    <3> HIDE DEF left
    <3> QED BY <2>1 DEF HandType
  <2>5. hand'[r] = x /\ \A g \in Pushers : g # r => hand'[g] = hand[g]
    BY <1>0, <1>2 DEF Typed, HandTyped
  <2> HIDE DEF left, y
  <2>6. /\ DOMAIN x.todo = DOMAIN hand[r].todo \ {p} /\ x.all = hand[r].all /\ x.old = hand[r].old
        /\ \A q \in DOMAIN x.todo : x.todo[q] = hand[r].todo[q]
        /\ \/ x.at = "next"
           \/ /\ x.plan = p /\ x.copy = hand[r].todo[p]
              /\ x.at = IF x.copy.price = 0 THEN "product" ELSE "update"
    BY <2>1, <2>2, <2>3, <2>4
  <2> QED BY <1>1, <2>5, <2>6, NextIsPushed
<1>3. ASSUME NEW x \in {Idle, [Idle EXCEPT !.at = "mirror"]}, hand' = [hand EXCEPT ![r] = x]
      PROVE  Selling'
  <2>1. DOMAIN x.todo = {} /\ ~x.all /\ x.old = 0 /\ x.at \in {"idle", "mirror"}
    BY Constants1
  <2> QED BY <1>0, <1>1, <1>3, <2>1, TakesUp
<1> QED BY <1>2, <1>3 DEF NextPlan

-----------------------------------------------------------------------------
(* A step of one hand that changes the row of one plan, but not its price.  *)
LEMMA RowStep ==
    ASSUME Typed, Typed', Selling, NEW M \in SUBSET Pushers, NEW p \in Plans,
           \A g \in Pushers \ M : hand'[g] = hand[g], price' = price,
           \A q \in Plans : q # p => plan'[q] = plan[q],
           plan'[p].price = plan[p].price, plan'[p].state # "none",
           Live(p)' => \/ plan'[p].amount = plan[p].amount /\ Live(p)
                       \/ AllOn(p) /\ \A g \in Pushers : ~Claims(g, p)
                       \/ /\ Current(p, plan'[p].amount) /\ Live(p)
                          /\ \A g \in Pushers : hand[g].old # 0 =>
                                price[hand[g].old].key # <<"migrate", p, plan'[p].amount>>,
           Copies', \A q \in Plans : Creating(q)' =>
              Creating(q) \/ (q = p /\ AllOn(p) /\ \A g \in Pushers : ~Claims(g, p)),
           \A h \in M : hand'[h].at \in {"idle", "reread"} /\ DOMAIN hand'[h].todo = {}
                        /\ ~hand'[h].all /\ hand'[h].old = 0
    PROVE  Selling'
<1>0. \A q \in Plans : Alone(q) /\ RowOK(q)
  BY DEF Selling
<1>1. Keys' /\ Grown
  BY SamePrices
<1>2. \A q \in Plans : RowOK(q)'
  <2>1. RowOK(p)'
    <3>1. Owns(p, plan[p].price) => Owns(p, plan[p].price)'
      BY DEF Owns
    <3>2. (AllOn(p)' <=> AllOn(p)) /\ \A a : Current(p, a)' <=> Current(p, a)
      BY DEF AllOn, Current
    <3>3. PICK row : row = plan'[p]
      OBVIOUS
    <3>4. plan[p].price # 0 => Owns(p, row.price)'
      BY <1>0, <3>3 DEF RowOK, Owns
    <3>5. Live(p)' => Current(p, row.amount)' /\ (row.price # 0 => price'[row.price].on)
      <4> SUFFICES ASSUME Live(p)' PROVE Current(p, row.amount) /\ (row.price # 0 => price[row.price].on)
        BY <3>2
      <4>1. AllOn(p) => \A a : Current(p, a)
        BY DEF AllOn, Current
      <4>2. row.price # 0 => Owns(p, row.price)
        BY <1>0, <3>3 DEF RowOK
      <4>3. AllOn(p) /\ row.price # 0 => price[row.price].on
        BY <4>2 DEF AllOn, Owns
      <4> QED BY <1>0, <3>3, <4>1, <4>3 DEF RowOK
    <3>6. row.price = 0 \/ Creating(p)' => AllOn(p)'
      BY <1>0, <3>2, <3>3 DEF RowOK
    <3> QED BY <3>3, <3>4, <3>5, <3>6 DEF RowOK
  <2>2. ASSUME NEW q \in Plans, q # p PROVE RowOK(q)'
    <3>1. plan'[q] = plan[q] /\ (Creating(q)' => Creating(q)) /\ RowOK(q)
      BY <1>0, <2>2
    <3>2. (AllOn(q)' <=> AllOn(q)) /\ (\A a : Current(q, a)' <=> Current(q, a))
          /\ (\A id : Owns(q, id)' <=> Owns(q, id)) /\ (Live(q)' <=> Live(q))
      BY <3>1 DEF AllOn, Current, Owns, Live
    <3>3. PICK row : row = plan[q]
      OBVIOUS
    <3> QED BY <3>1, <3>2, <3>3 DEF RowOK
  <2> QED BY <2>1, <2>2
<1>3. \A h \in M : ~Pulls(h)' /\ \A q : ~Claims(h, q)' /\ ~Saves(h, q)'
  BY DEF Pulls, Claims, Migrates, Saves
<1>4. \A h \in M : Shape(h)' /\ Sale(h)'
  <2> SUFFICES ASSUME NEW h \in M PROVE Shape(h)' /\ Sale(h)'
    OBVIOUS
  <2>1. Shape(h)'
    BY <1>3 DEF Shape
  <2>2. Sale(h)'
    BY <1>3 DEF Sale
  <2> QED BY <2>1, <2>2
<1>5. \A g \in Pushers \ M : \A q \in Plans : Claims(g, q) =>
              plan'[q].price = plan[q].price /\ plan'[q].state # "none" /\ ~Creating(q)'
  BY <1>0 DEF Alone
<1>6. \A g \in Pushers \ M :
              hand[g].old # 0 /\ hand[g].at \in {"reread", "hook", "retire"} /\ Live(hand[g].plan)' =>
                 price[hand[g].old].key # <<"migrate", hand[g].plan, plan'[hand[g].plan].amount>>
  <2> SUFFICES ASSUME NEW g \in Pushers \ M, NEW q, q = hand[g].plan, hand[g].old # 0,
                      hand[g].at \in {"reread", "hook", "retire"}, plan'[q].state = "live"
               PROVE  price[hand[g].old].key # <<"migrate", q, plan'[q].amount>>
    BY DEF Live
  <2>1. Sale(g) /\ Claims(g, q) /\ q \in Plans
    BY ClaimsHold DEF Selling, Claims, Migrates
  <2> QED BY <2>1 DEF Sale, Live
<1>7. \A h \in M, g \in Pushers : g # h => ~(hand'[h].all /\ hand'[g].all)
  OBVIOUS
<1>8. \A h \in M, g \in Pushers, q \in Plans :
              g # h => ~(Claims(h, q)' /\ Saves(g, q)') /\ ~(Claims(g, q)' /\ Saves(h, q)')
  BY <1>3
<1>9. /\ \A i \in DOMAIN price : i \in DOMAIN price' /\ price'[i].key = price[i].key
      /\ \A i \in DOMAIN price' : ~price'[i].on =>
              i \in DOMAIN price /\ (~price[i].on \/ \E h \in M : Claims(h, price[i].key[2]))
  OBVIOUS
<1>10. \A h \in M, q \in Plans : Claims(h, q)' =>
              ~Creating(q)' /\ plan'[q].state # "none" /\ (Migrates(h, q)' => plan'[q].price # 0)
  BY <1>3
<1> QED BY <1>1, <1>2, <1>4, <1>5, <1>6, <1>7, <1>8, <1>9, <1>10, Step

LEMMA AdminSells ==
    ASSUME Orderly, Typed, Typed', Selling, AdminStep
    PROVE  Selling'
<1>1. ASSUME NEW p \in Plans, NEW a \in NewAmounts, Add(p, a) PROVE Selling'
  <2> DEFINE row == [Blank EXCEPT !.state = "live", !.on = TRUE, !.amount = a]
  <2>1. row \in RowType /\ row.state = "live" /\ row.price = 0
    BY SyncAssumption DEF Blank, RowType
  <2>2. plan' = [plan EXCEPT ![p] = row] /\ plan[p].state = "none"
        /\ (queue' = queue \/ Enqueue("create", p, row)) /\ UNCHANGED <<price, pass, hand>>
    <3>1. plan' = [plan EXCEPT ![p] = row] /\ (queue' = queue \/ Enqueue("create", p, plan'[p]))
          /\ UNCHANGED <<price, pass, hand>> /\ plan[p].state = "none"
      BY <1>1 DEF Add, Hooked
    <3>2. plan'[p] = row
      <4> HIDE DEF row
      <4> QED BY <3>1 DEF Typed
    <3> QED BY <3>1, <3>2
  <2> HIDE DEF row
  <2>3. plan'[p] = row /\ \A q \in Plans : q # p => plan'[q] = plan[q]
    BY <2>2 DEF Typed
  <2>4. plan[p].price = 0 /\ AllOn(p) /\ \A g \in Pushers : ~Claims(g, p)
    BY <2>2 DEF Selling, RowOK, Alone
  <2>5. Copies' /\ \A q : Creating(q)' => Creating(q) \/ q = p
    <3>1. CASE queue' = queue
      BY <3>1 DEF Copies, Selling, Creating, Outstanding, Pending
    <3>2. CASE Enqueue("create", p, row)
      BY <2>1, <2>2, <3>2, EntryAdded
    <3> QED BY <2>2, <3>1, <3>2
  <2>6. {} \in SUBSET Pushers /\ \A g \in Pushers \ {} : hand'[g] = hand[g]
    BY <2>2
  <2> QED BY <2>1, <2>2, <2>3, <2>4, <2>5, <2>6, RowStep
<1>2. ASSUME NEW p \in Plans, NEW r \in Requests, NEW row \in Edited(plan[p]), Edit(r, p, row)
      PROVE  Selling'
  <2> DEFINE k == [Idle EXCEPT !.at = "reread", !.plan = p]
             M == {r}
  <2>1. row.price = plan[p].price /\ row.state = plan[p].state
    BY EditedTyped DEF Typed
  <2>2. k.at = "reread" /\ DOMAIN k.todo = {} /\ ~k.all /\ k.old = 0
    BY Constants1
  <2>3. /\ plan' = [plan EXCEPT ![p] = row] /\ hand' = [hand EXCEPT ![r] = k] /\ Live(p)
        /\ UNCHANGED <<queue, price>>
        /\ row.amount # plan[p].amount => ~Superseded(p, row.amount)
    BY <1>2 DEF Edit, Calm
  <2> HIDE DEF k
  <2>4. plan'[p] = row /\ \A q \in Plans : q # p => plan'[q] = plan[q]
    BY <2>3 DEF Typed
  <2>5. /\ M \in SUBSET Pushers /\ \A g \in Pushers \ M : hand'[g] = hand[g]
        /\ \A h \in M : hand'[h] = k
    BY <2>3 DEF Pushers, Typed, HandTyped
  <2>6. row.amount # plan[p].amount =>
           /\ Current(p, row.amount)
           /\ \A g \in Pushers : hand[g].old # 0 => price[hand[g].old].key # <<"migrate", p, row.amount>>
    <3>1. \A g \in Pushers : hand[g].old # 0 => hand[g].old \in DOMAIN price
      BY DEF Selling, Sale, Owns
    <3> QED BY <2>3, <3>1 DEF Superseded, Current
  <2>7. Copies' /\ \A q : Creating(q)' => Creating(q)
    BY <2>3 DEF Copies, Selling, Creating, Outstanding, Pending
  <2>8. plan'[p].state # "none"
    BY <2>1, <2>3, <2>4 DEF Live
  <2>9. \A h \in M : hand'[h].at \in {"idle", "reread"} /\ DOMAIN hand'[h].todo = {}
                     /\ ~hand'[h].all /\ hand'[h].old = 0
    BY <2>2, <2>5
  <2>10. \/ plan'[p].amount = plan[p].amount /\ Live(p)
         \/ /\ Current(p, plan'[p].amount) /\ Live(p)
            /\ \A g \in Pushers : hand[g].old # 0 =>
                  price[hand[g].old].key # <<"migrate", p, plan'[p].amount>>
    BY <2>3, <2>4, <2>6
  <2>11. plan'[p].price = plan[p].price /\ price' = price
    BY <2>1, <2>3, <2>4
  <2> HIDE DEF M
  <2> QED BY <2>4, <2>5, <2>7, <2>8, <2>9, <2>10, <2>11, RowStep
<1> QED BY <1>1, <1>2, OneByHand DEF AdminStep

LEMMA DeleteSells ==
    ASSUME NEW r \in Requests, Typed, Typed', Selling, Delete(r)
    PROVE  Selling'
<1> DEFINE M == {r}
           old == hand[r].copy
<1>0. r \in Pushers /\ old \in RowType
  BY FieldsTyped DEF Pushers
<1>1. PICK p \in Plans : p = hand[r].plan
  BY <1>0, FieldsTyped DEF Delete, PlanSteps
<1>2. /\ hand' = [hand EXCEPT ![r] = Idle] /\ price' = price /\ pass' = pass
      /\ \/ plan' = plan /\ queue' = queue
         \/ /\ Live(p) /\ plan' = [plan EXCEPT ![p].state = "deleted"]
            /\ queue' = queue \/ Enqueue("archive", p, old)
  BY <1>1 DEF Delete, Hooked
<1> HIDE DEF old
<1>3. Copies' /\ \A q : Creating(q)' => Creating(q)
  <2>1. CASE queue' = queue
    BY <2>1 DEF Copies, Selling, Creating, Outstanding, Pending
  <2>2. CASE Enqueue("archive", p, old)
    BY <1>0, <1>2, <2>2, EntryAdded
  <2> QED BY <1>2, <2>1, <2>2
<1>4. CASE plan' = plan
  <2>1. Ended(r) /\ \A g \in Pushers : g # r => hand'[g] = hand[g]
    BY <1>0, <1>2 DEF Ended, Typed, HandTyped
  <2> QED BY <1>0, <1>2, <1>3, <1>4, <2>1, SamePrices, EndStep
<1>5. CASE Live(p) /\ plan' = [plan EXCEPT ![p].state = "deleted"]
  <2>1. /\ plan'[p].price = plan[p].price /\ plan'[p].state = "deleted"
        /\ \A q \in Plans : q # p => plan'[q] = plan[q]
    BY <1>5 DEF Typed, RowType
  <2>2. /\ M \in SUBSET Pushers /\ \A g \in Pushers \ M : hand'[g] = hand[g]
        /\ \A h \in M : hand'[h] = Idle
    BY <1>0, <1>2 DEF Typed, HandTyped
  <2>3. \A h \in M : hand'[h].at \in {"idle", "reread"} /\ DOMAIN hand'[h].todo = {}
                     /\ ~hand'[h].all /\ hand'[h].old = 0
    BY <2>2, Constants1
  <2>4. ~Live(p)' /\ plan'[p].state # "none"
    BY <2>1 DEF Live
  <2> HIDE DEF M
  <2> QED BY <1>2, <1>3, <2>1, <2>2, <2>3, <2>4, RowStep
<1> QED BY <1>2, <1>4, <1>5

LEMMA CrashSells ==
    ASSUME Typed, Typed', Selling, Crash
    PROVE  Selling'
<1>1. hand' = [h \in Pushers |-> Idle] /\ UNCHANGED <<plan, queue, price>>
  BY DEF Crash
<1>2. \A h \in Pushers : hand'[h].at = "idle" /\ DOMAIN hand'[h].todo = {}
                         /\ ~hand'[h].all /\ hand'[h].old = 0
  BY <1>1, Constants1
<1>3. Keys' /\ Copies' /\ OneHolder'
  BY <1>1, <1>2 DEF Selling, Keys, Copies, OneHolder
<1>4. \A h \in Pushers : ~Pulls(h)' /\ \A p : ~Claims(h, p)'
  BY <1>2 DEF Pulls, Claims, Migrates
<1>5. \A h \in Pushers : Shape(h)' /\ Sale(h)'
  <2> SUFFICES ASSUME NEW h \in Pushers PROVE Shape(h)' /\ Sale(h)'
    OBVIOUS
  <2>1. Shape(h)'
    BY <1>2, <1>4 DEF Shape, PlanSteps
  <2>2. Sale(h)'
    BY <1>2, <1>4 DEF Sale
  <2> QED BY <2>1, <2>2
<1>6. \A p \in Plans : Alone(p)' /\ RowOK(p)'
  <2> SUFFICES ASSUME NEW p \in Plans PROVE Alone(p)' /\ RowOK(p)'
    OBVIOUS
  <2>1. RowOK(p)
    BY DEF Selling
  <2>2. RowOK(p)'
    BY <1>1, <2>1 DEF RowOK, Owns, Live, AllOn, Current, Creating, Outstanding, Pending
  <2>3. Alone(p)'
    BY <1>4 DEF Alone
  <2> QED BY <2>2, <2>3
<1> QED BY <1>3, <1>5, <1>6 DEF Selling

LEMMA StepSells ==
    ASSUME Orderly, Typed, Typed', Selling, [Next]_vars
    PROVE  Selling'
<1>1. CASE UNCHANGED vars
  BY <1>1, SameSelling DEF vars
<1>2. ASSUME NEW r \in Requests, Mirror(r) PROVE Selling'
  <2>1. r \in Pushers /\ r # "worker"
    BY SyncAssumption DEF Pushers
  <2>2. CASE hand' = hand
    BY <1>2, <2>2, SameSelling DEF Mirror
  <2>3. CASE hand' = [hand EXCEPT ![r] = Idle]
    <3>1. DOMAIN Idle.todo = {} /\ ~Idle.all /\ Idle.old = 0 /\ Idle.at = "idle"
      BY Constants1
    <3>2. UNCHANGED <<plan, price, queue>>
      BY <1>2 DEF Mirror
    <3> QED BY <2>1, <2>3, <3>1, <3>2, TakesUp
  <2> QED BY <1>2, <2>2, <2>3 DEF Mirror
<1>3. ASSUME NEW r \in Requests, RequestStep(r) PROVE Selling'
  BY <1>2, <1>3, DeleteSells, NextSells, PushSells DEF RequestStep, Pushers
<1> QED BY <1>1, <1>3, WorkerSells, AdminSells, AllByHand, CrashSells DEF Next

LEMMA InitSells == Init => Selling
<1> SUFFICES ASSUME Init PROVE Selling
  OBVIOUS
<1>1. \A h \in Pushers : hand[h] = Idle
  BY DEF Init
<1>2. \A h \in Pushers : hand[h].at = "idle" /\ DOMAIN hand[h].todo = {}
                         /\ ~hand[h].all /\ hand[h].old = 0
  BY <1>1, Constants1
<1>3. OneHolder /\ Copies /\ \A p : ~Creating(p)
  BY <1>2 DEF Init, OneHolder, Copies, Creating, Outstanding
<1>4. \A h \in Pushers : ~Pulls(h) /\ \A p : ~Claims(h, p)
  BY <1>2 DEF Pulls, Claims, Migrates
<1>5. \A h \in Pushers : Shape(h) /\ Sale(h)
  BY <1>2, <1>4 DEF Shape, Sale, PlanSteps
<1>6. CASE plan = [p \in Plans |-> Blank] /\ price = <<>>
  <2>1. Keys /\ \A p : AllOn(p) /\ \A a : Current(p, a)
    BY <1>6 DEF Keys, AllOn, Current
  <2>2. \A p \in Plans : RowOK(p)
    BY <1>6, <2>1, Constants1 DEF RowOK, Live
  <2> QED BY <1>3, <1>4, <1>5, <2>1, <2>2 DEF Selling, Alone
<1>7. ASSUME NEW p \in Plans, NEW a \in NewAmounts,
             plan = [q \in Plans |-> IF q # p THEN Blank ELSE
                    [state |-> "live", rev |-> 0, on |-> TRUE, amount |-> a, product |-> 1, price |-> 1]],
             price = <<[key |-> <<"create", p, 0>>, asked |-> a, on |-> TRUE]>>
      PROVE  Selling
  <2>1. DOMAIN price = {1} /\ price[1].on /\ price[1].key = <<"create", p, 0>> /\ price[1].key[2] = p
    BY <1>7
  <2>2. Keys /\ \A q : AllOn(q) /\ \A b : Current(q, b)
    BY <2>1 DEF Keys, AllOn, Current
  <2>3. \A q \in Plans : RowOK(q)
    <3>1. RowOK(p)
      <4>1. plan[p].price = 1 /\ plan[p].state = "live"
        BY <1>7
      <4> QED BY <2>1, <2>2, <4>1 DEF RowOK, Owns
    <3>2. \A q \in Plans : q # p => plan[q] = Blank
      BY <1>7
    <3>3. \A q \in Plans : q # p => RowOK(q)
      BY <2>2, <3>2, Constants1 DEF RowOK, Live
    <3> QED BY <3>1, <3>3
  <2> QED BY <1>3, <1>4, <1>5, <2>2, <2>3 DEF Selling, Alone
<1> QED BY <1>6, <1>7 DEF Init

(***************************************************************************)
(* On the orderly schedules, whatever call is refused or loses its answer,  *)
(* whatever is edited, withdrawn or deleted meanwhile and whenever the      *)
(* server stops, the price of a live plan is active at Stripe.              *)
(***************************************************************************)
THEOREM LivePlansAreForSale == ASSUME Orderly PROVE Spec => []AlwaysPurchasable
<1>1. Typed /\ Selling /\ [Next]_vars => (Typed /\ Selling)'
  BY StepTyped, StepSells
<1>2. Init => Typed /\ Selling
  BY InitTyped, InitSells
<1>3. Selling => AlwaysPurchasable
  BY DEF Selling, RowOK, AlwaysPurchasable
<1> QED BY <1>1, <1>2, <1>3, PTL DEF Spec

-----------------------------------------------------------------------------
(***************************************************************************)
(* The mirror.  A plan is settled when its last change was told by its      *)
(* newest entry and no hook that would tell it is still to come: the newest *)
(* entry then says what the row says, and if it reached Stripe last the     *)
(* product shows it.  The requests keep out of each other's way: what is    *)
(* pushed as part of all the plans is neither changed nor deleted until it  *)
(* is sent.                                                                *)
(***************************************************************************)
Sells(p, id) == id \in DOMAIN product /\ product[id].plan = p

Deletes(h, p) == hand[h].at = "delete" /\ hand[h].plan = p
Pushes(h, p) ==
    h # "worker" /\ (p \in DOMAIN hand[h].todo \/ (hand[h].at = "update" /\ hand[h].plan = p))
Will(h, p) ==
    /\ Hooks(h, p)
    /\ \/ hand[h].at = "reread"
       \/ hand[h].copy.product # 0 /\ Tells("update", hand[h].copy, plan[p])
Settled(p) == p \notin lost /\ (~Live(p) \/ \A h \in Pushers : ~Will(h, p))

Roles(p) ==
    /\ \A h \in Pushers : Pushes(h, p) =>
          Live(p) /\ \A g \in Pushers : ~Deletes(g, p)
    /\ \A g, h \in Pushers : Deletes(g, p) /\ Deletes(h, p) => g = h

Entries ==
    \A i \in DOMAIN queue :
        /\ queue[i].copy.product # 0 => Sells(queue[i].plan, queue[i].copy.product)
        /\ queue[i].op # "create" => queue[i].copy.product # 0

Carries(h) ==
    LET k == hand[h]
    IN  /\ k.at \in PlanSteps /\ k.copy.product # 0 => Sells(k.plan, k.copy.product)
        /\ h = "worker" /\ k.at \in {"update", "archive"} =>
              /\ k.entry \in DOMAIN queue /\ k.copy = queue[k.entry].copy
              /\ k.plan = queue[k.entry].plan /\ k.at = queue[k.entry].op
        /\ \A q \in DOMAIN k.todo : k.todo[q] = plan[q]
        /\ h # "worker" /\ k.at = "update" => k.copy = plan[k.plan]
        /\ k.at = "delete" => plan[k.plan].state # "none"
        /\ k.at = "delete" /\ Live(k.plan) => k.copy.product = plan[k.plan].product

Top(p) ==
    \/ Newest(p) = 0 /\ \A i \in DOMAIN queue : queue[i].plan # p
    \/ /\ Newest(p) \in DOMAIN queue /\ queue[Newest(p)].plan = p
       /\ \A i \in DOMAIN queue : queue[i].plan = p => i <= Newest(p)

Says(p) ==
    LET e == queue[Newest(p)]
    IN  IF Live(p) THEN e.op = "update" /\ e.copy.rev = plan[p].rev /\ e.copy.on = plan[p].on
        ELSE e.op = "archive"

Shows(p) ==
    LET shown == product[plan[p].product]
    IN  shown.on = (Live(p) /\ plan[p].on) /\ (Live(p) => shown.rev = plan[p].rev)

Fits(p) ==
    /\ Top(p) /\ (applied[p] = 0 \/ applied[p] \in DOMAIN queue)
    /\ plan[p].product # 0 =>
          /\ Sells(p, plan[p].product)
          /\ Settled(p) /\ Newest(p) # 0 => Says(p)
          /\ Settled(p) /\ applied[p] = Newest(p) => Shows(p)

Mirroring ==
    /\ Entries /\ \A h \in Pushers : Carries(h)
    /\ \A p \in Plans : Roles(p) /\ Fits(p)

-----------------------------------------------------------------------------
(* Entries that keep their plan and what they push, and perhaps one more. *)
Lasting ==
    \A i \in DOMAIN queue : /\ i \in DOMAIN queue'
                            /\ queue'[i].op = queue[i].op /\ queue'[i].plan = queue[i].plan
                            /\ queue'[i].copy = queue[i].copy

Mine(p) == {i \in DOMAIN queue : queue[i].plan = p}
Last(S) == IF S = {} THEN 0 ELSE CHOOSE i \in S : \A j \in S : j <= i

LEMMA NewestIs == \A p : Newest(p) = Last(Mine(p))
BY DEF Newest, Last, Mine

LEMMA NewestSame ==
    ASSUME NEW p, Lasting, \A i \in DOMAIN queue' : i \in DOMAIN queue \/ queue'[i].plan # p
    PROVE  Newest(p)' = Newest(p) /\ (Top(p) => Top(p)')
<1>1. Mine(p)' = Mine(p)
  BY DEF Mine, Lasting
<1>2. Newest(p)' = Last(Mine(p)')
  BY DEF Newest, Last, Mine
<1>5. Newest(p)' = Newest(p)
  BY <1>1, <1>2, NewestIs
<1>6. Top(p) => Top(p)'
  BY <1>5 DEF Top, Lasting
<1> QED BY <1>5, <1>6

LEMMA NewestNew ==
    ASSUME NEW p, NEW x \in DOMAIN queue', queue'[x].plan = p,
           \A i \in DOMAIN queue' : i \in Nat /\ i <= x
    PROVE  Newest(p)' = x /\ Top(p)'
<1>1. PICK m : m = {i \in DOMAIN queue' : queue'[i].plan = p}
  OBVIOUS
<1>2. x \in m /\ \A j \in m : j \in Nat /\ j <= x
  BY <1>1
<1>3. Newest(p)' = CHOOSE i \in m : \A j \in m : j <= i
  <2>1. Newest(p)' = Last(Mine(p)')
    BY DEF Newest, Last, Mine
  <2>2. Newest(p)' = Last(m)
    BY <1>1, <2>1 DEF Mine
  <2> QED BY <1>2, <2>2 DEF Last
<1>4. Newest(p)' \in m /\ \A j \in m : j <= Newest(p)'
  BY <1>2, <1>3
<1>5. Newest(p)' = x
  BY <1>2, <1>4
<1> QED BY <1>1, <1>4, <1>5 DEF Top

LEMMA SellsKept ==
    ASSUME Typed, Next
    PROVE  \A p, id : Sells(p, id) => Sells(p, id)'
<1>1. ASSUME DOMAIN product' = DOMAIN product,
             \A i \in DOMAIN product : product'[i].plan = product[i].plan
      PROVE  \A p, id : Sells(p, id) => Sells(p, id)'
  BY <1>1 DEF Sells
<1>2. ASSUME NEW x \in ProductType, product' = Append(product, x)
      PROVE  \A p, id : Sells(p, id) => Sells(p, id)'
  BY <1>2, Appended DEF Typed, Sells
<1> QED BY <1>1, <1>2, ProductSteps

LEMMA SellsOne ==
    ASSUME OneEach, NEW p, NEW i, NEW j, Sells(p, i), Sells(p, j)
    PROVE  i = j
BY DEF OneEach, Sells

(* What a step that moves one hand does not settle. *)
LEMMA Unsettling ==
    ASSUME NEW h \in Pushers, \A g \in Pushers : g # h => hand'[g] = hand[g], NEW p \in Plans,
           plan'[p] = plan[p], p \in lost => p \in lost', Will(h, p) => Will(h, p)'
    PROVE  Settled(p)' => Settled(p)
<1>1. \A g \in Pushers : Will(g, p) => Will(g, p)'
  <2> SUFFICES ASSUME NEW g \in Pushers, g # h, Will(g, p) PROVE Will(g, p)'
    OBVIOUS
  <2>1. hand'[g] = hand[g]
    OBVIOUS
  <2> QED BY <2>1 DEF Will, Hooks, Tells
<1> QED BY <1>1 DEF Settled, Live

(* A plan of which nothing changes but the hands. *)
LEMMA RowStays ==
    ASSUME Typed, Next, NEW p \in Plans, Fits(p), plan'[p] = plan[p], applied'[p] = applied[p],
           Lasting, \A i \in DOMAIN queue' : i \in DOMAIN queue \/ queue'[i].plan # p,
           Settled(p)' => Settled(p) \/ plan[p].product = 0,
           Sells(p, plan[p].product) => product'[plan[p].product] = product[plan[p].product]
    PROVE  Fits(p)'
<1>1. Newest(p)' = Newest(p) /\ Top(p)'
  BY NewestSame DEF Fits
<1>2. applied'[p] = 0 \/ applied'[p] \in DOMAIN queue'
  BY DEF Fits, Lasting
<1>3. Live(p)' <=> Live(p)
  BY DEF Live
<1>4. ASSUME plan'[p].product # 0
      PROVE  /\ Sells(p, plan[p].product)'
             /\ Settled(p)' /\ Newest(p)' # 0 => Says(p)'
             /\ Settled(p)' /\ applied'[p] = Newest(p)' => Shows(p)'
  <2>0. PICK id : id = plan[p].product
    OBVIOUS
  <2>1. Sells(p, id) /\ Sells(p, id)'
    BY <1>4, <2>0, SellsKept DEF Fits
  <2>2. Newest(p) # 0 => Newest(p) \in DOMAIN queue
    BY DEF Fits, Top
  <2>3. Settled(p)' /\ Newest(p)' # 0 => Says(p)'
    <3> SUFFICES ASSUME Settled(p)', Newest(p)' # 0 PROVE Says(p)'
      OBVIOUS
    <3>1. Says(p)
      BY <1>1, <1>4 DEF Fits
    <3> QED BY <1>1, <1>3, <2>2, <3>1 DEF Says, Lasting
  <2>4. Settled(p)' /\ applied'[p] = Newest(p)' => Shows(p)'
    <3> SUFFICES ASSUME Settled(p)', applied'[p] = Newest(p)' PROVE Shows(p)'
      OBVIOUS
    <3>1. Shows(p)
      BY <1>1, <1>4 DEF Fits
    <3> QED BY <1>3, <2>0, <2>1, <3>1 DEF Shows
  <2>5. Sells(p, plan[p].product)'
    BY <2>0, <2>1
  <2> QED BY <2>3, <2>4, <2>5
<1> QED BY <1>1, <1>2, <1>4 DEF Fits

-----------------------------------------------------------------------------
LEMMA EntriesStay ==
    ASSUME Typed, Next, Entries, Lasting,
           \A i \in DOMAIN queue' : i \notin DOMAIN queue =>
              /\ queue'[i].copy.product # 0 => Sells(queue'[i].plan, queue'[i].copy.product)
              /\ queue'[i].op # "create" => queue'[i].copy.product # 0
    PROVE  Entries'
<1>1. ASSUME NEW i \in DOMAIN queue', NEW e, e = queue'[i]
      PROVE  (e.copy.product # 0 => Sells(e.plan, e.copy.product)') /\ (e.op # "create" => e.copy.product # 0)
  <2>1. (e.copy.product # 0 => Sells(e.plan, e.copy.product)) /\ (e.op # "create" => e.copy.product # 0)
    BY <1>1 DEF Entries, Lasting
  <2> QED BY <2>1, SellsKept
<1>2. \A i \in DOMAIN queue' :
         /\ queue'[i].copy.product # 0 => Sells(queue[i].plan, queue[i].copy.product)'
         /\ queue'[i].op # "create" => queue'[i].copy.product # 0
  <2> SUFFICES ASSUME NEW i \in DOMAIN queue'
               PROVE  /\ queue'[i].copy.product # 0 => Sells(queue[i].plan, queue[i].copy.product)'
                      /\ queue'[i].op # "create" => queue'[i].copy.product # 0
    OBVIOUS
  <2>1. PICK e : e = queue'[i]
    OBVIOUS
  <2> QED BY <1>1, <2>1
<1> QED BY <1>2 DEF Entries

(* What a hand that does not move carries. *)
LEMMA CarriesOn ==
    ASSUME Typed, Next, NEW g \in Pushers, Carries(g), hand'[g] = hand[g], Lasting,
           \A q \in Plans : \/ plan'[q] = plan[q]
                            \/ /\ q \notin DOMAIN hand[g].todo /\ ~Pushes(g, q) /\ plan'[q].state # "none"
                               /\ Deletes(g, q) /\ Live(q)' =>
                                     Live(q) /\ plan'[q].product = plan[q].product
    PROVE  Carries(g)'
<1>1. PICK k : k = hand[g]
  OBVIOUS
<1>2. /\ k.at \in PlanSteps => k.plan \in Plans
      /\ \A q \in DOMAIN k.todo : q \in Plans
  BY <1>1, FieldsTyped
<1>3. k.at \in PlanSteps /\ k.copy.product # 0 => Sells(k.plan, k.copy.product)'
  BY <1>1, SellsKept DEF Carries
<1>4. g = "worker" /\ k.at \in {"update", "archive"} =>
         /\ k.entry \in DOMAIN queue' /\ k.copy = queue'[k.entry].copy
         /\ k.plan = queue'[k.entry].plan /\ k.at = queue'[k.entry].op
  BY <1>1 DEF Carries, Lasting
<1>5. \A q \in DOMAIN k.todo : k.todo[q] = plan'[q]
  BY <1>1, <1>2 DEF Carries
<1>6. g # "worker" /\ k.at = "update" => k.copy = plan'[k.plan]
  BY <1>1, <1>2 DEF Carries, Pushes, PlanSteps
<1>7. k.at = "delete" => plan'[k.plan].state # "none"
  BY <1>1, <1>2 DEF Carries, PlanSteps
<1>8. k.at = "delete" /\ plan'[k.plan].state = "live" => k.copy.product = plan'[k.plan].product
  BY <1>1, <1>2 DEF Carries, Deletes, Live, PlanSteps
<1> QED BY <1>1, <1>3, <1>4, <1>5, <1>6, <1>7, <1>8 DEF Carries, Live

LEMMA RolesStep ==
    ASSUME NEW h \in Pushers, \A g \in Pushers : g # h => hand'[g] = hand[g], NEW p \in Plans, Roles(p),
           Live(p) /\ ~Live(p)' => \E g \in Pushers : Deletes(g, p),
           Pushes(h, p)' => /\ Live(p)' /\ ~Deletes(h, p)'
                            /\ Pushes(h, p) \/ \A g \in Pushers : g # h => ~Deletes(g, p),
           Deletes(h, p)' => \A g \in Pushers : g # h => ~Pushes(g, p) /\ ~Deletes(g, p)
    PROVE  Roles(p)'
<1>1. \A g \in Pushers : g # h =>
         /\ Deletes(g, p)' <=> Deletes(g, p)
         /\ Pushes(g, p)' <=> Pushes(g, p)
  BY DEF Deletes, Pushes
<1>2. ASSUME NEW x \in Pushers, Pushes(x, p)'
      PROVE  Live(p)' /\ \A g \in Pushers : ~Deletes(g, p)'
  <2>1. CASE x = h
    BY <1>1, <1>2, <2>1 DEF Roles
  <2>2. CASE x # h
    <3>1. Pushes(x, p)
      BY <1>1, <1>2, <2>2
    <3>2. Live(p)' /\ \A g \in Pushers : ~Deletes(g, p)
      BY <3>1 DEF Roles
    <3> QED BY <1>1, <2>2, <3>1, <3>2
  <2> QED BY <2>1, <2>2
<1>3. \A g, x \in Pushers : Deletes(g, p)' /\ Deletes(x, p)' => g = x
  <2> SUFFICES ASSUME NEW g \in Pushers, NEW x \in Pushers, Deletes(g, p)', Deletes(x, p)', g # x
               PROVE  FALSE
    OBVIOUS
  <2>1. CASE g # h /\ x # h
    BY <1>1, <2>1 DEF Roles
  <2>2. CASE g = h \/ x = h
    BY <1>1, <2>2
  <2> QED BY <2>1, <2>2
<1> QED BY <1>2, <1>3 DEF Roles

(* A step of one hand that changes neither rows nor what is queued. *)
LEMMA PlainStep ==
    ASSUME NEW h \in Pushers, Typed, Next, Mirroring, \A g \in Pushers : g # h => hand'[g] = hand[g],
           UNCHANGED <<plan, applied, lost>>, Lasting, DOMAIN queue' = DOMAIN queue,
           \A i \in DOMAIN product : product'[i] = product[i],
           Carries(h)', \A p : ~Hooks(h, p), \A p \in Plans : Roles(p)'
    PROVE  Mirroring'
<1>1. Entries'
  BY EntriesStay DEF Mirroring
<1>2. \A g \in Pushers : Carries(g)'
  BY CarriesOn DEF Mirroring
<1>3. ASSUME NEW p \in Plans PROVE Fits(p)'
  <2>2. Settled(p)' => Settled(p)
    BY Unsettling DEF Will
  <2>3. Sells(p, plan[p].product) => product'[plan[p].product] = product[plan[p].product]
    BY DEF Sells
  <2> QED BY <2>2, <2>3, RowStays DEF Mirroring
<1> QED BY <1>1, <1>2, <1>3 DEF Mirroring

(* A push that ends, or goes on with the same plan, but neither with a hook  *)
(* nor with a call that shows the plan.                                    *)
LEMMA QuietStep ==
    ASSUME NEW h \in Pushers, NEW n, n = hand'[h], Typed, Next, Mirroring, \A g \in Pushers : g # h => hand'[g] = hand[g],
           UNCHANGED <<plan, applied, lost>>, Lasting, DOMAIN queue' = DOMAIN queue,
           \A i \in DOMAIN product : product'[i] = product[i], hand[h].at \notin {"reread", "hook"},
           n.at \notin {"reread", "hook", "delete", "update", "archive"},
           \A p \in DOMAIN n.todo : p \in DOMAIN hand[h].todo /\ n.todo[p] = hand[h].todo[p],
           n.at \in PlanSteps => n.copy.product = 0 \/ Sells(n.plan, n.copy.product)'
    PROVE  Mirroring'
<1>1. \A p : ~Hooks(h, p) /\ ~Hooks(h, p)' /\ ~Deletes(h, p)' /\ (Pushes(h, p)' => Pushes(h, p))
  BY DEF Hooks, Deletes, Pushes
<1>2. ASSUME NEW p \in Plans PROVE Roles(p)'
  <2>1. Roles(p) /\ (Live(p)' <=> Live(p))
    BY DEF Mirroring, Live
  <2>2. Pushes(h, p)' => Live(p)
    BY <1>1, <2>1 DEF Roles
  <2> QED BY <1>1, <2>1, <2>2, RolesStep
<1>3. Carries(h)'
  <2>1. \A q \in DOMAIN hand'[h].todo : hand'[h].todo[q] = plan'[q]
    BY DEF Mirroring, Carries
  <2> QED BY <2>1 DEF Carries
<1> QED BY <1>1, <1>2, <1>3, PlainStep

-----------------------------------------------------------------------------
SameProducts == \A i \in DOMAIN product : product'[i] = product[i]

LEMMA EndsQuietly ==
    ASSUME NEW h \in Pushers, Typed, Selling, Next, Mirroring, Ended(h),
           \A g \in Pushers : g # h => hand'[g] = hand[g],
           UNCHANGED <<plan, applied, lost>>, Lasting, DOMAIN queue' = DOMAIN queue, SameProducts,
           hand[h].at \notin {"reread", "hook"}
    PROVE  Mirroring'
<1>1. PICK n : n = hand'[h]
  OBVIOUS
<1>2. \A p \in DOMAIN n.todo : p \in DOMAIN hand[h].todo /\ n.todo[p] = hand[h].todo[p]
  BY <1>1, Ends
<1>3. n.at \in {"idle", "next", "mark"}
  <2>1. Idle.at = "idle" /\ Rest(h).at \in {"idle", "next"}
    BY Constants1, RestTyped, FieldsTyped
  <2>2. [hand[h] EXCEPT !.at = "mark"].at = "mark"
    BY FieldsTyped DEF HandType
  <2> QED BY <1>1, <2>1, <2>2 DEF Ended
<1> QED BY <1>1, <1>2, <1>3, QuietStep DEF PlanSteps, SameProducts

LEMMA FailsQuietly ==
    ASSUME NEW h \in Pushers, Typed, Selling, Next, Mirroring, Fail(h), Busy(h),
           UNCHANGED <<plan, applied, lost>>, SameProducts, hand[h].at \notin {"reread", "hook"}
    PROVE  Mirroring'
<1>1. Ended(h) /\ \A g \in Pushers : g # h => hand'[g] = hand[g]
  BY FailEnds
<1>2. DOMAIN queue' = DOMAIN queue
      /\ \A i \in DOMAIN queue : /\ queue'[i].op = queue[i].op /\ queue'[i].plan = queue[i].plan
                                 /\ queue'[i].copy = queue[i].copy
  <2>1. h = "worker" => hand[h].entry \in pass
    BY DEF Typed
  <2> QED BY <2>1, FieldsTyped, FailTyped
<1> QED BY <1>1, <1>2, EndsQuietly DEF Lasting

LEMMA GoesOn ==
    ASSUME NEW h \in Pushers, NEW k, Typed, Go(h, k)
    PROVE  /\ hand'[h] = k /\ \A g \in Pushers : g # h => hand'[g] = hand[g]
           /\ Lasting /\ DOMAIN queue' = DOMAIN queue
BY DEF Go, Typed, HandTyped, Lasting

LEMMA SucceedsQuietly ==
    ASSUME NEW h \in Pushers, Typed, Selling, Next, Mirroring, Go(h, Succeeded(h)),
           UNCHANGED <<plan, applied, lost>>, SameProducts, hand[h].at \notin {"reread", "hook"}
    PROVE  Mirroring'
BY GoesOn, SucceededEnds, EndsQuietly

LEMMA ProductCallMirrors ==
    ASSUME NEW h \in Pushers, Typed, Typed', OneEach', Selling, Next, Mirroring, CallProduct(h)
    PROVE  Mirroring'
<1> DEFINE k == hand[h]
           id == Made(product, ProductKey(k), k.copy.rev)
           x == [key |-> ProductKey(k), plan |-> k.plan, asked |-> k.copy.rev,
                 rev |-> k.copy.rev, on |-> TRUE]
           step == [k EXCEPT !.at = "price", !.copy.product = id]
<1>1. /\ k.at = "product" /\ Busy(h) /\ UNCHANGED <<plan, applied, lost>> /\ product \in Seq(ProductType)
      /\ product' = IF id > Len(product) THEN Append(product, x) ELSE product
      /\ k \in HandType /\ k.copy \in RowType /\ k.plan \in Plans
  BY FieldsTyped DEF CallProduct, Busy, Typed, PlanSteps
<1>2. x \in ProductType
  BY <1>1 DEF ProductType, ProductKey, RowType
<1>3. /\ Len(product) \in Nat /\ DOMAIN product = 1 .. Len(product)
      /\ \A i \in DOMAIN product : Append(product, x)[i] = product[i]
      /\ DOMAIN Append(product, x) = (DOMAIN product) \cup {Len(product) + 1}
      /\ Append(product, x)[Len(product) + 1] = x
  <2> HIDE DEF x
  <2> QED BY <1>1, <1>2, Appended
<1>4. SameProducts
  <2> HIDE DEF x, id
  <2> QED BY <1>1, <1>3 DEF SameProducts
<1>5. CASE Fail(h)
  BY <1>1, <1>4, <1>5, FailsQuietly
<1>6. CASE id # 0 /\ Go(h, step)
  <2>1. /\ step.at = "price" /\ step.plan = k.plan /\ step.todo = k.todo
        /\ step.copy.product = id
    <3> HIDE DEF id
    <3> QED BY <1>1 DEF HandType, RowType
  <2>2. id \in DOMAIN product' /\ product'[id].key = <<k.plan>>
    <3>1. \/ id = Len(product) + 1
          \/ id \in DOMAIN product /\ product[id].key = ProductKey(k)
      BY <1>1, <1>6, MadeIs
    <3>2. x.key = ProductKey(k)
      OBVIOUS
    <3> HIDE DEF x, id
    <3>3. CASE id = Len(product) + 1
      <4>0. id > Len(product)
        BY <1>3, <3>3
      <4>1. product' = Append(product, x)
        BY <1>1, <4>0
      <4> QED BY <1>3, <3>2, <3>3, <4>1 DEF ProductKey
    <3>4. CASE id \in DOMAIN product /\ product[id].key = ProductKey(k)
      <4>0. ~(id > Len(product))
        <5>1. id \in 1 .. Len(product) /\ Len(product) \in Nat
          BY <1>3, <3>4
        <5> QED BY <5>1
      <4>1. product' = product
        BY <1>1, <4>0
      <4> QED BY <3>4, <4>1 DEF ProductKey
    <3> QED BY <3>1, <3>3, <3>4
  <2>3. PICK n : n = step
    OBVIOUS
  <2>4. /\ hand'[h] = n /\ \A g \in Pushers : g # h => hand'[g] = hand[g]
        /\ Lasting /\ DOMAIN queue' = DOMAIN queue
    <3> HIDE DEF step
    <3> QED BY <1>6, <2>3, GoesOn
  <2> HIDE DEF id, step
  <2>5. n.at = "price" /\ n.plan = k.plan /\ n.todo = k.todo
        /\ n.copy.product \in DOMAIN product' /\ product'[n.copy.product].key = <<n.plan>>
    BY <2>1, <2>2, <2>3
  <2>6. Sells(n.plan, n.copy.product)'
    BY <2>5 DEF OneEach, Sells
  <2> QED BY <1>1, <1>4, <2>4, <2>5, <2>6, QuietStep DEF SameProducts
<1> QED BY <1>5, <1>6 DEF CallProduct, Answered

LEMMA PriceCallMirrors ==
    ASSUME NEW h \in Pushers, Typed, Selling, Next, Mirroring, CallPrice(h)
    PROVE  Mirroring'
<1> DEFINE k == hand[h]
           id == Made(price, PriceKey(k), k.copy.amount)
           step == [k EXCEPT !.at = "save", !.old = k.copy.price, !.copy.price = id]
<1>1. /\ k.at \in {"price", "drift"} /\ Busy(h) /\ UNCHANGED <<plan, product, applied, lost>>
      /\ k \in HandType /\ k.copy \in RowType
  BY FieldsTyped DEF CallPrice, Busy
<1>2. SameProducts
  BY <1>1 DEF SameProducts
<1>3. CASE Fail(h)
  BY <1>1, <1>2, <1>3, FailsQuietly
<1>4. CASE Go(h, step)
  <2>1. step.at = "save" /\ step.plan = k.plan /\ step.todo = k.todo /\ step.copy.product = k.copy.product
    <3> HIDE DEF id
    <3> QED BY <1>1 DEF HandType, RowType
  <2> HIDE DEF step
  <2>2. PICK n : n = step
    OBVIOUS
  <2>3. /\ hand'[h] = n /\ \A g \in Pushers : g # h => hand'[g] = hand[g]
        /\ Lasting /\ DOMAIN queue' = DOMAIN queue
    BY <1>4, <2>2, GoesOn
  <2>4. n.copy.product = 0 \/ Sells(n.plan, n.copy.product)
    BY <1>1, <2>1, <2>2 DEF Mirroring, Carries, PlanSteps
  <2>5. n.copy.product = 0 \/ Sells(n.plan, n.copy.product)'
    BY <2>4, SellsKept
  <2> QED BY <1>1, <1>2, <2>1, <2>2, <2>3, <2>5, QuietStep DEF SameProducts
<1> QED BY <1>3, <1>4 DEF CallPrice, Answered

LEMMA LightMirrors ==
    ASSUME NEW h \in Pushers, Typed, Selling, Next, Mirroring, Refused(h) \/ NoDrift(h) \/ Retire(h)
    PROVE  Mirroring'
<1>1. UNCHANGED <<plan, product, applied, lost>> /\ Busy(h) /\ hand[h].at \notin {"reread", "hook"}
  BY DEF Refused, NoDrift, Retire, Busy
<1>2. SameProducts
  BY <1>1 DEF SameProducts
<1> QED BY <1>1, <1>2, FailsQuietly, SucceedsQuietly DEF Refused, NoDrift, Retire

-----------------------------------------------------------------------------
(* One entry more. *)
LEMMA OneMore ==
    ASSUME Typed, Typed', NEW op \in {"create", "update", "archive"}, NEW p \in Plans, NEW r \in RowType,
           Enqueue(op, p, r), pass' = pass
    PROVE  /\ Lasting /\ \A q : q # p => \A i \in DOMAIN queue' : i \in DOMAIN queue \/ queue'[i].plan # q
           /\ Newest(p)' \in DOMAIN queue' /\ Newest(p)' \notin DOMAIN queue /\ Newest(p)' # 0 /\ Top(p)'
           /\ \A i \in DOMAIN queue' : i \notin DOMAIN queue => i = Newest(p)'
           /\ queue'[Newest(p)'] = [op |-> op, plan |-> p, copy |-> r, tries |-> 0, state |-> "pending"]
<1> DEFINE e == [op |-> op, plan |-> p, copy |-> r, tries |-> 0, state |-> "pending"]
           x == Len(queue) + 1
<1>1. /\ (DOMAIN queue)' = (DOMAIN queue) \cup {x} /\ x \notin DOMAIN queue
      /\ \A i \in DOMAIN queue : queue'[i] = queue[i]
      /\ queue'[x] = e
  BY Enqueued DEF Typed, QueueTyped
<1>2. e.plan = p
  OBVIOUS
<1>3. DOMAIN queue = 1 .. Len(queue) /\ Len(queue) \in Nat
  BY LenProperties DEF Typed
<1>4. \A i \in DOMAIN queue' : i \in Nat /\ i <= x
  BY <1>1, <1>3
<1> HIDE DEF e, x
<1>5. Newest(p)' = x /\ Top(p)'
  BY <1>1, <1>2, <1>4, NewestNew
<1>6. x # 0
  BY <1>3 DEF x
<1> QED BY <1>1, <1>2, <1>5, <1>6 DEF Lasting, e

(* The row is read for the hook: if that fails, nothing tells it for now. *)
LEMMA RereadMirrors ==
    ASSUME NEW h \in Pushers, Typed, Typed', Selling, Next, Mirroring, Reread(h)
    PROVE  Mirroring'
<1> DEFINE k == hand[h]
           fresh == [k EXCEPT !.at = "hook", !.copy = plan[k.plan]]
           same == [k EXCEPT !.at = "hook"]
<1>1. /\ k.at = "reread" /\ k \in HandType /\ k.copy \in RowType /\ k.plan \in Plans
      /\ UNCHANGED <<plan, product, applied>>
      /\ \/ Live(k.plan) /\ lost' = lost /\ Go(h, fresh)
         \/ lost' = (IF Live(k.plan) THEN lost \cup {k.plan} ELSE lost) /\ Go(h, same)
  BY FieldsTyped DEF Reread, PlanSteps
<1>2. PICK p \in Plans : p = k.plan
  BY <1>1
<1>3. fresh.at = "hook" /\ fresh.plan = p /\ fresh.todo = k.todo /\ fresh.copy = plan[p]
      /\ same.at = "hook" /\ same.plan = p /\ same.todo = k.todo /\ same.copy = k.copy
  BY <1>1, <1>2 DEF HandType
<1> HIDE DEF fresh, same
<1>4. PICK n : /\ Go(h, n) /\ n.at = "hook" /\ n.plan = p /\ n.todo = k.todo
               /\ \/ n.copy = plan[p] /\ Live(p) /\ lost' = lost
                  \/ n.copy = k.copy /\ lost' = IF Live(p) THEN lost \cup {p} ELSE lost
  BY <1>1, <1>2, <1>3
<1>5. /\ hand'[h] = n /\ \A g \in Pushers : g # h => hand'[g] = hand[g]
      /\ Lasting /\ DOMAIN queue' = DOMAIN queue
  BY <1>4, GoesOn
<1>6. Carries(h) /\ Entries /\ \A q \in Plans : Roles(q) /\ Fits(q)
  BY DEF Mirroring
<1>7. Entries'
  BY <1>5, <1>6, EntriesStay
<1>8. Carries(h)'
  <2>1. n.copy.product # 0 => Sells(p, n.copy.product)
    BY <1>1, <1>2, <1>4, <1>6 DEF Carries, Fits, PlanSteps
  <2>2. n.copy.product # 0 => Sells(p, n.copy.product)'
    BY <2>1, SellsKept
  <2>3. \A q \in DOMAIN n.todo : n.todo[q] = plan'[q]
    BY <1>1, <1>4, <1>6 DEF Carries
  <2> QED BY <1>4, <1>5, <2>2, <2>3 DEF Carries
<1>9. \A g \in Pushers : Carries(g)'
  <2>1. ASSUME NEW g \in Pushers, g # h PROVE Carries(g)'
    BY <1>1, <1>5, <2>1, CarriesOn DEF Mirroring
  <2> QED BY <1>8, <2>1
<1>10. \A q : ~Deletes(h, q)' /\ (Pushes(h, q)' => Pushes(h, q))
  BY <1>1, <1>4, <1>5 DEF Deletes, Pushes
<1>11. ASSUME NEW q \in Plans PROVE Roles(q)'
  <2>1. Live(q)' <=> Live(q)
    BY <1>1 DEF Live
  <2>2. Pushes(h, q)' => Live(q)
    BY <1>6, <1>10 DEF Roles
  <2> QED BY <1>5, <1>6, <1>10, <2>1, <2>2, RolesStep
<1>12. ASSUME NEW q \in Plans PROVE Settled(q)' => Settled(q) \/ plan[q].product = 0
  <2>1. CASE q # p
    <3>1. ~Will(h, q) /\ (q \in lost => q \in lost')
      BY <1>2, <1>4, <2>1 DEF Will, Hooks
    <3> QED BY <1>1, <1>5, <3>1, Unsettling
  <2>2. CASE q = p /\ ~Live(p)
    BY <1>1, <1>4, <2>2 DEF Settled, Live
  <2>3. CASE q = p /\ Live(p) /\ p \in lost'
    BY <2>3 DEF Settled
  <2>4. CASE q = p /\ Live(p) /\ n.copy = plan[p] /\ lost' = lost /\ plan[p].product # 0
    <3>1. Will(h, p)'
      BY <1>1, <1>4, <1>5, <2>4 DEF Will, Hooks, Tells, Live
    <3> QED BY <1>1, <2>4, <3>1 DEF Settled, Live
  <2> QED BY <1>4, <2>1, <2>2, <2>3, <2>4
<1>13. ASSUME NEW q \in Plans PROVE Fits(q)'
  BY <1>1, <1>5, <1>6, <1>12, RowStays
<1> QED BY <1>7, <1>9, <1>11, <1>13 DEF Mirroring

(* The hook queues what it was given, which may not be what the row says;   *)
(* or it fails.                                                            *)
LEMMA HookMirrors ==
    ASSUME NEW h \in Pushers, Typed, Typed', Selling, Next, Mirroring, Hook(h)
    PROVE  Mirroring'
<1> DEFINE step == IF hand[h].old # 0 THEN [hand[h] EXCEPT !.at = "retire"] ELSE Succeeded(h)
<1>1. /\ hand[h].at = "hook" /\ UNCHANGED <<plan, product, pass, applied>>
      /\ hand[h] \in HandType /\ hand[h].copy \in RowType
      /\ hand' = [hand EXCEPT ![h] = step]
      /\ IF hand[h].copy.product = 0 THEN UNCHANGED <<queue, lost>>
         ELSE Hooked("update", hand[h].plan, hand[h].copy, plan[hand[h].plan])
  BY FieldsTyped DEF Hook
<1>2. PICK p \in Plans : p = hand[h].plan
  BY <1>1, FieldsTyped DEF PlanSteps
<1>3. PICK n : n = hand'[h]
  OBVIOUS
<1>4. n = step /\ \A g \in Pushers : g # h => hand'[g] = hand[g]
  BY <1>1, <1>3 DEF Typed, HandTyped
<1>5. /\ n.at \in {"retire", "idle", "next", "mark"}
      /\ n.at = "retire" => n.plan = p /\ n.copy = hand[h].copy
      /\ \A q \in DOMAIN n.todo : q \in DOMAIN hand[h].todo /\ n.todo[q] = hand[h].todo[q]
  <2>1. CASE hand[h].old # 0
    <3>1. n.at = "retire" /\ n.plan = p /\ n.copy = hand[h].copy /\ n.todo = hand[h].todo
      BY <1>1, <1>2, <1>4, <2>1 DEF HandType
    <3> QED BY <3>1
  <2>2. CASE hand[h].old = 0
    <3>1. Ended(h) /\ n.at \in {"idle", "next", "mark"}
      BY <1>3, <1>4, <2>2, SucceededEnds, RestTyped, FieldsTyped
    <3> QED BY <1>3, <3>1, Ends
  <2> QED BY <2>1, <2>2
<1>6. Carries(h) /\ Entries /\ \A q \in Plans : Roles(q) /\ Fits(q)
  BY DEF Mirroring
<1>7. PICK w : w = hand[h].copy
  OBVIOUS
<1>8. w \in RowType /\ (w.product # 0 => Sells(p, w.product))
  BY <1>1, <1>2, <1>6, <1>7 DEF Carries, PlanSteps
<1>9. \/ w.product = 0 /\ UNCHANGED <<queue, lost>>
      \/ queue' = queue /\ lost' = lost \cup {p}
      \/ /\ w.product # 0 /\ Enqueue("update", p, w)
         /\ lost' = IF Tells("update", w, plan[p]) THEN lost \ {p} ELSE lost \cup {p}
  BY <1>1, <1>2, <1>7 DEF Hooked
<1> HIDE DEF step
<1>10. Lasting /\ \A q : q # p => \A i \in DOMAIN queue' : i \in DOMAIN queue \/ queue'[i].plan # q
  <2>1. CASE queue' = queue
    BY <2>1 DEF Lasting
  <2>2. CASE Enqueue("update", p, w)
    BY <1>1, <1>8, <2>2, OneMore
  <2> QED BY <1>9, <2>1, <2>2
<1>11. Entries'
  <2>1. CASE queue' = queue
    BY <1>6, <1>10, <2>1, EntriesStay
  <2>2. CASE w.product # 0 /\ Enqueue("update", p, w)
    <3>0. PICK x : x = Newest(p)'
      OBVIOUS
    <3>2. /\ \A i \in DOMAIN queue' : i \notin DOMAIN queue => i = x
          /\ queue'[x] = [op |-> "update", plan |-> p, copy |-> w, tries |-> 0, state |-> "pending"]
      BY <1>1, <1>8, <2>2, <3>0, OneMore
    <3>1. \A i \in DOMAIN queue' : i \notin DOMAIN queue => queue'[i].plan = p /\ queue'[i].copy = w
      BY <3>2
    <3> QED BY <1>6, <1>8, <1>10, <2>2, <3>1, EntriesStay
  <2> QED BY <1>9, <2>1, <2>2
<1>12. Carries(h)'
  <2>1. \A q \in DOMAIN n.todo : n.todo[q] = plan'[q]
    BY <1>1, <1>5, <1>6 DEF Carries
  <2>2. n.at = "retire" /\ n.copy.product # 0 => Sells(n.plan, n.copy.product)
    BY <1>1, <1>2, <1>5, <1>6 DEF Carries, PlanSteps
  <2>3. n.at = "retire" /\ n.copy.product # 0 => Sells(n.plan, n.copy.product)'
    BY <2>2, SellsKept
  <2> QED BY <1>3, <1>5, <2>1, <2>3 DEF Carries, PlanSteps
<1>13. \A g \in Pushers : Carries(g)'
  <2>1. ASSUME NEW g \in Pushers, g # h PROVE Carries(g)'
    BY <1>1, <1>4, <1>10, <2>1, CarriesOn DEF Mirroring
  <2> QED BY <1>12, <2>1
<1>14. \A q : ~Deletes(h, q)' /\ (Pushes(h, q)' => Pushes(h, q))
  BY <1>1, <1>3, <1>5 DEF Deletes, Pushes
<1>15. ASSUME NEW q \in Plans PROVE Roles(q)'
  <2>1. Live(q)' <=> Live(q)
    BY <1>1 DEF Live
  <2>2. Pushes(h, q)' => Live(q)
    BY <1>6, <1>14 DEF Roles
  <2> QED BY <1>4, <1>6, <1>14, <2>1, <2>2, RolesStep
<1>16. ASSUME NEW q \in Plans, q # p PROVE Fits(q)'
  <2>1. ~Will(h, q) /\ (q \in lost => q \in lost')
    BY <1>2, <1>9, <1>16 DEF Will, Hooks
  <2>2. Settled(q)' => Settled(q)
    BY <1>1, <1>4, <2>1, Unsettling
  <2> QED BY <1>1, <1>6, <1>10, <1>16, <2>2, RowStays
<1>17. Fits(p)'
  <2>1. CASE w.product = 0 /\ UNCHANGED <<queue, lost>>
    <3>1. ~Will(h, p)
      BY <1>1, <1>7, <2>1 DEF Will
    <3>2. Settled(p)' => Settled(p)
      BY <1>1, <1>4, <2>1, <3>1, Unsettling
    <3>3. \A i \in DOMAIN queue' : i \in DOMAIN queue
      BY <2>1
    <3> QED BY <1>1, <1>6, <1>10, <3>2, <3>3, RowStays
  <2>2. CASE queue' = queue /\ lost' = lost \cup {p}
    <3>1. ~Settled(p)'
      BY <2>2 DEF Settled
    <3>2. \A i \in DOMAIN queue' : i \in DOMAIN queue
      BY <2>2
    <3> QED BY <1>1, <1>6, <1>10, <3>1, <3>2, RowStays
  <2>3. CASE /\ w.product # 0 /\ Enqueue("update", p, w)
             /\ lost' = IF Tells("update", w, plan[p]) THEN lost \ {p} ELSE lost \cup {p}
    <3>1. PICK i : i = Newest(p)'
      OBVIOUS
    <3>2. /\ i \in DOMAIN queue' /\ i \notin DOMAIN queue /\ i # 0 /\ Top(p)'
          /\ queue'[i] = [op |-> "update", plan |-> p, copy |-> w, tries |-> 0, state |-> "pending"]
      BY <1>1, <1>8, <2>3, <3>1, OneMore
    <3>3. queue'[i].op = "update" /\ queue'[i].copy = w
      BY <3>2
    <3>4. Settled(p)' => Says(p)'
      <4> SUFFICES ASSUME Settled(p)' PROVE Says(p)'
        OBVIOUS
      <4>1. Tells("update", w, plan[p])
        BY <2>3 DEF Settled
      <4>2. Live(p)' /\ w.rev = plan'[p].rev /\ w.on = plan'[p].on
        BY <1>1, <4>1 DEF Tells, Live
      <4> QED BY <3>1, <3>3, <4>2 DEF Says
    <3>5. PICK id : id = plan[p].product
      OBVIOUS
    <3>6. (applied'[p] = 0 \/ applied'[p] \in DOMAIN queue') /\ applied'[p] # i
      BY <1>1, <1>6, <1>10, <3>2 DEF Fits, Lasting
    <3>7. plan'[p].product = id /\ (id # 0 => Sells(p, id)')
      BY <1>1, <1>6, <3>5, SellsKept DEF Fits
    <3>8. plan'[p].product # 0 => Sells(p, plan[p].product)'
      BY <3>7
    <3> QED BY <3>1, <3>2, <3>4, <3>6, <3>8 DEF Fits
  <2> QED BY <1>9, <2>1, <2>2, <2>3
<1> QED BY <1>11, <1>13, <1>15, <1>16, <1>17 DEF Mirroring

-----------------------------------------------------------------------------
(* The call that shows the plan. *)
LEMMA UpdateCallMirrors ==
    ASSUME NEW h \in Pushers, Typed, OneEach, Selling, Next, Mirroring, CallUpdate(h)
    PROVE  Mirroring'
<1>0. PICK k : k = hand[h]
  OBVIOUS
<1>1. /\ k.at \in {"update", "archive"} /\ UNCHANGED <<plan, price, lost>> /\ Busy(h)
      /\ k \in HandType /\ k.copy \in RowType /\ k.plan \in Plans
      /\ product' = [product EXCEPT ![k.copy.product] = Pushed(k, @)]
      /\ applied' = IF h = "worker" THEN [applied EXCEPT ![k.plan] = k.entry] ELSE applied
  BY <1>0, FieldsTyped DEF CallUpdate, Busy, PlanSteps
<1>2. PICK p \in Plans : p = k.plan
  BY <1>1
<1>3. Carries(h) /\ Entries /\ \A q \in Plans : Roles(q) /\ Fits(q)
  BY DEF Mirroring
<1>4. Shape(h)
  BY DEF Selling
<1>5. /\ hand'[h].at \in {"drift", "idle", "next", "mark"} /\ \A g \in Pushers : g # h => hand'[g] = hand[g]
      /\ \A q \in DOMAIN hand'[h].todo : q \in DOMAIN k.todo /\ hand'[h].todo[q] = k.todo[q]
      /\ hand'[h].at = "drift" => hand'[h].plan = p /\ hand'[h].copy = k.copy
      /\ Lasting /\ DOMAIN queue' = DOMAIN queue
  <2>1. ASSUME Ended(h)
        PROVE  /\ hand'[h].at \in {"idle", "next", "mark"}
               /\ \A q \in DOMAIN hand'[h].todo : q \in DOMAIN k.todo /\ hand'[h].todo[q] = k.todo[q]
    <3>1. Idle.at = "idle" /\ Rest(h).at \in {"idle", "next"} /\ [hand[h] EXCEPT !.at = "mark"].at = "mark"
      BY Constants1, RestTyped, FieldsTyped DEF HandType
    <3> QED BY <1>0, <2>1, <3>1, Ends DEF Ended
  <2>2. CASE Fail(h)
    <3>1. Ended(h) /\ \A g \in Pushers : g # h => hand'[g] = hand[g]
      BY <1>1, <2>2, FailEnds
    <3>2. DOMAIN queue' = DOMAIN queue /\ Lasting
      <4>1. h = "worker" => hand[h].entry \in pass
        BY <1>1 DEF Typed
      <4> QED BY <2>2, <4>1, FieldsTyped, FailTyped DEF Lasting
    <3> QED BY <2>1, <3>1, <3>2
  <2>3. CASE Go(h, Succeeded(h))
    BY <2>1, <2>3, GoesOn, SucceededEnds
  <2>4. CASE Go(h, [hand[h] EXCEPT !.at = "drift"])
    <3>1. /\ hand'[h] = [hand[h] EXCEPT !.at = "drift"] /\ \A g \in Pushers : g # h => hand'[g] = hand[g]
          /\ Lasting /\ DOMAIN queue' = DOMAIN queue
      BY <2>4, GoesOn
    <3>2. hand'[h].at = "drift" /\ hand'[h].plan = p /\ hand'[h].copy = k.copy /\ hand'[h].todo = k.todo
      BY <1>0, <1>1, <1>2, <3>1 DEF HandType
    <3> QED BY <3>1, <3>2
  <2> QED BY <2>2, <2>3, <2>4 DEF CallUpdate, Answered
<1>6. PICK n : n = hand'[h]
  OBVIOUS
<1>7. \A q : ~Hooks(h, q)' /\ ~Deletes(h, q)' /\ (Pushes(h, q)' => Pushes(h, q)) /\ ~Hooks(h, q)
  BY <1>0, <1>1, <1>5 DEF Hooks, Deletes, Pushes
<1>8. ASSUME NEW q \in Plans PROVE Roles(q)'
  <2>1. Live(q)' <=> Live(q)
    BY <1>1 DEF Live
  <2>2. Pushes(h, q)' => Live(q)
    BY <1>3, <1>7 DEF Roles
  <2> QED BY <1>3, <1>5, <1>7, <2>1, <2>2, RolesStep
<1>9. Carries(h)'
  <2>1. \A q \in DOMAIN n.todo : n.todo[q] = plan'[q]
    BY <1>0, <1>1, <1>3, <1>5, <1>6 DEF Carries
  <2>2. n.at = "drift" /\ n.copy.product # 0 => Sells(n.plan, n.copy.product)
    BY <1>0, <1>1, <1>2, <1>3, <1>5, <1>6 DEF Carries, PlanSteps
  <2>3. n.at = "drift" /\ n.copy.product # 0 => Sells(n.plan, n.copy.product)'
    BY <2>2, SellsKept
  <2> QED BY <1>5, <1>6, <2>1, <2>3 DEF Carries, PlanSteps
<1>10. \A g \in Pushers : Carries(g)'
  <2>1. ASSUME NEW g \in Pushers, g # h PROVE Carries(g)'
    BY <1>1, <1>5, <2>1, CarriesOn DEF Mirroring
  <2> QED BY <1>9, <2>1
<1>11. Entries'
  BY <1>3, <1>5, EntriesStay
<1>12. \A q : Settled(q)' <=> Settled(q)
  <2>1. \A q : \A g \in Pushers : Will(g, q) <=> Will(g, q)'
    <3> SUFFICES ASSUME NEW q, NEW g \in Pushers, g # h PROVE Will(g, q) <=> Will(g, q)'
      BY <1>7 DEF Will
    <3>1. hand'[g] = hand[g]
      BY <1>5
    <3> QED BY <1>1, <3>1 DEF Will, Hooks, Tells
  <2> QED BY <1>1, <2>1 DEF Settled, Live
<1>13. DOMAIN product' = DOMAIN product
       /\ \A i \in DOMAIN product : product'[i] = IF i = k.copy.product THEN Pushed(k, product[i]) ELSE product[i]
  BY <1>1 DEF Typed
<1>14. ASSUME NEW q \in Plans, q # p PROVE Fits(q)'
  <2>1. ASSUME Sells(q, plan[q].product) PROVE product'[plan[q].product] = product[plan[q].product]
    <3>1. k.copy.product # 0 => Sells(p, k.copy.product)
      BY <1>0, <1>1, <1>2, <1>3 DEF Carries, PlanSteps
    <3>2. plan[q].product # 0
      BY <2>1, Indexed DEF Sells, Typed
    <3>3. plan[q].product # k.copy.product
      BY <1>14, <2>1, <3>1, <3>2 DEF Sells
    <3> QED BY <1>13, <2>1, <3>3 DEF Sells
  <2>2. plan'[q] = plan[q] /\ applied'[q] = applied[q]
    BY <1>1, <1>2, <1>14 DEF Typed
  <2>3. \A i \in DOMAIN queue' : i \in DOMAIN queue
    BY <1>5
  <2> QED BY <1>3, <1>5, <1>12, <2>1, <2>2, <2>3, RowStays
<1>15. Fits(p)'
  <2>1. Fits(p) /\ plan'[p] = plan[p] /\ (Live(p)' <=> Live(p))
    BY <1>1, <1>3 DEF Live
  <2>2. Newest(p)' = Newest(p) /\ Top(p)'
    BY <1>5, <2>1, NewestSame DEF Fits
  <2>3. h = "worker" => k.entry \in DOMAIN queue /\ k.copy = queue[k.entry].copy
                        /\ p = queue[k.entry].plan /\ k.at = queue[k.entry].op
    BY <1>0, <1>1, <1>2, <1>3 DEF Carries
  <2>4. applied'[p] = IF h = "worker" THEN k.entry ELSE applied[p]
    BY <1>1, <1>2 DEF Typed
  <2>5. applied'[p] = 0 \/ applied'[p] \in DOMAIN queue'
    BY <1>5, <2>1, <2>3, <2>4 DEF Fits
  <2>6. ASSUME plan[p].product # 0
        PROVE  /\ Sells(p, plan[p].product)'
               /\ Settled(p)' /\ Newest(p)' # 0 => Says(p)'
               /\ Settled(p)' /\ applied'[p] = Newest(p)' => Shows(p)'
    <3>0. PICK id : id = plan[p].product
      OBVIOUS
    <3>1. Sells(p, id) /\ Sells(p, id)' /\ id \in DOMAIN product /\ id # 0
      BY <2>1, <2>6, <3>0, SellsKept DEF Fits, Sells
    <3>2. Sells(p, plan[p].product)'
      BY <2>1, <3>0, <3>1
    <3>3. Settled(p)' /\ Newest(p)' # 0 => Says(p)'
      <4> SUFFICES ASSUME Settled(p)', Newest(p)' # 0 PROVE Says(p)'
        OBVIOUS
      <4>1. Says(p) /\ Newest(p) \in DOMAIN queue
        BY <1>12, <2>1, <2>2, <2>6 DEF Fits, Top
      <4> QED BY <1>5, <2>1, <2>2, <4>1 DEF Says, Lasting
    <3>4. k.copy.product # 0 => k.copy.product = id
      <4>1. k.copy.product # 0 => Sells(p, k.copy.product)
        BY <1>0, <1>1, <1>2, <1>3 DEF Carries, PlanSteps
      <4> QED BY <3>1, <4>1, SellsOne
    <3>5. product[id] \in ProductType
      BY <3>1, Indexed DEF Typed
    <3>6. ASSUME Settled(p)', applied'[p] = Newest(p)' PROVE Shows(p)'
      <4>1. CASE h = "worker"
        <5>1. k.entry = Newest(p) /\ k.entry # 0 /\ k.entry \in DOMAIN queue
          BY <2>2, <2>3, <2>4, <3>6, <4>1, Indexed DEF Typed
        <5>2. Says(p)
          BY <1>12, <2>1, <2>6, <3>6, <5>1 DEF Fits
        <5>3. k.copy.product = id
          BY <1>1, <1>3, <2>3, <3>4, <4>1, <5>1 DEF Entries
        <5>4. product'[id] = Pushed(k, product[id])
          BY <1>13, <3>1, <5>3
        <5>5. CASE Live(p)
          <6>1. k.at = "update" /\ k.copy.rev = plan[p].rev /\ k.copy.on = plan[p].on
            BY <2>3, <4>1, <5>1, <5>2, <5>5 DEF Says
          <6>2. product'[id].rev = plan[p].rev /\ product'[id].on = plan[p].on
            BY <3>5, <5>4, <6>1 DEF Pushed, ProductType
          <6>3. plan[p].on \in BOOLEAN
            BY DEF Typed, RowType
          <6> QED BY <2>1, <3>0, <5>5, <6>2, <6>3 DEF Shows
        <5>6. CASE ~Live(p)
          <6>1. k.at = "archive"
            BY <2>3, <4>1, <5>1, <5>2, <5>6 DEF Says
          <6>2. product'[id].on = FALSE
            BY <3>5, <5>4, <6>1 DEF Pushed, ProductType
          <6> QED BY <2>1, <3>0, <5>6, <6>2 DEF Shows
        <5> QED BY <5>5, <5>6
      <4>2. CASE h # "worker"
        <5>1. k.at = "update" /\ k.copy = plan[p] /\ Live(p)
          <6>1. k.at = "update"
            BY <1>0, <1>1, <1>4, <4>2 DEF Shape
          <6>2. Pushes(h, p)
            BY <1>0, <1>2, <4>2, <6>1 DEF Pushes
          <6> QED BY <1>0, <1>2, <1>3, <4>2, <6>1, <6>2 DEF Carries, Roles
        <5>2. product'[id] = Pushed(k, product[id])
          BY <1>13, <3>0, <3>1, <5>1
        <5>3. product'[id].rev = plan[p].rev /\ product'[id].on = plan[p].on
          BY <3>5, <5>1, <5>2 DEF Pushed, ProductType
        <5>4. plan[p].on \in BOOLEAN
          BY DEF Typed, RowType
        <5> QED BY <2>1, <3>0, <5>1, <5>3, <5>4 DEF Shows
      <4> QED BY <4>1, <4>2
    <3> QED BY <3>2, <3>3, <3>6
  <2> QED BY <2>1, <2>2, <2>5, <2>6 DEF Fits
<1> QED BY <1>8, <1>10, <1>11, <1>14, <1>15 DEF Mirroring

-----------------------------------------------------------------------------
LEMMA PushesClaim == \A g, p : Pushes(g, p) => Claims(g, p)
BY DEF Pushes, Claims, Migrates, Pulls

(* A save: its hook is still to come. *)
LEMMA SaveMirrors ==
    ASSUME Orderly, NEW h \in Pushers, Typed, Selling, Next, Mirroring, Save(h)
    PROVE  Mirroring'
<1> DEFINE row == [hand[h].copy EXCEPT !.on = @ \/ plan[hand[h].plan].on]
           step == [hand[h] EXCEPT !.at = "reread"]
<1>0. PICK k : k = hand[h]
  OBVIOUS
<1>1. /\ k.at = "save" /\ UNCHANGED <<product, applied, lost>> /\ Busy(h) /\ k \in HandType
      /\ k.copy \in RowType /\ k.plan \in Plans
  BY <1>0, FieldsTyped DEF Save, Busy, PlanSteps
<1>2. SameProducts
  BY <1>1 DEF SameProducts
<1>3. CASE plan' = plan /\ Fail(h)
  BY <1>0, <1>1, <1>2, <1>3, FailsQuietly
<1>4. CASE Live(k.plan) /\ plan' = [plan EXCEPT ![hand[h].plan] = row] /\ Go(h, step)
  <2>1. hand'[h] = step /\ (\A g \in Pushers : g # h => hand'[g] = hand[g])
        /\ Lasting /\ DOMAIN queue' = DOMAIN queue
    <3> HIDE DEF step
    <3> QED BY <1>4, GoesOn
  <2>2. PICK n : n = hand'[h]
    OBVIOUS
  <2>3. PICK p \in Plans : p = k.plan
    BY <1>1
  <2>4. n.at = "reread" /\ n.plan = p /\ n.todo = k.todo /\ n.copy = k.copy
    BY <1>0, <1>1, <2>1, <2>2, <2>3 DEF HandType
  <2>5. Shape(h) /\ Carries(h) /\ Entries /\ \A q \in Plans : Alone(q) /\ Roles(q) /\ Fits(q)
    BY DEF Selling, Mirroring
  <2>6. row.state = "live" /\ row.product = k.copy.product
    BY <1>0, <1>1, <2>5 DEF RowType, Shape
  <2> HIDE DEF row, step
  <2>7. /\ plan'[p].state = "live" /\ plan'[p].product = k.copy.product
        /\ \A q \in Plans : q # p => plan'[q] = plan[q]
    BY <1>0, <1>4, <2>3, <2>6 DEF Typed
  <2>8. \A g \in Pushers : g # h => ~Pushes(g, p)
    BY <1>0, <1>1, <2>3, <2>5, PushesClaim DEF Saves, Alone
  <2>9. \A g \in Pushers : ~Deletes(g, p)
    BY <1>0, <1>1, <2>3 DEF Save, Calm, Deleting, Deletes
  <2>10. \A q \in DOMAIN k.todo : q # p /\ q \in Plans
    BY <1>0, <1>1, <2>3, <2>5, FieldsTyped DEF Shape, PlanSteps
  <2>11. Will(h, p)' /\ \A q : ~Deletes(h, q)' /\ (Pushes(h, q)' => q # p /\ Pushes(h, q))
    BY <1>0, <2>2, <2>4, <2>10 DEF Will, Hooks, Deletes, Pushes
  <2>12. \A q \in Plans : Live(q)' <=> Live(q)
    BY <1>4, <2>3, <2>7 DEF Live
  <2>13. ASSUME NEW q \in Plans PROVE Roles(q)'
    <3>1. Pushes(h, q)' => Live(q)
      BY <2>5, <2>11 DEF Roles
    <3>2. Roles(q)
      BY <2>5
    <3>4. Pushes(h, q)' => Live(q)' /\ ~Deletes(h, q)' /\ Pushes(h, q)
      BY <2>11, <2>12, <3>1
    <3> QED BY <2>1, <2>11, <2>12, <3>2, <3>4, RolesStep
  <2>14. Carries(h)'
    <3>1. \A q \in DOMAIN n.todo : n.todo[q] = plan'[q]
      BY <1>0, <2>4, <2>5, <2>7, <2>10 DEF Carries
    <3>2. n.copy.product # 0 => Sells(n.plan, n.copy.product)
      BY <1>0, <1>1, <2>3, <2>4, <2>5 DEF Carries, PlanSteps
    <3>3. n.copy.product # 0 => Sells(n.plan, n.copy.product)'
      BY <3>2, SellsKept
    <3> QED BY <2>2, <2>4, <3>1, <3>3 DEF Carries
  <2>15. ASSUME NEW g \in Pushers, g # h PROVE Carries(g)'
    <3>1. ~Pushes(g, p) /\ ~Deletes(g, p)
      BY <2>8, <2>9, <2>15
    <3>2. p \notin DOMAIN hand[g].todo
      <4>1. CASE g = "worker"
        BY <4>1 DEF Selling, Shape
      <4>2. CASE g # "worker"
        BY <3>1, <4>2 DEF Pushes
      <4> QED BY <4>1, <4>2
    <3>3. Carries(g) /\ hand'[g] = hand[g]
      BY <2>1, <2>15 DEF Mirroring
    <3>4. \A q \in Plans : \/ plan'[q] = plan[q]
                           \/ q \notin DOMAIN hand[g].todo /\ ~Pushes(g, q) /\ plan'[q].state # "none"
                              /\ ~Deletes(g, q)
      BY <2>7, <3>1, <3>2
    <3> QED BY <2>1, <3>3, <3>4, CarriesOn
  <2>16. Entries'
    BY <2>1, <2>5, EntriesStay
  <2>17. ASSUME NEW q \in Plans, q # p PROVE Fits(q)'
    <3>1. Settled(q)' => Settled(q)
      <4>1. ~Will(h, q)
        BY <1>0, <1>1 DEF Will, Hooks
      <4> QED BY <1>1, <2>1, <2>7, <2>17, <4>1, Unsettling
    <3>2. \A i \in DOMAIN queue' : i \in DOMAIN queue
      BY <2>1
    <3>3. plan'[q] = plan[q] /\ Fits(q)
      BY <2>5, <2>7, <2>17
    <3> QED BY <1>1, <2>1, <3>1, <3>2, <3>3, RowStays
  <2>18. Fits(p)'
    <3>1. ~Settled(p)'
      BY <1>4, <2>3, <2>11, <2>12 DEF Settled
    <3>2. Top(p)' /\ (applied'[p] = 0 \/ applied'[p] \in DOMAIN queue')
      BY <1>1, <2>1, <2>5, NewestSame DEF Fits
    <3>3. k.copy.product # 0 => Sells(p, k.copy.product)
      BY <1>0, <1>1, <2>3, <2>5 DEF Carries, PlanSteps
    <3>4. k.copy.product # 0 => Sells(p, k.copy.product)'
      BY <3>3, SellsKept
    <3>5. PICK id : id = k.copy.product
      OBVIOUS
    <3>6. plan'[p].product = id /\ (id # 0 => Sells(p, id)')
      BY <2>7, <3>4, <3>5
    <3>7. plan'[p].product # 0 => Sells(p, plan[p].product)'
      BY <3>6
    <3> QED BY <3>1, <3>2, <3>7 DEF Fits
  <2> QED BY <2>13, <2>14, <2>15, <2>16, <2>17, <2>18 DEF Mirroring
<1> QED BY <1>0, <1>3, <1>4 DEF Save

-----------------------------------------------------------------------------
LEMMA PushMirrors ==
    ASSUME Orderly, NEW h \in Pushers, Typed, Typed', OneEach, OneEach', Selling, Next, Mirroring, PushStep(h)
    PROVE  Mirroring'
BY ProductCallMirrors, PriceCallMirrors, LightMirrors, SaveMirrors, RereadMirrors, HookMirrors,
   UpdateCallMirrors DEF PushStep

LEMMA SameMirroring ==
    ASSUME Mirroring, UNCHANGED <<plan, queue, product, hand, applied, lost>>
    PROVE  Mirroring'
<1>1. Entries' /\ \A h \in Pushers : Carries(h)'
  BY DEF Mirroring, Entries, Carries, Sells, Live
<1>2. \A p \in Plans : Roles(p)'
  BY DEF Mirroring, Roles, Hooks, Deletes, Pushes, Live
<1>3. ASSUME NEW p \in Plans PROVE Fits(p)'
  <2>1. Newest(p)' = Newest(p) /\ (Top(p) => Top(p)')
    BY NewestSame DEF Lasting
  <2>2. Settled(p)' <=> Settled(p)
    BY DEF Settled, Live, Will, Hooks, Tells
  <2>3. (Says(p)' <=> Says(p)) /\ (Shows(p)' <=> Shows(p))
    BY <2>1 DEF Says, Shows, Live
  <2>4. Fits(p)
    BY DEF Mirroring
  <2> QED BY <2>1, <2>2, <2>3, <2>4 DEF Fits, Sells
<1> QED BY <1>1, <1>2, <1>3 DEF Mirroring

(* The worker takes up an entry. *)
LEMMA TakeMirrors ==
    ASSUME Typed, Next, Mirroring, Take
    PROVE  Mirroring'
<1> DEFINE x(i) == [Idle EXCEPT !.at = IF queue[i].op = "create" THEN "product" ELSE queue[i].op,
                                !.plan = queue[i].plan, !.copy = queue[i].copy, !.entry = i]
<1>0. "worker" \in Pushers /\ hand["worker"].at = "idle" /\ UNCHANGED <<plan, queue, product, applied, lost>>
  BY DEF Pushers, Take, Busy
<1>1. PICK i \in pass : hand' = [hand EXCEPT !["worker"] = x(i)]
  BY DEF Take
<1>2. i \in DOMAIN queue /\ queue[i] \in EntryType
  BY Indexed DEF Typed, Outstanding
<1>3. PICK n : n = x(i)
  OBVIOUS
<1>4. /\ DOMAIN n.todo = {} /\ n.plan = queue[i].plan /\ n.copy = queue[i].copy /\ n.entry = i
      /\ n.at = IF queue[i].op = "create" THEN "product" ELSE queue[i].op
  BY <1>3, Constants1
<1>5. hand'["worker"] = n /\ \A g \in Pushers : g # "worker" => hand'[g] = hand[g]
  BY <1>0, <1>1, <1>3 DEF Typed, HandTyped
<1> HIDE DEF x
<1>6. n.at \in {"product", "update", "archive"} /\ (n.at # "product" => n.at = queue[i].op)
  BY <1>2, <1>4 DEF EntryType
<1>7. Carries("worker")'
  <2>1. n.copy.product # 0 => Sells(n.plan, n.copy.product)
    BY <1>2, <1>4 DEF Mirroring, Entries
  <2>2. n.copy.product # 0 => Sells(n.plan, n.copy.product)'
    BY <2>1, SellsKept
  <2> QED BY <1>0, <1>2, <1>4, <1>5, <1>6, <2>2 DEF Carries
<1>8. \A q : ~Hooks("worker", q)' /\ ~Deletes("worker", q)' /\ ~Pushes("worker", q)'
             /\ ~Hooks("worker", q)
  BY <1>0, <1>5, <1>6 DEF Hooks, Deletes, Pushes
<1>9. ASSUME NEW q \in Plans PROVE Roles(q)'
  <2>1. Roles(q) /\ (Live(q)' <=> Live(q))
    BY <1>0 DEF Mirroring, Live
  <2> QED BY <1>0, <1>5, <1>8, <2>1, RolesStep
<1>10. Lasting
  BY <1>0 DEF Lasting
<1> QED BY <1>0, <1>5, <1>7, <1>8, <1>9, <1>10, PlainStep

LEMMA WorkerMirrors ==
    ASSUME Orderly, Typed, Typed', OneEach, OneEach', Selling, Next, Mirroring, WorkerStep
    PROVE  Mirroring'
<1>0. "worker" \in Pushers
  BY DEF Pushers
<1>1. CASE Poll
  BY <1>1, SameMirroring DEF Poll
<1>2. CASE MarkSuccess
  <2> DEFINE n == hand["worker"].entry
             e == [queue[n] EXCEPT !.state = "succeeded"]
  <2>1. queue' = [queue EXCEPT ![n] = e] /\ hand' = [hand EXCEPT !["worker"] = Idle]
        /\ UNCHANGED <<plan, product, applied, lost>> /\ hand["worker"].at \notin {"reread", "hook"}
    BY <1>2 DEF MarkSuccess
  <2>2. n \in DOMAIN queue => e.op = queue[n].op /\ e.plan = queue[n].plan /\ e.copy = queue[n].copy
    <3>1. n \in DOMAIN queue => queue[n] \in EntryType
      BY Indexed DEF Typed
    <3> QED BY <3>1 DEF EntryType
  <2> HIDE DEF n, e
  <2>3. DOMAIN queue' = DOMAIN queue /\ \A i \in DOMAIN queue : queue'[i] = IF i = n THEN e ELSE queue[i]
    BY <2>1, Changed DEF Typed
  <2>4. Lasting
    BY <2>2, <2>3 DEF Lasting
  <2>5. Ended("worker") /\ \A g \in Pushers : g # "worker" => hand'[g] = hand[g]
    BY <1>0, <2>1 DEF Ended, Typed, HandTyped
  <2>6. SameProducts
    BY <2>1 DEF SameProducts
  <2> QED BY <1>0, <2>1, <2>3, <2>4, <2>5, <2>6, EndsQuietly
<1> QED BY <1>0, <1>1, <1>2, TakeMirrors, PushMirrors DEF WorkerStep

-----------------------------------------------------------------------------
(* The products of plans that are gone are withdrawn. *)
LEMMA MirrorMirrors ==
    ASSUME NEW r \in Requests, Typed, Selling, Next, Mirroring, Mirror(r)
    PROVE  Mirroring'
<1>0. r \in Pushers /\ UNCHANGED <<plan, queue, applied, lost>> /\ hand[r].at = "mirror" /\ Lasting
  BY DEF Pushers, Mirror, Lasting
<1>1. CASE hand' = [hand EXCEPT ![r] = Idle] /\ product' = product
  <2>1. Ended(r) /\ \A g \in Pushers : g # r => hand'[g] = hand[g]
    BY <1>0, <1>1 DEF Ended, Typed, HandTyped
  <2>2. SameProducts
    BY <1>1 DEF SameProducts
  <2> QED BY <1>0, <2>1, <2>2, EndsQuietly
<1>2. ASSUME hand' = hand, NEW i \in DOMAIN product, ~Live(product[i].plan),
             product' = [product EXCEPT ![i].on = FALSE]
      PROVE  Mirroring'
  <2>1. \A j \in DOMAIN product : j # i => product'[j] = product[j]
    BY <1>2 DEF Typed
  <2>2. product'[i].on = FALSE /\ product'[i].plan = product[i].plan
    <3>1. product[i] \in ProductType
      BY <1>2, Indexed DEF Typed
    <3>2. product'[i] = [product[i] EXCEPT !.on = FALSE]
      BY <1>2
    <3> QED BY <3>1, <3>2 DEF ProductType
  <2>3. Entries'
    BY <1>0, EntriesStay DEF Mirroring
  <2>4. \A h \in Pushers : Carries(h)'
    BY <1>0, <1>2, CarriesOn DEF Mirroring
  <2>5. \A p \in Plans : Roles(p)'
    BY <1>0, <1>2 DEF Mirroring, Roles, Hooks, Deletes, Pushes, Live
  <2>6. ASSUME NEW p \in Plans PROVE Fits(p)'
    <3>1. Fits(p) /\ (Settled(p)' <=> Settled(p)) /\ (Live(p)' <=> Live(p))
      BY <1>0, <1>2 DEF Mirroring, Settled, Live, Will, Hooks, Tells
    <3>2. CASE plan[p].product # i
      BY <1>0, <2>1, <3>1, <3>2, RowStays DEF Sells
    <3>3. CASE plan[p].product = i
      <4>1. Newest(p)' = Newest(p) /\ Top(p)'
        BY <1>0, <3>1, NewestSame DEF Fits
      <4>2. i # 0 /\ Sells(p, i) /\ Sells(p, i)'
        BY <1>2, <3>1, <3>3, Indexed, SellsKept DEF Fits, Typed
      <4>3. ~Live(p)
        BY <1>2, <4>2 DEF Sells
      <4>4. Says(p)' <=> Says(p)
        BY <1>0, <4>1 DEF Says, Live
      <4>5. Shows(p)'
        BY <1>0, <2>2, <3>1, <3>3, <4>3 DEF Shows
      <4>6. Sells(p, plan[p].product)'
        BY <1>0, <3>3, <4>2 DEF Sells
      <4> QED BY <1>0, <3>1, <3>3, <4>1, <4>4, <4>5, <4>6 DEF Fits
    <3> QED BY <3>2, <3>3
  <2> QED BY <2>3, <2>4, <2>5, <2>6 DEF Mirroring
<1> QED BY <1>1, <1>2 DEF Mirror

LEMMA OneMirrors ==
    ASSUME NEW r \in Requests, NEW p \in Plans, Typed, Next, Mirroring, SyncOne(r, p)
    PROVE  Mirroring'
<1> DEFINE k == [Idle EXCEPT !.at = "product", !.plan = p, !.copy = plan[p]]
<1>0. r \in Pushers /\ UNCHANGED <<plan, queue, product, applied, lost>> /\ hand[r].at = "idle" /\ Lasting
  BY DEF Pushers, SyncOne, Busy, Lasting
<1>1. DOMAIN k.todo = {} /\ k.at = "product" /\ k.plan = p /\ k.copy = plan[p]
  BY Constants1
<1>2. hand' = [hand EXCEPT ![r] = k]
  BY DEF SyncOne
<1> HIDE DEF k
<1>3. PICK n : n = k
  OBVIOUS
<1>4. hand'[r] = n /\ \A g \in Pushers : g # r => hand'[g] = hand[g]
  BY <1>0, <1>2, <1>3 DEF Typed, HandTyped
<1>5. n.copy.product = 0 \/ Sells(n.plan, n.copy.product)
  BY <1>1, <1>3 DEF Mirroring, Fits
<1>6. n.copy.product = 0 \/ Sells(n.plan, n.copy.product)'
  BY <1>5, SellsKept
<1> QED BY <1>0, <1>1, <1>3, <1>4, <1>6, QuietStep

-----------------------------------------------------------------------------
(* The next of the plans a request pushes: its row is still what was read. *)
LEMMA NextIsMirrored ==
    ASSUME NEW r \in Requests, Typed, Next, Mirroring, NEW p \in DOMAIN hand[r].todo,
           hand[r].at = "next", NEW n, n = hand'[r],
           \A g \in Pushers : g # r => hand'[g] = hand[g],
           UNCHANGED <<plan, product, queue, applied, lost>>,
           \/ n.at = "next"
           \/ /\ n.plan = p /\ n.copy = hand[r].todo[p]
              /\ n.at = IF n.copy.price = 0 THEN "product" ELSE "update",
           DOMAIN n.todo = DOMAIN hand[r].todo \ {p},
           \A q \in DOMAIN n.todo : n.todo[q] = hand[r].todo[q]
    PROVE  Mirroring'
<1>0. r \in Pushers /\ r # "worker" /\ Lasting
  BY SyncAssumption DEF Pushers, Lasting
<1>1. Carries(r) /\ p \in Plans /\ hand[r].todo[p] = plan[p] /\ \A q \in Plans : Roles(q) /\ Fits(q)
  BY <1>0, FieldsTyped DEF Mirroring, Carries
<1>2. n.at \in {"product", "update"} => n.plan = p /\ n.copy = plan[p]
                /\ (n.copy.product = 0 \/ Sells(n.plan, n.copy.product))
  BY <1>1 DEF Fits
<1>3. n.at \in {"product", "update"} => n.copy.product = 0 \/ Sells(n.plan, n.copy.product)'
  BY <1>2, SellsKept
<1>4. n.at \in {"next", "product", "update"}
  OBVIOUS
<1>5. Carries(r)'
  BY <1>0, <1>1, <1>2, <1>3, <1>4 DEF Carries, PlanSteps
<1>6. \A q : /\ ~Hooks(r, q)' /\ ~Deletes(r, q)' /\ ~Hooks(r, q)
             /\ Pushes(r, q)' => Pushes(r, q)
  BY <1>0, <1>2, <1>4 DEF Hooks, Deletes, Pushes
<1>7. ASSUME NEW q \in Plans PROVE Roles(q)'
  <2>1. Roles(q) /\ (Live(q)' <=> Live(q))
    BY <1>1 DEF Live
  <2>2. Pushes(r, q)' => Live(q)
    BY <1>0, <1>6, <2>1 DEF Roles
  <2> QED BY <1>0, <1>6, <2>1, <2>2, RolesStep
<1> QED BY <1>0, <1>5, <1>6, <1>7, PlainStep

LEMMA NextMirrors ==
    ASSUME NEW r \in Requests, Typed, Next, Mirroring, NextPlan(r)
    PROVE  Mirroring'
<1>0. r \in Pushers /\ hand[r] \in HandType
  BY FieldsTyped DEF Pushers
<1>1. hand[r].at = "next" /\ UNCHANGED <<plan, product, queue, applied, lost>> /\ Lasting
  BY DEF NextPlan, Lasting
<1>2. ASSUME NEW p \in DOMAIN hand[r].todo, NEW x,
             LET row == hand[r].todo[p]
                 left == [hand[r] EXCEPT !.todo = [q \in DOMAIN hand[r].todo \ {p} |-> hand[r].todo[q]]]
             IN  \/ x = left
                 \/ x = [left EXCEPT !.plan = p, !.copy = row,
                                     !.at = IF row.price = 0 THEN "product" ELSE "update"],
             hand' = [hand EXCEPT ![r] = x]
      PROVE  Mirroring'
  <2> DEFINE left == [hand[r] EXCEPT !.todo = [q \in DOMAIN hand[r].todo \ {p} |-> hand[r].todo[q]]]
             y == [left EXCEPT !.plan = p, !.copy = hand[r].todo[p],
                               !.at = IF hand[r].todo[p].price = 0 THEN "product" ELSE "update"]
  <2>1. /\ left \in HandType /\ left = [hand[r] EXCEPT !.todo = left.todo]
        /\ DOMAIN left.todo = DOMAIN hand[r].todo \ {p}
        /\ \A q \in DOMAIN left.todo : left.todo[q] = hand[r].todo[q]
    BY <1>0, FewerTodo
  <2>2. x = left \/ x = y
    BY <1>2
  <2>3. left.at = "next"
    BY <1>0, <1>1 DEF HandType
  <2>4. /\ y.todo = left.todo /\ y.plan = p
        /\ y.copy = hand[r].todo[p] /\ y.at = IF y.copy.price = 0 THEN "product" ELSE "update"
    <3> HIDE DEF left
    <3> QED BY <2>1 DEF HandType
  <2>5. hand'[r] = x /\ \A g \in Pushers : g # r => hand'[g] = hand[g]
    BY <1>0, <1>2 DEF Typed, HandTyped
  <2> HIDE DEF left, y
  <2>6. /\ DOMAIN x.todo = DOMAIN hand[r].todo \ {p}
        /\ \A q \in DOMAIN x.todo : x.todo[q] = hand[r].todo[q]
        /\ \/ x.at = "next"
           \/ /\ x.plan = p /\ x.copy = hand[r].todo[p]
              /\ x.at = IF x.copy.price = 0 THEN "product" ELSE "update"
    BY <2>1, <2>2, <2>3, <2>4
  <2> QED BY <1>1, <2>5, <2>6, NextIsMirrored
<1>3. ASSUME NEW x \in {Idle, [Idle EXCEPT !.at = "mirror"]}, hand' = [hand EXCEPT ![r] = x]
      PROVE  Mirroring'
  <2>1. DOMAIN x.todo = {} /\ x.at \in {"idle", "mirror"}
    BY Constants1
  <2>2. hand'[r] = x /\ \A g \in Pushers : g # r => hand'[g] = hand[g]
    BY <1>0, <1>3 DEF Typed, HandTyped
  <2> QED BY <1>0, <1>1, <2>1, <2>2, QuietStep DEF PlanSteps
<1> QED BY <1>2, <1>3 DEF NextPlan

(* A deletion begins with a row that nobody is about to change. *)
LEMMA StartDeleteMirrors ==
    ASSUME Orderly, NEW r \in Requests, NEW p \in Plans, Typed, Next, Mirroring, StartDelete(r, p)
    PROVE  Mirroring'
<1> DEFINE k == [Idle EXCEPT !.at = "delete", !.plan = p, !.copy = plan[p]]
<1>0. /\ r \in Pushers /\ r # "worker" /\ Requests = Pushers \ {"worker"}
      /\ UNCHANGED <<plan, queue, product, applied, lost>> /\ hand[r].at = "idle" /\ Lasting /\ Live(p)
  BY SyncAssumption DEF Pushers, StartDelete, Busy, Lasting
<1>1. DOMAIN k.todo = {} /\ k.at = "delete" /\ k.plan = p /\ k.copy = plan[p]
  BY Constants1
<1>2. hand' = [hand EXCEPT ![r] = k]
  BY DEF StartDelete
<1> HIDE DEF k
<1>3. PICK n : n = k
  OBVIOUS
<1>4. hand'[r] = n /\ \A g \in Pushers : g # r => hand'[g] = hand[g]
  BY <1>0, <1>2, <1>3 DEF Typed, HandTyped
<1>5. n.copy.product = 0 \/ Sells(n.plan, n.copy.product)
  BY <1>1, <1>3 DEF Mirroring, Fits
<1>6. n.copy.product = 0 \/ Sells(n.plan, n.copy.product)'
  BY <1>5, SellsKept
<1>7. Carries(r)'
  BY <1>0, <1>1, <1>3, <1>4, <1>6 DEF Carries, Live
<1>8. \A g \in Pushers : ~Pushes(g, p) /\ ~Deletes(g, p)
  BY <1>0 DEF StartDelete, Calm, Deleting, BeingPushed, Pushes, Deletes
<1>9. \A q : /\ ~Hooks(r, q)' /\ ~Pushes(r, q)' /\ ~Hooks(r, q) /\ (Deletes(r, q)' => q = p)
  BY <1>0, <1>1, <1>3, <1>4 DEF Hooks, Deletes, Pushes
<1>10. ASSUME NEW q \in Plans PROVE Roles(q)'
  <2>1. Roles(q) /\ (Live(q)' <=> Live(q))
    BY <1>0 DEF Mirroring, Live
  <2> QED BY <1>0, <1>4, <1>8, <1>9, <2>1, RolesStep
<1> QED BY <1>0, <1>4, <1>7, <1>9, <1>10, PlainStep

(* A push of every plan begins when nothing is under way. *)
LEMMA AllMirrors ==
    ASSUME Orderly, NEW r \in Requests, Typed, Next, Mirroring, SyncAll(r)
    PROVE  Mirroring'
<1> DEFINE t == [p \in {q \in Plans : Live(q)} |-> plan[p]]
           x == [Idle EXCEPT !.at = "next", !.all = TRUE, !.todo = t]
<1>0. /\ r \in Pushers /\ UNCHANGED <<plan, queue, product, applied, lost>> /\ Lasting
      /\ hand' = [hand EXCEPT ![r] = x]
      /\ \A h \in Pushers : hand[h].at \in {"idle", "mirror"}
  BY DEF Pushers, SyncAll, Calm, Lasting
<1>1. x.at = "next" /\ x.todo = t
  BY Constants1
<1>2. \A q \in DOMAIN t : q \in Plans /\ Live(q) /\ t[q] = plan[q]
  OBVIOUS
<1> HIDE DEF t
<1>3. PICK n : n = x
  OBVIOUS
<1>4. hand'[r] = n /\ \A g \in Pushers : g # r => hand'[g] = hand[g]
  BY <1>0, <1>3 DEF Typed, HandTyped
<1>5. Carries(r)'
  <2>1. n.at = "next" /\ \A q \in DOMAIN n.todo : n.todo[q] = plan'[q]
    BY <1>0, <1>1, <1>2, <1>3
  <2> QED BY <1>4, <2>1 DEF Carries, PlanSteps
<1>6. \A g \in Pushers : \A q : ~Hooks(g, q) /\ ~Deletes(g, q)
  BY <1>0 DEF Hooks, Deletes
<1>7. \A q : /\ ~Hooks(r, q)' /\ ~Deletes(r, q)' /\ (Pushes(r, q)' => Live(q))
  BY <1>1, <1>2, <1>3, <1>4 DEF Hooks, Deletes, Pushes
<1>8. ASSUME NEW q \in Plans PROVE Roles(q)'
  <2>1. Roles(q) /\ (Live(q)' <=> Live(q))
    BY <1>0 DEF Mirroring, Live
  <2> QED BY <1>0, <1>4, <1>6, <1>7, <2>1, RolesStep
<1> QED BY <1>0, <1>4, <1>5, <1>6, <1>8, PlainStep

-----------------------------------------------------------------------------
(* A row is created: its plan had neither entry to show nor push. *)
LEMMA AddMirrors ==
    ASSUME NEW p \in Plans, NEW a \in NewAmounts, Typed, Typed', Selling, Next, Mirroring, Add(p, a)
    PROVE  Mirroring'
<1> DEFINE row == [Blank EXCEPT !.state = "live", !.on = TRUE, !.amount = a]
<1>0. /\ UNCHANGED <<product, pass, hand, applied>> /\ plan[p].state = "none"
      /\ plan' = [plan EXCEPT ![p] = row] /\ "worker" \in Pushers
  BY DEF Add, Pushers
<1>1. row \in RowType /\ row.product = 0 /\ row.state = "live"
  BY SyncAssumption DEF Blank, RowType
<1> HIDE DEF row
<1>2. plan'[p] = row /\ \A q \in Plans : q # p => plan'[q] = plan[q]
  BY <1>0 DEF Typed
<1>3. PICK w : w = row
  OBVIOUS
<1>4. /\ queue' = queue \/ Enqueue("create", p, w)
      /\ \A q : q # p => (q \in lost' <=> q \in lost)
  BY <1>2, <1>3 DEF Add, Hooked
<1>5. /\ Lasting /\ \A q : q # p => \A i \in DOMAIN queue' : i \in DOMAIN queue \/ queue'[i].plan # q
      /\ (Top(p) => Top(p)')
      /\ \A i \in DOMAIN queue' : i \notin DOMAIN queue =>
            queue'[i].op = "create" /\ queue'[i].copy.product = 0
  <2>1. CASE queue' = queue
    <3>1. Lasting /\ \A i \in DOMAIN queue' : i \in DOMAIN queue
      BY <2>1 DEF Lasting
    <3> QED BY <3>1, NewestSame
  <2>2. CASE Enqueue("create", p, w)
    <3>0. w \in RowType /\ pass' = pass
      BY <1>0, <1>1, <1>3
    <3>1. PICK x : x = Newest(p)'
      OBVIOUS
    <3>2. /\ Lasting /\ Top(p)'
          /\ \A q : q # p => \A i \in DOMAIN queue' : i \in DOMAIN queue \/ queue'[i].plan # q
          /\ \A i \in DOMAIN queue' : i \notin DOMAIN queue => i = x
          /\ queue'[x] = [op |-> "create", plan |-> p, copy |-> w, tries |-> 0, state |-> "pending"]
      BY <2>2, <3>0, <3>1, OneMore
    <3>3. queue'[x].op = "create" /\ queue'[x].copy = w
      BY <3>2
    <3> QED BY <1>1, <1>3, <3>2, <3>3
  <2> QED BY <1>4, <2>1, <2>2
<1>6. Entries /\ (\A g \in Pushers : Carries(g)) /\ \A q \in Plans : Roles(q) /\ Fits(q)
  BY DEF Mirroring
<1>7. \A g \in Pushers : ~Pushes(g, p) /\ ~Deletes(g, p)
  BY <1>0, <1>6 DEF Roles, Carries, Live, Deletes
<1>8. Entries'
  BY <1>5, <1>6, EntriesStay
<1>9. ASSUME NEW g \in Pushers PROVE Carries(g)'
  <2>1. p \notin DOMAIN hand[g].todo
    <3>1. CASE g = "worker"
      BY <3>1 DEF Selling, Shape
    <3>2. CASE g # "worker"
      BY <1>7, <3>2 DEF Pushes
    <3> QED BY <3>1, <3>2
  <2>2. plan'[p].state # "none"
    BY <1>1, <1>2
  <2>3. \A q \in Plans : \/ plan'[q] = plan[q]
                         \/ q \notin DOMAIN hand[g].todo /\ ~Pushes(g, q) /\ plan'[q].state # "none"
                            /\ ~Deletes(g, q)
    BY <1>2, <1>7, <2>1, <2>2
  <2> QED BY <1>0, <1>5, <1>6, <2>3, CarriesOn
<1>10. \A g \in Pushers : \A q :
         /\ Deletes(g, q)' <=> Deletes(g, q)
         /\ Pushes(g, q)' <=> Pushes(g, q)
  BY <1>0 DEF Deletes, Pushes
<1>11. Live(p)' /\ ~Live(p)
  BY <1>0, <1>1, <1>2 DEF Live
<1>12. \A q \in Plans : q # p => (Live(q)' <=> Live(q))
  BY <1>2 DEF Live
<1>13. ASSUME NEW q \in Plans PROVE Roles(q)'
  <2>1. CASE q = p
    BY <1>7, <1>10, <1>11, <2>1 DEF Roles
  <2>2. CASE q # p
    BY <1>0, <1>6, <1>10, <1>12, <2>2 DEF Roles
  <2> QED BY <2>1, <2>2
<1>14. ASSUME NEW q \in Plans PROVE Fits(q)'
  <2>1. CASE q = p
    <3>1. plan'[p].product = 0 /\ Top(p)' /\ (applied'[p] = 0 \/ applied'[p] \in DOMAIN queue')
      BY <1>0, <1>1, <1>2, <1>5, <1>6 DEF Fits, Lasting
    <3> QED BY <2>1, <3>1 DEF Fits
  <2>2. CASE q # p
    <3>1. Settled(q)' => Settled(q)
      BY <1>0, <1>2, <1>4, <1>12, <2>2 DEF Settled, Will, Hooks, Tells
    <3> QED BY <1>0, <1>2, <1>5, <1>6, <2>2, <3>1, RowStays
  <2> QED BY <2>1, <2>2
<1> QED BY <1>8, <1>9, <1>13, <1>14 DEF Mirroring

(* An edit: its hook is still to come, and no push holds what was there. *)
LEMMA EditMirrors ==
    ASSUME Orderly, NEW p \in Plans, NEW r \in Requests, NEW row \in Edited(plan[p]),
           Typed, Selling, Next, Mirroring, Edit(r, p, row)
    PROVE  Mirroring'
<1> DEFINE k == [Idle EXCEPT !.at = "reread", !.plan = p]
<1>0. /\ r \in Pushers /\ r # "worker" /\ Requests = Pushers \ {"worker"} /\ Live(p)
      /\ UNCHANGED <<queue, product, applied, lost>> /\ hand[r].at = "idle" /\ Lasting
      /\ hand' = [hand EXCEPT ![r] = k] /\ plan' = [plan EXCEPT ![p] = row] /\ ~BeingPushed(p)
  BY SyncAssumption DEF Pushers, Edit, Calm, Busy, Lasting
<1>1. k.at = "reread" /\ DOMAIN k.todo = {} /\ k.plan = p /\ k.copy.product = 0
  BY Constants1 DEF Blank
<1> HIDE DEF k
<1>2. PICK n : n = k
  OBVIOUS
<1>3. hand'[r] = n /\ \A g \in Pushers : g # r => hand'[g] = hand[g]
  BY <1>0, <1>2 DEF Typed, HandTyped
<1>4. /\ plan'[p] = row /\ row.state = "live" /\ row.product = plan[p].product
      /\ \A q \in Plans : q # p => plan'[q] = plan[q]
  BY <1>0, EditedTyped DEF Typed, Live
<1>5. Entries /\ (\A g \in Pushers : Carries(g)) /\ \A q \in Plans : Roles(q) /\ Fits(q)
  BY DEF Mirroring
<1>6. \A g \in Pushers : ~Pushes(g, p) /\ p \notin DOMAIN hand[g].todo
  <2> SUFFICES ASSUME NEW g \in Pushers PROVE ~Pushes(g, p) /\ p \notin DOMAIN hand[g].todo
    OBVIOUS
  <2>1. CASE g = "worker"
    BY <2>1 DEF Selling, Shape, Pushes
  <2>2. CASE g # "worker"
    BY <1>0, <2>2 DEF BeingPushed, Pushes
  <2> QED BY <2>1, <2>2
<1>7. Entries'
  BY <1>0, <1>5, EntriesStay
<1>8. ASSUME NEW g \in Pushers PROVE Carries(g)'
  <2>1. CASE g = r
    BY <1>0, <1>1, <1>2, <1>3, <2>1 DEF Carries
  <2>2. CASE g # r
    <3>1. \A q \in Plans : \/ plan'[q] = plan[q]
                           \/ /\ q \notin DOMAIN hand[g].todo /\ ~Pushes(g, q) /\ plan'[q].state # "none"
                              /\ Live(q) /\ plan'[q].product = plan[q].product
      BY <1>0, <1>4, <1>6
    <3> QED BY <1>0, <1>3, <1>5, <2>2, <3>1, CarriesOn
  <2> QED BY <2>1, <2>2
<1>9. \A q : ~Will(r, q) /\ ~Deletes(r, q)' /\ ~Pushes(r, q)'
  BY <1>0, <1>1, <1>2, <1>3 DEF Will, Hooks, Deletes, Pushes
<1>10. \A q \in Plans : Live(q)' <=> Live(q)
  BY <1>0, <1>4 DEF Live
<1>11. ASSUME NEW q \in Plans PROVE Roles(q)'
  BY <1>0, <1>3, <1>5, <1>6, <1>9, <1>10, RolesStep
<1>12. ASSUME NEW q \in Plans PROVE Fits(q)'
  <2>1. CASE q = p
    <3>1. ~Settled(p)'
      <4>1. Will(r, p)'
        BY <1>1, <1>2, <1>3 DEF Will, Hooks
      <4> QED BY <1>0, <1>10, <4>1 DEF Settled
    <3>2. Top(p)' /\ (applied'[p] = 0 \/ applied'[p] \in DOMAIN queue')
      BY <1>0, <1>5, NewestSame DEF Fits, Lasting
    <3>3. PICK id : id = plan[p].product
      OBVIOUS
    <3>4. plan'[p].product = id /\ (id # 0 => Sells(p, id)')
      BY <1>4, <1>5, <3>3, SellsKept DEF Fits
    <3>5. plan'[p].product # 0 => Sells(p, plan[p].product)'
      BY <3>4
    <3> QED BY <2>1, <3>1, <3>2, <3>5 DEF Fits
  <2>2. CASE q # p
    <3>1. Settled(q)' => Settled(q)
      BY <1>0, <1>3, <1>4, <1>9, <2>2, Unsettling
    <3> QED BY <1>0, <1>4, <1>5, <2>2, <3>1, RowStays
  <2> QED BY <2>1, <2>2
<1> QED BY <1>7, <1>8, <1>11, <1>12 DEF Mirroring

-----------------------------------------------------------------------------
(* A deletion queues what withdraws the product. *)
LEMMA DeleteMirrors ==
    ASSUME NEW r \in Requests, Typed, Typed', Selling, Next, Mirroring, Delete(r)
    PROVE  Mirroring'
<1> DEFINE old == hand[r].copy
<1>0. /\ r \in Pushers /\ r # "worker" /\ old \in RowType /\ hand[r].at = "delete"
      /\ UNCHANGED <<product, pass, applied>> /\ hand' = [hand EXCEPT ![r] = Idle]
  BY SyncAssumption, FieldsTyped DEF Pushers, Delete
<1>1. PICK p \in Plans : p = hand[r].plan
  BY <1>0, FieldsTyped DEF PlanSteps
<1>2. PICK n : n = hand'[r]
  OBVIOUS
<1>3. /\ n = Idle /\ n.at = "idle" /\ DOMAIN n.todo = {}
      /\ \A g \in Pushers : g # r => hand'[g] = hand[g]
  BY <1>0, <1>2, Constants1 DEF Typed, HandTyped
<1>4. CASE ~Live(p)
  <2>1. UNCHANGED <<plan, queue, lost>>
    BY <1>1, <1>4 DEF Delete
  <2>2. Ended(r) /\ Lasting /\ SameProducts
    BY <1>0, <1>2, <1>3, <2>1 DEF Ended, Lasting, SameProducts
  <2> QED BY <1>0, <1>3, <2>1, <2>2, EndsQuietly
<1>5. CASE Live(p)
  <2>1. /\ plan' = [plan EXCEPT ![p].state = "deleted"]
        /\ IF old.product = 0 THEN UNCHANGED <<queue, lost>> ELSE Hooked("archive", p, old, plan'[p])
    BY <1>1, <1>5 DEF Delete
  <2>2. /\ plan'[p].state = "deleted" /\ plan'[p].product = plan[p].product
        /\ \A q \in Plans : q # p => plan'[q] = plan[q]
    BY <2>1 DEF Typed, RowType
  <2>3. ~Live(p)' /\ \A q \in Plans : q # p => (Live(q)' <=> Live(q))
    BY <2>2 DEF Live
  <2>4. Entries /\ (\A g \in Pushers : Carries(g)) /\ \A q \in Plans : Roles(q) /\ Fits(q)
    BY DEF Mirroring
  <2>5. /\ old.product = plan[p].product /\ Deletes(r, p)
        /\ old.product # 0 => Sells(p, old.product)
    BY <1>0, <1>1, <1>5, <2>4 DEF Carries, Deletes, PlanSteps
  <2>6. PICK w : w = old
    OBVIOUS
  <2> HIDE DEF old
  <2>7. /\ \/ queue' = queue /\ (w.product = 0 \/ p \in lost')
           \/ w.product # 0 /\ Enqueue("archive", p, w)
        /\ \A q : q # p => (q \in lost' <=> q \in lost)
    BY <2>1, <2>6 DEF Hooked
  <2>8. w \in RowType /\ w.product = plan[p].product /\ (w.product # 0 => Sells(p, w.product))
    BY <1>0, <2>5, <2>6
  <2>9. /\ Lasting /\ \A q : q # p => \A i \in DOMAIN queue' : i \in DOMAIN queue \/ queue'[i].plan # q
        /\ (Top(p) => Top(p)')
        /\ \A i \in DOMAIN queue' : i \notin DOMAIN queue =>
              queue'[i].plan = p /\ queue'[i].copy = w /\ w.product # 0
        /\ w.product # 0 /\ p \notin lost' =>
              /\ Newest(p)' \in DOMAIN queue' /\ Newest(p)' \notin DOMAIN queue /\ Newest(p)' # 0
              /\ Says(p)'
    <3>1. CASE queue' = queue /\ (w.product = 0 \/ p \in lost')
      <4>1. Lasting /\ \A i \in DOMAIN queue' : i \in DOMAIN queue
        BY <3>1 DEF Lasting
      <4> QED BY <3>1, <4>1, NewestSame
    <3>2. CASE w.product # 0 /\ Enqueue("archive", p, w)
      <4>1. PICK x : x = Newest(p)'
        OBVIOUS
      <4>2. /\ Lasting /\ Top(p)' /\ x \in DOMAIN queue' /\ x \notin DOMAIN queue /\ x # 0
            /\ \A q : q # p => \A i \in DOMAIN queue' : i \in DOMAIN queue \/ queue'[i].plan # q
            /\ \A i \in DOMAIN queue' : i \notin DOMAIN queue => i = x
            /\ queue'[x] = [op |-> "archive", plan |-> p, copy |-> w, tries |-> 0, state |-> "pending"]
        BY <1>0, <2>8, <3>2, <4>1, OneMore
      <4>3. queue'[x].op = "archive" /\ queue'[x].copy = w /\ queue'[x].plan = p
        BY <4>2
      <4>4. Says(p)'
        BY <2>3, <4>1, <4>3 DEF Says
      <4> QED BY <3>2, <4>1, <4>2, <4>3, <4>4
    <3> QED BY <2>7, <3>1, <3>2
  <2>10. Entries'
    BY <2>4, <2>8, <2>9, EntriesStay
  <2>11. \A g \in Pushers : ~Pushes(g, p) /\ p \notin DOMAIN hand[g].todo
    <3> SUFFICES ASSUME NEW g \in Pushers PROVE ~Pushes(g, p) /\ p \notin DOMAIN hand[g].todo
      OBVIOUS
    <3>1. CASE g = "worker"
      BY <3>1 DEF Selling, Shape, Pushes
    <3>2. CASE g # "worker"
      BY <1>0, <2>4, <2>5, <3>2 DEF Roles, Pushes
    <3> QED BY <3>1, <3>2
  <2>12. ASSUME NEW g \in Pushers PROVE Carries(g)'
    <3>1. CASE g = r
      BY <1>0, <1>2, <1>3, <3>1 DEF Carries, PlanSteps
    <3>2. CASE g # r
      <4>1. \A q \in Plans : \/ plan'[q] = plan[q]
                             \/ /\ q \notin DOMAIN hand[g].todo /\ ~Pushes(g, q) /\ plan'[q].state # "none"
                                /\ ~Live(q)'
        BY <2>2, <2>3, <2>11
      <4> QED BY <1>3, <2>4, <2>9, <3>2, <4>1, CarriesOn
    <3> QED BY <3>1, <3>2
  <2>13. \A q : ~Will(r, q) /\ ~Deletes(r, q)' /\ ~Pushes(r, q)'
    BY <1>0, <1>2, <1>3 DEF Will, Hooks, Deletes, Pushes
  <2>14. ASSUME NEW q \in Plans PROVE Roles(q)'
    BY <1>0, <1>3, <2>3, <2>4, <2>5, <2>13, RolesStep
  <2>15. ASSUME NEW q \in Plans PROVE Fits(q)'
    <3>1. CASE q = p
      <4>1. Top(p)' /\ (applied'[p] = 0 \/ applied'[p] \in DOMAIN queue')
            /\ (w.product # 0 /\ p \notin lost' => applied'[p] # Newest(p)')
        BY <1>0, <2>4, <2>9 DEF Fits, Lasting
      <4>2. PICK id : id = plan[p].product
        OBVIOUS
      <4>3. plan'[p].product = id /\ w.product = id /\ (id # 0 => Sells(p, id)')
        BY <2>2, <2>8, <4>2, SellsKept
      <4>4. plan'[p].product # 0 => Sells(p, plan[p].product)'
        BY <4>3
      <4> QED BY <2>9, <3>1, <4>1, <4>3, <4>4 DEF Fits, Settled
    <3>2. CASE q # p
      <4>1. Settled(q)' => Settled(q)
        BY <1>0, <1>3, <2>2, <2>7, <2>13, <3>2, Unsettling
      <4> QED BY <1>0, <2>2, <2>4, <2>9, <3>2, <4>1, RowStays
    <3> QED BY <3>1, <3>2
  <2> QED BY <2>10, <2>12, <2>14, <2>15 DEF Mirroring
<1> QED BY <1>4, <1>5

(* What the server was about to queue is lost. *)
LEMMA CrashMirrors ==
    ASSUME Typed, Next, Mirroring, Crash
    PROVE  Mirroring'
<1>1. /\ \A h \in Pushers : hand'[h] = Idle
      /\ UNCHANGED <<plan, queue, product, applied>>
      /\ lost' = lost \cup {p \in Plans : \E h \in Pushers : Hooks(h, p)}
  BY DEF Crash
<1>2. \A h \in Pushers : hand'[h].at = "idle" /\ DOMAIN hand'[h].todo = {}
  BY <1>1, Constants1
<1>3. Lasting
  BY <1>1 DEF Lasting
<1>4. Entries'
  BY <1>1, <1>3, EntriesStay DEF Mirroring
<1>5. \A h \in Pushers : Carries(h)'
  BY <1>2 DEF Carries, PlanSteps
<1>6. \A p \in Plans : Roles(p)'
  BY <1>2 DEF Roles, Hooks, Deletes, Pushes
<1>7. ASSUME NEW p \in Plans PROVE Fits(p)'
  <2>1. Settled(p)' => Settled(p)
    BY <1>1 DEF Settled, Will
  <2> QED BY <1>1, <1>3, <2>1, RowStays DEF Mirroring
<1> QED BY <1>4, <1>5, <1>6, <1>7 DEF Mirroring

LEMMA StepMirrors ==
    ASSUME Orderly, Typed, Typed', OneEach, OneEach', Selling, Mirroring, [Next]_vars
    PROVE  Mirroring'
<1>1. CASE UNCHANGED vars
  BY <1>1, SameMirroring DEF vars
<1>2. CASE Next
  <2>1. ASSUME NEW r \in Requests, RequestStep(r) PROVE Mirroring'
    BY <1>2, <2>1, DeleteMirrors, NextMirrors, MirrorMirrors, PushMirrors DEF RequestStep, Pushers
  <2>2. CASE AdminStep
    BY <1>2, <2>2, AddMirrors, EditMirrors, StartDeleteMirrors, OneMirrors DEF AdminStep
  <2> QED BY <1>2, <2>1, <2>2, WorkerMirrors, AllMirrors, CrashMirrors DEF Next
<1> QED BY <1>1, <1>2

LEMMA InitMirrors == Init => Mirroring
<1> SUFFICES ASSUME Init PROVE Mirroring
  OBVIOUS
<1>1. /\ \A h \in Pushers : hand[h] = Idle
      /\ queue = <<>> /\ \A p \in Plans : applied[p] = 0
  BY DEF Init
<1>2. \A h \in Pushers : hand[h].at = "idle" /\ DOMAIN hand[h].todo = {}
  BY <1>1, Constants1
<1>3. DOMAIN queue = {}
  BY <1>1
<1>4. Entries /\ \A h \in Pushers : Carries(h)
  BY <1>2, <1>3 DEF Entries, Carries, PlanSteps
<1>5. \A p \in Plans : Roles(p)
  BY <1>2 DEF Roles, Hooks, Deletes, Pushes
<1>6. \A p \in Plans : Newest(p) = 0 /\ Top(p)
  <2> SUFFICES ASSUME NEW p \in Plans PROVE Newest(p) = 0 /\ Top(p)
    OBVIOUS
  <2>1. Newest(p) = 0
    BY <1>3 DEF Newest
  <2> QED BY <1>3, <2>1 DEF Top
<1>7. \A p \in Plans : plan[p].product # 0 => Sells(p, plan[p].product) /\ Shows(p)
  <2>1. CASE plan = [p \in Plans |-> Blank]
    BY <2>1 DEF Blank
  <2>2. ASSUME NEW p \in Plans, NEW a \in NewAmounts,
               plan = [q \in Plans |-> IF q # p THEN Blank ELSE
                    [state |-> "live", rev |-> 0, on |-> TRUE, amount |-> a, product |-> 1, price |-> 1]],
               product = <<[key |-> <<p>>, plan |-> p, asked |-> 0, rev |-> 0, on |-> TRUE]>>
        PROVE  \A q \in Plans : plan[q].product # 0 => Sells(q, plan[q].product) /\ Shows(q)
    <3>1. \A q \in Plans : q # p => plan[q].product = 0
      BY <2>2 DEF Blank
    <3>2. plan[p] = [state |-> "live", rev |-> 0, on |-> TRUE, amount |-> a, product |-> 1, price |-> 1]
      BY <2>2
    <3>3. DOMAIN product = {1} /\ product[1].plan = p /\ product[1].on /\ product[1].rev = 0
      BY <2>2
    <3>4. Sells(p, 1)
      BY <3>3 DEF Sells
    <3>5. Shows(p)
      BY <2>2, <3>2, <3>3 DEF Shows, Live
    <3> QED BY <3>1, <3>2, <3>4, <3>5
  <2> QED BY <2>1, <2>2 DEF Init
<1>8. \A p \in Plans : Fits(p)
  BY <1>1, <1>6, <1>7 DEF Fits
<1> QED BY <1>4, <1>5, <1>8 DEF Mirroring

(***************************************************************************)
(* On the orderly schedules, once nothing is under way for a plan, its last *)
(* change was told by its newest entry and that entry reached Stripe last,  *)
(* Stripe shows the plan as it is, whatever was retried, pushed by hand,    *)
(* interrupted, edited or deleted before: no plan whose withdrawal arrived  *)
(* stays on sale.                                                          *)
(***************************************************************************)
THEOREM PlansAreMirrored == ASSUME Orderly PROVE Spec => []Mirrored
<1>1. Mirroring => Mirrored
  <2> SUFFICES ASSUME Mirroring, NEW p \in Plans, Quiet(p), plan[p].product # 0, applied[p] = Newest(p), p \notin lost
               PROVE  Shows(p)
    BY DEF Mirrored, Shows
  <2>1. Settled(p)
    BY DEF Quiet, Holds, Settled, Will, Hooks
  <2> QED BY <2>1 DEF Mirroring, Fits
<1>2. Typed /\ Selling /\ [Next]_vars => (Typed /\ Selling)'
  BY StepTyped, StepSells
<1>3. Typed /\ Typed' /\ OneEach /\ OneEach' /\ Selling /\ Mirroring /\ [Next]_vars => Mirroring'
  BY StepMirrors
<1>4. Init => Typed /\ Selling /\ Mirroring
  BY InitTyped, InitSells, InitMirrors
<1>5. Spec => [](Typed /\ OneEach)
  BY ProductsOneEach
<1> QED BY <1>1, <1>2, <1>3, <1>4, <1>5, PTL DEF Spec
=============================================================================
