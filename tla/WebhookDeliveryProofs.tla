----------------------- MODULE WebhookDeliveryProofs -----------------------
(***************************************************************************)
(* Proofs about WebhookDelivery, for every set of deliveries, every order  *)
(* of their events and every bound on operations and crashes: types, one   *)
(* unsettled operation per delivery, no way back to an older commit, and   *)
(* no delivery recorded as deployed that the app does not run.             *)
(*                                                                         *)
(* The inductive invariant has four parts besides the types.  RowsOrdered: *)
(* one recorded delivery is the latest, which the handler relies on when   *)
(* it looks for it.  OwnerOK: a delivery names the only operation that may *)
(* still work for it, or none, and then at most one exists.  ChildOK: an   *)
(* operation begins only when all earlier ones are settled, so children    *)
(* run in the order of the operations and the app runs what the last one   *)
(* brought.  OrderOK: along that order deliveries only get newer.          *)
(***************************************************************************)
EXTENDS WebhookDelivery, FiniteSetTheorems, TLAPS

DeliveryRow ==
  [status : Active \union {"absent", "deployed", "failed", "duplicate", "stale", "superseded"},
   id : 0..Cardinality(Delivery), op : Op \union {NoOp}]
OpRow ==
  [status : Settled \union {"absent", "pending", "running"},
   delivery : Delivery \union {None}, keyed : BOOLEAN,
   step : {"new", "prepared", "built", "applied"}, cancel : BOOLEAN]
Kid == {"absent", "pending", "running", "done", "failed", "cancelled"}

Placed(o) == op[o].status # "absent"
Unsettled(o) == op[o].status \in {"pending", "running"}
Begun(o) == op[o].status = "running" \/ op[o].step # "new" \/ child[o] # "absent"

\* The recorded deliveries are numbered, one is the latest, the source names one;
\* what is not recorded has no operation.
RowsOrdered ==
  /\ \A e \in Present : delivery[e].id \in 1..Cardinality(Present)
  /\ Present # {} => \E e \in Delivery : IsLatest(e)
  /\ last \in Present \union {None}
  /\ \A e \in Delivery \ Present : delivery[e].op = NoOp

\* Operations are rows in order, each of a recorded delivery.
QueueOK ==
  /\ \A o \in Op : Placed(o) => op[o].delivery \in Present
  /\ \A o \in Op : ~Placed(o) => op[o] = NoneOp /\ child[o] = "absent"
  /\ \A o, n \in Op : n < o /\ Placed(o) => Placed(n)

\* Which operations a delivery may have.
OwnerOK ==
  /\ \A o \in Op : Placed(o) =>
       /\ op[o].keyed => op[o].delivery \notin Release
       /\ ~op[o].keyed /\ op[o].delivery \notin Release => delivery[op[o].delivery].op # NoOp
       /\ Unsettled(o) => delivery[op[o].delivery].op \in {NoOp, o}
  /\ \A o, n \in Op :
       Placed(o) /\ Placed(n) /\ op[o].delivery = op[n].delivery
         /\ delivery[op[o].delivery].op = NoOp => o = n
  /\ \A o, n \in Op :
       op[o].keyed /\ op[n].keyed /\ Commit[op[o].delivery] = Commit[op[n].delivery] => o = n

\* What has begun, what the child did and what the app runs.
ChildOK ==
  /\ \A o, n \in Op : o < n /\ Begun(n) => ~Unsettled(o)
  /\ \A o, n \in Op : o < n /\ child[n] \in {"running", "done"} =>
       child[o] \notin {"pending", "running"}
  /\ \A o \in Op : child[o] = "done" /\ Unsettled(o) => live = op[o].delivery
  /\ \A o \in Op : child[o] = "cancelled" => op[o].cancel \/ o \in withdrawn
  /\ \A o \in Op : op[o].step = "applied" => child[o] # "absent"
  /\ \A o \in Op : Unsettled(o) /\ op[o].step = "applied" =>
       o \in withdrawn \/ child[o] = "done"
  /\ runner.pc = "finishing" => runner.op \in Op /\ op[runner.op].step = "applied"

\* The deliveries handed to the app get newer, unless two were while the source
\* named none.
Handed == {o \in Op : child[o] # "absent"}
OrderOK ==
  /\ live # None => \E o \in Op : child[o] = "done" /\ op[o].delivery = live
  /\ last = None /\ ~twice => \A o, n \in Handed : op[o].delivery = op[n].delivery
  /\ ~twice =>
       /\ \A o, n \in Handed : o < n => Newer(op[n].delivery, op[o].delivery)
       /\ last # None => \A o \in Handed : Newer(last, op[o].delivery)

Inv == TypeOK /\ RowsOrdered /\ QueueOK /\ OwnerOK /\ ChildOK /\ OrderOK

-----------------------------------------------------------------------------
(* Rows *)

\* The sets of rows are those of TypeOK.
LEMMA RowTypes ==
  ASSUME TypeOK
  PROVE  delivery \in [Delivery -> DeliveryRow] /\ op \in [Op -> OpRow]
BY DEF TypeOK, DeliveryRow, OpRow

\* No operation is the absent one, no delivery is None.
LEMMA Names == NoOp \notin Op /\ Op \subseteq Nat /\ None \notin Delivery
BY DeliveryAssumption DEF Op, NoOp

\* The recorded deliveries can be counted, and one more has a number.
LEMMA Counting ==
  ASSUME NEW P \in SUBSET Delivery
  PROVE  /\ IsFiniteSet(P) /\ Cardinality(P) \in Nat /\ Cardinality(P) <= Cardinality(Delivery)
         /\ Cardinality(Delivery) \in Nat
         /\ \A d \in Delivery \ P : /\ Cardinality(P \union {d}) = Cardinality(P) + 1
                                    /\ Cardinality(P) + 1 <= Cardinality(Delivery)
<1>1. IsFiniteSet(P) /\ Cardinality(P) <= Cardinality(Delivery)
  BY DeliveryAssumption, FS_Subset
<1>2. Cardinality(P) \in Nat /\ Cardinality(Delivery) \in Nat
  BY <1>1, DeliveryAssumption, FS_CardinalityType
<1>3. ASSUME NEW d \in Delivery \ P
      PROVE  /\ Cardinality(P \union {d}) = Cardinality(P) + 1
             /\ Cardinality(P) + 1 <= Cardinality(Delivery)
  <2>1. Cardinality(P \union {d}) = Cardinality(P) + 1
    BY <1>1, FS_AddElement
  <2>2. P \union {d} \subseteq Delivery
    OBVIOUS
  <2>3. Cardinality(P \union {d}) <= Cardinality(Delivery)
    BY <2>2, DeliveryAssumption, FS_Subset
  <2> QED  BY <2>1, <2>3
<1> QED  BY <1>1, <1>2, <1>3

\* The row of delivery d as the handler records it, or found it.
LEMMA RecordedRow ==
  ASSUME TypeOK, NEW d \in Delivery
  PROVE  /\ Recorded(d) \in [Delivery -> DeliveryRow]
         /\ \A e \in Delivery \ {d} : Recorded(d)[e] = delivery[e]
         /\ d \in Present => Recorded(d) = delivery
         /\ d \notin Present => /\ Recorded(d)[d].status = "received"
                                /\ Recorded(d)[d].id = NextId
                                /\ Recorded(d)[d].op = NoOp
<1>1. delivery \in [Delivery -> DeliveryRow]
  BY RowTypes
<1>2. CASE d \in Present
  BY <1>1, <1>2 DEF Recorded
<1>3. CASE d \notin Present
  <2> DEFINE r == [NoRow EXCEPT !.status = "received", !.id = NextId]
  <2>1. Recorded(d) = [delivery EXCEPT ![d] = r]
    BY <1>3 DEF Recorded
  <2> PICK P : P = Present
    OBVIOUS
  <2>2. NextId \in 0..Cardinality(Delivery)
    <3>1. P \in SUBSET Delivery /\ d \in Delivery \ P
      BY <1>3 DEF Present
    <3>2. /\ Cardinality(P) \in Nat /\ Cardinality(Delivery) \in Nat
          /\ Cardinality(P) + 1 <= Cardinality(Delivery)
      BY <3>1, Counting
    <3>3. NextId = Cardinality(P) + 1
      BY DEF NextId
    <3> QED  BY <3>2, <3>3
  <2>3. r \in DeliveryRow /\ r.status = "received" /\ r.id = NextId /\ r.op = NoOp
    BY <2>2 DEF NoRow, DeliveryRow, Active
  <2> HIDE DEF r
  <2> QED  BY <1>1, <1>3, <2>1, <2>3
<1> QED  BY <1>2, <1>3

\* The row of delivery d with an operation attached.
LEMMA AttachedRow ==
  ASSUME TypeOK, NEW d \in Delivery, NEW o \in Op
  PROVE  /\ Attached(d, o) \in [Delivery -> DeliveryRow]
         /\ \A e \in Delivery \ {d} : Attached(d, o)[e] = delivery[e]
         /\ Attached(d, o)[d].op = o
         /\ Attached(d, o)[d].id = Recorded(d)[d].id
         /\ Attached(d, o)[d].status = IF Recorded(d)[d].status = "received" THEN "queued"
                                       ELSE Recorded(d)[d].status
<1> PICK row : row = Recorded(d)
  OBVIOUS
<1>1. row \in [Delivery -> DeliveryRow] /\ \A e \in Delivery \ {d} : row[e] = delivery[e]
  BY RecordedRow
<1> DEFINE s == IF row[d].status = "received" THEN "queued" ELSE row[d].status
           r == [row[d] EXCEPT !.op = o, !.status = s]
<1>2. Attached(d, o) = [row EXCEPT ![d] = r]
  BY <1>1 DEF Attached, DeliveryRow
<1>3. s \in Active \union {"absent", "deployed", "failed", "duplicate", "stale", "superseded"}
  BY <1>1 DEF DeliveryRow, Active
<1> HIDE DEF s
<1>4. r \in DeliveryRow /\ r.op = o /\ r.id = row[d].id /\ r.status = s
  BY <1>1, <1>3 DEF DeliveryRow
<1> HIDE DEF r
<1>5. /\ Attached(d, o) \in [Delivery -> DeliveryRow]
      /\ \A e \in Delivery \ {d} : Attached(d, o)[e] = delivery[e]
      /\ Attached(d, o)[d] = r
  BY <1>1, <1>2, <1>4
<1> QED  BY <1>4, <1>5 DEF s

\* A new operation, and one that requestCancel was called on.
LEMMA OpRows ==
  ASSUME NEW d \in Delivery, NEW k \in BOOLEAN, NEW r \in OpRow
  PROVE  /\ NewOp(d, k) \in OpRow
         /\ NewOp(d, k).status = "pending" /\ NewOp(d, k).delivery = d
         /\ NewOp(d, k).keyed = k /\ NewOp(d, k).step = "new" /\ NewOp(d, k).cancel = FALSE
         /\ CancelledRow(r) \in OpRow
         /\ CancelledRow(r).delivery = r.delivery /\ CancelledRow(r).keyed = r.keyed
         /\ CancelledRow(r).step = r.step
         /\ r.cancel => CancelledRow(r).cancel
         /\ CancelledRow(r).status = IF r.status = "pending" THEN "cancelled" ELSE r.status
<1>1. /\ NewOp(d, k).status = "pending" /\ NewOp(d, k).delivery = d
      /\ NewOp(d, k).keyed = k /\ NewOp(d, k).step = "new" /\ NewOp(d, k).cancel = FALSE
  BY DEF NewOp, NoneOp
<1>2. NewOp(d, k) \in OpRow
  BY DEF NewOp, NoneOp, OpRow
<1>3. CASE r.status = "pending"
  <2>1. CancelledRow(r) = [r EXCEPT !.status = "cancelled"]
    BY <1>3 DEF CancelledRow
  <2> QED  BY <1>1, <1>2, <1>3, <2>1 DEF OpRow, Settled
<1>4. CASE r.status = "running"
  <2>1. CancelledRow(r) = [r EXCEPT !.cancel = TRUE]
    BY <1>4 DEF CancelledRow
  <2> QED  BY <1>1, <1>2, <1>4, <2>1 DEF OpRow
<1>5. CASE r.status \notin {"pending", "running"}
  <2>1. CancelledRow(r) = r
    BY <1>5 DEF CancelledRow
  <2> QED  BY <1>1, <1>2, <1>5, <2>1
<1> QED  BY <1>3, <1>4, <1>5

-----------------------------------------------------------------------------
(* What a step does to the rows *)

\* One delivery is recorded, or was, and has operation own; statuses are free.
DeliveryEdit(d, own) ==
  /\ delivery' \in [Delivery -> DeliveryRow]
  /\ delivery'[d].status # "absent" /\ delivery'[d].op = own
  /\ delivery'[d].id = IF d \in Present THEN delivery[d].id ELSE NextId
  /\ \A e \in Delivery \ {d} :
       /\ delivery'[e].op = delivery[e].op /\ delivery'[e].id = delivery[e].id
       /\ delivery'[e].status = "absent" <=> delivery[e].status = "absent"

\* An operation keeps its delivery and its key; it does not come back to life.
RowQuiet(n) ==
  /\ op'[n].delivery = op[n].delivery /\ op'[n].keyed = op[n].keyed
  /\ op'[n].status = "absent" <=> op[n].status = "absent"
  /\ op'[n].status \in {"pending", "running"} => op[n].status \in {"pending", "running"}
  /\ op[n].status = "absent" => op'[n] = op[n]
  /\ op[n].cancel => op'[n].cancel
\* Nor does it begin or go on.
RowStill(n) ==
  RowQuiet(n) /\ op'[n].step = op[n].step
              /\ (op'[n].status = "running" => op[n].status = "running")
\* The order of events after the step.
NewerThen(d, e) == At[d] > At[e] \/ (At[d] = At[e] /\ delivery'[d].id >= delivery'[e].id)
\* The lowest free row becomes an operation of d.
RowNew(n, d, k) == FreeOp(n) /\ op'[n] = NewOp(d, k)

\* The recorded deliveries after an edit, their numbers and their order.
LEMMA EditRows ==
  ASSUME Inv, NEW d \in Delivery, NEW own, DeliveryEdit(d, own)
  PROVE  /\ Present' = Present \union {d}
         /\ \A e \in Present : delivery'[e].id = delivery[e].id /\ delivery'[e].id \in Nat
         /\ \A e \in Present : delivery[e].id \in Nat
         /\ \A e, f \in Present : NewerThen(e, f) <=> Newer(e, f)
         /\ delivery'[d].id \in Nat
         /\ d \notin Present => \A e \in Present : delivery'[e].id < delivery'[d].id
<1>1. Present' = Present \union {d} /\ Present \subseteq Delivery
  BY DEF DeliveryEdit, Present
<1>2. \A e \in Present : delivery'[e].id = delivery[e].id
  BY <1>1 DEF DeliveryEdit
<1> PICK P : P = Present
  OBVIOUS
<1>3. P \in SUBSET Delivery
  BY <1>1
<1>4. Cardinality(P) \in Nat
  BY <1>3, Counting
<1>5. \A e \in P : delivery[e].id \in 1..Cardinality(P)
  BY DEF Inv, RowsOrdered
<1>6. \A e \in P : delivery[e].id \in Nat /\ delivery[e].id < Cardinality(P) + 1
  BY <1>4, <1>5
<1>7. d \notin Present => delivery'[d].id = Cardinality(P) + 1
  BY DEF DeliveryEdit, NextId
<1>8. \A e, f \in Present : NewerThen(e, f) <=> Newer(e, f)
  BY <1>2 DEF Newer, NewerThen
<1> QED  BY <1>1, <1>2, <1>4, <1>6, <1>7, <1>8

\* A recorded delivery that is not late is newer than all others.
LEMMA EditLatest ==
  ASSUME Inv, NEW d \in Delivery, NEW own, DeliveryEdit(d, own)
  PROVE  /\ \E e \in Delivery : IsLatest(e)'
         /\ (~Late(d) \/ (d \notin Present /\ \A e \in Present : At[e] <= At[d]))
               => \A e \in Present \union {d} : NewerThen(d, e)
<1>1. /\ Present' = Present \union {d}
      /\ \A e \in Present : delivery'[e].id = delivery[e].id /\ delivery'[e].id \in Nat
      /\ delivery'[d].id \in Nat
      /\ d \notin Present => \A e \in Present : delivery'[e].id < delivery'[d].id
  BY EditRows
<1>2. Present \subseteq Delivery /\ \A e \in Delivery : At[e] \in Nat
  BY DeliveryAssumption DEF Present
<1>3. CASE Present = {}
  <2>1. IsLatest(d)'
    BY <1>1, <1>3 DEF IsLatest
  <2>2. NewerThen(d, d)
    BY <1>1, <1>2 DEF Newer, NewerThen
  <2> QED  BY <1>3, <2>1, <2>2
<1>4. CASE Present # {}
  <2>1. PICK l \in Delivery : IsLatest(l)
    BY <1>4 DEF Inv, RowsOrdered
  <2>2. l \in Present /\ \A f \in Present \ {l} : Before(f, l, delivery)
    BY <2>1 DEF IsLatest
  <2>3. \A f \in Present \ {l} : At[f] < At[l] \/ (At[f] = At[l] /\ delivery'[f].id < delivery'[l].id)
    BY <1>1, <2>2 DEF Before
  <2>4. CASE d \in Present
    <3>1. IsLatest(l)'
      BY <1>1, <2>2, <2>3, <2>4 DEF IsLatest, Before
    <3>2. ASSUME ~Late(d)  PROVE \A e \in Present \union {d} : NewerThen(d, e)
      <4>1. d = l \/ At[d] > At[l]
        BY <1>2, <2>1, <2>2, <3>2 DEF Late
      <4> QED  BY <1>1, <1>2, <2>2, <2>3, <2>4, <4>1 DEF Newer, NewerThen
    <3> QED  BY <2>4, <3>1, <3>2
  <2>5. CASE d \notin Present
    <3>1. CASE At[d] >= At[l]
      <4>1. \A e \in Present : At[e] < At[d] \/ (At[e] = At[d] /\ delivery'[e].id < delivery'[d].id)
        BY <1>1, <1>2, <2>2, <2>3, <2>5, <3>1
      <4>2. IsLatest(d)'
        BY <1>1, <4>1 DEF IsLatest, Before
      <4>3. \A e \in Present \union {d} : NewerThen(d, e)
        BY <1>1, <1>2, <4>1 DEF Newer, NewerThen
      <4> QED  BY <4>2, <4>3
    <3>2. CASE At[d] < At[l]
      <4>1. IsLatest(l)'
        BY <1>1, <2>2, <2>3, <2>5, <3>2 DEF IsLatest, Before
      <4>2. Late(d)
        BY <1>2, <2>1, <2>2, <2>5, <3>2 DEF Late
      <4>3. ~(\A e \in Present : At[e] <= At[d])
        BY <1>2, <2>2, <3>2
      <4> QED  BY <4>1, <4>2, <4>3
    <3> QED  BY <1>2, <3>1, <3>2
  <2> QED  BY <2>4, <2>5
<1> QED  BY <1>3, <1>4

\* The numbers stay in order.
LEMMA RowsKept ==
  ASSUME Inv, NEW d \in Delivery, NEW own, DeliveryEdit(d, own), last' \in {last, d}
  PROVE  RowsOrdered'
<1>1. /\ Present' = Present \union {d}
      /\ \A e \in Present : delivery'[e].id = delivery[e].id
      /\ Present \subseteq Delivery
  BY EditRows DEF Present
<1>2. \E e \in Delivery : IsLatest(e)'
  BY EditLatest
<1> PICK P : P = Present
  OBVIOUS
<1>3. Cardinality(P) \in Nat /\ (d \notin P => Cardinality(P \union {d}) = Cardinality(P) + 1)
  BY <1>1, Counting
<1>4. \A e \in P : delivery[e].id \in 1..Cardinality(P)
  BY DEF Inv, RowsOrdered
<1>5. \A e \in P \union {d} : delivery'[e].id \in 1..Cardinality(P \union {d})
  <2>1. CASE d \in P
    <3>1. P \union {d} = P
      BY <2>1
    <3> QED  BY <1>1, <1>4, <2>1, <3>1
  <2>2. CASE d \notin P
    <3>1. delivery'[d].id = Cardinality(P) + 1
      BY <2>2 DEF DeliveryEdit, NextId
    <3>2. \A e \in P : delivery'[e].id \in 1..Cardinality(P)
      BY <1>1, <1>4
    <3> QED  BY <1>3, <2>2, <3>1, <3>2
  <2> QED  BY <2>1, <2>2
<1>6. \A e \in Present' : (delivery[e].id)' \in 1..Cardinality(Present')
  BY <1>1, <1>5
<1>7. last' \in Present' \union {None}
  BY <1>1 DEF Inv, RowsOrdered
<1>8. \A e \in Delivery \ Present' : delivery'[e].op = NoOp
  BY <1>1 DEF Inv, RowsOrdered, DeliveryEdit
<1> QED  BY <1>2, <1>6, <1>7, <1>8 DEF RowsOrdered

\* The queue keeps its shape, with a new row at its end or without.
LEMMA QueueKept ==
  ASSUME Inv, Present \subseteq Present',
         \A n \in Op : RowQuiet(n) \/ \E d \in Present', k \in BOOLEAN : RowNew(n, d, k),
         \A n \in Op : op'[n].status = "absent" => child'[n] = child[n]
  PROVE  QueueOK'
<1>1. Present' \subseteq Delivery
  BY DEF Present
<1>2. \A n \in Op, d \in Present', k \in BOOLEAN : RowNew(n, d, k) =>
        /\ op'[n].status = "pending" /\ op'[n].delivery = d
        /\ \A o \in Op : o < n => op[o].status # "absent"
  <2> SUFFICES ASSUME NEW n \in Op, NEW d \in Present', NEW k \in BOOLEAN, RowNew(n, d, k)
               PROVE  /\ op'[n].status = "pending" /\ op'[n].delivery = d
                      /\ \A o \in Op : o < n => op[o].status # "absent"
    OBVIOUS
  <2>1. op'[n] = NewOp(d, k) /\ FreeOp(n)
    BY DEF RowNew
  <2>2. NewOp(d, k).status = "pending" /\ NewOp(d, k).delivery = d
    BY DEF NewOp, NoneOp
  <2> QED  BY <2>1, <2>2 DEF FreeOp
<1>3. QueueOK
  BY DEF Inv
<1>4. \A o \in Op : Placed(o) => op[o].delivery \in Present
  BY <1>3 DEF QueueOK
<1>5. \A o \in Op : op'[o].status # "absent" => op'[o].delivery \in Present'
  BY <1>2, <1>4 DEF RowQuiet, Placed
<1>6. \A o \in Op : op'[o].status = "absent" => op'[o] = NoneOp /\ child'[o] = "absent"
  BY <1>2, <1>3 DEF QueueOK, RowQuiet, Placed
<1>7. \A o \in Op : op[o].status # "absent" => op'[o].status # "absent"
  BY <1>2 DEF RowQuiet
<1>8. \A o, n \in Op : n < o /\ op'[o].status # "absent" => op'[n].status # "absent"
  BY <1>2, <1>3, <1>7 DEF QueueOK, RowQuiet, Placed
<1> QED  BY <1>5, <1>6, <1>8 DEF QueueOK, Placed

-----------------------------------------------------------------------------
(* Whose operation a delivery names *)

\* Parts of OwnerOK as facts about one operation and about two.
LEMMA OwnerFacts ==
  ASSUME Inv, NEW o \in Op, Placed(o)
  PROVE  /\ op[o].delivery \in Present /\ op[o].delivery \in Delivery
         /\ op[o].keyed => op[o].delivery \notin Release
         /\ ~op[o].keyed /\ op[o].delivery \notin Release => delivery[op[o].delivery].op # NoOp
         /\ Unsettled(o) => delivery[op[o].delivery].op \in {NoOp, o}
BY DEF Inv, QueueOK, OwnerOK, Present

\* Only a row that is there has a key.
LEMMA KeyedPlaced == ASSUME Inv, NEW o \in Op, op[o].keyed  PROVE Placed(o)
BY DEF Inv, QueueOK, NoneOp

\* An operation that is known by the commit of d while d names none is the only
\* one of d, if d has one.
LEMMA KnownIsOwn ==
  ASSUME Inv, NEW d \in Delivery \ Release, delivery[d].op = NoOp,
         NEW o \in Op, Enqueued(d, o), NEW n \in Op, Placed(n), op[n].delivery = d
  PROVE  n = o /\ o \in Known(d)
<1>1. op[n].keyed
  BY OwnerFacts
<1>2. n \in Known(d)
  BY <1>1 DEF Known
<1>3. o \in Known(d)
  BY <1>2 DEF Enqueued
<1>4. op[o].keyed /\ Commit[op[o].delivery] = Commit[op[n].delivery]
  BY <1>3 DEF Known
<1> QED  BY <1>1, <1>3, <1>4 DEF Inv, OwnerOK

\* Deliveries name what they named and no operation is new.
LEMMA OwnerKept ==
  ASSUME Inv, \A e \in Delivery : delivery'[e].op = delivery[e].op,
         \A n \in Op : RowQuiet(n)
  PROVE  OwnerOK'
<1>1. \A n \in Op : /\ op'[n].delivery = op[n].delivery /\ op'[n].keyed = op[n].keyed
                    /\ op'[n].status # "absent" => Placed(n)
                    /\ op'[n].status \in {"pending", "running"} => Unsettled(n)
  BY DEF RowQuiet, Placed, Unsettled
<1>2. \A n \in Op : Placed(n) => delivery'[op[n].delivery].op = delivery[op[n].delivery].op
  BY OwnerFacts
<1>3. \A o \in Op : op'[o].status # "absent" =>
        /\ op'[o].keyed => op'[o].delivery \notin Release
        /\ ~op'[o].keyed /\ op'[o].delivery \notin Release => delivery'[op'[o].delivery].op # NoOp
        /\ op'[o].status \in {"pending", "running"} => delivery'[op'[o].delivery].op \in {NoOp, o}
  BY <1>1, <1>2, OwnerFacts
<1>4. \A o, n \in Op :
        op'[o].status # "absent" /\ op'[n].status # "absent" /\ op'[o].delivery = op'[n].delivery
          /\ delivery'[op'[o].delivery].op = NoOp => o = n
  BY <1>1, <1>2 DEF Inv, OwnerOK
<1>5. \A o, n \in Op :
        op'[o].keyed /\ op'[n].keyed /\ Commit[op'[o].delivery] = Commit[op'[n].delivery] => o = n
  BY <1>1 DEF Inv, OwnerOK
<1> QED  BY <1>3, <1>4, <1>5 DEF OwnerOK, Placed, Unsettled

\* A push finds the operation of its commit or enqueues one, and names it or,
\* cut short, does not.
LEMMA OwnerPush ==
  ASSUME Inv, NEW d \in Delivery \ Release, delivery[d].op = NoOp, NEW o \in Op, Enqueued(d, o),
         delivery'[d].op \in {NoOp, o},
         \A e \in Delivery \ {d} : delivery'[e].op = delivery[e].op,
         \A n \in Op \ {o} : RowQuiet(n),
         IF o \in Known(d) THEN RowQuiet(o) ELSE RowNew(o, d, TRUE)
  PROVE  OwnerOK'
<1>1. \A n \in Op \ {o} : /\ op'[n].delivery = op[n].delivery /\ op'[n].keyed = op[n].keyed
                          /\ op'[n].status # "absent" => Placed(n)
                          /\ op'[n].status \in {"pending", "running"} => Unsettled(n)
  BY DEF RowQuiet, Placed, Unsettled
<1>2. \A n \in Op \ {o} : Placed(n) =>
        op[n].delivery # d /\ delivery'[op[n].delivery].op = delivery[op[n].delivery].op
  BY KnownIsOwn, OwnerFacts
<1>3. /\ op'[o].status # "absent" /\ op'[o].keyed
      /\ Commit[op'[o].delivery] = Commit[d]
      /\ o \in Known(d) => /\ op'[o].delivery = op[o].delivery /\ Placed(o) /\ op[o].keyed
                           /\ op'[o].status \in {"pending", "running"} => Unsettled(o)
      /\ o \notin Known(d) => op'[o].delivery = d
  <2>1. CASE o \in Known(d)
    BY <2>1, KeyedPlaced DEF Known, RowQuiet, Placed, Unsettled
  <2>2. CASE o \notin Known(d)
    <3>1. op'[o] = NewOp(d, TRUE)
      BY <2>2 DEF RowNew
    <3> QED  BY <2>2, <3>1 DEF NewOp, NoneOp
  <2> QED  BY <2>1, <2>2
<1>4. op'[o].delivery \notin Release
  BY <1>3, OwnerFacts
<1>5. op'[o].status \in {"pending", "running"} => delivery'[op'[o].delivery].op \in {NoOp, o}
  <2>1. CASE op'[o].delivery = d
    BY <2>1
  <2>2. CASE op'[o].delivery # d
    BY <1>3, <2>2, OwnerFacts
  <2> QED  BY <2>1, <2>2
<1>6. \A a \in Op : op'[a].status # "absent" =>
        /\ op'[a].keyed => op'[a].delivery \notin Release
        /\ ~op'[a].keyed /\ op'[a].delivery \notin Release => delivery'[op'[a].delivery].op # NoOp
        /\ op'[a].status \in {"pending", "running"} => delivery'[op'[a].delivery].op \in {NoOp, a}
  BY <1>1, <1>2, <1>3, <1>4, <1>5, OwnerFacts
<1>7. \A a \in Op \ {o} : op'[a].keyed => Commit[op'[a].delivery] # Commit[d]
  <2> SUFFICES ASSUME NEW a \in Op \ {o}, op'[a].keyed, Commit[op'[a].delivery] = Commit[d]
               PROVE  FALSE
    OBVIOUS
  <2>1. op[a].keyed /\ Commit[op[a].delivery] = Commit[d]
    BY <1>1
  <2>2. a \in Known(d)
    BY <2>1 DEF Known
  <2>3. o \in Known(d)
    BY <2>2 DEF Enqueued
  <2>4. op[o].keyed /\ Commit[op[o].delivery] = Commit[d]
    BY <2>3 DEF Known
  <2> QED  BY <2>1, <2>4 DEF Inv, OwnerOK
<1>8. \A a, b \in Op :
        op'[a].keyed /\ op'[b].keyed /\ Commit[op'[a].delivery] = Commit[op'[b].delivery] => a = b
  <2>1. \A a, b \in Op \ {o} :
          op[a].keyed /\ op[b].keyed /\ Commit[op[a].delivery] = Commit[op[b].delivery] => a = b
    BY DEF Inv, OwnerOK
  <2> QED  BY <1>1, <1>3, <1>7, <2>1
<1>9. \A a, b \in Op :
        op'[a].status # "absent" /\ op'[b].status # "absent" /\ op'[a].delivery = op'[b].delivery
          /\ delivery'[op'[a].delivery].op = NoOp => a = b
  <2>1. \A a, b \in Op :
          Placed(a) /\ Placed(b) /\ op[a].delivery = op[b].delivery
            /\ delivery[op[a].delivery].op = NoOp => a = b
    BY DEF Inv, OwnerOK
  <2>2. \A a, b \in Op \ {o} :
          op'[a].status # "absent" /\ op'[b].status # "absent" /\ op'[a].delivery = op'[b].delivery
            /\ delivery'[op'[a].delivery].op = NoOp => a = b
    BY <1>1, <1>2, <2>1
  <2>3. ASSUME NEW a \in Op \ {o}, op'[a].status # "absent", op'[a].delivery = op'[o].delivery,
               delivery'[op'[a].delivery].op = NoOp
        PROVE  FALSE
    <3>1. Placed(a) /\ op[a].delivery # d /\ op'[a].delivery = op[a].delivery
          /\ delivery[op[a].delivery].op = NoOp
      BY <1>1, <1>2, <2>3
    <3>2. o \in Known(d) /\ Placed(o) /\ op[o].delivery = op[a].delivery
      BY <1>3, <2>3, <3>1
    <3> QED  BY <2>1, <3>1, <3>2
  <2> QED  BY <2>2, <2>3
<1> QED  BY <1>6, <1>8, <1>9 DEF OwnerOK, Placed, Unsettled

\* A release, or the retry of a failed delivery, enqueues an operation without a
\* key for a delivery that no unsettled operation works for; a release cut short
\* does not name it.
LEMMA OwnerUnkeyed ==
  ASSUME Inv, NEW d \in Delivery, NEW o \in Op, RowNew(o, d, FALSE),
         \A n \in Op \ {o} : RowQuiet(n),
         \A e \in Delivery \ {d} : delivery'[e].op = delivery[e].op,
         \/ delivery'[d].op = o /\ \A n \in Op : Unsettled(n) => op[n].delivery # d
         \/ d \in Release /\ d \notin Present /\ delivery'[d].op = NoOp
  PROVE  OwnerOK'
<1>1. \A n \in Op \ {o} : /\ op'[n].delivery = op[n].delivery /\ op'[n].keyed = op[n].keyed
                          /\ op'[n].status # "absent" => Placed(n)
                          /\ op'[n].status \in {"pending", "running"} => Unsettled(n)
  BY DEF RowQuiet, Placed, Unsettled
<1>2. op'[o].status = "pending" /\ op'[o].delivery = d /\ op'[o].keyed = FALSE
  BY DEF RowNew, NewOp, NoneOp
<1>3. delivery'[d].op \in {NoOp, o} /\ (d \notin Release => delivery'[d].op = o) /\ o # NoOp
  BY Names
<1>4. \A n \in Op : Placed(n) /\ op[n].delivery # d =>
        delivery'[op[n].delivery].op = delivery[op[n].delivery].op
  BY OwnerFacts
<1>5. \A n \in Op : Unsettled(n) /\ Placed(n) => op[n].delivery # d
  BY OwnerFacts
<1>6. \A a \in Op : op'[a].status # "absent" =>
        /\ op'[a].keyed => op'[a].delivery \notin Release
        /\ ~op'[a].keyed /\ op'[a].delivery \notin Release => delivery'[op'[a].delivery].op # NoOp
        /\ op'[a].status \in {"pending", "running"} => delivery'[op'[a].delivery].op \in {NoOp, a}
  <2>1. \A a \in Op \ {o} : op'[a].status # "absent" =>
          /\ op'[a].keyed => op'[a].delivery \notin Release
          /\ ~op'[a].keyed /\ op'[a].delivery \notin Release => delivery'[op'[a].delivery].op # NoOp
          /\ op'[a].status \in {"pending", "running"} => delivery'[op'[a].delivery].op \in {NoOp, a}
    BY <1>1, <1>3, <1>4, <1>5, OwnerFacts
  <2> QED  BY <1>2, <1>3, <2>1
<1>7. \A a, b \in Op :
        op'[a].keyed /\ op'[b].keyed /\ Commit[op'[a].delivery] = Commit[op'[b].delivery] => a = b
  BY <1>1, <1>2 DEF Inv, OwnerOK
<1>8. \A a, b \in Op :
        op'[a].status # "absent" /\ op'[b].status # "absent" /\ op'[a].delivery = op'[b].delivery
          /\ delivery'[op'[a].delivery].op = NoOp => a = b
  <2>1. \A a, b \in Op :
          Placed(a) /\ Placed(b) /\ op[a].delivery = op[b].delivery
            /\ delivery[op[a].delivery].op = NoOp => a = b
    BY DEF Inv, OwnerOK
  <2>2. delivery'[d].op = NoOp => \A n \in Op : Placed(n) => op[n].delivery # d
    BY <1>3, OwnerFacts
  <2> QED  BY <1>1, <1>2, <1>4, <2>1, <2>2
<1> QED  BY <1>6, <1>7, <1>8 DEF OwnerOK, Placed, Unsettled

-----------------------------------------------------------------------------
(* What has begun *)

\* An operation that began is a row; what is absent has neither child nor step.
LEMMA BegunPlaced ==
  ASSUME Inv, NEW n \in Op
  PROVE  /\ Begun(n) => Placed(n)
         /\ ~Placed(n) => op[n].step = "new" /\ child[n] = "absent" /\ ~op[n].cancel
BY DEF Inv, QueueOK, NoneOp, Begun, Placed

\* A row that is in flight has begun, so all rows before it are settled.
LEMMA EarlierSettled ==
  ASSUME Inv, NEW o \in Op, op[o].status = "running", NEW n \in Op, n < o
  PROVE  ~Unsettled(n)
BY DEF Inv, ChildOK, Begun

\* The rows after one that is unsettled have not begun.
LEMMA LaterNotBegun ==
  ASSUME Inv, NEW o \in Op, Unsettled(o), NEW n \in Op, o < n
  PROVE  ~Begun(n) /\ child[n] = "absent"
BY DEF Inv, ChildOK, Begun

\* The children stay; rows stand still, settle or are new at the end.
LEMMA ChildRowsKept ==
  ASSUME Inv, child' = child, live' = live, withdrawn \subseteq withdrawn',
         runner' = runner \/ runner'.pc # "finishing",
         \A n \in Op : RowStill(n) \/ \E d \in Delivery, k \in BOOLEAN : RowNew(n, d, k)
  PROVE  ChildOK'
<1> DEFINE New(n) == op[n].status = "absent" /\ op'[n].status = "pending" /\ op'[n].step = "new"
                     /\ \A o \in Op : n < o => op[o].status = "absent"
<1>1. \A n \in Op : RowStill(n) \/ New(n)
  <2> SUFFICES ASSUME NEW n \in Op, NEW d \in Delivery, NEW k \in BOOLEAN, RowNew(n, d, k)
               PROVE  New(n)
    OBVIOUS
  <2>1. op'[n].status = "pending" /\ op'[n].step = "new" /\ op[n].status = "absent"
    BY DEF RowNew, FreeOp, NewOp, NoneOp
  <2>2. \A o \in Op : n < o => op[o].status = "absent"
    BY <2>1 DEF Inv, QueueOK, Placed
  <2> QED  BY <2>1, <2>2
<1>2. \A n \in Op : New(n) => child'[n] = "absent" /\ op[n].step = "new"
  BY BegunPlaced DEF Placed
<1>3. \A n \in Op : RowStill(n) =>
        /\ op'[n].delivery = op[n].delivery /\ op'[n].step = op[n].step
        /\ op[n].cancel => op'[n].cancel
        /\ op'[n].status \in {"pending", "running"} => Unsettled(n)
        /\ op'[n].status = "running" => op[n].status = "running"
        /\ op[n].status = "absent" => op'[n].status = "absent"
  BY DEF RowStill, RowQuiet, Unsettled
<1> HIDE DEF New
<1>4. \A n \in Op :
        op'[n].status = "running" \/ op'[n].step # "new" \/ child'[n] # "absent" => Begun(n)
  BY <1>1, <1>2, <1>3 DEF Begun, New
<1>5. \A o, n \in Op : o < n /\ Begun(n) => ~(op'[o].status \in {"pending", "running"})
  <2> SUFFICES ASSUME NEW o \in Op, NEW n \in Op, o < n, Begun(n)
               PROVE  ~(op'[o].status \in {"pending", "running"})
    OBVIOUS
  <2>1. Placed(n) /\ ~Unsettled(o)
    BY BegunPlaced DEF Inv, ChildOK
  <2>2. ~New(o)
    BY <2>1 DEF New, Placed
  <2> QED  BY <1>1, <1>3, <2>1, <2>2
<1>6. \A o \in Op : child'[o] = "done" /\ op'[o].status \in {"pending", "running"} =>
        live' = op'[o].delivery
  BY <1>1, <1>2, <1>3 DEF Inv, ChildOK
<1>7. \A o \in Op : child'[o] = "cancelled" => op'[o].cancel \/ o \in withdrawn'
  BY <1>1, <1>2, <1>3 DEF Inv, ChildOK
<1>8. \A o \in Op : op'[o].step = "applied" => child'[o] # "absent"
  BY <1>1, <1>3 DEF Inv, ChildOK, New
<1>9. \A o \in Op : op'[o].status \in {"pending", "running"} /\ op'[o].step = "applied" =>
        o \in withdrawn' \/ child'[o] = "done"
  BY <1>1, <1>3 DEF Inv, ChildOK, New
<1>10. runner'.pc = "finishing" => runner'.op \in Op /\ op'[runner'.op].step = "applied"
  BY <1>1, <1>2, <1>3 DEF Inv, ChildOK
<1>11. \A o, n \in Op : o < n /\ child'[n] \in {"running", "done"} =>
         child'[o] \notin {"pending", "running"}
  BY DEF Inv, ChildOK
<1> QED  BY <1>4, <1>5, <1>6, <1>7, <1>8, <1>9, <1>10, <1>11 DEF ChildOK, Begun, Unsettled

\* What GoOn writes.
LEMMA GoOnRow ==
  ASSUME TypeOK, NEW o \in Op, NEW st \in {"prepared", "built", "applied"}, NEW pc, GoOn(o, st, pc)
  PROVE  /\ op' \in [Op -> OpRow]
         /\ \A n \in Op \ {o} : op'[n] = op[n]
         /\ op'[o].status = "running" /\ op'[o].step = st /\ op'[o].delivery = op[o].delivery
         /\ op'[o].keyed = op[o].keyed /\ op'[o].cancel = op[o].cancel
         /\ runner' = [op |-> o, pc |-> pc] /\ runner'.op = o /\ runner'.pc = pc
<1>1. op \in [Op -> OpRow]
  BY RowTypes
<1> DEFINE r == [op[o] EXCEPT !.status = "running", !.step = st]
<1>2. op' = [op EXCEPT ![o] = r]
  BY <1>1 DEF GoOn, OpRow
<1>3. r \in OpRow /\ r.status = "running" /\ r.step = st /\ r.delivery = op[o].delivery
      /\ r.keyed = op[o].keyed /\ r.cancel = op[o].cancel
  BY <1>1 DEF OpRow
<1> HIDE DEF r
<1>4. runner' = [op |-> o, pc |-> pc]
  BY DEF GoOn
<1> QED  BY <1>1, <1>2, <1>3, <1>4

\* The operation in flight, or the first that waits, takes its next step; its
\* child, if that is new, waits.
LEMMA ChildGoesOn ==
  ASSUME Inv, NEW o \in Op, NEW st \in {"prepared", "built", "applied"}, NEW pc, GoOn(o, st, pc),
         Unsettled(o), \A n \in Op : n < o => ~Unsettled(n),
         live' = live, withdrawn' = withdrawn,
         \A n \in Op \ {o} : child'[n] = child[n],
         child'[o] = IF st = "built" /\ child[o] = "absent" THEN "pending" ELSE child[o],
         st = "applied" => child[o] # "absent" /\ (o \in withdrawn \/ child[o] = "done"),
         pc = "finishing" => st = "applied"
  PROVE  ChildOK'
<1>1. /\ \A n \in Op \ {o} : op'[n] = op[n]
      /\ op'[o].status = "running" /\ op'[o].step = st /\ op'[o].delivery = op[o].delivery
      /\ op'[o].cancel = op[o].cancel
      /\ runner'.op = o /\ runner'.pc = pc
  BY GoOnRow DEF Inv
<1>2. \A n \in Op : o < n => ~Begun(n) /\ child[n] = "absent"
  BY LaterNotBegun
<1>3. \A n \in Op : o \in Nat /\ n \in Nat
  BY Names
<1>4. \A a, n \in Op :
        a < n /\ (op'[n].status = "running" \/ op'[n].step # "new" \/ child'[n] # "absent")
          => ~(op'[a].status \in {"pending", "running"})
  <2> SUFFICES ASSUME NEW a \in Op, NEW n \in Op, a < n,
                      op'[n].status = "running" \/ op'[n].step # "new" \/ child'[n] # "absent"
               PROVE  ~(op'[a].status \in {"pending", "running"})
    OBVIOUS
  <2>1. CASE n = o
    BY <1>1, <2>1 DEF Unsettled
  <2>2. CASE n # o
    <3>1. Begun(n)
      BY <1>1, <2>2 DEF Begun
    <3>2. a # o
      BY <1>2, <3>1
    <3> QED  BY <1>1, <3>1, <3>2 DEF Inv, ChildOK, Unsettled
  <2> QED  BY <2>1, <2>2
<1>5. \A a, n \in Op : a < n /\ child'[n] \in {"running", "done"} =>
        child'[a] \notin {"pending", "running"}
  <2> SUFFICES ASSUME NEW a \in Op, NEW n \in Op, a < n, child'[n] \in {"running", "done"}
               PROVE  child'[a] \notin {"pending", "running"}
    OBVIOUS
  <2>1. child[n] \in {"running", "done"}
    OBVIOUS
  <2>2. a # o
    BY <1>2, <2>1
  <2> QED  BY <2>1, <2>2 DEF Inv, ChildOK
<1>6. \A a \in Op : child'[a] = "done" /\ op'[a].status \in {"pending", "running"} =>
        live' = op'[a].delivery
  BY <1>1 DEF Inv, ChildOK, Unsettled
<1>7. \A a \in Op : child'[a] = "cancelled" => op'[a].cancel \/ a \in withdrawn'
  BY <1>1 DEF Inv, ChildOK
<1>8. \A a \in Op : op'[a].step = "applied" => child'[a] # "absent"
  BY <1>1 DEF Inv, ChildOK
<1>9. \A a \in Op : op'[a].status \in {"pending", "running"} /\ op'[a].step = "applied" =>
        a \in withdrawn' \/ child'[a] = "done"
  BY <1>1 DEF Inv, ChildOK, Unsettled
<1>10. runner'.pc = "finishing" => runner'.op \in Op /\ op'[runner'.op].step = "applied"
  BY <1>1
<1> QED  BY <1>4, <1>5, <1>6, <1>7, <1>8, <1>9, <1>10 DEF ChildOK, Begun, Unsettled

\* A new status of one recorded delivery is an edit.
LEMMA StatusEdit ==
  ASSUME TypeOK, NEW d \in Present, NEW s,
         s \in Active \union {"deployed", "failed", "duplicate", "stale", "superseded"},
         delivery' = WithStatus(delivery, {d}, s)
  PROVE  /\ DeliveryEdit(d, delivery[d].op) /\ delivery'[d].status = s
         /\ \A e \in Delivery \ {d} : delivery'[e] = delivery[e]
<1>1. delivery \in [Delivery -> DeliveryRow] /\ d \in Delivery
  BY RowTypes DEF Present
<1> PICK row : row = delivery
  OBVIOUS
<1>2. row \in [Delivery -> DeliveryRow]
  BY <1>1
<1> DEFINE r == [row[d] EXCEPT !.status = s]
<1>3. delivery' = [e \in Delivery |-> IF e = d THEN r ELSE row[e]]
  BY DEF WithStatus
<1>4. r \in DeliveryRow /\ r.op = row[d].op /\ r.id = row[d].id /\ r.status = s /\ s # "absent"
  BY <1>1, <1>2 DEF DeliveryRow, Active
<1> HIDE DEF r
<1>5. /\ delivery' \in [Delivery -> DeliveryRow] /\ delivery'[d] = r
      /\ \A e \in Delivery \ {d} : delivery'[e] = delivery[e]
  BY <1>1, <1>2, <1>3, <1>4
<1> QED  BY <1>1, <1>4, <1>5 DEF DeliveryEdit, Present

\* What Fails writes.
LEMMA FailsRow ==
  ASSUME Inv, NEW o \in Op, Unsettled(o), Fails(o)
  PROVE  /\ op' \in [Op -> OpRow] /\ \A n \in Op : RowStill(n)
         /\ \A n \in Op \ {o} : op'[n] = op[n]
         /\ op'[o].status \in Settled
         /\ runner' = NoRunner
         /\ op[o].delivery \in Present
         /\ DeliveryEdit(op[o].delivery, delivery[op[o].delivery].op)
<1>1. op \in [Op -> OpRow] /\ delivery \in [Delivery -> DeliveryRow]
  BY RowTypes DEF Inv
<1>2. PICK d : d = op[o].delivery
  OBVIOUS
<1>3. d \in Present /\ d \in Delivery
  BY <1>2, OwnerFacts DEF Unsettled, Placed
<1>4. PICK s : s \in Settled /\ op' = [op EXCEPT ![o].status = s]
  BY DEF Fails, Settled
<1>5. op' = [op EXCEPT ![o] = [op[o] EXCEPT !.status = s]]
  BY <1>1, <1>4
<1> DEFINE r == [op[o] EXCEPT !.status = s]
<1>6. /\ r \in OpRow /\ r.status = s /\ r.delivery = op[o].delivery /\ r.keyed = op[o].keyed
      /\ r.step = op[o].step /\ r.cancel = op[o].cancel
  BY <1>1, <1>4 DEF OpRow
<1> HIDE DEF r
<1>7. op' \in [Op -> OpRow] /\ op'[o] = r /\ \A n \in Op \ {o} : op'[n] = op[n]
  BY <1>1, <1>5, <1>6 DEF r
<1>8. r.status \notin {"absent", "pending", "running"}
  BY <1>4, <1>6 DEF Settled
<1>9. RowStill(o)
  BY <1>6, <1>7, <1>8 DEF RowStill, RowQuiet, Unsettled
<1>10. \A n \in Op : RowStill(n)
  BY <1>7, <1>9 DEF RowStill, RowQuiet
<1>11. delivery' = delivery \/ delivery' = WithStatus(delivery, {d}, "failed")
  BY <1>2 DEF Fails
<1>12. DeliveryEdit(d, delivery[d].op)
  <2>1. CASE delivery' = delivery
    BY <1>1, <1>3, <2>1 DEF DeliveryEdit, Present
  <2>2. CASE delivery' = WithStatus(delivery, {d}, "failed")
    BY <1>3, <2>2, StatusEdit DEF Inv, Active
  <2> QED  BY <1>11, <2>1, <2>2
<1>13. runner' = NoRunner
  BY DEF Fails
<1> QED  BY <1>2, <1>3, <1>4, <1>6, <1>7, <1>10, <1>12, <1>13

-----------------------------------------------------------------------------
(* The order in which deliveries reach the app *)

\* An operation that has a child is a row, of a recorded delivery.
LEMMA HandedPlaced ==
  ASSUME Inv, NEW o \in Handed
  PROVE  o \in Op /\ Placed(o) /\ op[o].delivery \in Present /\ op[o].delivery \in Delivery
BY OwnerFacts, BegunPlaced DEF Handed

\* A recorded delivery is newer than itself.
LEMMA NewerSame == ASSUME Inv, NEW d \in Present  PROVE Newer(d, d)
<1>1. delivery[d].id \in Nat /\ At[d] \in Nat
  BY RowTypes, DeliveryAssumption DEF Inv, Present, DeliveryRow
<1> QED  BY <1>1 DEF Newer

\* No operation is handed to the app and none loses its delivery; the source
\* keeps its name or takes one newer than what was handed over.
LEMMA OrderKept ==
  ASSUME Inv, twice' = twice, Handed' = Handed,
         \A n \in Op : child[n] = "done" => child'[n] = "done",
         \A n \in Op : Placed(n) => op'[n].delivery = op[n].delivery,
         \A e, f \in Present : NewerThen(e, f) <=> Newer(e, f),
         \/ last' = last
         \/ last' # None /\ (~twice =>
                               \A o \in Handed : NewerThen(last', op[o].delivery)),
         live' = live \/ \E o \in Op : child'[o] = "done" /\ op'[o].delivery = live'
  PROVE  OrderOK'
<1>1. \A o \in Handed : /\ o \in Op /\ Placed(o) /\ op[o].delivery \in Present
                        /\ op'[o].delivery = op[o].delivery
  BY HandedPlaced
<1>2. live' # None => \E o \in Op : child'[o] = "done" /\ op'[o].delivery = live'
  <2>1. CASE live' = live
    <3> SUFFICES ASSUME live # None
                 PROVE  \E o \in Op : child'[o] = "done" /\ op'[o].delivery = live
      BY <2>1
    <3>1. PICK o \in Op : child[o] = "done" /\ op[o].delivery = live
      BY DEF Inv, OrderOK
    <3>2. o \in Handed
      BY <3>1 DEF Handed
    <3> QED  BY <1>1, <3>1, <3>2
  <2> QED  BY <2>1
<1>3. last' = None /\ ~twice => \A o, n \in Handed : op'[o].delivery = op'[n].delivery
  BY <1>1 DEF Inv, OrderOK
<1>4. ASSUME ~twice
      PROVE  /\ \A o, n \in Handed : o < n => NewerThen(op'[n].delivery, op'[o].delivery)
             /\ last' # None => \A o \in Handed : NewerThen(last', op'[o].delivery)
  <2>1. \A o, n \in Handed : o < n => Newer(op[n].delivery, op[o].delivery)
    BY <1>4 DEF Inv, OrderOK
  <2>2. \A o, n \in Handed : o < n => NewerThen(op'[n].delivery, op'[o].delivery)
    BY <1>1, <2>1
  <2>3. last # None => \A o \in Handed : Newer(last, op[o].delivery)
    BY <1>4 DEF Inv, OrderOK
  <2>4. last # None => last \in Present
    BY DEF Inv, RowsOrdered
  <2>5. last' # None => \A o \in Handed : NewerThen(last', op'[o].delivery)
    BY <1>1, <1>4, <2>3, <2>4
  <2> QED  BY <2>2, <2>5
<1>5. /\ \A o, n \in Handed' :
           o < n => (Newer(op[n].delivery, op[o].delivery))' <=> NewerThen(op'[n].delivery, op'[o].delivery)
      /\ \A o \in Handed' : (Newer(last, op[o].delivery))' <=> NewerThen(last', op'[o].delivery)
  BY DEF Newer, NewerThen
<1> QED  BY <1>2, <1>3, <1>4, <1>5 DEF OrderOK

\* The operation whose turn it is gets its child: its delivery is the one that
\* the source names, or the source names none.
LEMMA OrderGrows ==
  ASSUME Inv, NEW o \in Op, Unsettled(o), delivery' = delivery, last' = last, live' = live,
         last \in {None, op[o].delivery},
         \A n \in Op : op'[n].delivery = op[n].delivery,
         \A n \in Op \ {o} : child'[n] = child[n],
         child'[o] = IF child[o] = "absent" THEN "pending" ELSE child[o],
         twice' = (twice \/ Another(o))
  PROVE  OrderOK'
<1>1. Handed' = Handed \union {o}
  BY DEF Handed
<1>2. PICK d : d = op[o].delivery
  OBVIOUS
<1>3. d \in Present /\ d \in Delivery /\ Newer(d, d)
  BY <1>2, OwnerFacts, NewerSame DEF Unsettled, Placed
<1>4. live' # None => \E n \in Op : child'[n] = "done" /\ op'[n].delivery = live'
  <2> SUFFICES ASSUME live # None
               PROVE  \E n \in Op : child'[n] = "done" /\ op'[n].delivery = live
    OBVIOUS
  <2>1. PICK n \in Op : child[n] = "done" /\ op[n].delivery = live
    BY DEF Inv, OrderOK
  <2> QED  BY <2>1
<1>5. last = None /\ ~twice' => \A n \in Handed : op[n].delivery = d
  BY <1>2 DEF Another, Handed
<1>6. ASSUME ~twice'
      PROVE  \A n \in Handed : Newer(d, op[n].delivery)
  <2>1. CASE last = None
    BY <1>3, <1>5, <1>6, <2>1
  <2>2. CASE last # None
    <3>1. last = d /\ ~twice
      BY <1>2, <1>6, <2>2
    <3> QED  BY <2>2, <3>1 DEF Inv, OrderOK
  <2> QED  BY <2>1, <2>2
<1>7. ~twice' => ~twice
  OBVIOUS
<1>8. \A n \in Op : child[n] # "absent" => ~(o < n)
  BY LaterNotBegun
<1>9. ASSUME ~twice'
      PROVE  /\ \A m, n \in Handed' : m < n => Newer(op[n].delivery, op[m].delivery)
             /\ last # None => \A n \in Handed' : Newer(last, op[n].delivery)
  <2>1. \A m, n \in Handed : m < n => Newer(op[n].delivery, op[m].delivery)
    BY <1>7, <1>9 DEF Inv, OrderOK
  <2>2. \A n \in Handed : ~(o < n)
    BY <1>8 DEF Handed
  <2>3. o \in Nat
    BY Names
  <2>4. \A m, n \in Handed' : m < n => Newer(op[n].delivery, op[m].delivery)
    <3> SUFFICES ASSUME NEW m \in Handed', NEW n \in Handed', m < n
                 PROVE  Newer(op[n].delivery, op[m].delivery)
      OBVIOUS
    <3>1. CASE n = o
      <4>1. m # o
        BY <2>3, <3>1
      <4> QED  BY <1>1, <1>2, <1>6, <1>9, <3>1, <4>1
    <3>2. CASE n # o
      <4>1. n \in Handed /\ m # o
        BY <1>1, <2>2, <3>2
      <4> QED  BY <1>1, <2>1, <4>1
    <3> QED  BY <3>1, <3>2
  <2>5. last # None => \A n \in Handed' : Newer(last, op[n].delivery)
    BY <1>1, <1>2, <1>3, <1>6, <1>9
  <2> QED  BY <2>4, <2>5
<1>10. \A m, n \in Op : /\ (Newer(op[n].delivery, op[m].delivery))'
                             <=> Newer(op[n].delivery, op[m].delivery)
                        /\ (Newer(last, op[n].delivery))' <=> Newer(last, op[n].delivery)
  BY DEF Newer
<1>11. Handed' \subseteq Op
  BY DEF Handed
<1>12. last' = None /\ ~twice' => \A m, n \in Handed' : op'[m].delivery = op'[n].delivery
  BY <1>1, <1>2, <1>5, <1>11
<1> QED  BY <1>4, <1>9, <1>10, <1>11, <1>12 DEF OrderOK

-----------------------------------------------------------------------------
(* The handler of a push *)

\* The types again, from those of the parts.
LEMMA TypesAgain ==
  ASSUME TypeOK, delivery' \in [Delivery -> DeliveryRow], op' \in [Op -> OpRow],
         last' \in Delivery \union {None}, live' \in Delivery \union {None},
         child' \in [Op -> Kid],
         runner'.op \in Op \union {NoOp},
         runner' \in [op : Op \union {NoOp}, pc : {"idle", "building", "waiting", "finishing"}],
         withdrawn' \in SUBSET Op, twice' \in BOOLEAN,
         up' \in BOOLEAN, crashes' \in 0..MaxCrashes,
         \A o \in Op : op'[o].status = "running" <=> runner'.op = o
  PROVE  TypeOK'
BY DEF TypeOK, DeliveryRow, OpRow, Kid

\* What the handlers write is an edit of one delivery and of rows that stand
\* still; the source is named after a delivery newer than all.
LEMMA HandlerStep ==
  ASSUME Inv, HandlerKeeps, NEW d \in Delivery, NEW own, DeliveryEdit(d, own),
         op' \in [Op -> OpRow],
         \A n \in Op : RowStill(n) \/ \E k \in BOOLEAN : RowNew(n, d, k),
         \A n \in Op : op'[n].status = "running" <=> op[n].status = "running",
         last' = last \/ (last' = d /\ \A e \in Present : NewerThen(d, e)),
         up' \in BOOLEAN, crashes' \in 0..MaxCrashes, OwnerOK'
  PROVE  Inv'
<1>1. /\ Present' = Present \union {d}
      /\ \A e, f \in Present : NewerThen(e, f) <=> Newer(e, f)
  BY EditRows
<1>2. child' = child /\ live' = live /\ runner' = runner /\ withdrawn' = withdrawn
      /\ twice' = twice
  BY DEF HandlerKeeps, history
<1>3. TypeOK'
  <2>1. TypeOK
    BY DEF Inv
  <2>2. last' \in Delivery \union {None}
    BY <2>1 DEF TypeOK
  <2>3. \A o \in Op : op'[o].status = "running" <=> runner'.op = o
    BY <1>2, <2>1 DEF TypeOK
  <2>4. delivery' \in [Delivery -> DeliveryRow]
    BY DEF DeliveryEdit
  <2>5. /\ child' \in [Op -> Kid] /\ live' \in Delivery \union {None}
        /\ runner' \in [op : Op \union {NoOp}, pc : {"idle", "building", "waiting", "finishing"}]
        /\ withdrawn' \in SUBSET Op /\ twice' \in BOOLEAN
    BY <1>2, <2>1 DEF TypeOK, Kid
  <2> QED  BY <2>1, <2>2, <2>3, <2>4, <2>5, TypesAgain
<1>4. RowsOrdered'
  BY RowsKept
<1>5. QueueOK'
  <2>1. \A n \in Op : RowQuiet(n) \/ \E e \in Present', k \in BOOLEAN : RowNew(n, e, k)
    BY <1>1 DEF RowStill
  <2> QED  BY <1>1, <1>2, <2>1, QueueKept
<1>6. ChildOK'
  BY <1>2, ChildRowsKept
<1>7. OrderOK'
  <2>1. Handed' = Handed
    BY <1>2 DEF Handed
  <2>2. \A n \in Op : Placed(n) => op'[n].delivery = op[n].delivery
    BY DEF RowStill, RowQuiet, RowNew, FreeOp, Placed
  <2>3. \/ last' = last
        \/ last' # None /\ (~twice =>
                              \A o \in Handed : NewerThen(last', op[o].delivery))
    BY Names, HandedPlaced
  <2> QED  BY <1>1, <1>2, <2>1, <2>2, <2>3, OrderKept
<1> QED  BY <1>3, <1>4, <1>5, <1>6, <1>7 DEF Inv

\* Rows that differ from the recorded ones in that of d.
EditedRows(row, d, own) ==
  /\ row \in [Delivery -> DeliveryRow]
  /\ row[d].status # "absent" /\ row[d].op = own
  /\ row[d].id = IF d \in Present THEN delivery[d].id ELSE NextId
  /\ \A e \in Delivery \ {d} : row[e] = delivery[e]

\* Such rows are an edit, with new statuses of recorded deliveries or without.
LEMMA EditedIsEdit ==
  ASSUME TypeOK, NEW d \in Delivery, NEW own, NEW row, EditedRows(row, d, own),
         NEW D \in SUBSET Delivery, D \subseteq Present \union {d},
         NEW s, s \in Active \union {"deployed", "failed", "duplicate", "stale", "superseded"},
         delivery' = row \/ delivery' = WithStatus(row, D, s)
  PROVE  DeliveryEdit(d, own)
<1>1. CASE delivery' = row
  BY <1>1 DEF DeliveryEdit, EditedRows
<1>2. CASE delivery' = WithStatus(row, D, s)
  <2> DEFINE r(e) == [row[e] EXCEPT !.status = s]
  <2>1. \A e \in Delivery : r(e) \in DeliveryRow /\ r(e).op = row[e].op /\ r(e).id = row[e].id
                            /\ r(e).status = s
    BY DEF DeliveryRow, EditedRows
  <2>2. delivery' = [e \in Delivery |-> IF e \in D THEN r(e) ELSE row[e]]
    BY <1>2 DEF WithStatus
  <2> HIDE DEF r
  <2>3. delivery' \in [Delivery -> DeliveryRow]
        /\ \A e \in Delivery : delivery'[e] = IF e \in D THEN r(e) ELSE row[e]
    BY <2>1, <2>2 DEF EditedRows
  <2>4. s # "absent" /\ \A e \in D \ {d} : delivery[e].status # "absent"
    BY DEF Active, Present
  <2> QED  BY <2>1, <2>3, <2>4 DEF DeliveryEdit, EditedRows
<1> QED  BY <1>1, <1>2

\* The rows that the handler makes: d is recorded, and d has its operation.
LEMMA RecordEdits ==
  ASSUME TypeOK, NEW d \in Delivery, delivery[d].op = NoOp
  PROVE  EditedRows(Recorded(d), d, NoOp)
<1>1. CASE d \in Present
  BY <1>1, RecordedRow DEF Present, EditedRows
<1>2. CASE d \notin Present
  BY <1>2, RecordedRow DEF EditedRows
<1> QED  BY <1>1, <1>2

\* Attaching a delivery to the operation that was enqueued for it.
LEMMA AttachEdits ==
  ASSUME TypeOK, NEW d \in Delivery, delivery[d].op = NoOp, NEW o \in Op
  PROVE  EditedRows(Attached(d, o), d, o)
<1>1. EditedRows(Recorded(d), d, NoOp)
  BY RecordEdits
<1> QED  BY <1>1, AttachedRow DEF EditedRows

\* The handler cut after it recorded the delivery.
LEMMA PushRecords ==
  ASSUME TypeOK, NEW d \in Delivery, delivery[d].op = NoOp,
         delivery' = Recorded(d) \/ delivery' = WithStatus(Recorded(d), {d}, "stale")
  PROVE  DeliveryEdit(d, NoOp)
<1> PICK rec : rec = Recorded(d)
  OBVIOUS
<1>1. EditedRows(rec, d, NoOp)
  BY RecordEdits
<1>2. "stale" \in Active \union {"deployed", "failed", "duplicate", "stale", "superseded"}
  OBVIOUS
<1>3. delivery' = rec \/ delivery' = WithStatus(rec, {d}, "stale")
  OBVIOUS
<1> QED  BY <1>1, <1>2, <1>3, EditedIsEdit

\* The handler cut after it attached the delivery, at any older one.
LEMMA PushAttaches ==
  ASSUME TypeOK, NEW d \in Delivery, delivery[d].op = NoOp, NEW o \in Op,
         NEW D \in SUBSET Delivery, D \subseteq Present \union {d},
         NEW s \in {"duplicate", "superseded"},
         delivery' = Attached(d, o) \/ delivery' = WithStatus(Attached(d, o), D, s)
  PROVE  DeliveryEdit(d, o)
<1> PICK att : att = Attached(d, o)
  OBVIOUS
<1>1. EditedRows(att, d, o)
  BY AttachEdits
<1>2. s \in Active \union {"deployed", "failed", "duplicate", "stale", "superseded"}
  OBVIOUS
<1>3. delivery' = att \/ delivery' = WithStatus(att, D, s)
  OBVIOUS
<1> QED  BY <1>1, <1>2, <1>3, EditedIsEdit

\* What the enqueue of a push and the cancellations after it do to the rows.
LEMMA EnqueuedRows ==
  ASSUME Inv, NEW d \in Delivery, NEW o \in Op, Enqueued(d, o), NEW T, o \notin T,
         op' = [n \in Op |-> IF n \in T THEN CancelledRow(op[n]) ELSE OpsWith(d, o)[n]]
  PROVE  /\ op' \in [Op -> OpRow]
         /\ \A n \in Op \ {o} : RowStill(n)
         /\ IF o \in Known(d) THEN RowStill(o) ELSE RowNew(o, d, TRUE)
         /\ \A n \in Op : op'[n].status = "running" <=> op[n].status = "running"
<1>1. op \in [Op -> OpRow]
  BY RowTypes DEF Inv
<1>2. \A r \in OpRow :
        /\ CancelledRow(r) \in OpRow
        /\ CancelledRow(r).delivery = r.delivery /\ CancelledRow(r).keyed = r.keyed
        /\ CancelledRow(r).step = r.step
        /\ r.cancel => CancelledRow(r).cancel
        /\ CancelledRow(r).status = IF r.status = "pending" THEN "cancelled" ELSE r.status
        /\ r.status = "absent" => CancelledRow(r) = r
  <2>1. \A r \in OpRow : r.status = "absent" => CancelledRow(r) = r
    BY DEF CancelledRow
  <2> QED  BY <2>1, OpRows, SMTT(30), ZenonT(30)
<1>3. /\ NewOp(d, TRUE) \in OpRow /\ NewOp(d, TRUE).status = "pending"
  BY <1>1, OpRows, SMTT(30), ZenonT(30)
<1>4. \A n \in Op \ {o} : OpsWith(d, o)[n] = op[n]
  BY <1>1 DEF OpsWith
<1>5. o \in Known(d) => op'[o] = op[o]
  BY DEF OpsWith
<1>6. o \notin Known(d) => op'[o] = NewOp(d, TRUE) /\ FreeOp(o)
  BY <1>1 DEF OpsWith, Enqueued
<1>7. \A n \in Op \ {o} : op'[n] = CancelledRow(op[n]) \/ op'[n] = op[n]
  BY <1>4
<1>8. /\ \A n \in Op \ {o} : op'[n] \in OpRow
      /\ op'[o] \in OpRow
      /\ \A n \in Op \ {o} : op'[n].status = "running" <=> op[n].status = "running"
      /\ op'[o].status = "running" <=> op[o].status = "running"
  <2>1. \A n \in Op \ {o} : op'[n] \in OpRow
    BY <1>1, <1>2, <1>7
  <2>2. op'[o] \in OpRow
    BY <1>1, <1>3, <1>5, <1>6
  <2>3. \A n \in Op \ {o} : op'[n].status = "running" <=> op[n].status = "running"
    BY <1>1, <1>2, <1>7
  <2>4. op'[o].status = "running" <=> op[o].status = "running"
    BY <1>1, <1>3, <1>5, <1>6 DEF FreeOp
  <2> QED  BY <2>1, <2>2, <2>3, <2>4
<1>9. op' \in [Op -> OpRow]
  BY <1>8
<1>10. \A n \in Op \ {o} : RowStill(n)
  BY <1>1, <1>2, <1>7 DEF RowStill, RowQuiet
<1>11. IF o \in Known(d) THEN RowStill(o) ELSE RowNew(o, d, TRUE)
  BY <1>5, <1>6 DEF RowStill, RowQuiet, RowNew
<1>12. \A n \in Op : op'[n].status = "running" <=> op[n].status = "running"
  BY <1>8
<1> QED  BY <1>9, <1>10, <1>11, <1>12

\* One outcome of the handler: the operation is found or enqueued, its delivery
\* recorded and perhaps given the operation, others superseded and cancelled.
LEMMA PushOutcome ==
  ASSUME Inv, HandlerKeeps, NEW d \in Delivery \ Release, delivery[d].op = NoOp,
         NEW o \in Op, Enqueued(d, o), NEW T, o \notin T,
         op' = [n \in Op |-> IF n \in T THEN CancelledRow(op[n]) ELSE OpsWith(d, o)[n]],
         NEW own \in {NoOp, o}, DeliveryEdit(d, own),
         last' = last \/ (last' = d /\ ~Late(d)),
         up' \in BOOLEAN, crashes' \in 0..MaxCrashes
  PROVE  Inv'
<1>1. /\ op' \in [Op -> OpRow]
      /\ \A n \in Op \ {o} : RowStill(n)
      /\ IF o \in Known(d) THEN RowStill(o) ELSE RowNew(o, d, TRUE)
      /\ \A n \in Op : op'[n].status = "running" <=> op[n].status = "running"
  BY EnqueuedRows
<1>2. OwnerOK'
  <2>1. delivery'[d].op \in {NoOp, o} /\ \A e \in Delivery \ {d} : delivery'[e].op = delivery[e].op
    BY DEF DeliveryEdit
  <2>2. \A n \in Op \ {o} : RowQuiet(n)
    BY <1>1 DEF RowStill
  <2>3. IF o \in Known(d) THEN RowQuiet(o) ELSE RowNew(o, d, TRUE)
    BY <1>1 DEF RowStill
  <2> QED  BY <2>1, <2>2, <2>3, OwnerPush
<1>3. \A n \in Op : RowStill(n) \/ \E k \in BOOLEAN : RowNew(n, d, k)
  BY <1>1
<1>4. ~Late(d) => \A e \in Present : NewerThen(d, e)
  BY EditLatest
<1> QED  BY <1>1, <1>2, <1>3, <1>4, HandlerStep

\* As PushOutcome, where no operation is cancelled.
LEMMA PushPlain ==
  ASSUME Inv, HandlerKeeps, NEW d \in Delivery \ Release, delivery[d].op = NoOp,
         NEW o \in Op, Enqueued(d, o), op' = OpsWith(d, o),
         NEW own \in {NoOp, o}, DeliveryEdit(d, own), last' = last,
         up' \in BOOLEAN, crashes' \in 0..MaxCrashes
  PROVE  Inv'
<1>1. op \in [Op -> OpRow]
  BY RowTypes DEF Inv
<1>2. op' = [n \in Op |-> OpsWith(d, o)[n]]
  BY <1>1 DEF OpsWith
<1> PICK T : T = {}
  OBVIOUS
<1>3. /\ op' = [n \in Op |-> IF n \in T THEN CancelledRow(op[n]) ELSE OpsWith(d, o)[n]]
      /\ o \notin T
  BY <1>2
<1> QED  BY <1>3, PushOutcome, SMTT(30), ZenonT(30)

\* As PushOutcome, where older deliveries are superseded and some cancelled.
LEMMA PushPublishes ==
  ASSUME Inv, HandlerKeeps, NEW d \in Delivery \ Release, delivery[d].op = NoOp, ~Late(d),
         NEW o \in Op, Enqueued(d, o), NEW S \in SUBSET Older(d, o), NEW T \in SUBSET S,
         Publish(d, o, S, T), up' \in BOOLEAN, crashes' \in 0..MaxCrashes
  PROVE  Inv'
<1>1. S \subseteq Present /\ S \subseteq Delivery /\ \A e \in T : delivery[e].op # o
  BY DEF Older, Present
<1>2. DeliveryEdit(d, o)
  <2>1. delivery' = WithStatus(Attached(d, o), S, "superseded")
    BY DEF Publish
  <2>2. S \in SUBSET Delivery /\ S \subseteq Present \union {d}
    BY <1>1
  <2> QED  BY <2>1, <2>2, PushAttaches DEF Inv
<1> DEFINE C == {delivery[e].op : e \in T}
<1>3. o \notin C
  BY <1>1
<1>4. op' = [n \in Op |-> IF n \in C THEN CancelledRow(op[n]) ELSE OpsWith(d, o)[n]]
  BY DEF Publish
<1>5. last' = d
  BY DEF Publish
<1> HIDE DEF C
<1> QED  BY <1>2, <1>3, <1>4, <1>5, PushOutcome

\* A delivery recorded without an operation, or made stale.
LEMMA RecordOnly ==
  ASSUME Inv, HandlerKeeps, NEW d \in Delivery, delivery[d].op = NoOp, DeliveryEdit(d, NoOp),
         UNCHANGED <<last, op>>, up' \in BOOLEAN, crashes' \in 0..MaxCrashes
  PROVE  Inv'
<1>1. op' \in [Op -> OpRow]
  BY RowTypes DEF Inv
<1>2. \A n \in Op : RowStill(n) /\ RowQuiet(n)
  BY DEF RowStill, RowQuiet
<1>3. OwnerOK'
  <2>1. \A e \in Delivery : delivery'[e].op = delivery[e].op
    BY DEF DeliveryEdit
  <2> QED  BY <1>2, <2>1, OwnerKept
<1>4. \A n \in Op : RowStill(n) \/ \E k \in BOOLEAN : RowNew(n, d, k)
  BY <1>2
<1> QED  BY <1>1, <1>3, <1>4, HandlerStep

\* Nothing happens to the rows.
LEMMA StutterKeeps ==
  ASSUME Inv, UNCHANGED <<rows, live, runner, history>>,
         up' \in BOOLEAN, crashes' \in 0..MaxCrashes
  PROVE  Inv'
<1>1. TypeOK'
  BY DEF Inv, TypeOK, rows, history
<1>2. RowsOrdered'
  BY DEF Inv, RowsOrdered, IsLatest, Before, Present, rows
<1>3. QueueOK'
  BY DEF Inv, QueueOK, Placed, Present, rows
<1>4. OwnerOK'
  BY DEF Inv, OwnerOK, Placed, Unsettled, rows
<1>5. ChildOK'
  BY DEF Inv, ChildOK, Begun, Unsettled, rows, history
<1>6. OrderOK'
  BY DEF Inv, OrderOK, Handed, Newer, rows, history
<1> QED  BY <1>1, <1>2, <1>3, <1>4, <1>5, <1>6 DEF Inv

\* The process keeps its types, whether it goes on or dies.
LEMMA ProcessTypes ==
  ASSUME Inv, UNCHANGED process \/ Stop
  PROVE  up' \in BOOLEAN /\ crashes' \in 0..MaxCrashes
<1>1. up \in BOOLEAN /\ crashes \in 0..MaxCrashes
  BY DEF Inv, TypeOK
<1>2. CASE UNCHANGED process
  BY <1>1, <1>2 DEF process
<1>3. CASE Stop
  <2>1. crashes' = crashes + 1 /\ crashes < MaxCrashes
    BY <1>3 DEF Stop
  <2>2. crashes' \in 0..MaxCrashes
    BY <1>1, <2>1, DeliveryAssumption
  <2>3. up' \in BOOLEAN
    BY <1>3 DEF Stop
  <2> QED  BY <2>2, <2>3
<1> QED  BY <1>2, <1>3

\* A push, whole.
LEMMA PushStep == ASSUME Inv, NEW d \in Delivery, Push(d)  PROVE Inv'
<1>1. d \in Delivery \ Release /\ HandlerKeeps /\ UNCHANGED process /\ TypeOK
  BY DEF Push, Inv
<1>2. up' \in BOOLEAN /\ crashes' \in 0..MaxCrashes
  BY <1>1, ProcessTypes
<1>3. CASE Redelivered(d)
  BY <1>1, <1>2, <1>3, StutterKeeps DEF Redelivered, HandlerKeeps, rows
<1>4. CASE delivery[d].op = NoOp /\ MarkStale(d)
  <2>1. DeliveryEdit(d, NoOp)
    <3>1. CASE delivery[d].status = "superseded"
      BY <1>1, <1>4, <3>1, RowTypes DEF MarkStale, DeliveryEdit, Present
    <3>2. CASE delivery[d].status # "superseded"
      BY <1>1, <1>4, <3>2, PushRecords DEF MarkStale
    <3> QED  BY <3>1, <3>2
  <2> QED  BY <1>1, <1>2, <1>4, <2>1, RecordOnly DEF MarkStale
<1>5. ASSUME NEW o \in Op, delivery[d].op = NoOp, ~Late(d), Enqueued(d, o), MarkDuplicate(d, o)
      PROVE  Inv'
  <2>1. /\ delivery' = WithStatus(Attached(d, o), {d}, "duplicate")
        /\ op' = OpsWith(d, o) /\ last' = last
    BY <1>5 DEF MarkDuplicate
  <2>2. DeliveryEdit(d, o)
    BY <1>1, <1>5, <2>1, PushAttaches
  <2> QED  BY <1>1, <1>2, <1>5, <2>1, <2>2, PushPlain
<1>6. ASSUME NEW o \in Op, delivery[d].op = NoOp, ~Late(d), Enqueued(d, o), Accept(d, o)
      PROVE  Inv'
  <2>1. Publish(d, o, Older(d, o), Older(d, o))
    BY <1>6 DEF Accept
  <2> PICK S : S = Older(d, o)
    OBVIOUS
  <2>2. S \in SUBSET Older(d, o) /\ S \in SUBSET S /\ Publish(d, o, S, S)
    BY <2>1
  <2> QED  BY <1>1, <1>2, <1>6, <2>2, PushPublishes
<1> QED  BY <1>3, <1>4, <1>5, <1>6 DEF Push

\* A push that a crash cuts short after any of its writes.
LEMMA PushCutStep == ASSUME Inv, NEW d \in Delivery, PushCutShort(d)  PROVE Inv'
<1>1. d \in Delivery \ Release /\ HandlerKeeps /\ Stop /\ delivery[d].op = NoOp /\ TypeOK
  BY DEF PushCutShort, Inv
<1>2. up' \in BOOLEAN /\ crashes' \in 0..MaxCrashes
  BY <1>1, ProcessTypes
<1>3. CASE CutAfterRecord(d)
  <2>1. DeliveryEdit(d, NoOp)
    BY <1>1, <1>3, PushRecords DEF CutAfterRecord
  <2> QED  BY <1>1, <1>2, <1>3, <2>1, RecordOnly DEF CutAfterRecord
<1>4. ASSUME NEW o \in Op, Enqueued(d, o), CutAfterEnqueue(d, o)
      PROVE  Inv'
  <2>1. op' = OpsWith(d, o) /\ last' = last
    BY <1>4 DEF CutAfterEnqueue
  <2>2. CASE delivery' = Recorded(d)
    <3>1. DeliveryEdit(d, NoOp)
      BY <1>1, <2>2, PushRecords
    <3> QED  BY <1>1, <1>2, <1>4, <2>1, <3>1, PushPlain
  <2>3. CASE delivery' = Attached(d, o)
    <3>1. DeliveryEdit(d, o)
      BY <1>1, <2>3, PushAttaches
    <3> QED  BY <1>1, <1>2, <1>4, <2>1, <3>1, PushPlain
  <2> QED  BY <1>4, <2>2, <2>3 DEF CutAfterEnqueue
<1>5. ASSUME NEW o \in Op, ~Late(d), Enqueued(d, o), CutAmidOlder(d, o)
      PROVE  Inv'
  <2>1. PICK S \in SUBSET Older(d, o) : \E T \in SUBSET S : Publish(d, o, S, T)
    BY <1>5 DEF CutAmidOlder
  <2>2. PICK T \in SUBSET S : Publish(d, o, S, T)
    BY <2>1
  <2> QED  BY <1>1, <1>2, <1>5, <2>2, PushPublishes
<1> QED  BY <1>3, <1>4, <1>5 DEF PushCutShort

-----------------------------------------------------------------------------
(* The release of an operator, the retry, the cancellation *)

\* The row of a release is an edit of a delivery that was not there.
LEMMA ReleaseEdits ==
  ASSUME TypeOK, NEW d \in Delivery \ Present, NEW own \in Op \union {NoOp},
         NEW s \in {"received", "queued"}, delivery' = ReleaseRow(d, s, own)
  PROVE  DeliveryEdit(d, own)
<1> DEFINE r == [status |-> s, id |-> NextId, op |-> own]
<1>1. delivery \in [Delivery -> DeliveryRow] /\ delivery' = [delivery EXCEPT ![d] = r]
  BY RowTypes DEF ReleaseRow
<1>2. NextId \in 0..Cardinality(Delivery)
  <2> PICK P : P = Present
    OBVIOUS
  <2>1. P \in SUBSET Delivery /\ d \in Delivery \ P
    BY DEF Present
  <2>2. /\ Cardinality(P) \in Nat /\ Cardinality(Delivery) \in Nat
        /\ Cardinality(P) + 1 <= Cardinality(Delivery)
    BY <2>1, Counting
  <2>3. NextId = Cardinality(P) + 1
    BY DEF NextId
  <2> QED  BY <2>2, <2>3
<1>3. r \in DeliveryRow /\ r.status = s /\ r.id = NextId /\ r.op = own /\ s # "absent"
  BY <1>2 DEF DeliveryRow, Active
<1> HIDE DEF r
<1> QED  BY <1>1, <1>3 DEF DeliveryEdit

\* The rows of operations when one is new.
LEMMA NewRows ==
  ASSUME Inv, NEW d \in Delivery, NEW o \in Op, NEW k \in BOOLEAN, FreeOp(o),
         op' = [op EXCEPT ![o] = NewOp(d, k)]
  PROVE  /\ op' \in [Op -> OpRow] /\ RowNew(o, d, k)
         /\ \A n \in Op \ {o} : RowStill(n) /\ RowQuiet(n)
         /\ \A n \in Op : op'[n].status = "running" <=> op[n].status = "running"
<1>1. op \in [Op -> OpRow]
  BY RowTypes DEF Inv
<1>2. NewOp(d, k) \in OpRow /\ NewOp(d, k).status = "pending"
  BY DEF NewOp, NoneOp, OpRow
<1>3. op' \in [Op -> OpRow] /\ op'[o] = NewOp(d, k) /\ \A n \in Op \ {o} : op'[n] = op[n]
  BY <1>1, <1>2
<1> QED  BY <1>2, <1>3 DEF RowNew, RowStill, RowQuiet, FreeOp

\* A release, and one that a crash cuts short.
LEMMA ReleaseStep ==
  ASSUME Inv, NEW d \in Delivery, ReleaseNow(d) \/ ReleaseCutShort(d)
  PROVE  Inv'
<1>1. d \in Release \ Present /\ HandlerKeeps /\ TypeOK /\ \A e \in Present : At[e] <= At[d]
  BY DEF ReleaseNow, ReleaseCutShort, MayRelease, Inv
<1>2. up' \in BOOLEAN /\ crashes' \in 0..MaxCrashes
  BY ProcessTypes DEF ReleaseNow, ReleaseCutShort
<1>3. ASSUME NEW o \in Op, FreeOp(o), op' = [op EXCEPT ![o] = NewOp(d, FALSE)],
             \/ delivery' = ReleaseRow(d, "queued", o) /\ last' \in {last, d}
             \/ delivery' = ReleaseRow(d, "received", NoOp) /\ last' = last
      PROVE  Inv'
  <2>1. /\ op' \in [Op -> OpRow] /\ RowNew(o, d, FALSE)
        /\ \A n \in Op \ {o} : RowStill(n) /\ RowQuiet(n)
        /\ \A n \in Op : op'[n].status = "running" <=> op[n].status = "running"
    BY <1>3, NewRows
  <2>2. \A n \in Op : RowStill(n) \/ \E k \in BOOLEAN : RowNew(n, d, k)
    BY <2>1
  <2>3. \A n \in Op : Unsettled(n) => op[n].delivery # d
    BY <1>1, OwnerFacts DEF Unsettled, Placed
  <2>4. PICK own \in {NoOp, o} : /\ DeliveryEdit(d, own)
                                 /\ own = o \/ last' = last
    BY <1>1, <1>3, ReleaseEdits
  <2>5. OwnerOK'
    <3>1. /\ delivery'[d].op = own
          /\ \A e \in Delivery \ {d} : delivery'[e].op = delivery[e].op
      BY <2>4 DEF DeliveryEdit
    <3> QED  BY <1>1, <2>1, <2>3, <3>1, OwnerUnkeyed
  <2>6. last' = last \/ (last' = d /\ \A e \in Present : NewerThen(d, e))
    BY <1>1, <1>3, <2>4, EditLatest
  <2> QED  BY <1>1, <1>2, <2>1, <2>2, <2>4, <2>5, <2>6, HandlerStep
<1>4. CASE delivery' = ReleaseRow(d, "received", NoOp) /\ UNCHANGED <<last, op>>
  <2>1. DeliveryEdit(d, NoOp)
    BY <1>1, <1>4, ReleaseEdits
  <2>2. delivery[d].op = NoOp
    BY <1>1 DEF Inv, RowsOrdered
  <2> QED  BY <1>1, <1>2, <1>4, <2>1, <2>2, RecordOnly
<1>5. CASE ReleaseNow(d)
  BY <1>3, <1>5 DEF ReleaseNow
<1>6. CASE ReleaseCutShort(d)
  BY <1>3, <1>4, <1>6 DEF ReleaseCutShort
<1> QED  BY <1>5, <1>6

\* A retry moves a failed delivery to a new operation.
LEMMA RetryStep == ASSUME Inv, NEW o \in Op, Retry(o)  PROVE Inv'
<1>1. PICK n \in Op : /\ FreeOp(n) /\ op' = [op EXCEPT ![n] = NewOp(op[o].delivery, FALSE)]
                      /\ delivery' = [delivery EXCEPT ![op[o].delivery].op = n,
                                                      ![op[o].delivery].status = "queued"]
  BY DEF Retry
<1>2. PICK d : d = op[o].delivery
  OBVIOUS
<1>3. op[o].status \in {"compensated", "cancelled"}
  BY DEF Retry
<1>4. d \in Present /\ d \in Delivery /\ delivery[d].op = o
  BY <1>2, <1>3, OwnerFacts DEF Retry, Transferable, Placed
<1>5. HandlerKeeps /\ last' = last /\ UNCHANGED process
  BY DEF Retry, HandlerKeeps, history
<1>6. up' \in BOOLEAN /\ crashes' \in 0..MaxCrashes
  BY <1>5, ProcessTypes
<1>7. /\ op' \in [Op -> OpRow] /\ RowNew(n, d, FALSE)
      /\ \A m \in Op \ {n} : RowStill(m) /\ RowQuiet(m)
      /\ \A m \in Op : op'[m].status = "running" <=> op[m].status = "running"
  <2>1. op' = [op EXCEPT ![n] = NewOp(d, FALSE)]
    BY <1>1, <1>2
  <2> QED  BY <1>1, <1>4, <2>1, NewRows
<1>8. DeliveryEdit(d, n)
  <2> DEFINE r == [delivery[d] EXCEPT !.op = n, !.status = "queued"]
  <2>1. delivery \in [Delivery -> DeliveryRow]
    BY RowTypes DEF Inv
  <2>2. delivery' = [delivery EXCEPT ![d] = r]
    BY <1>1, <1>2, <2>1 DEF DeliveryRow
  <2>3. r \in DeliveryRow /\ r.op = n /\ r.status = "queued" /\ r.id = delivery[d].id
    BY <1>4, <2>1 DEF DeliveryRow, Active
  <2> HIDE DEF r
  <2> QED  BY <1>4, <2>1, <2>2, <2>3 DEF DeliveryEdit
<1>9. OwnerOK'
  <2>1. \A m \in Op : Unsettled(m) => op[m].delivery # d
    BY <1>3, <1>4, OwnerFacts, Names DEF Unsettled, Placed
  <2>2. delivery'[d].op = n /\ \A e \in Delivery \ {d} : delivery'[e].op = delivery[e].op
    BY <1>8 DEF DeliveryEdit
  <2> QED  BY <1>4, <1>7, <2>1, <2>2, OwnerUnkeyed
<1>10. \A m \in Op : RowStill(m) \/ \E k \in BOOLEAN : RowNew(m, d, k)
  BY <1>7
<1> QED  BY <1>4, <1>5, <1>6, <1>7, <1>8, <1>9, <1>10, HandlerStep

\* Deliveries that stay are an edit of any of them.
LEMMA EditNothing ==
  ASSUME TypeOK, NEW d \in Present, delivery' = delivery
  PROVE  DeliveryEdit(d, delivery[d].op)
BY RowTypes DEF DeliveryEdit, Present

\* A cancellation.
LEMMA CancelStep == ASSUME Inv, NEW o \in Op, Cancel(o)  PROVE Inv'
<1>1. /\ Unsettled(o) /\ op' = [op EXCEPT ![o] = CancelledRow(op[o])] /\ HandlerKeeps
      /\ UNCHANGED <<delivery, last, process>>
  BY DEF Cancel, Unsettled, HandlerKeeps, history
<1>2. PICK d : d = op[o].delivery
  OBVIOUS
<1>3. d \in Present /\ d \in Delivery
  BY <1>1, <1>2, OwnerFacts DEF Unsettled, Placed
<1>4. up' \in BOOLEAN /\ crashes' \in 0..MaxCrashes
  BY <1>1, ProcessTypes
<1>5. op \in [Op -> OpRow]
  BY RowTypes DEF Inv
<1>6. PICK r : r = op[o]
  OBVIOUS
<1>7. /\ CancelledRow(r) \in OpRow
      /\ CancelledRow(r).delivery = r.delivery /\ CancelledRow(r).keyed = r.keyed
      /\ CancelledRow(r).step = r.step /\ (r.cancel => CancelledRow(r).cancel)
      /\ CancelledRow(r).status = IF r.status = "pending" THEN "cancelled" ELSE r.status
  <2>1. r \in OpRow /\ TRUE \in BOOLEAN
    BY <1>5, <1>6
  <2> QED  BY <1>3, <2>1, OpRows
<1>8. op' \in [Op -> OpRow] /\ op'[o] = CancelledRow(r) /\ \A n \in Op \ {o} : op'[n] = op[n]
  BY <1>1, <1>5, <1>6, <1>7
<1>9. \A n \in Op : RowStill(n) /\ RowQuiet(n)
  BY <1>1, <1>6, <1>7, <1>8 DEF RowStill, RowQuiet, Unsettled
<1>10. \A n \in Op : op'[n].status = "running" <=> op[n].status = "running"
  BY <1>6, <1>7, <1>8
<1>11. DeliveryEdit(d, delivery[d].op)
  BY <1>1, <1>3, EditNothing DEF Inv
<1>12. OwnerOK'
  BY <1>1, <1>9, OwnerKept
<1>13. \A n \in Op : RowStill(n) \/ \E k \in BOOLEAN : RowNew(n, d, k)
  BY <1>9
<1> QED  BY <1>1, <1>3, <1>4, <1>8, <1>10, <1>11, <1>12, <1>13, HandlerStep

-----------------------------------------------------------------------------
(* The steps of the operation *)

\* The rows while the operation in flight works on its own delivery.
LEMMA RunRows ==
  ASSUME Inv, NEW o \in Op, Unsettled(o), op' \in [Op -> OpRow], \A n \in Op : RowQuiet(n),
         DeliveryEdit(op[o].delivery, delivery[op[o].delivery].op),
         last' \in {last, op[o].delivery},
         \A n \in Op : op'[n].status = "absent" => child'[n] = child[n]
  PROVE  /\ RowsOrdered' /\ QueueOK' /\ OwnerOK'
         /\ delivery' \in [Delivery -> DeliveryRow] /\ last' \in Delivery \union {None}
         /\ \A e, f \in Present : NewerThen(e, f) <=> Newer(e, f)
<1>1. PICK d : d = op[o].delivery
  OBVIOUS
<1>2. PICK own : own = delivery[d].op
  OBVIOUS
<1>3. d \in Present /\ d \in Delivery /\ DeliveryEdit(d, own) /\ last' \in {last, d}
  BY <1>1, <1>2, OwnerFacts DEF Unsettled, Placed
<1>4. RowsOrdered'
  BY <1>3, RowsKept
<1>5. /\ Present' = Present \union {d}
      /\ \A e, f \in Present : NewerThen(e, f) <=> Newer(e, f)
  BY <1>3, EditRows
<1>6. QueueOK'
  BY <1>5, QueueKept
<1>7. OwnerOK'
  <2>1. \A e \in Delivery : delivery'[e].op = delivery[e].op
    BY <1>2, <1>3 DEF DeliveryEdit
  <2> QED  BY <2>1, OwnerKept
<1>8. delivery' \in [Delivery -> DeliveryRow] /\ last' \in Delivery \union {None}
  BY <1>3 DEF DeliveryEdit, Inv, TypeOK
<1> QED  BY <1>4, <1>5, <1>6, <1>7, <1>8

\* Whose turn it is: what is in flight, or the first that waits while nothing is.
LEMMA Turn ==
  ASSUME Inv, NEW o \in Op,
         \/ runner.op = o
         \/ /\ runner = NoRunner /\ op[o].status = "pending"
            /\ \A n \in Op : n < o => op[n].status # "pending"
  PROVE  Unsettled(o) /\ \A n \in Op : n < o => ~Unsettled(n)
<1>1. CASE runner.op = o
  <2>1. op[o].status = "running"
    BY <1>1 DEF Inv, TypeOK
  <2> QED  BY <2>1, EarlierSettled DEF Unsettled
<1>2. CASE /\ runner = NoRunner /\ op[o].status = "pending"
           /\ \A n \in Op : n < o => op[n].status # "pending"
  <2>1. runner.op = NoOp
    BY <1>2 DEF NoRunner
  <2>2. \A n \in Op : op[n].status # "running"
    BY <2>1, Names DEF Inv, TypeOK
  <2> QED  BY <1>2, <2>2 DEF Unsettled
<1> QED  BY <1>1, <1>2

\* The operation takes its next step.
LEMMA RunGoesOn ==
  ASSUME Inv, NEW o \in Op, Unsettled(o), \A n \in Op : n < o => ~Unsettled(n),
         NEW st \in {"prepared", "built", "applied"}, NEW pc \in {"building", "waiting", "finishing"},
         GoOn(o, st, pc),
         delivery' = delivery \/ (delivery' = WithStatus(delivery, {op[o].delivery}, "building")
                                  /\ st # "built"),
         UNCHANGED <<last, live>>, RunKeeps,
         \/ ChildKept /\ st # "built"
         \/ Apply(o) /\ st = "built" /\ last \in {None, op[o].delivery},
         st = "applied" => child[o] # "absent" /\ (o \in withdrawn \/ child[o] = "done"),
         pc = "finishing" => st = "applied"
  PROVE  Inv'
<1>1. TypeOK
  BY DEF Inv
<1>2. /\ op' \in [Op -> OpRow]
      /\ \A n \in Op \ {o} : op'[n] = op[n]
      /\ op'[o].status = "running" /\ op'[o].step = st /\ op'[o].delivery = op[o].delivery
      /\ op'[o].keyed = op[o].keyed /\ op'[o].cancel = op[o].cancel
      /\ runner' = [op |-> o, pc |-> pc] /\ runner'.op = o /\ runner'.pc = pc
  BY <1>1, GoOnRow
<1>3. PICK d : d = op[o].delivery
  OBVIOUS
<1>4. d \in Present /\ d \in Delivery
  BY <1>3, OwnerFacts DEF Unsettled, Placed
<1>5. DeliveryEdit(d, delivery[d].op)
  BY <1>1, <1>3, <1>4, EditNothing, StatusEdit DEF Active
<1>6. \A n \in Op : RowQuiet(n)
  BY <1>2 DEF RowQuiet, Unsettled
<1>7. /\ \A n \in Op \ {o} : child'[n] = child[n]
      /\ child'[o] = IF st = "built" /\ child[o] = "absent" THEN "pending" ELSE child[o]
      /\ child' \in [Op -> Kid]
  BY <1>1 DEF TypeOK, Kid, ChildKept, Apply
<1>8. withdrawn' = withdrawn /\ UNCHANGED process /\ live' = live /\ last' = last
  BY DEF RunKeeps
<1>9. /\ RowsOrdered' /\ QueueOK' /\ OwnerOK'
      /\ delivery' \in [Delivery -> DeliveryRow] /\ last' \in Delivery \union {None}
      /\ \A e, f \in Present : NewerThen(e, f) <=> Newer(e, f)
  BY <1>2, <1>3, <1>5, <1>6, <1>7, <1>8, RunRows
<1>10. ChildOK'
  BY <1>7, <1>8, ChildGoesOn
<1>11. twice' \in BOOLEAN
  <2>1. twice \in BOOLEAN
    BY <1>1 DEF TypeOK
  <2> QED  BY <1>3, <1>4, <2>1 DEF ChildKept, Apply
<1>12. TypeOK'
  <2>1. up' \in BOOLEAN /\ crashes' \in 0..MaxCrashes
    BY <1>8, ProcessTypes
  <2>2. \A n \in Op : op'[n].status = "running" <=> runner'.op = n
    <3>1. \A n \in Op : n < o => op[n].status # "running"
      BY DEF Unsettled
    <3>2. \A n \in Op : o < n => op[n].status # "running"
      BY LaterNotBegun DEF Begun
    <3>3. \A n \in Op \ {o} : n < o \/ o < n
      BY Names
    <3> QED  BY <1>2, <3>1, <3>2, <3>3
  <2>3. live' \in Delivery \union {None} /\ withdrawn' \in SUBSET Op
    BY <1>1, <1>8 DEF TypeOK
  <2>4. runner'.op \in Op \union {NoOp}
        /\ runner' \in [op : Op \union {NoOp}, pc : {"idle", "building", "waiting", "finishing"}]
    BY <1>2
  <2> QED  BY <1>1, <1>2, <1>7, <1>9, <1>11, <2>1, <2>2, <2>3, <2>4, TypesAgain
<1>13. OrderOK'
  <2>1. CASE ChildKept /\ st # "built"
    <3>1. Handed' = Handed /\ child' = child /\ twice' = twice
      BY <2>1 DEF Handed, ChildKept
    <3> QED  BY <1>2, <1>8, <1>9, <3>1, OrderKept
  <2>2. CASE Apply(o) /\ st = "built" /\ last \in {None, op[o].delivery}
    <3>1. /\ delivery' = delivery
          /\ twice' = (twice \/ Another(o))
          /\ child'[o] = IF child[o] = "absent" THEN "pending" ELSE child[o]
      BY <1>7, <2>2 DEF Apply
    <3>2. \A n \in Op : op'[n].delivery = op[n].delivery
      BY <1>2
    <3> QED  BY <1>7, <1>8, <2>2, <3>1, <3>2, OrderGrows
  <2> QED  BY <2>1, <2>2
<1> QED  BY <1>9, <1>10, <1>12, <1>13 DEF Inv

\* The operation fails, or is done: its row settles and nothing is in flight.
LEMMA RunSettles ==
  ASSUME Inv, NEW o \in Op, Unsettled(o), \A n \in Op : n < o => ~Unsettled(n),
         op' \in [Op -> OpRow], \A n \in Op : RowStill(n), \A n \in Op \ {o} : op'[n] = op[n],
         op'[o].status # "running", runner' = NoRunner,
         DeliveryEdit(op[o].delivery, delivery[op[o].delivery].op),
         live' = live, ChildKept, RunKeeps,
         \/ last' = last
         \/ /\ last' = op[o].delivery
            /\ ~twice => \A n \in Handed : Newer(last', op[n].delivery)
  PROVE  Inv'
<1>1. TypeOK
  BY DEF Inv
<1>2. /\ child' = child /\ twice' = twice /\ withdrawn' = withdrawn /\ UNCHANGED process
      /\ runner'.op = NoOp /\ runner'.pc = "idle"
  BY DEF ChildKept, RunKeeps, NoRunner
<1>3. \A n \in Op : RowQuiet(n)
  BY DEF RowStill
<1>4. /\ RowsOrdered' /\ QueueOK' /\ OwnerOK'
      /\ delivery' \in [Delivery -> DeliveryRow] /\ last' \in Delivery \union {None}
      /\ \A e, f \in Present : NewerThen(e, f) <=> Newer(e, f)
  BY <1>2, <1>3, RunRows
<1>5. ChildOK'
  BY <1>2, ChildRowsKept
<1>6. TypeOK'
  <2>1. up' \in BOOLEAN /\ crashes' \in 0..MaxCrashes
    BY <1>2, ProcessTypes
  <2>2. \A n \in Op : op'[n].status = "running" <=> runner'.op = n
    <3>1. \A n \in Op : n < o => op[n].status # "running"
      BY DEF Unsettled
    <3>2. \A n \in Op : o < n => op[n].status # "running"
      BY LaterNotBegun DEF Begun
    <3>3. \A n \in Op \ {o} : n < o \/ o < n
      BY Names
    <3> QED  BY <1>2, <3>1, <3>2, <3>3, Names
  <2>3. /\ live' \in Delivery \union {None} /\ withdrawn' \in SUBSET Op /\ child' \in [Op -> Kid]
        /\ twice' \in BOOLEAN
    BY <1>1, <1>2 DEF TypeOK, Kid
  <2>4. runner' \in [op : Op \union {NoOp}, pc : {"idle", "building", "waiting", "finishing"}]
    BY DEF NoRunner
  <2> QED  BY <1>1, <1>2, <1>4, <2>1, <2>2, <2>3, <2>4, TypesAgain
<1>7. OrderOK'
  <2>1. Handed' = Handed
    BY <1>2 DEF Handed
  <2>2. \A n \in Op : Placed(n) => op'[n].delivery = op[n].delivery
    BY <1>3 DEF RowQuiet
  <2>3. \/ last' = last
        \/ last' # None /\ (~twice =>
                              \A n \in Handed : NewerThen(last', op[n].delivery))
    <3>1. op[o].delivery \in Present /\ op[o].delivery # None
      BY OwnerFacts, Names DEF Unsettled, Placed
    <3> QED  BY <1>4, <3>1, HandedPlaced
  <2> QED  BY <1>2, <1>4, <2>1, <2>2, <2>3, OrderKept
<1> QED  BY <1>4, <1>5, <1>6, <1>7 DEF Inv

\* A step throws.
LEMMA RunFails ==
  ASSUME Inv, NEW o \in Op, Unsettled(o), \A n \in Op : n < o => ~Unsettled(n),
         Fails(o), live' = live, ChildKept, RunKeeps,
         \/ last' = last
         \/ /\ last' = op[o].delivery
            /\ ~twice => \A n \in Handed : Newer(last', op[n].delivery)
  PROVE  Inv'
<1>1. /\ op' \in [Op -> OpRow] /\ \A n \in Op : RowStill(n)
      /\ \A n \in Op \ {o} : op'[n] = op[n]
      /\ op'[o].status \in Settled /\ runner' = NoRunner
      /\ DeliveryEdit(op[o].delivery, delivery[op[o].delivery].op)
  BY FailsRow
<1>2. op'[o].status # "running"
  BY <1>1 DEF Settled
<1> QED  BY <1>1, <1>2, RunSettles

\* The source names the delivery whose freshness was tested, or none.
LEMMA FreshNamed ==
  ASSUME NEW o, Fresh(o)
  PROVE  last \in {None, op[o].delivery} /\ ~op[o].cancel
BY DEF Fresh

\* The first step of an attempt.
LEMMA StartStep == ASSUME Inv, NEW o \in Op, Start(o)  PROVE Inv'
<1>1. Unsettled(o) /\ \A n \in Op : n < o => ~Unsettled(n)
  BY Turn DEF Start
<1>2. UNCHANGED <<last, live>> /\ RunKeeps
  BY DEF Start
<1>3. CASE Prepare(o)
  <2>1. /\ delivery' = WithStatus(delivery, {op[o].delivery}, "building")
        /\ GoOn(o, "prepared", "building") /\ ChildKept
    BY <1>3 DEF Prepare
  <2> QED  BY <1>1, <1>2, <2>1, RunGoesOn
<1>4. CASE Resume(o)
  <2>1. delivery' = delivery /\ Fresh(o)
    BY <1>4 DEF Resume
  <2>2. CASE GoOn(o, "prepared", "building") /\ ChildKept
    BY <1>1, <1>2, <2>1, <2>2, RunGoesOn
  <2>3. CASE Apply(o)
    <3>1. GoOn(o, "built", "waiting") /\ last \in {None, op[o].delivery}
      BY <2>1, <2>3, FreshNamed DEF Apply
    <3> QED  BY <1>1, <1>2, <2>1, <2>3, <3>1, RunGoesOn
  <2>4. CASE op[o].step = "applied" /\ GoOn(o, "applied", "finishing") /\ ChildKept
    <3>1. child[o] # "absent" /\ (o \in withdrawn \/ child[o] = "done")
      BY <1>1, <2>4 DEF Inv, ChildOK
    <3> QED  BY <1>1, <1>2, <2>1, <2>4, <3>1, RunGoesOn
  <2> QED  BY <1>4, <2>2, <2>3, <2>4 DEF Resume
<1>5. CASE Fails(o) /\ ChildKept
  BY <1>1, <1>2, <1>5, RunFails
<1> QED  BY <1>3, <1>4, <1>5 DEF Start

\* The images are there, or are not.
LEMMA BuildReturnsStep == ASSUME Inv, NEW o \in Op, BuildReturns(o)  PROVE Inv'
<1>1. runner.op = o
  BY DEF BuildReturns
<1>2. Unsettled(o) /\ \A n \in Op : n < o => ~Unsettled(n)
  BY <1>1, Turn
<1>3. UNCHANGED <<last, live>> /\ RunKeeps
  BY DEF BuildReturns
<1>4. CASE Fresh(o) /\ Apply(o) /\ UNCHANGED delivery
  <2>1. GoOn(o, "built", "waiting") /\ last \in {None, op[o].delivery}
    BY <1>4, FreshNamed DEF Apply
  <2> QED  BY <1>2, <1>3, <1>4, <2>1, RunGoesOn
<1>5. CASE Fails(o) /\ ChildKept
  BY <1>2, <1>3, <1>5, RunFails
<1> QED  BY <1>4, <1>5 DEF BuildReturns

\* What the invariant says of children when they start, end, are cancelled or go
\* back to the queue.
LEMMA ChildMoves ==
  ASSUME Inv, \A n \in Op : RowStill(n), runner' = runner \/ runner'.pc # "finishing",
         withdrawn \subseteq withdrawn',
         \A n \in Op : /\ child'[n] = "absent" <=> child[n] = "absent"
                       /\ child'[n] \in {"pending", "running"} => child[n] \in {"pending", "running"}
                       /\ child[n] = "done" => child'[n] = "done"
                       /\ child'[n] = "cancelled" =>
                            child[n] = "cancelled" \/ op[n].cancel \/ n \in withdrawn'
                       /\ child'[n] \in {"running", "done"} =>
                            \/ child[n] \in {"running", "done"}
                            \/ \A m \in Op : m < n => child[m] \notin {"pending", "running"}
                       /\ child'[n] = "done" /\ Unsettled(n) => live' = op[n].delivery
  PROVE  ChildOK'
<1>1. \A n \in Op :
        /\ op'[n].delivery = op[n].delivery /\ op'[n].step = op[n].step
        /\ op[n].cancel => op'[n].cancel
        /\ op'[n].status \in {"pending", "running"} => Unsettled(n)
        /\ op'[n].status = "running" => op[n].status = "running"
  BY DEF RowStill, RowQuiet, Unsettled
<1>2. \A n \in Op :
        op'[n].status = "running" \/ op'[n].step # "new" \/ child'[n] # "absent" => Begun(n)
  BY <1>1 DEF Begun
<1>3. \A o, n \in Op : o < n /\ Begun(n) => ~(op'[o].status \in {"pending", "running"})
  BY <1>1 DEF Inv, ChildOK
<1>4. \A o, n \in Op : o < n /\ child'[n] \in {"running", "done"} =>
        child'[o] \notin {"pending", "running"}
  BY DEF Inv, ChildOK
<1>5. \A o \in Op : child'[o] = "done" /\ op'[o].status \in {"pending", "running"} =>
        live' = op'[o].delivery
  BY <1>1
<1>6. \A o \in Op : child'[o] = "cancelled" => op'[o].cancel \/ o \in withdrawn'
  BY <1>1 DEF Inv, ChildOK
<1>7. \A o \in Op : op'[o].step = "applied" => child'[o] # "absent"
  BY <1>1 DEF Inv, ChildOK
<1>8. \A o \in Op : op'[o].status \in {"pending", "running"} /\ op'[o].step = "applied" =>
        o \in withdrawn' \/ child'[o] = "done"
  BY <1>1 DEF Inv, ChildOK
<1>9. runner'.pc = "finishing" => runner'.op \in Op /\ op'[runner'.op].step = "applied"
  BY <1>1 DEF Inv, ChildOK
<1> QED  BY <1>2, <1>3, <1>4, <1>5, <1>6, <1>7, <1>8, <1>9 DEF ChildOK, Begun, Unsettled

\* Steps that move children only.
LEMMA ChildStep ==
  ASSUME Inv, UNCHANGED <<delivery, last, op, runner, twice, process>>,
         child' \in [Op -> Kid], withdrawn' \in SUBSET Op, withdrawn \subseteq withdrawn',
         \A n \in Op : /\ child'[n] = "absent" <=> child[n] = "absent"
                       /\ child'[n] \in {"pending", "running"} => child[n] \in {"pending", "running"}
                       /\ child[n] = "done" => child'[n] = "done"
                       /\ child'[n] = "cancelled" =>
                            child[n] = "cancelled" \/ op[n].cancel \/ n \in withdrawn'
                       /\ child'[n] \in {"running", "done"} =>
                            \/ child[n] \in {"running", "done"}
                            \/ \A m \in Op : m < n => child[m] \notin {"pending", "running"}
                       /\ child'[n] = "done" /\ Unsettled(n) => live' = op[n].delivery,
         live' = live \/ \E n \in Op : child'[n] = "done" /\ live' = op[n].delivery
  PROVE  Inv'
<1>1. \A n \in Op : RowStill(n) /\ RowQuiet(n)
  BY DEF RowStill, RowQuiet
<1>2. ChildOK'
  BY <1>1, ChildMoves
<1>3. TypeOK'
  <2>1. /\ \A n \in Op : child'[n] # "absent" => op[n].delivery \in Delivery
        /\ live \in Delivery \union {None}
    BY HandedPlaced DEF Handed, Inv, TypeOK
  <2>2. live' \in Delivery \union {None}
    BY <2>1
  <2> QED  BY <2>2 DEF Inv, TypeOK, process, Kid
<1>4. RowsOrdered' /\ OwnerOK'
  BY DEF Inv, RowsOrdered, IsLatest, Before, Present, OwnerOK, Placed, Unsettled
<1>5. QueueOK'
  BY DEF Inv, QueueOK, Placed, Present
<1>6. OrderOK'
  <2>1. Handed' = Handed
    BY DEF Handed
  <2>2. \A e, f \in Present : NewerThen(e, f) <=> Newer(e, f)
    BY DEF NewerThen, Newer
  <2>3. live' = live \/ \E n \in Op : child'[n] = "done" /\ op'[n].delivery = live'
    OBVIOUS
  <2> QED  BY <2>1, <2>2, <2>3, OrderKept
<1> QED  BY <1>2, <1>3, <1>4, <1>5, <1>6 DEF Inv

\* A child starts only when no other runs and none before it waits.
LEMMA ChildStartsStep == ASSUME Inv, NEW o \in Op, ChildStarts(o)  PROVE Inv'
<1>1. child \in [Op -> Kid] /\ withdrawn \in SUBSET Op
  BY DEF Inv, TypeOK, Kid
<1>2. /\ child[o] = "pending" /\ child' = [child EXCEPT ![o] = "running"]
      /\ \A n \in Op : child[n] # "running" /\ (n < o => child[n] # "pending")
      /\ UNCHANGED <<delivery, last, op, live, runner, withdrawn, twice, process>>
  BY DEF ChildStarts, history
<1>3. child' \in [Op -> Kid] /\ child'[o] = "running" /\ \A n \in Op \ {o} : child'[n] = child[n]
  BY <1>1, <1>2 DEF Kid
<1>4. \A n \in Op : child[n] = "done" /\ Unsettled(n) => live = op[n].delivery
  BY DEF Inv, ChildOK
<1> QED  BY <1>1, <1>2, <1>3, <1>4, ChildStep

\* A child ends: what it applied is what runs, and no later child began.
LEMMA ChildEndsStep == ASSUME Inv, NEW o \in Op, ChildEnds(o)  PROVE Inv'
<1>1. child \in [Op -> Kid] /\ withdrawn \in SUBSET Op
  BY DEF Inv, TypeOK, Kid
<1>2. child[o] = "running" /\ UNCHANGED <<delivery, last, op, runner, withdrawn, twice, process>>
  BY DEF ChildEnds, history
<1>3. PICK s \in {"done", "failed", "cancelled"} :
        /\ child' = [child EXCEPT ![o] = s]
        /\ live' = IF s = "done" THEN op[o].delivery ELSE live
        /\ s = "cancelled" => op[o].cancel \/ o \in withdrawn
  BY DEF ChildEnds
<1>4. child' \in [Op -> Kid] /\ child'[o] = s /\ \A n \in Op \ {o} : child'[n] = child[n]
  BY <1>1, <1>3 DEF Kid
<1>5. \A n \in Op \ {o} : ~(child[n] = "done" /\ Unsettled(n))
  <2>1. \A n \in Op : n < o => ~Unsettled(n)
    BY <1>2 DEF Inv, ChildOK, Begun
  <2>2. \A n \in Op : o < n => child[n] # "done"
    BY <1>2 DEF Inv, ChildOK
  <2>3. \A n \in Op \ {o} : n < o \/ o < n
    BY Names
  <2> QED  BY <2>1, <2>2, <2>3
<1> QED  BY <1>1, <1>2, <1>3, <1>4, <1>5, ChildStep

\* A child is cancelled on its own.
LEMMA CancelChildStep == ASSUME Inv, NEW o \in Op, CancelChild(o)  PROVE Inv'
<1>1. child \in [Op -> Kid] /\ withdrawn \in SUBSET Op
  BY DEF Inv, TypeOK, Kid
<1>2. /\ child[o] \in {"pending", "running"} /\ withdrawn' = withdrawn \union {o}
      /\ child' = IF child[o] = "pending" THEN [child EXCEPT ![o] = "cancelled"] ELSE child
      /\ UNCHANGED <<delivery, last, op, live, runner, twice, process>>
  BY DEF CancelChild
<1>3. /\ child' \in [Op -> Kid] /\ \A n \in Op \ {o} : child'[n] = child[n]
      /\ child'[o] = IF child[o] = "pending" THEN "cancelled" ELSE child[o]
  BY <1>1, <1>2 DEF Kid
<1>4. \A n \in Op : child[n] = "done" /\ Unsettled(n) => live = op[n].delivery
  BY DEF Inv, ChildOK
<1> QED  BY <1>1, <1>2, <1>3, <1>4, ChildStep

\* The loop that awaits the child.
LEMMA AwaitStep == ASSUME Inv, NEW o \in Op, Await(o)  PROVE Inv'
<1>1. runner.op = o
  BY DEF Await
<1>2. Unsettled(o) /\ \A n \in Op : n < o => ~Unsettled(n)
  BY <1>1, Turn
<1>3. UNCHANGED <<last, live>> /\ RunKeeps
  BY DEF Await
<1>4. CASE /\ op[o].cancel /\ child[o] = "pending"
           /\ child' = [child EXCEPT ![o] = "cancelled"]
           /\ UNCHANGED <<delivery, op, runner, twice>>
  <2>1. child \in [Op -> Kid] /\ withdrawn \in SUBSET Op
    BY DEF Inv, TypeOK, Kid
  <2>2. child' \in [Op -> Kid] /\ child'[o] = "cancelled" /\ \A n \in Op \ {o} : child'[n] = child[n]
    BY <1>4, <2>1 DEF Kid
  <2>3. \A n \in Op : child[n] = "done" /\ Unsettled(n) => live = op[n].delivery
    BY DEF Inv, ChildOK
  <2>4. withdrawn' = withdrawn /\ UNCHANGED process
    BY <1>3 DEF RunKeeps
  <2> QED  BY <1>3, <1>4, <2>1, <2>2, <2>3, <2>4, ChildStep
<1>5. CASE /\ ChildOver(o) /\ Fresh(o) /\ ~ChildFailed(o)
           /\ GoOn(o, "applied", "finishing") /\ UNCHANGED delivery /\ ChildKept
  <2>1. child[o] \in {"done", "cancelled"}
    BY <1>5 DEF ChildOver, ChildFailed
  <2>2. child[o] # "absent" /\ (o \in withdrawn \/ child[o] = "done")
    BY <1>5, <2>1, FreshNamed DEF Inv, ChildOK
  <2> QED  BY <1>2, <1>3, <1>5, <2>2, RunGoesOn
<1>6. CASE Fails(o) /\ ChildKept
  BY <1>2, <1>3, <1>6, RunFails
<1> QED  BY <1>4, <1>5, <1>6 DEF Await

\* The source takes the name of the delivery of the operation that ends.  No
\* later operation has begun, so it is the newest of those handed over.
LEMMA FinishStep == ASSUME Inv, NEW o \in Op, Finish(o)  PROVE Inv'
<1>1. PICK d : d = op[o].delivery
  OBVIOUS
<1>2. runner.op = o /\ runner.pc = "finishing" /\ last' = d /\ live' = live /\ ChildKept /\ RunKeeps
  BY <1>1 DEF Finish
<1>3. Unsettled(o) /\ \A n \in Op : n < o => ~Unsettled(n)
  BY <1>2, Turn
<1>4. o \in Handed /\ d \in Present /\ Newer(d, d)
  BY <1>1, <1>2, HandedPlaced, NewerSame DEF Inv, ChildOK, Handed
<1>5. ~twice => \A n \in Handed : Newer(d, op[n].delivery)
  <2>1. \A n \in Handed : n \in Op /\ ~(o < n)
    BY <1>3, LaterNotBegun DEF Handed
  <2>2. \A n \in Handed \ {o} : n < o
    <3>1. \A n \in Op \ {o} : n < o \/ o < n
      BY Names
    <3> QED  BY <2>1, <3>1
  <2>3. ~twice => \A n \in Handed : n < o => Newer(op[o].delivery, op[n].delivery)
    BY <1>4 DEF Inv, OrderOK
  <2> QED  BY <1>1, <1>4, <2>2, <2>3
<1>6. CASE Fails(o)
  BY <1>1, <1>2, <1>3, <1>5, <1>6, RunFails
<1>7. CASE /\ delivery' = WithStatus(delivery, {op[o].delivery}, "deployed")
           /\ op' = [op EXCEPT ![o].status = "done"] /\ runner' = NoRunner
  <2> DEFINE r == [op[o] EXCEPT !.status = "done"]
  <2>1. op \in [Op -> OpRow] /\ op' = [op EXCEPT ![o] = r]
    BY <1>7, RowTypes DEF Inv
  <2>2. /\ r \in OpRow /\ r.status = "done" /\ r.delivery = op[o].delivery /\ r.keyed = op[o].keyed
        /\ r.step = op[o].step /\ r.cancel = op[o].cancel
    BY <2>1 DEF OpRow, Settled
  <2> HIDE DEF r
  <2>3. op' \in [Op -> OpRow] /\ op'[o] = r /\ \A n \in Op \ {o} : op'[n] = op[n]
    BY <2>1, <2>2
  <2>4. \A n \in Op : RowStill(n)
    BY <1>3, <2>2, <2>3 DEF RowStill, RowQuiet, Unsettled
  <2>5. DeliveryEdit(d, delivery[d].op)
    BY <1>1, <1>4, <1>7, StatusEdit DEF Inv
  <2> QED  BY <1>1, <1>2, <1>3, <1>5, <1>7, <2>2, <2>3, <2>4, <2>5, RunSettles
<1> QED  BY <1>6, <1>7 DEF Finish

-----------------------------------------------------------------------------
(* The process *)

\* After a restart what was running waits again.
LEMMA RestartStep == ASSUME Inv, Restart  PROVE Inv'
<1>1. TypeOK /\ op \in [Op -> OpRow] /\ child \in [Op -> Kid]
  BY RowTypes DEF Inv, TypeOK, Kid
<1>2. /\ up' = TRUE /\ runner' = NoRunner
      /\ child' = [n \in Op |-> IF child[n] = "running" THEN "pending" ELSE child[n]]
      /\ UNCHANGED <<delivery, last, live, withdrawn, twice, crashes>>
  BY DEF Restart, history
<1> DEFINE r(n) == [op[n] EXCEPT !.status = "pending"]
<1>3. op' = [n \in Op |-> IF op[n].status = "running" THEN r(n) ELSE op[n]]
  BY DEF Restart
<1>4. \A n \in Op : /\ r(n) \in OpRow /\ r(n).status = "pending" /\ r(n).delivery = op[n].delivery
                    /\ r(n).keyed = op[n].keyed /\ r(n).step = op[n].step
                    /\ r(n).cancel = op[n].cancel
  BY <1>1 DEF OpRow
<1> HIDE DEF r
<1>5. op' \in [Op -> OpRow] /\ \A n \in Op : RowStill(n) /\ RowQuiet(n)
  BY <1>1, <1>3, <1>4 DEF RowStill, RowQuiet
<1>6. \A n \in Op : op'[n].status # "running"
  BY <1>3, <1>4
<1>7. /\ child' \in [Op -> Kid]
      /\ \A n \in Op : child'[n] = IF child[n] = "running" THEN "pending" ELSE child[n]
  BY <1>1, <1>2 DEF Kid
<1>8. runner'.op = NoOp /\ runner'.pc = "idle"
  BY <1>2 DEF NoRunner
<1>9. ChildOK'
  <2>1. \A n \in Op : child[n] = "done" /\ Unsettled(n) => live = op[n].delivery
    BY DEF Inv, ChildOK
  <2> QED  BY <1>2, <1>5, <1>7, <1>8, <2>1, ChildMoves
<1>10. TypeOK'
  <2>1. \A n \in Op : op'[n].status = "running" <=> runner'.op = n
    BY <1>6, <1>8, Names
  <2>2. runner' \in [op : Op \union {NoOp}, pc : {"idle", "building", "waiting", "finishing"}]
    BY <1>2 DEF NoRunner
  <2>3. delivery' \in [Delivery -> DeliveryRow]
    BY <1>1, <1>2, RowTypes
  <2>4. /\ last' \in Delivery \union {None} /\ live' \in Delivery \union {None}
        /\ withdrawn' \in SUBSET Op /\ twice' \in BOOLEAN
    BY <1>1, <1>2 DEF TypeOK
  <2>5. up' \in BOOLEAN /\ crashes' \in 0..MaxCrashes
    BY <1>1, <1>2 DEF TypeOK
  <2> QED  BY <1>1, <1>5, <1>7, <1>8, <2>1, <2>2, <2>3, <2>4, <2>5, TypesAgain
<1>11. RowsOrdered'
  BY <1>2 DEF Inv, RowsOrdered, IsLatest, Before, Present
<1>12. QueueOK'
  <2>1. Present' = Present
    BY <1>2 DEF Present
  <2>2. \A n \in Op : op'[n].status = "absent" => child'[n] = child[n]
    BY <1>5, <1>7, BegunPlaced DEF RowQuiet, Placed
  <2> QED  BY <1>5, <2>1, <2>2, QueueKept
<1>13. OwnerOK'
  BY <1>2, <1>5, OwnerKept
<1>14. OrderOK'
  <2>1. Handed' = Handed
    BY <1>7 DEF Handed
  <2>2. \A n \in Op : child[n] = "done" => child'[n] = "done"
    BY <1>7
  <2>3. \A e, f \in Present : NewerThen(e, f) <=> Newer(e, f)
    BY <1>2 DEF NewerThen, Newer
  <2>4. \A n \in Op : Placed(n) => op'[n].delivery = op[n].delivery
    BY <1>5 DEF RowQuiet
  <2> QED  BY <1>2, <2>1, <2>2, <2>3, <2>4, OrderKept
<1> QED  BY <1>9, <1>10, <1>11, <1>12, <1>13, <1>14 DEF Inv

\* Nothing is recorded, enqueued or handed over at first.
LEMMA InitInv == Init => Inv
<1> SUFFICES ASSUME Init  PROVE Inv
  OBVIOUS
<1>1. /\ \A d \in Delivery : delivery[d].status = "absent" /\ delivery[d].op = NoOp
      /\ \A o \in Op : op[o] = NoneOp /\ op[o].status = "absent" /\ ~op[o].keyed
                       /\ op[o].step = "new" /\ child[o] = "absent"
      /\ last = None /\ live = None /\ runner = NoRunner /\ runner.pc = "idle"
      /\ runner.op = NoOp /\ twice = FALSE
  BY DEF Init, NoRow, NoneOp, NoRunner
<1>2. Present = {} /\ Handed = {}
  BY <1>1 DEF Present, Handed
<1>3. TypeOK
  <2>1. delivery \in [Delivery -> DeliveryRow]
    <3>1. Cardinality(Delivery) \in Nat
      BY DeliveryAssumption, FS_CardinalityType
    <3>2. NoRow \in DeliveryRow
      BY <3>1 DEF NoRow, DeliveryRow
    <3> QED  BY <3>2 DEF Init
  <2>2. op \in [Op -> OpRow]
    <3>1. NoneOp \in OpRow
      BY DEF NoneOp, OpRow
    <3> QED  BY <3>1 DEF Init
  <2>3. \A o \in Op : op[o].status = "running" <=> runner.op = o
    BY <1>1, Names
  <2>4. runner \in [op : Op \union {NoOp}, pc : {"idle", "building", "waiting", "finishing"}]
    BY <1>1 DEF NoRunner
  <2>5. child \in [Op -> Kid] /\ up \in BOOLEAN /\ withdrawn \in SUBSET Op
    BY DEF Init, Kid
  <2>6. crashes \in 0..MaxCrashes
    BY DeliveryAssumption DEF Init
  <2> QED  BY <1>1, <2>1, <2>2, <2>3, <2>4, <2>5, <2>6 DEF TypeOK, DeliveryRow, OpRow, Kid
<1>4. RowsOrdered /\ QueueOK
  BY <1>1, <1>2 DEF RowsOrdered, QueueOK, Placed, Present
<1>5. OwnerOK
  BY <1>1 DEF OwnerOK, Placed
<1>6. ChildOK
  BY <1>1 DEF ChildOK, Begun
<1>7. OrderOK
  BY <1>1, <1>2 DEF OrderOK
<1> QED  BY <1>3, <1>4, <1>5, <1>6, <1>7 DEF Inv

\* Every step keeps the invariant.
LEMMA NextInv == Inv /\ [Next]_vars => Inv'
<1> SUFFICES ASSUME Inv, [Next]_vars  PROVE Inv'
  OBVIOUS
<1>1. ASSUME NEW d \in Delivery, Push(d) \/ PushCutShort(d) \/ ReleaseNow(d) \/ ReleaseCutShort(d)
      PROVE  Inv'
  BY <1>1, PushStep, PushCutStep, ReleaseStep
<1>2. ASSUME NEW o \in Op, Proceed(o) \/ CancelChild(o) \/ Cancel(o) \/ Retry(o)
      PROVE  Inv'
  BY <1>2, StartStep, BuildReturnsStep, AwaitStep, FinishStep, ChildStartsStep, ChildEndsStep,
     CancelChildStep, CancelStep, RetryStep DEF Proceed
<1>3. CASE Crash
  BY <1>3, StutterKeeps, ProcessTypes DEF Crash
<1>4. CASE Restart
  BY <1>4, RestartStep
<1>5. CASE UNCHANGED vars
  <2>1. UNCHANGED process /\ UNCHANGED <<rows, live, runner, history>>
    BY <1>5 DEF vars
  <2> QED  BY <2>1, StutterKeeps, ProcessTypes
<1> QED  BY <1>1, <1>2, <1>3, <1>4, <1>5 DEF Next

-----------------------------------------------------------------------------
(* The theorems *)

\* The invariant holds in every reachable state.
THEOREM Invariance == Spec => []Inv
BY InitInv, NextInv, PTL DEF Spec

\* Every variable keeps its type; one operation is in flight, the running one.
THEOREM TypeCorrectness == Spec => []TypeOK
<1>1. Inv => TypeOK
  BY DEF Inv
<1> QED  BY <1>1, Invariance, PTL

\* No two unsettled operations work for one delivery, over every order of
\* redeliveries, releases, retries, cancellations and crashes amid the handler.
THEOREM OneWork == Spec => []OneWorkPerDelivery
<1>1. Inv => OneWorkPerDelivery
  <2> SUFFICES ASSUME Inv, NEW o \in Op, NEW n \in Op, Unsettled(o), Unsettled(n),
                      op[o].delivery = op[n].delivery
               PROVE  o = n
    BY DEF OneWorkPerDelivery, Unsettled
  <2>1. Placed(o) /\ Placed(n)
    BY DEF Unsettled, Placed
  <2>2. delivery[op[o].delivery].op \in {NoOp, o} /\ delivery[op[n].delivery].op \in {NoOp, n}
    BY <2>1, OwnerFacts
  <2> QED  BY <2>1, <2>2, Names DEF Inv, OwnerOK
<1> QED  BY <1>1, Invariance, PTL

\* The commit of an older delivery never replaces that of a newer one, unless
\* two deliveries were handed to the app while the source named none.
THEOREM NoWayBack == Spec => LiveMovesForward
<1>1. Inv /\ [Next]_vars =>
        [live' # live /\ live # None /\ ~twice => Newer(live', live)]_vars
  <2> SUFFICES ASSUME Inv, Next, live' # live, live # None, ~twice
               PROVE  Newer(live', live)
    BY DEF vars
  <2>1. PICK o \in Op : ChildEnds(o)
    BY DEF Next, Push, PushCutShort, ReleaseNow, ReleaseCutShort, HandlerKeeps, Proceed, Start,
       BuildReturns, Await, Finish, ChildStarts, CancelChild, Cancel, Retry, Crash, Restart
  <2>2. child[o] = "running" /\ live' = op[o].delivery
    BY <2>1 DEF ChildEnds
  <2>3. PICK m \in Op : child[m] = "done" /\ op[m].delivery = live
    BY DEF Inv, OrderOK
  <2>4. ~(o < m) /\ m # o
    BY <2>2, <2>3 DEF Inv, ChildOK
  <2>5. m < o /\ m \in Handed /\ o \in Handed
    BY <2>2, <2>3, <2>4, Names DEF Handed
  <2> QED  BY <2>2, <2>3, <2>5 DEF Inv, OrderOK
<1> QED  BY <1>1, Invariance, PTL DEF Spec, LiveMovesForward

\* Statuses other than deployed do not deploy.
LEMMA OtherStatus ==
  ASSUME NEW row \in [Delivery -> DeliveryRow], NEW D, NEW s, s # "deployed", NEW d \in Delivery,
         row[d].status # "deployed"
  PROVE  WithStatus(row, D, s)[d].status # "deployed"
<1>1. WithStatus(row, D, s)[d] = IF d \in D THEN [row[d] EXCEPT !.status = s] ELSE row[d]
  BY DEF WithStatus
<1>2. [row[d] EXCEPT !.status = s].status = s
  BY DEF DeliveryRow
<1> QED  BY <1>1, <1>2

\* Neither a push nor a release deploys.
LEMMA HandlersDeployNothing ==
  ASSUME Inv, NEW e \in Delivery,
         Push(e) \/ PushCutShort(e) \/ ReleaseNow(e) \/ ReleaseCutShort(e),
         NEW d \in Delivery, delivery[d].status # "deployed"
  PROVE  delivery'[d].status # "deployed"
<1>1. TypeOK /\ delivery \in [Delivery -> DeliveryRow]
  BY RowTypes DEF Inv
<1> PICK rec : rec = Recorded(e)
  OBVIOUS
<1>2. rec \in [Delivery -> DeliveryRow] /\ rec[d].status # "deployed"
  <2>1. CASE e \in Present \/ d # e
    BY <1>1, <2>1, RecordedRow
  <2>2. CASE e \notin Present /\ d = e
    BY <1>1, <2>2, RecordedRow
  <2> QED  BY <2>1, <2>2
<1>3. ASSUME NEW o \in Op
      PROVE  Attached(e, o) \in [Delivery -> DeliveryRow] /\ Attached(e, o)[d].status # "deployed"
  <2>1. CASE d = e
    BY <1>1, <1>2, <2>1, AttachedRow
  <2>2. CASE d # e
    BY <1>1, <2>2, AttachedRow
  <2> QED  BY <2>1, <2>2
<1>4. ASSUME NEW D, NEW s \in {"stale"}, delivery' = WithStatus(rec, D, s)
      PROVE  delivery'[d].status # "deployed"
  BY <1>2, <1>4, OtherStatus
<1>5. ASSUME NEW o \in Op, NEW D, NEW s \in {"duplicate", "superseded"},
             delivery' = WithStatus(Attached(e, o), D, s)
      PROVE  delivery'[d].status # "deployed"
  <2> PICK att : att = Attached(e, o)
    OBVIOUS
  <2>1. att \in [Delivery -> DeliveryRow] /\ att[d].status # "deployed"
    BY <1>3
  <2> QED  BY <1>5, <2>1, OtherStatus
<1>6. ASSUME NEW o, NEW s \in {"queued", "received"}, delivery' = ReleaseRow(e, s, o)
      PROVE  delivery'[d].status # "deployed"
  BY <1>1, <1>6 DEF ReleaseRow
<1>7. CASE Push(e)
  <2>1. CASE Redelivered(e)
    BY <2>1 DEF Redelivered
  <2>2. CASE MarkStale(e)
    BY <1>4, <2>2 DEF MarkStale
  <2>3. CASE \E o \in Op : MarkDuplicate(e, o)
    BY <1>5, <2>3 DEF MarkDuplicate
  <2>4. CASE \E o \in Op : Accept(e, o)
    BY <1>5, <2>4 DEF Accept, Publish
  <2> QED  BY <1>7, <2>1, <2>2, <2>3, <2>4 DEF Push
<1>8. CASE PushCutShort(e)
  <2>1. CASE CutAfterRecord(e)
    BY <1>2, <2>1 DEF CutAfterRecord
  <2>2. CASE \E o \in Op : CutAfterEnqueue(e, o)
    BY <1>2, <1>3, <2>2 DEF CutAfterEnqueue
  <2>3. CASE \E o \in Op : CutAmidOlder(e, o)
    BY <1>5, <2>3 DEF CutAmidOlder, Publish
  <2> QED  BY <1>8, <2>1, <2>2, <2>3 DEF PushCutShort
<1>9. CASE ReleaseNow(e) \/ ReleaseCutShort(e)
  BY <1>6, <1>9 DEF ReleaseNow, ReleaseCutShort
<1> QED  BY <1>7, <1>8, <1>9

\* Only the last step of its operation deploys a delivery.
LEMMA OnlyFinishDeploys ==
  ASSUME Inv, Next, NEW d \in Delivery,
         delivery[d].status # "deployed", delivery'[d].status = "deployed"
  PROVE  \E o \in Op : Finish(o) /\ op[o].delivery = d
<1>1. delivery \in [Delivery -> DeliveryRow]
  BY RowTypes DEF Inv
<1> PICK row : row = delivery
  OBVIOUS
<1>2. ASSUME NEW D, NEW s \in {"building", "failed"}, delivery' = WithStatus(row, D, s)
      PROVE  FALSE
  BY <1>1, <1>2, OtherStatus
<1>3. delivery' # delivery
  OBVIOUS
<1>4. ASSUME NEW o \in Op, Fails(o)
      PROVE  FALSE
  BY <1>2, <1>3, <1>4 DEF Fails
<1>5. ASSUME NEW o \in Op, Start(o) \/ BuildReturns(o) \/ Await(o)
      PROVE  FALSE
  BY <1>2, <1>3, <1>4, <1>5 DEF Start, Prepare, Resume, BuildReturns, Await
<1>6. ASSUME NEW o \in Op, Retry(o)
      PROVE  FALSE
  <2>1. PICK n \in Op : delivery' = [delivery EXCEPT ![op[o].delivery].op = n,
                                                    ![op[o].delivery].status = "queued"]
    BY <1>6 DEF Retry
  <2>2. op[o].delivery \in Delivery
    BY <1>6, OwnerFacts DEF Retry, Placed
  <2>3. delivery'[op[o].delivery].status = "queued"
        /\ \A e \in Delivery : e # op[o].delivery => delivery'[e] = delivery[e]
    BY <1>1, <2>1, <2>2 DEF DeliveryRow
  <2> QED  BY <2>3
<1>7. ASSUME NEW o \in Op, Finish(o)
      PROVE  op[o].delivery = d
  <2>1. delivery' = WithStatus(row, {op[o].delivery}, "deployed")
    BY <1>4, <1>7 DEF Finish
  <2> QED  BY <1>1, <2>1 DEF WithStatus
<1>8. ASSUME NEW e \in Delivery, Push(e) \/ PushCutShort(e) \/ ReleaseNow(e) \/ ReleaseCutShort(e)
      PROVE  FALSE
  BY <1>8, HandlersDeployNothing
<1> QED  BY <1>3, <1>5, <1>6, <1>7, <1>8 DEF Next, Proceed, ChildStarts, ChildEnds, CancelChild,
              Cancel, Crash, Restart, rows

\* A delivery becomes deployed only while the app runs its commit or after its
\* child was cancelled on its own.
THEOREM DeployedRuns == Spec => DeployedIsLive
<1>1. Inv /\ [Next]_vars =>
        [\A d \in Delivery :
           delivery[d].status # "deployed" /\ delivery'[d].status = "deployed"
           => live = d \/ \E o \in withdrawn : op[o].delivery = d]_vars
  <2> SUFFICES ASSUME Inv, Next, NEW d \in Delivery,
                      delivery[d].status # "deployed", delivery'[d].status = "deployed"
               PROVE  live = d \/ \E o \in withdrawn : op[o].delivery = d
    BY DEF vars
  <2>1. PICK o \in Op : Finish(o) /\ op[o].delivery = d
    BY OnlyFinishDeploys
  <2>2. runner.op = o /\ runner.pc = "finishing"
    BY <2>1 DEF Finish
  <2>3. Unsettled(o) /\ op[o].step = "applied"
    BY <2>2, Turn DEF Inv, ChildOK
  <2> QED  BY <2>1, <2>3 DEF Inv, ChildOK
<1> QED  BY <1>1, Invariance, PTL DEF Spec, DeployedIsLive
=============================================================================
