-------------------------- MODULE WebhookDelivery --------------------------
(***************************************************************************)
(* The releases of one build source: the deliveries GitHub sends, late,    *)
(* twice or out of order, the manual release of an operator, the operation *)
(* each of them may enqueue, the child that applies the built commit, the  *)
(* retry that moves a failed delivery to a new operation.                  *)
(*                                                                         *)
(* The webhook handler writes its rows without an await and without one    *)
(* transaction around them: it is one action that a crash may cut after    *)
(* any of its writes.  All operations of the source have one resource key, *)
(* all children the key of the app, so there is one runner and one child   *)
(* at a time, in the order of their rows.  delivery, last, op, child and   *)
(* live survive a crash; runner is memory.                                 *)
(***************************************************************************)
EXTENDS Naturals, FiniteSets

CONSTANTS
  Delivery,   \* delivery identities
  Release,    \* those that an operator's release makes
  Commit,     \* the commit of each delivery
  At,         \* event_at: the commit's timestamp, the time of a release
  MaxOps,     \* bound: operations of the source
  None,
  MaxCrashes  \* bound: crashes of the controller process

ASSUME DeliveryAssumption ==
  /\ IsFiniteSet(Delivery) /\ Release \subseteq Delivery /\ None \notin Delivery
  /\ At \in [Delivery -> Nat] /\ DOMAIN Commit = Delivery
  /\ MaxOps \in Nat /\ MaxCrashes \in Nat

Op == 1..MaxOps
NoOp == 0

VARIABLES
  delivery, \* build_source_deliveries
  last,     \* build_sources.last_delivery_id
  op,       \* the webhook_build_source operations
  child,    \* the apply_manifest child of each operation
  live,     \* the delivery whose commit the app runs
  runner,   \* the operation in flight and the step it awaits
  withdrawn, \* history: operations whose child was cancelled on its own
  twice,     \* history: a second delivery was handed to the app while the source
             \* named none
  up, crashes

rows == <<delivery, last, op, child>>
process == <<up, crashes>>
history == <<withdrawn, twice>>
vars == <<rows, live, runner, history, process>>

NoRow  == [status |-> "absent", id |-> 0, op |-> NoOp]
NoneOp == [status |-> "absent", delivery |-> None, keyed |-> FALSE, step |-> "new",
           cancel |-> FALSE]
NoRunner == [op |-> NoOp, pc |-> "idle"]

Active  == {"received", "queued", "building"}
Settled == {"done", "compensated", "cancelled", "compensation_failed"}

TypeOK ==
  /\ delivery \in [Delivery -> [status : Active \union {"absent", "deployed", "failed",
                                                        "duplicate", "stale", "superseded"},
                                id : 0..Cardinality(Delivery), op : Op \union {NoOp}]]
  /\ last \in Delivery \union {None}
  /\ op \in [Op -> [status : Settled \union {"absent", "pending", "running"},
                    delivery : Delivery \union {None}, keyed : BOOLEAN,
                    step : {"new", "prepared", "built", "applied"}, cancel : BOOLEAN]]
  /\ child \in [Op -> {"absent", "pending", "running", "done", "failed", "cancelled"}]
  /\ live \in Delivery \union {None}
  /\ runner \in [op : Op \union {NoOp}, pc : {"idle", "building", "waiting", "finishing"}]
  /\ withdrawn \in SUBSET Op /\ twice \in BOOLEAN
  /\ up \in BOOLEAN /\ crashes \in 0..MaxCrashes
  /\ \A o \in Op : (op[o].status = "running") <=> (runner.op = o)

Init ==
  /\ delivery = [d \in Delivery |-> NoRow]
  /\ last = None
  /\ op = [o \in Op |-> NoneOp]
  /\ child = [o \in Op |-> "absent"]
  /\ live = None
  /\ runner = NoRunner
  /\ withdrawn = {} /\ twice = FALSE
  /\ up = TRUE /\ crashes = 0

-----------------------------------------------------------------------------
(* The order of deliveries *)

Present == {d \in Delivery : delivery[d].status # "absent"}
NextId == Cardinality(Present) + 1

\* Event order, the order of the rows where the events are of one time.
Before(e, d, row) == At[e] < At[d] \/ (At[e] = At[d] /\ row[e].id < row[d].id)

\* getLatestBuildSourceDelivery, settled rows included, before d is recorded.
IsLatest(e) == e \in Present /\ \A f \in Present \ {e} : Before(f, e, delivery)

\* Faulty variant of Late: only an event of the very same time is refused.
LateSame(d) == \E e \in Present \ {d} : IsLatest(e) /\ At[d] = At[e]
\* The delivery brings no event newer than the latest one recorded.
Late(d) == \E e \in Present \ {d} : IsLatest(e) /\ At[d] <= At[e]

-----------------------------------------------------------------------------
(* enqueueOperation *)

FreeOp(o) == op[o].status = "absent" /\ \A n \in Op : n < o => op[n].status # "absent"
NewOp(d, keyed) == [NoneOp EXCEPT !.status = "pending", !.delivery = d, !.keyed = keyed]

\* The idempotency key of a push is its commit; releases and retries have none.
Known(d) == {o \in Op : op[o].keyed /\ Commit[op[o].delivery] = Commit[d]}
Enqueued(d, o) == o \in Known(d) \/ (Known(d) = {} /\ FreeOp(o))
OpsWith(d, o) == IF o \in Known(d) THEN op ELSE [op EXCEPT ![o] = NewOp(d, TRUE)]

\* requestCancel: a pending operation leaves the queue, a running one is told.
CancelledRow(r) ==
  CASE r.status = "pending" -> [r EXCEPT !.status = "cancelled"]
    [] r.status = "running" -> [r EXCEPT !.cancel = TRUE]
    [] OTHER -> r

-----------------------------------------------------------------------------
(* handleGitHubBuildWebhook *)

Recorded(d) ==
  IF d \in Present THEN delivery
  ELSE [delivery EXCEPT ![d] = [NoRow EXCEPT !.status = "received", !.id = NextId]]

Attached(d, o) ==
  LET row == Recorded(d) IN
  [row EXCEPT ![d].op = o, ![d].status = IF @ = "received" THEN "queued" ELSE @]

\* The active deliveries that d replaces once it has operation o.
Older(d, o) ==
  {e \in Present \ {d} : /\ delivery[e].status \in Active /\ delivery[e].op # o
                         /\ Before(e, d, Recorded(d))}

WithStatus(row, D, s) == [e \in Delivery |-> IF e \in D THEN [row[e] EXCEPT !.status = s] ELSE row[e]]

HandlerKeeps == UNCHANGED <<child, live, runner, history>>

\* A redelivery that has an operation is answered with it.
Redelivered(d) ==
  /\ delivery[d].op # NoOp
  /\ UNCHANGED <<delivery, last, op>>

\* A row that is superseded already cannot become stale: the request fails.
MarkStale(d) ==
  /\ Late(d)
  /\ delivery' = IF delivery[d].status = "superseded" THEN delivery
                 ELSE WithStatus(Recorded(d), {d}, "stale")
  /\ UNCHANGED <<last, op>>

\* The operation of this commit waits or works for this very delivery.
Serves(o, d) == OpsWith(d, o)[o].delivery = d /\ op[o].status \notin Settled

MarkDuplicate(d, o) ==
  /\ ~Serves(o, d)
  /\ delivery' = WithStatus(Attached(d, o), {d}, "duplicate")
  /\ op' = OpsWith(d, o)
  /\ UNCHANGED last

\* The source names d; the deliveries S are superseded and the operations of T
\* cancelled.
Publish(d, o, S, T) ==
  /\ last' = d
  /\ delivery' = WithStatus(Attached(d, o), S, "superseded")
  /\ op' = [n \in Op |-> IF n \in {delivery[e].op : e \in T} THEN CancelledRow(op[n])
                         ELSE OpsWith(d, o)[n]]

Accept(d, o) == Serves(o, d) /\ Publish(d, o, Older(d, o), Older(d, o))

Push(d) ==
  /\ up /\ d \notin Release
  /\ \/ Redelivered(d)
     \/ delivery[d].op = NoOp /\ MarkStale(d)
     \/ /\ delivery[d].op = NoOp /\ ~Late(d)
        /\ \E o \in Op : Enqueued(d, o) /\ (MarkDuplicate(d, o) \/ Accept(d, o))
  /\ HandlerKeeps /\ UNCHANGED process

\* The process dies when the delivery was recorded only.
CutAfterRecord(d) == delivery' = Recorded(d) /\ UNCHANGED <<last, op>>
\* Or when its operation was enqueued, and perhaps attached.
CutAfterEnqueue(d, o) ==
  /\ delivery' \in {Recorded(d), Attached(d, o)}
  /\ op' = OpsWith(d, o) /\ UNCHANGED last
\* Or amid the older deliveries, each superseded first and cancelled then.
CutAmidOlder(d, o) ==
  /\ Serves(o, d)
  /\ \E S \in SUBSET Older(d, o) : \E T \in SUBSET S :
       Cardinality(S \ T) <= 1 /\ Publish(d, o, S, T)

Stop == up /\ crashes < MaxCrashes /\ up' = FALSE /\ crashes' = crashes + 1

PushCutShort(d) ==
  /\ Stop /\ d \notin Release /\ delivery[d].op = NoOp
  /\ \/ CutAfterRecord(d)
     \/ ~Late(d) /\ \E o \in Op : Enqueued(d, o) /\ (CutAfterEnqueue(d, o) \/ CutAmidOlder(d, o))
  /\ HandlerKeeps

-----------------------------------------------------------------------------
(* handleDeployBuildSource *)

\* No delivery that has an operation is active; the clock of the panel is not
\* behind the commits it has seen.
MayRelease(d) ==
  /\ d \in Release \ Present
  /\ \A e \in Present : (delivery[e].status \in Active => delivery[e].op = NoOp) /\ At[e] <= At[d]

ReleaseRow(d, status, o) ==
  [delivery EXCEPT ![d] = [status |-> status, id |-> NextId, op |-> o]]

ReleaseNow(d) ==
  /\ up /\ MayRelease(d)
  /\ \E o \in Op :
       /\ FreeOp(o)
       /\ delivery' = ReleaseRow(d, "queued", o)
       /\ op' = [op EXCEPT ![o] = NewOp(d, FALSE)]
  /\ last' = d
  /\ HandlerKeeps /\ UNCHANGED process

ReleaseCutShort(d) ==
  /\ Stop /\ MayRelease(d)
  /\ \/ delivery' = ReleaseRow(d, "received", NoOp) /\ UNCHANGED op
     \/ \E o \in Op :
          /\ FreeOp(o)
          /\ delivery' \in {ReleaseRow(d, "received", NoOp), ReleaseRow(d, "queued", o)}
          /\ op' = [op EXCEPT ![o] = NewOp(d, FALSE)]
  /\ HandlerKeeps /\ UNCHANGED last

-----------------------------------------------------------------------------
(* The operation: prepare_source, build_images, reconcile_manifests,       *)
(* finish_delivery                                                         *)

RunKeeps == UNCHANGED <<withdrawn, process>>
ChildKept == UNCHANGED <<child, twice>>

\* assertFreshDelivery.
Fresh(o) ==
  LET d == op[o].delivery IN
  /\ ~op[o].cancel
  /\ delivery[d].status \notin {"stale", "superseded"}
  /\ last \in {None, d}

\* A later operation of the source fences the compensation.
Fenced(o) == \E n \in Op : n > o /\ op[n].status # "absent"
Undone(o) == op[o].step # "new" /\ ~Fenced(o)
             /\ delivery[op[o].delivery].status \notin {"stale", "superseded"}

\* A step throws: compensating prepare_source marks the delivery failed, which a
\* deployed one refuses.
Fails(o) ==
  LET d == op[o].delivery
      refused == Undone(o) /\ delivery[d].status \notin Active \union {"failed"}
  IN /\ delivery' = IF Undone(o) /\ ~refused THEN WithStatus(delivery, {d}, "failed") ELSE delivery
     /\ op' = [op EXCEPT ![o].status = IF refused THEN "compensation_failed"
                                       ELSE IF op[o].cancel THEN "cancelled" ELSE "compensated"]
     /\ runner' = NoRunner

\* Faulty variant of GoOn: the row is not marked running.
GoOnUnmarked(o, step, pc) ==
  /\ op' = [op EXCEPT ![o].step = step]
  /\ runner' = [op |-> o, pc |-> pc]
GoOn(o, step, pc) ==
  /\ op' = [op EXCEPT ![o].status = "running", ![o].step = step]
  /\ runner' = [op |-> o, pc |-> pc]

\* The source names no delivery, and another one than o's was handed to the app.
Another(o) ==
  last = None /\ \E n \in Op : child[n] # "absent" /\ op[n].delivery # op[o].delivery

\* Apply the built commit: the child is found again by its idempotency key.
Apply(o) ==
  /\ child' = IF child[o] = "absent" THEN [child EXCEPT ![o] = "pending"] ELSE child
  /\ twice' = (twice \/ Another(o))
  /\ GoOn(o, "built", "waiting")

Prepare(o) ==
  LET d == op[o].delivery IN
  /\ op[o].step = "new" /\ Fresh(o)
  /\ delivery[d].op \in {NoOp, o} /\ delivery[d].status \in Active
  /\ delivery' = WithStatus(delivery, {d}, "building")
  /\ GoOn(o, "prepared", "building") /\ ChildKept

Resume(o) ==
  /\ Fresh(o) /\ UNCHANGED delivery
  /\ \/ op[o].step = "prepared" /\ GoOn(o, "prepared", "building") /\ ChildKept
     \/ op[o].step = "built" /\ Apply(o)
     \/ op[o].step = "applied" /\ GoOn(o, "applied", "finishing") /\ ChildKept

\* The oldest pending operation of the source starts when none is in flight; a
\* source without apps, or a checkout that fails, is a step that throws.
Start(o) ==
  /\ up /\ runner = NoRunner
  /\ op[o].status = "pending" /\ \A n \in Op : n < o => op[n].status # "pending"
  /\ \/ Prepare(o)
     \/ Resume(o)
     \/ Fails(o) /\ ChildKept
  /\ UNCHANGED <<last, live>> /\ RunKeeps

BuildReturns(o) ==
  /\ up /\ runner = [op |-> o, pc |-> "building"]
  /\ \/ Fresh(o) /\ Apply(o) /\ UNCHANGED delivery
     \/ Fails(o) /\ ChildKept
  /\ UNCHANGED <<last, live>> /\ RunKeeps

\* Faulty variant of ChildFailed: a failed child is no reason to stop.
ChildIgnored(o) == FALSE
ChildFailed(o) == child[o] = "failed"
ChildOver(o) == child[o] \in {"done", "failed", "cancelled"}

\* One turn of awaitChildren's loop.
Await(o) ==
  /\ up /\ runner = [op |-> o, pc |-> "waiting"]
  /\ \/ /\ op[o].cancel /\ child[o] = "pending"
        /\ child' = [child EXCEPT ![o] = "cancelled"]
        /\ UNCHANGED <<delivery, op, runner, twice>>
     \/ /\ ChildOver(o)
        /\ IF Fresh(o) /\ ~ChildFailed(o)
             THEN GoOn(o, "applied", "finishing") /\ UNCHANGED delivery
             ELSE Fails(o)
        /\ ChildKept
  /\ UNCHANGED <<last, live>> /\ RunKeeps

\* The cleanup of the hosts returned; the source names this delivery again.
Finish(o) ==
  LET d == op[o].delivery IN
  /\ up /\ runner = [op |-> o, pc |-> "finishing"]
  /\ last' = d
  /\ IF delivery[d].status \in {"building", "deployed"}
       THEN /\ delivery' = WithStatus(delivery, {d}, "deployed")
            /\ op' = [op EXCEPT ![o].status = "done"]
            /\ runner' = NoRunner
       ELSE Fails(o)
  /\ UNCHANGED live /\ ChildKept /\ RunKeeps

-----------------------------------------------------------------------------
(* The child, and the operator *)

ChildStarts(o) ==
  /\ up /\ child[o] = "pending"
  /\ \A n \in Op : child[n] # "running" /\ (n < o => child[n] # "pending")
  /\ child' = [child EXCEPT ![o] = "running"]
  /\ UNCHANGED <<delivery, last, op, live, runner, history, process>>

ChildEnds(o) ==
  /\ up /\ child[o] = "running"
  /\ \/ child' = [child EXCEPT ![o] = "done"] /\ live' = op[o].delivery
     \/ child' = [child EXCEPT ![o] = "failed"] /\ UNCHANGED live
     \/ /\ op[o].cancel \/ o \in withdrawn
        /\ child' = [child EXCEPT ![o] = "cancelled"] /\ UNCHANGED live
  /\ UNCHANGED <<delivery, last, op, runner, history, process>>

CancelChild(o) ==
  /\ up /\ child[o] \in {"pending", "running"}
  /\ withdrawn' = withdrawn \union {o}
  /\ child' = IF child[o] = "pending" THEN [child EXCEPT ![o] = "cancelled"] ELSE child
  /\ UNCHANGED <<delivery, last, op, live, runner, twice, process>>

Cancel(o) ==
  /\ up /\ op[o].status \in {"pending", "running"}
  /\ op' = [op EXCEPT ![o] = CancelledRow(@)]
  /\ UNCHANGED <<delivery, last, child, live, runner, history, process>>

\* Faulty variant of Transferable: nobody looks whether the update found a row.
TransferUnchecked(o) == TRUE
\* The delivery failed and belongs to this operation.
Transferable(o) ==
  delivery[op[o].delivery].op = o /\ delivery[op[o].delivery].status = "failed"

\* retryWebhookOperationAsNew, one transaction.
Retry(o) ==
  /\ up /\ op[o].status \in {"compensated", "cancelled"} /\ Transferable(o)
  /\ \E n \in Op :
       /\ FreeOp(n)
       /\ op' = [op EXCEPT ![n] = NewOp(op[o].delivery, FALSE)]
       /\ delivery' = [delivery EXCEPT ![op[o].delivery].op = n,
                                       ![op[o].delivery].status = "queued"]
  /\ UNCHANGED <<last, child, live, runner, history, process>>

-----------------------------------------------------------------------------
(* The controller process *)

Crash == Stop /\ UNCHANGED <<rows, live, runner, history>>

\* resumeInterruptedOperations.
Restart ==
  /\ ~up /\ up' = TRUE
  /\ runner' = NoRunner
  /\ op' = [o \in Op |-> IF op[o].status = "running" THEN [op[o] EXCEPT !.status = "pending"] ELSE op[o]]
  /\ child' = [o \in Op |-> IF child[o] = "running" THEN "pending" ELSE child[o]]
  /\ UNCHANGED <<delivery, last, live, history, crashes>>

Proceed(o) == Start(o) \/ BuildReturns(o) \/ Await(o) \/ Finish(o) \/ ChildStarts(o) \/ ChildEnds(o)

Next ==
  \/ \E d \in Delivery : Push(d) \/ PushCutShort(d) \/ ReleaseNow(d) \/ ReleaseCutShort(d)
  \/ \E o \in Op : Proceed(o) \/ CancelChild(o) \/ Cancel(o) \/ Retry(o)
  \/ Crash \/ Restart

Spec == Init /\ [][Next]_vars

-----------------------------------------------------------------------------
(* Properties *)

Newer(d, e) == At[d] > At[e] \/ (At[d] = At[e] /\ delivery[d].id >= delivery[e].id)

\* Whatever order deliveries arrive in and however often, over retries, failed
\* builds, crashes amid the handler and children that outlive their operation,
\* the app never goes back to the commit of an older delivery
\* (build-webhooks.ts:59-64 and 96-109, ops/webhook-build-source.ts:56-67).  That
\* takes at most one delivery that is handed to the app before the source names
\* any: assertFreshDelivery lets every operation of a source that names none pass (64).
LiveMovesForward ==
  [][live' # live /\ live # None /\ ~twice => Newer(live', live)]_vars

\* No two unsettled operations work for one delivery, over redeliveries and
\* retries of each operation it ever had (db/operations.ts:331-348).
OneWorkPerDelivery ==
  \A o, n \in Op :
    /\ op[o].status \in {"pending", "running"} /\ op[n].status \in {"pending", "running"}
    /\ op[o].delivery = op[n].delivery
    => o = n

\* A delivery is recorded as deployed only while the app runs its commit, or an
\* operator cancelled the child that was to apply it
\* (ops/webhook-build-source.ts:404-432, ops/_children.ts:39-51).
DeployedIsLive ==
  [][\A d \in Delivery :
       delivery[d].status # "deployed" /\ delivery'[d].status = "deployed"
       => live = d \/ \E o \in withdrawn : op[o].delivery = d]_vars
=============================================================================
