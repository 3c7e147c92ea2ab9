------------------------------ MODULE OpEngine ------------------------------
(***************************************************************************)
(* The durable operation engine: the operations table and its step rows,   *)
(* the in-memory lock table of the scheduler, the step runner with its     *)
(* forward walk and its reverse compensation walk, the stuck-state sweep,  *)
(* the operator routes (cancel, retry, finalize) and crash and restart of  *)
(* the controller process.                                                 *)
(*                                                                         *)
(* One action is what the process does between two awaits: a tick that     *)
(* starts an operation, the return of one remote call together with all    *)
(* the synchronous work that follows it, one HTTP handler, one sweep of    *)
(* one row.  What survives a crash is db and effects; holder and run are   *)
(* memory.                                                                 *)
(***************************************************************************)
EXTENDS Naturals, FiniteSets

CONSTANTS
  Op,            \* rows that may ever be enqueued
  Key,           \* resource keys ("app:7", "stack:prod", ...)
  AppKey,        \* the keys with the member prefix "app:"
  Def,           \* immutable envelope and kind definition of each row
  Nobody,        \* an unheld key
  NonOp,         \* NON_OP_HOLDER: a critical section that is no operation
  NoParent,      \* parent_id IS NULL
  MaxConcurrent, \* ENGINE_CONCURRENCY
  MaxCompensationAttempts,
  MaxCrashes,    \* bound: crashes of the controller process
  MaxRequests    \* bound: operator requests and non-operation sections

(***************************************************************************)
(* What never changes after the INSERT: the locks the scheduler takes      *)
(* (keys), the identities the row itself names (owned), the parent and the *)
(* step of the parent that enqueues the row (at), and the steps of the     *)
(* kind, numbered 1..steps: those with a probe, with a compensate          *)
(* function, with a probeCompensated, and those that park in               *)
(* awaitChildren.  Step inserts of a deploy inserts the row of an app,     *)
(* which joins its name and its id (joins); step erases of a destruction   *)
(* deletes the row of the app it names; 0 is no step.  A handler enqueues  *)
(* an operation that is about (acts) an app only when the row is there.    *)
(***************************************************************************)
OpDef == [keys : SUBSET Key, owned : SUBSET Key, steps : Nat \ {0},
          probed : SUBSET Nat, undo : SUBSET Nat, probedGone : SUBSET Nat,
          awaits : SUBSET Nat, parent : Op \union {NoParent}, at : Nat,
          inserts : Nat, joins : SUBSET Key, erases : Nat, acts : BOOLEAN,
          destroys : BOOLEAN, known : BOOLEAN]

\* Every enqueueOperation call of the code passes at least one key.
ASSUME OpAssumption ==
  /\ IsFiniteSet(Op)
  /\ Def \in [Op -> OpDef]
  /\ \A o \in Op : Def[o].keys # {}
  /\ AppKey \subseteq Key
  /\ Nobody \notin Op /\ NonOp \notin Op /\ Nobody # NonOp
  /\ NoParent \notin Op

ASSUME LimitAssumption ==
  /\ MaxConcurrent \in Nat \ {0}
  /\ MaxCompensationAttempts \in Nat \ {0}
  /\ MaxCrashes \in Nat
  /\ MaxRequests \in Nat

VARIABLES
  db,       \* the operations row of each op, with its step rows summarised
  effects,  \* the side effects of each op's steps that exist in the world
  holder,   \* scheduler.ts: who holds each key
  run,      \* the runner of each op: where runOperation is suspended
  finalizing, \* operations whose finalize request awaits its body
  up,       \* the controller process is alive
  crashes,  \* crashes so far
  requests  \* operator requests and non-operation sections so far

vars == <<db, effects, holder, run, finalizing, up, crashes, requests>>

Terminal == {"done", "failed", "cancelled", "compensated", "compensation_failed"}
Status   == {"absent", "pending", "running", "compensating"} \union Terminal

(***************************************************************************)
(* id orders the rows (AUTOINCREMENT); enqueued_at orders them the same    *)
(* way.  cancelReq, cancelled and fenced are what the code later reads of  *)
(* error_json: cancel_requested, cancelled and compensation_skipped.  fwd  *)
(* and comp are the steps with a forward, respectively compensate, row in  *)
(* status ok or skipped; open is the status of the row in flight.  passes  *)
(* is history: the compensation passes begun.                              *)
(***************************************************************************)
Row == [id : Nat, status : Status, attempt : Nat,
        cancelReq : BOOLEAN, cancelled : BOOLEAN, fenced : BOOLEAN,
        fwd : SUBSET Nat, comp : SUBSET Nat,
        open : {"none", "started", "executing"},
        passes : Nat]

NoRow == [id |-> 0, status |-> "absent", attempt |-> 0,
          cancelReq |-> FALSE, cancelled |-> FALSE, fenced |-> FALSE,
          fwd |-> {}, comp |-> {}, open |-> "none",
          passes |-> 0]

\* A suspended runOperation: awaiting a probe, a run, a probeCompensated or a
\* compensate of one step; failed is runCompensation's anyFailed.
Runner == [pc : {"idle", "probe", "run", "probeGone", "undo"},
           step : Nat, failed : BOOLEAN]
Idle == [pc |-> "idle", step |-> 0, failed |-> FALSE]

TypeOK ==
  /\ db \in [Op -> Row]
  /\ effects \in [Op -> SUBSET Nat]
  /\ holder \in [Key -> Op \union {Nobody, NonOp}]
  /\ run \in [Op -> Runner]
  /\ finalizing \in SUBSET Op
  /\ up \in BOOLEAN
  /\ crashes \in 0..MaxCrashes
  /\ requests \in 0..MaxRequests

Init ==
  /\ db = [o \in Op |-> NoRow]
  /\ effects = [o \in Op |-> {}]
  /\ holder = [k \in Key |-> Nobody]
  /\ run = [o \in Op |-> Idle]
  /\ finalizing = {}
  /\ up = TRUE
  /\ crashes = 0
  /\ requests = 0

-----------------------------------------------------------------------------
(* Reading the state *)

InFlight == {o \in Op : run[o].pc # "idle"}
\* Faulty variant of Parked: a parent keeps its concurrency slot while it waits.
NeverParked == {}
\* parkOp/unparkOp bracket the poll loop of awaitChildren.
Parked   == {o \in InFlight : run[o].pc = "run" /\ run[o].step \in Def[o].awaits}
Active   == InFlight \ Parked

Present == {o \in Op : db[o].status # "absent"}
Children(o, s) == {c \in Op : Def[c].parent = o /\ Def[c].at = s}

CanAcquire(o) == \A k \in Def[o].keys : holder[k] = Nobody
IsHeld(o)     == \E k \in Def[o].keys : holder[k] = o
Taken(o)      == [k \in Key |-> IF k \in Def[o].keys THEN o ELSE holder[k]]
Released(o, h) == [k \in Key |-> IF k \in Def[o].keys THEN Nobody ELSE h[k]]

\* The app rows there are, each by the operation that inserted it.
AppRows == {o \in Op :
  /\ Def[o].inserts \in effects[o]
  /\ \A d \in Op : Def[d].erases \in effects[d] => Def[d].owned \intersect Def[o].joins = {}}

\* expandedResourceKeys: names and ids are looked up in the rows at every check.
Owned(o) ==
  Def[o].owned \union
    UNION {Def[a].joins : a \in {b \in AppRows : Def[b].joins \intersect Def[o].owned # {}}}

\* Stack keys on two member operations are locks, not ownership claims.
Overlap(o, n) ==
  LET om == Owned(o) \intersect AppKey
      nm == Owned(n) \intersect AppKey
  IN IF om # {} /\ nm # {} THEN om \intersect nm # {}
                           ELSE Owned(o) \intersect Owned(n) # {}

Newer(n, o) == db[n].id > db[o].id

\* Faulty variant of Superseded: a newer operation that settled does not count.
SupersededByLive(o) ==
  \E n \in Op : Newer(n, o) /\ Overlap(o, n) /\ db[n].status \in {"pending", "running"}
Superseded(o) == \E n \in Op : Newer(n, o) /\ Overlap(o, n)

\* The parent chain of o: what every set closed under "parent" must contain.
Ancestors == [o \in Op |->
  {a \in Op : /\ Def[o].parent # NoParent
              /\ \A S \in SUBSET Op :
                   (/\ Def[o].parent \in S
                    /\ \A b \in S : Def[b].parent \in S \union {NoParent}) => a \in S}]

AncestorSuperseded(o) == \E a \in Ancestors[o] : Superseded(a)

CancelSeen(row) == row.status = "cancelled" \/ row.cancelReq
Least(S)    == CHOOSE s \in S : \A t \in S : s <= t
Greatest(S) == CHOOSE s \in S : \A t \in S : s >= t

-----------------------------------------------------------------------------
(***************************************************************************)
(* The synchronous stretches of the step runner.  row is the row as the    *)
(* stretch has it, h the lock table; each ends either suspended in a       *)
(* remote call or settled, with the keys released.                         *)
(***************************************************************************)
Leave(o, row, h) ==
  /\ db' = [db EXCEPT ![o] = row]
  /\ run' = [run EXCEPT ![o] = Idle]
  /\ holder' = Released(o, h)

Suspend(o, row, h, pc, s, failed) ==
  /\ db' = [db EXCEPT ![o] = [row EXCEPT !.open =
              IF pc \in {"probe", "probeGone"} THEN "started" ELSE "executing"]]
  /\ run' = [run EXCEPT ![o] = [pc |-> pc, step |-> s, failed |-> failed]]
  /\ holder' = h

\* skipSupersededCompensation: the rows of what is left are written as skipped.
FenceOff(o, row, h) ==
  Leave(o, [row EXCEPT !.status = IF row.cancelled THEN "cancelled" ELSE "compensated",
                       !.comp = @ \union (Def[o].undo \intersect row.fwd),
                       !.fenced = TRUE], h)

EndPass(o, row, h, failed) ==
  \/ /\ failed
     /\ row.attempt >= MaxCompensationAttempts
     /\ Leave(o, [row EXCEPT !.status = "compensation_failed"], h)
  \/ /\ failed
     /\ row.attempt < MaxCompensationAttempts
     /\ Leave(o, [row EXCEPT !.status = "compensating"], h)
  \/ /\ ~failed
     /\ Leave(o, [row EXCEPT !.status =
                    IF row.cancelled THEN "cancelled"
                    ELSE IF Def[o].destroys THEN "failed" ELSE "compensated"], h)

\* The reverse walk from below step i.
UndoBelow(o, row, h, i, failed) ==
  LET todo == {s \in Def[o].undo \intersect row.fwd : s < i /\ s \notin row.comp}
  IN \/ /\ todo = {}
        /\ EndPass(o, row, h, failed)
     \/ /\ todo # {} /\ Superseded(o)
        /\ FenceOff(o, row, h)
     \/ /\ todo # {} /\ ~Superseded(o)
        /\ LET s == Greatest(todo)
           IN Suspend(o, row, h, IF s \in Def[o].probedGone THEN "probeGone" ELSE "undo",
                      s, failed)

RunCompensation(o, row, h) ==
  LET begun == [row EXCEPT !.passes = @ + 1]
  IN \/ /\ Superseded(o)
        /\ FenceOff(o, begun, h)
     \/ /\ ~Superseded(o)
        /\ UndoBelow(o, begun, h, Def[o].steps + 1, FALSE)

\* The catch block: markOperationCompensating, then the first pass.
FailForward(o, row, h, cancelled) ==
  RunCompensation(o, [row EXCEPT !.status = "compensating", !.cancelReq = FALSE,
                                 !.cancelled = cancelled, !.open = "none"], h)

\* The forward loop from after step i; steps already recorded are replayed.
ForwardAfter(o, row, h, i) ==
  LET rest == {s \in 1..Def[o].steps : s > i /\ s \notin row.fwd}
      stop == i < Def[o].steps /\ CancelSeen(row)
  IN \/ /\ stop
        /\ FailForward(o, row, h, TRUE)
     \/ /\ ~stop /\ rest = {}
        /\ Leave(o, [row EXCEPT !.status = "done", !.cancelReq = FALSE], h)
     \/ /\ ~stop /\ rest # {}
        /\ LET s == Least(rest)
           IN Suspend(o, row, h, IF s \in Def[o].probed THEN "probe" ELSE "run", s, FALSE)

-----------------------------------------------------------------------------
(* tryStart and the entry of runOperation *)

Fenced(o)    == Def[o].destroys /\ AncestorSuperseded(o)
Exhausted(o) == db[o].status = "compensating" /\ db[o].attempt >= MaxCompensationAttempts

\* Faulty variant of StartUnknown: the row is skipped and left as it is.
SkipUnknown(o) == ~Def[o].known /\ UNCHANGED <<db, run, holder>>

StartUnknown(o) ==
  /\ ~Def[o].known
  /\ db' = [db EXCEPT ![o] = [@ EXCEPT !.status = "failed", !.cancelReq = FALSE]]
  /\ UNCHANGED <<run, holder>>

StartFencedChild(o) ==
  /\ Fenced(o)
  /\ Leave(o, [db[o] EXCEPT !.status = "cancelled", !.cancelReq = FALSE,
                             !.cancelled = FALSE, !.fenced = TRUE], Taken(o))

StartExhausted(o) ==
  /\ ~Fenced(o)
  /\ Exhausted(o)
  /\ Leave(o, [db[o] EXCEPT !.status = "compensation_failed"], Taken(o))

ResumeCompensation(o) ==
  /\ ~Fenced(o)
  /\ db[o].status = "compensating" /\ ~Exhausted(o)
  /\ RunCompensation(o, [db[o] EXCEPT !.attempt = @ + 1], Taken(o))

StartForward(o) ==
  /\ ~Fenced(o)
  /\ db[o].status # "compensating"
  /\ ForwardAfter(o, [db[o] EXCEPT !.status = "running", !.attempt = @ + 1], Taken(o), 0)

StartKnown(o) ==
  /\ Def[o].known
  /\ CanAcquire(o)
  /\ \/ StartFencedChild(o)
     \/ StartExhausted(o)
     \/ ResumeCompensation(o)
     \/ StartForward(o)

TryStart(o) ==
  /\ StartUnknown(o) \/ StartKnown(o)
  /\ UNCHANGED <<effects, finalizing, up, crashes, requests>>

\* listPendingOperations(MAX_CONCURRENT * 2), oldest first.
Pending == {o \in Op : db[o].status = "pending"}
\* Faulty variant of Window: the newest rows of the queue instead of the oldest.
NewestFirst == {o \in Pending :
                  Cardinality({p \in Pending : Newer(p, o)}) < MaxConcurrent}
Window  == {o \in Pending :
              Cardinality({p \in Pending : Newer(o, p)}) < 2 * MaxConcurrent}
Startable(o) == o \notin InFlight /\ (~Def[o].known \/ CanAcquire(o))

\* One tryStart of a tick: the oldest startable row of the window, and rows in
\* "compensating" only once no pending row of the window can start.  A row
\* leaves the window as it starts; in the code the next tick's query drops it.
TickStart(o) ==
  /\ up
  /\ Cardinality(Active) < MaxConcurrent
  /\ Startable(o)
  /\ \/ o \in Window /\ \A p \in Window : Newer(o, p) => ~Startable(p)
     \/ db[o].status = "compensating" /\ \A p \in Window : ~Startable(p)
  /\ TryStart(o)

-----------------------------------------------------------------------------
(* Remote calls of a suspended runner returning *)

Keep == UNCHANGED <<finalizing, up, crashes, requests>>

At(o, pc) == up /\ run[o].pc = pc
Awaiting(o) == At(o, "run") /\ run[o].step \in Def[o].awaits

StepOk(o) == [db[o] EXCEPT !.fwd = @ \union {run[o].step}, !.open = "none"]

\* Faulty variant of ProbeAdopts: any answer of the probe counts as adoption.
ProbeAdoptsBlindly(o) ==
  /\ At(o, "probe")
  /\ ForwardAfter(o, StepOk(o), holder, run[o].step)
  /\ UNCHANGED effects /\ Keep

\* A probe adopts a side effect that exists.
ProbeAdopts(o) ==
  /\ At(o, "probe")
  /\ run[o].step \in effects[o]
  /\ ForwardAfter(o, StepOk(o), holder, run[o].step)
  /\ UNCHANGED effects /\ Keep

\* Nothing to adopt, or a probe that failed: the step runs.
ProbeMisses(o) ==
  /\ At(o, "probe")
  /\ Suspend(o, db[o], holder, "run", run[o].step, FALSE)
  /\ UNCHANGED effects /\ Keep

\* FatalProbeError.
ProbeRejects(o) ==
  /\ At(o, "probe")
  /\ FailForward(o, db[o], holder, CancelSeen(db[o]))
  /\ UNCHANGED effects /\ Keep

\* The remote side effect of a running step happens; its reply is still out.
EffectLands(o) ==
  /\ At(o, "run") /\ ~Awaiting(o)
  /\ run[o].step \notin effects[o]
  /\ effects' = [effects EXCEPT ![o] = @ \union {run[o].step}]
  /\ UNCHANGED <<db, run, holder>> /\ Keep

RunReturns(o) ==
  /\ At(o, "run") /\ ~Awaiting(o)
  /\ run[o].step \in effects[o]
  /\ ForwardAfter(o, StepOk(o), holder, run[o].step)
  /\ UNCHANGED effects /\ Keep

RunThrows(o) ==
  /\ At(o, "run") /\ ~Awaiting(o)
  /\ FailForward(o, db[o], holder, CancelSeen(db[o]))
  /\ UNCHANGED effects /\ Keep

EffectUndone(o) ==
  /\ At(o, "undo")
  /\ run[o].step \in effects[o]
  /\ effects' = [effects EXCEPT ![o] = @ \ {run[o].step}]
  /\ UNCHANGED <<db, run, holder>> /\ Keep

UndoStepOk(o) == [db[o] EXCEPT !.comp = @ \union {run[o].step}, !.open = "none"]

\* probeCompensated: the side effect is gone already.
FoundGone(o) ==
  /\ At(o, "probeGone")
  /\ run[o].step \notin effects[o]
  /\ UndoBelow(o, UndoStepOk(o), holder, run[o].step, run[o].failed)
  /\ UNCHANGED effects /\ Keep

NotGone(o) ==
  /\ At(o, "probeGone")
  /\ Suspend(o, db[o], holder, "undo", run[o].step, run[o].failed)
  /\ UNCHANGED effects /\ Keep

UndoReturns(o) ==
  /\ At(o, "undo")
  /\ run[o].step \notin effects[o]
  /\ UndoBelow(o, UndoStepOk(o), holder, run[o].step, run[o].failed)
  /\ UNCHANGED effects /\ Keep

\* Faulty variant of UndoThrows: the failed compensation is not remembered.
UndoThrowsUnnoticed(o) ==
  /\ At(o, "undo")
  /\ UndoBelow(o, [db[o] EXCEPT !.open = "none"], holder, run[o].step, run[o].failed)
  /\ UNCHANGED effects /\ Keep

\* Best effort: the walk goes on with the earlier steps.
UndoThrows(o) ==
  /\ At(o, "undo")
  /\ UndoBelow(o, [db[o] EXCEPT !.open = "none"], holder, run[o].step, TRUE)
  /\ UNCHANGED effects /\ Keep

-----------------------------------------------------------------------------
(* Enqueueing, and parents that wait for their children *)

\* The next id.  A child is enqueued by the running step of its parent, once:
\* its idempotency key finds it again when the parent's step runs again.
Enqueue(o) ==
  /\ up
  /\ db[o].status = "absent"
  /\ Def[o].parent # NoParent =>
       /\ Awaiting(Def[o].parent)
       /\ run[Def[o].parent].step = Def[o].at
  /\ Def[o].acts => \E a \in AppRows : Def[a].joins \intersect Def[o].owned # {}
  /\ db' = [db EXCEPT ![o] = [NoRow EXCEPT !.status = "pending",
                                           !.id = Cardinality(Present) + 1]]
  /\ UNCHANGED <<effects, holder, run>> /\ Keep

Requested(row) ==
  IF row.status = "pending" THEN [row EXCEPT !.status = "cancelled"]
  ELSE IF row.status = "running" THEN [row EXCEPT !.cancelReq = TRUE]
  ELSE row  \* a flag written while compensating is never read

ChildrenOf(o) == Children(o, run[o].step)
ChildrenTerminal(o) == \A c \in ChildrenOf(o) : db[c].status \in Terminal
ChildFailed(o) ==
  \E c \in ChildrenOf(o) : db[c].status \in {"failed", "compensated", "compensation_failed"}

\* One poll of awaitChildren that sees a cancel request and live children.
CancelChildren(o) ==
  /\ Awaiting(o) /\ CancelSeen(db[o])
  /\ ChildrenOf(o) \subseteq Present
  /\ ~ChildrenTerminal(o)
  /\ db' = [c \in Op |-> IF c \in ChildrenOf(o) THEN Requested(db[c]) ELSE db[c]]
  /\ UNCHANGED <<effects, holder, run>> /\ Keep

ChildrenSucceeded(o) ==
  /\ Awaiting(o) /\ ~CancelSeen(db[o])
  /\ ChildrenTerminal(o) /\ ~ChildFailed(o)
  /\ ForwardAfter(o, StepOk(o), holder, run[o].step)
  /\ UNCHANGED effects /\ Keep

ChildrenFailed(o) ==
  /\ Awaiting(o)
  /\ ChildrenTerminal(o)
  /\ CancelSeen(db[o]) \/ ChildFailed(o)
  /\ FailForward(o, db[o], holder, CancelSeen(db[o]))
  /\ UNCHANGED effects /\ Keep

-----------------------------------------------------------------------------
(* The stuck-state sweep.  Time is not modelled: any row may be old enough. *)

\* No look at inFlight or at the lock: the row may belong to a live pass.
SweepExhausted(o) ==
  /\ up
  /\ Exhausted(o)
  /\ db' = [db EXCEPT ![o].status = "compensation_failed"]
  /\ UNCHANGED <<effects, holder, run>> /\ Keep

\* requeueForCompensation: tryStart with no regard to the concurrency limit.
SweepRequeue(o) ==
  /\ up
  /\ db[o].status = "compensating" /\ ~Exhausted(o)
  /\ o \notin InFlight
  /\ TryStart(o)

-----------------------------------------------------------------------------
(* Operator requests *)

Request == up /\ requests < MaxRequests /\ requests' = requests + 1

Cancel(o) ==
  /\ Request
  /\ db[o].status \in {"pending", "running"}
  /\ db' = [db EXCEPT ![o] = Requested(@)]
  /\ UNCHANGED <<effects, holder, run, finalizing, up, crashes>>

\* requeueOperation; a retry of a settled forward attempt is another Enqueue.
Requeued(row) ==
  [row EXCEPT !.status = IF @ \in {"compensating", "compensation_failed"}
                           THEN "compensating" ELSE "pending",
              !.cancelReq = FALSE, !.cancelled = FALSE, !.fenced = FALSE,
              !.open = "none"]

Retry(o) ==
  /\ Request
  /\ db[o].status \in {"pending", "running", "compensating", "compensation_failed"}
  /\ ~IsHeld(o)
  /\ db' = [db EXCEPT ![o] = Requeued(@)]
  /\ UNCHANGED <<effects, holder, run, finalizing, up, crashes>>

\* handleFinalizeOperation looks at the row and at the lock, then awaits the
\* body of the request; the engine may start the row meanwhile.
FinalizeCheck(o) ==
  /\ Request
  /\ db[o].status # "absent"
  /\ ~IsHeld(o)
  /\ finalizing' = finalizing \union {o}
  /\ UNCHANGED <<db, effects, holder, run, up, crashes>>

\* The resource assessment may refuse; which status it allows is free.  What
\* error_json said of a cancellation is left: only a live runner's copy of it
\* is ever read again.
Finalized == {"done", "failed"}
FinalizeWrite(o) ==
  /\ up
  /\ o \in finalizing
  /\ finalizing' = finalizing \ {o}
  /\ \/ UNCHANGED db
     \/ \E st \in Finalized :
          db' = [db EXCEPT ![o] = [@ EXCEPT !.status = st, !.cancelReq = FALSE,
                                            !.fenced = FALSE]]
  /\ UNCHANGED <<effects, holder, run, up, crashes, requests>>

\* A handler or a controller serialises with the engine under one key.
EnterSection(k) ==
  /\ Request
  /\ holder[k] = Nobody
  /\ holder' = [holder EXCEPT ![k] = NonOp]
  /\ UNCHANGED <<db, effects, run, finalizing, up, crashes>>

LeaveSection(k) ==
  /\ up
  /\ holder[k] = NonOp
  /\ holder' = [holder EXCEPT ![k] = Nobody]
  /\ UNCHANGED <<db, effects, run>> /\ Keep

-----------------------------------------------------------------------------
(* The controller process *)

Crash ==
  /\ up
  /\ crashes < MaxCrashes
  /\ up' = FALSE
  /\ crashes' = crashes + 1
  /\ holder' = [k \in Key |-> Nobody]
  /\ run' = [o \in Op |-> Idle]
  /\ finalizing' = {}
  /\ UNCHANGED <<db, effects, requests>>

\* Faulty variants of Resumed: a step status nobody reads, and rows left "running".
ResumedAbandoned(row) ==
  IF row.status \in {"running", "compensating"}
  THEN [row EXCEPT !.status = IF @ = "running" THEN "pending" ELSE @, !.open = "abandoned"]
  ELSE row
ResumedRunning(row) == IF row.status = "running" THEN [row EXCEPT !.open = "none"] ELSE row

Resumed(row) ==
  IF row.status \in {"running", "compensating"}
  THEN [row EXCEPT !.status = IF @ = "running" THEN "pending" ELSE @, !.open = "none"]
  ELSE row

Restart ==
  /\ ~up
  /\ up' = TRUE
  /\ db' = [o \in Op |-> Resumed(db[o])]
  /\ UNCHANGED <<effects, holder, run, finalizing, crashes, requests>>

-----------------------------------------------------------------------------
Forward(o) ==
  \/ ProbeAdopts(o) \/ ProbeMisses(o) \/ ProbeRejects(o)
  \/ EffectLands(o) \/ RunReturns(o) \/ RunThrows(o)
  \/ CancelChildren(o) \/ ChildrenSucceeded(o) \/ ChildrenFailed(o)

Backward(o) ==
  \/ FoundGone(o) \/ NotGone(o) \/ EffectUndone(o) \/ UndoReturns(o) \/ UndoThrows(o)

Sweep(o) == SweepExhausted(o) \/ SweepRequeue(o)

Operator(o) == Cancel(o) \/ Retry(o) \/ FinalizeCheck(o) \/ FinalizeWrite(o)

Next ==
  \/ \E o \in Op : Enqueue(o) \/ TickStart(o)
  \/ \E o \in Op : Forward(o) \/ Backward(o)
  \/ \E o \in Op : Sweep(o) \/ Operator(o)
  \/ \E k \in Key : EnterSection(k) \/ LeaveSection(k)
  \/ Crash \/ Restart

Spec == Init /\ [][Next]_vars

(***************************************************************************)
(* The tick runs every 400 ms, every remote call has a transport timeout,  *)
(* a section's finally releases its key, and a supervisor restarts the     *)
(* process.  Users, operators, the sweep and crashes are not fair; a       *)
(* parent's enqueue of its children is a step of its own code.             *)
(***************************************************************************)
Spawn == \E o \in Op : Def[o].parent # NoParent /\ Enqueue(o)

Fairness ==
  /\ WF_vars(\E o \in Op : TickStart(o))
  /\ WF_vars(Spawn)
  /\ \A o \in Op : WF_vars(Forward(o)) /\ WF_vars(Backward(o))
  /\ \A k \in Key : WF_vars(LeaveSection(k))
  /\ WF_vars(Restart)

FairSpec == Spec /\ Fairness

-----------------------------------------------------------------------------
(* Safety *)

\* Two operations that run at the same time never share a resource key.
KeyExclusion ==
  \A o, n \in InFlight : o # n => Def[o].keys \intersect Def[n].keys = {}

\* A lock table entry of an operation stands for a live runner, and a live
\* runner holds all its keys until it settles: no path leaks or drops a lock.
LockTable ==
  /\ \A o \in InFlight : \A k \in Def[o].keys : holder[k] = o
  /\ \A k \in Key : holder[k] \in Op =>
       holder[k] \in InFlight /\ k \in Def[holder[k]].keys

\* The durable status and the in-memory runner of a row agree: a row whose
\* forward steps execute is "running"; one that compensates is "compensating",
\* or was given up by the sweep; either may have been finalized underneath
\* (LiveNotFinalized).  And no "running" row of a live controller is without
\* its runner, which is why the sweep's revival of such rows
\* (stuck-sweep.ts:88-97) has nothing to do.
OneRunner ==
  \A o \in Op :
    /\ run[o].pc \in {"probe", "run"} => db[o].status \in {"running"} \union Finalized
    /\ run[o].pc \in {"probeGone", "undo"} =>
         db[o].status \in {"compensating", "compensation_failed"} \union Finalized
    /\ up /\ db[o].status = "running" => o \in InFlight
    /\ o \in InFlight => up

\* A step that is recorded as completed is never executed again, and only a
\* step that completed and was not undone yet is compensated.
RecordedOnce ==
  \A o \in InFlight :
    /\ run[o].pc \in {"probe", "run"} => run[o].step \notin db[o].fwd
    /\ run[o].pc \in {"probeGone", "undo"} => run[o].step \in db[o].fwd \ db[o].comp

\* "compensated" is the truth: unless a newer operation took the resources
\* over, no side effect of a completed compensable step is left.
RolledBackClean ==
  \A o \in Op : db[o].status = "compensated" /\ ~db[o].fenced =>
    effects[o] \intersect Def[o].undo \intersect db[o].fwd = {}

\* Once an operation began to undo its steps it never goes forward again, over
\* every crash, sweep and retry.
NeverForwardAgain ==
  \A o \in Op : db[o].status \in {"pending", "running"} => db[o].comp = {}

\* However crashes, sweeps, ticks and retries interleave, an operation makes at
\* most MAX_COMPENSATION_ATTEMPTS compensation passes.
PassBound == \A o \in Op : db[o].passes <= MaxCompensationAttempts

-----------------------------------------------------------------------------
(* What a step may never do *)

NoRequest == UNCHANGED <<requests, finalizing>>

\* step-runner.ts:239-242: once a newer operation on the same resources has
\* begun to reconcile, an old rollback, the first, a resumed or a retried one,
\* begins no removal any more; only the one call that was out when the newer
\* operation began, under a key of its own, may still remove something.
RollbackYieldsToNewer ==
  [][\A o, n \in Op :
       Newer(n, o) /\ Overlap(o, n) /\ db[n].attempt > 0 =>
         /\ run'[o].pc \in {"probeGone", "undo"} =>
              run[o].pc \in {"probeGone", "undo"} /\ run'[o].step = run[o].step
         /\ effects[o] \ effects'[o] \subseteq
              IF run[o].pc = "undo" THEN {run[o].step} ELSE {}]_vars

\* A settled operation without a runner stays as it is but for an operator's
\* request: no tick, sweep, crash or late answer brings it back.
SettledStays ==
  [][\A o \in Op :
       db[o].status \in Terminal /\ o \notin InFlight /\ NoRequest
         => db'[o].status = db[o].status]_vars

\* The engine reports "done" only when every side effect of the kind exists.
DoneMeansDone ==
  [][\A o \in Op :
       db[o].status # "done" /\ db'[o].status = "done" /\ NoRequest
         => (1..Def[o].steps) \ Def[o].awaits \subseteq effects'[o]]_vars

\* The tick serves the oldest rows first (db/operations.ts:114-122,
\* engine.ts:63-80): no operation begins its first attempt while an older one
\* that needs no other key still waits, whatever cancels, retries, restarts or
\* rows of unknown kinds came between.
NoOvertaking ==
  [][\A o, n \in Op :
       Newer(n, o) /\ Def[o].keys \subseteq Def[n].keys
         /\ db[n].attempt = 0 /\ db'[n].attempt = 1 => db[o].status # "pending"]_vars

-----------------------------------------------------------------------------
(* Liveness *)

\* Once nobody enqueues or requests anything any more, every row settles for
\* good: no capacity or lock deadlock between parents and children, no row
\* forgotten by a restart or hidden behind others.
EventuallySettles ==
  <>[](\A o \in Op : db[o].status \in Terminal \union {"absent"})

-----------------------------------------------------------------------------
(* What the code's comments say and the code does not do *)

\* "Pending operations have not run a side effect and requestCancel performs a
\* plain queue removal" (server/routes/operations.ts:340-341): a cancelled
\* operation leaves no side effect of a completed compensable step behind.
CancelledClean ==
  \A o \in Op : db[o].status = "cancelled" /\ ~db[o].fenced =>
    effects[o] \intersect Def[o].undo \intersect db[o].fwd = {}
=============================================================================
