------------------------------ MODULE Replicas ------------------------------
(***************************************************************************)
(* The replicas of one stateless app: the rows of the replica table, the   *)
(* containers on the servers and the upstream pool of the ingress.  Four   *)
(* kinds of actor change them: the workload tick, which probes every       *)
(* replica and then converges the rows to the declared placement, the      *)
(* operations move, redeploy and reload, the reconciler that attests the   *)
(* running containers, and the ingress reconciler.                         *)
(*                                                                         *)
(* The lock app:<id> admits one operation or one convergence at a time:    *)
(* job is what its holder does.  A health check takes no lock; it looks    *)
(* whether somebody holds it, once.  A redeploy brings a configuration     *)
(* (image and placement) that it commits once every replica runs it.       *)
(* A reload ends before it starts when its image cannot be pulled, which   *)
(* changes nothing and is left out.  One action is what the controller     *)
(* does between two awaits; a remote call takes effect in the action that  *)
(* follows it, and may fail while faults < MaxFaults.                      *)
(***************************************************************************)
EXTENDS Integers, Sequences, FiniteSets, FiniteSetsExt, SequencesExt

CONSTANTS
  NumServers,  \* servers 1..NumServers, all of them ready
  Placements,  \* the placements a user may declare: replicas per server
  Declared,    \* the placement the app starts with, fully materialized
  Kinds,       \* the operations submitted, "move", "redeploy", "reload", and
               \* "attest" when the runtime reconciler takes part
  MaxAttempts, \* MAX_COMPENSATION_ATTEMPTS
  MaxOps,      \* bound: operations submitted
  MaxFaults,   \* bound: remote calls that fail, probes that find nothing out
  MaxCrashes   \* bound: restarts of the controller

Server == 1..NumServers
Positive == Nat \ {0}

\* placementShapeError: a placement names at least one server.
Placement == {p \in [Server -> Nat] : \E s \in Server : p[s] > 0}

ASSUME ReplicasAssumption ==
  /\ NumServers \in Positive
  /\ Placements \subseteq Placement /\ Declared \in Placements
  /\ Kinds \subseteq {"move", "redeploy", "reload", "attest"}
  /\ MaxAttempts \in Positive \ {1}
  /\ {MaxOps, MaxFaults, MaxCrashes} \subseteq Nat

VARIABLES
  app,        \* the app row: status, placement, image of the last recorded
              \* deployment, ref: image_ref of its configuration, and whether that
              \* configuration is the one of the last recorded deployment
  rows,       \* replica id -> [server, n, port, status, ticks, err]; n numbers the
              \* name, err: its last attestation failed
  nextId,     \* AUTOINCREMENT
  containers, \* <<server, n>> -> [port, image, healthy, healed, left]; history: a
              \* health check recreated it, it was left behind without a row
  pool,       \* the upstreams of the last ingress configuration, <<server, port>>
  op,         \* the operation row: input, the step it is at, what it keeps to undo:
              \* prior, the app's status, and snap, the restore point if there is
              \* one; again: its configuration was committed a second time, so that
              \* its revision is ahead of what the containers were started as
  job,        \* what the holder of app:<id> is doing
  checks,     \* the health checks of this tick, by replica id
  tick,       \* "idle", or "checking" while the health checks run
  opsDone, faults, crashes

durable == <<app, rows, nextId, op>>
bounds  == <<opsDone, faults, crashes>>
vars == <<durable, containers, pool, job, checks, tick, bounds>>

NoOp == [kind |-> "none", step |-> "none", from |-> 0, to |-> 0, image |-> 0,
         placement |-> Declared, prior |-> "running", snap |-> {}, again |-> FALSE,
         attempt |-> 0]
NoSpot == <<0, 0>>
\* pc: what is awaited; adds: how many replicas are still to start on a server; ids:
\* replicas still to remove or roll; late: those outside the placement, removed last;
\* id, spot, port: the replica started last; before: the rows when a convergence
\* began; bad: a reload met a replica that did not come back.
Nothing == [s \in Server |-> 0]
NoJob == [by |-> "none", pc |-> "none", adds |-> Nothing, ids |-> {}, late |-> {},
          id |-> 0, spot |-> NoSpot, port |-> 0, before |-> {}, bad |-> FALSE]

Spot(r) == <<r.server, r.n>>
First == Min(DOMAIN rows)                         \* ORDER BY created_at
On(s) == {i \in DOMAIN rows : rows[i].server = s}
Running(i) == rows[i].status = "running"
Without(f, x) == [y \in DOMAIN f \ {x} |-> f[y]]
With(f, x, v) == [y \in DOMAIN f \union {x} |-> IF y = x THEN v ELSE f[y]]
SetStatus(i, s) == IF i \in DOMAIN rows THEN [rows EXCEPT ![i].status = s] ELSE rows
\* Variant: the error of an earlier attestation is kept when a later one succeeds.
KeepsError(i, ok) ==
  [rows EXCEPT ![i].status = IF ok THEN "running" ELSE "divergent", ![i].err = @ \/ ~ok]
\* recordReplicaAttestation
Attested(i, ok) == [rows EXCEPT ![i].status = IF ok THEN "running" ELSE "divergent", ![i].err = ~ok]
Healthy(spot) == spot \in DOMAIN containers /\ containers[spot].healthy
Faulty == faults < MaxFaults /\ faults' = faults + 1

Named(i, j) == rows[i].n # rows[j].n                \* names differ within the app
Bound(i, j) == rows[i].server = rows[j].server => rows[i].port # rows[j].port
TypeOK ==
  /\ app.status \in {"running", "unhealthy", "deploying"}
  /\ app.placement \in Placement
  /\ {app.image, app.ref} \subseteq 0..MaxOps /\ app.current \in BOOLEAN
  /\ op.snap \subseteq [image : 0..MaxOps, n : Positive, port : Positive]
  /\ Cardinality(op.snap) <= 1 /\ op.attempt \in 0..MaxAttempts /\ op.again \in BOOLEAN
  /\ nextId \in Positive /\ DOMAIN rows \subseteq 1..(nextId - 1)
  /\ \A i \in DOMAIN rows :
       /\ rows[i] \in [server : Server, n : Positive, port : Positive, ticks : 0..2, err : BOOLEAN,
                       status : {"running", "unhealthy", "attesting", "draining", "divergent"}]
       /\ \A j \in DOMAIN rows \ {i} : Named(i, j) /\ Bound(i, j)
  /\ DOMAIN containers \subseteq Server \X Positive
  /\ \A c \in DOMAIN containers :
       containers[c] \in [port : Positive, image : 0..MaxOps, healthy : BOOLEAN,
                          healed : BOOLEAN, left : BOOLEAN]
  /\ pool \subseteq Server \X Positive
  /\ job.by \in {"none", "converge", "attest", op.kind}
  /\ tick = "idle" => checks = <<>>
  /\ \A i \in DOMAIN checks :
       checks[i].pc \in {"probing", "probed", "restarting", "recreating", "over"}

-----------------------------------------------------------------------------
(* Ingress: the upstreams are those rows the database says can serve.       *)

Upstreams(rs) == {<<rs[i].server, rs[i].port>> :
                    i \in {k \in DOMAIN rs : rs[k].status \in {"running", "unhealthy"}}}

\* The reconciler of the ingress writes the same rendering whenever it differs.
ReconcileTraefik ==
  /\ pool # Upstreams(rows)
  /\ pool' = Upstreams(rows)
  /\ UNCHANGED <<durable, containers, job, checks, tick, bounds>>

\* syncAppIngress: the write arrives, or the caller is told that it did not.
Synced == pool' = Upstreams(rows') /\ UNCHANGED faults
Unsynced == UNCHANGED pool /\ Faulty
Sync == Synced \/ Unsynced                       \* a caller that only logs

-----------------------------------------------------------------------------
(* What a container is started as.                                          *)

\* startAppReplica: a running container of the exact revision is adopted, any
\* other of that name is removed first.  Another container on the port, one the
\* rows do not know, makes docker run fail after the removal.
PortHeld(spot, port) == \E c \in DOMAIN containers \ {spot} :
  c[1] = spot[1] /\ containers[c].port = port
Fresh(port, image) ==
  [port |-> port, image |-> image, healthy |-> TRUE, healed |-> FALSE, left |-> FALSE]
Adopts(spot, port, image) == spot \in DOMAIN containers
  /\ containers[spot].port = port /\ containers[spot].image = image
Starts(spot, port, image) ==
  /\ ~PortHeld(spot, port)
  /\ containers' = IF Adopts(spot, port, image) THEN containers
                   ELSE With(containers, spot, Fresh(port, image))
  /\ UNCHANGED faults
StartsIll(spot, port, image) ==                  \* up, but never answers its probe
  /\ ~PortHeld(spot, port) /\ ~Adopts(spot, port, image) /\ Faulty
  /\ containers' = With(containers, spot, [Fresh(port, image) EXCEPT !.healthy = FALSE])
Heals(spot, port, image) ==                      \* the same, by a health check
  /\ ~PortHeld(spot, port) /\ UNCHANGED faults
  /\ containers' = IF Adopts(spot, port, image) THEN containers
                   ELSE With(containers, spot, [Fresh(port, image) EXCEPT !.healed = TRUE])
StartFails(spot, port, image) ==
  \/ Faulty /\ UNCHANGED containers                            \* before the removal
  \/ Faulty /\ containers' = Without(containers, spot)         \* after it
     /\ ~Adopts(spot, port, image)
  \/ PortHeld(spot, port) /\ containers' = Without(containers, spot) /\ UNCHANGED faults

\* History: a container that no row names is left behind.
Orphaned(spot) ==
  IF spot \in DOMAIN containers /\ \A i \in DOMAIN rows : Spot(rows[i]) # spot
  THEN [containers EXCEPT ![spot].left = TRUE] ELSE containers

\* docker rm -f: whoever asks for it goes on as if it had been done, because the
\* exit code of the ssh call is not looked at or has no consequence.
Removed(spot) ==
  \/ containers' = Without(containers, spot) /\ UNCHANGED faults
  \/ /\ spot \in DOMAIN containers /\ Faulty
     /\ containers' = [containers EXCEPT ![spot].left = TRUE]

-----------------------------------------------------------------------------
(* The workload tick: probes, propagation, convergence.                     *)

TickBegin ==
  /\ tick = "idle" /\ job.by # "converge" /\ tick' = "checking"
  /\ checks' = [i \in DOMAIN rows |->
       [pc |-> "probing", spot |-> Spot(rows[i]), port |-> rows[i].port, healthy |-> FALSE]]
  /\ UNCHANGED <<durable, containers, pool, job, bounds>>

Over(i) == checks' = [checks EXCEPT ![i].pc = "over"]

\* One probe; when ssh does not answer it proves nothing and the check ends.
Probe(i) ==
  /\ checks[i].pc = "probing"
  /\ \/ /\ checks' = [checks EXCEPT ![i].pc = "probed", ![i].healthy = Healthy(checks[i].spot)]
        /\ UNCHANGED faults
     \/ Over(i) /\ Faulty
  /\ UNCHANGED <<durable, containers, pool, job, tick, opsDone, crashes>>

\* The row is read again and the lock looked at after the probe: the only time
\* either is.  Two bad ticks of a live app begin a restart.
Decide(i) ==
  /\ checks[i].pc = "probed"
  /\ IF i \notin DOMAIN rows \/ job.by # "none" THEN Over(i) /\ UNCHANGED rows
     ELSE LET ticks == IF rows[i].ticks = 2 THEN 2 ELSE rows[i].ticks + 1
          IN \/ /\ checks[i].healthy /\ Over(i)
                /\ rows' = [rows EXCEPT ![i].ticks = 0, ![i].status =
                     IF rows[i].err THEN rows[i].status ELSE "running"]
             \/ /\ ~checks[i].healthy
                /\ rows' = [rows EXCEPT ![i].ticks = ticks, ![i].status = "unhealthy"]
                /\ IF ticks = 2 /\ app.status \in {"running", "unhealthy"}
                   THEN checks' = [checks EXCEPT ![i].pc = "restarting"]
                   ELSE Over(i)
  /\ UNCHANGED <<app, nextId, op, containers, pool, job, tick, bounds>>

\* A drain lasts ten seconds and a probe at most five (curl --max-time 5), so a
\* probe answered before a drain has been acted on when it ends.
Drained == \A i \in DOMAIN checks : checks[i].pc # "probed"

ResetTicks(i) == rows' = IF i \in DOMAIN rows THEN [rows EXCEPT ![i].ticks = 0] ELSE rows

\* docker restart, by name, whoever holds the lock by now.
Restart(i) ==
  /\ checks[i].pc = "restarting"
  /\ LET spot == checks[i].spot IN
     \/ /\ spot \in DOMAIN containers /\ ResetTicks(i) /\ Over(i) /\ UNCHANGED faults
        /\ containers' = [containers EXCEPT ![spot].healthy = TRUE]
     \/ /\ IF spot \in DOMAIN containers THEN Faulty ELSE UNCHANGED faults
        /\ checks' = [checks EXCEPT ![i].pc = "recreating"]
        /\ UNCHANGED <<rows, containers>>
  /\ UNCHANGED <<app, nextId, op, pool, job, tick, opsDone, crashes>>

\* recreateReplica: from the deployed image, on the name and port read by the
\* tick; a failure is logged.
Recreate(i) ==
  /\ checks[i].pc = "recreating" /\ Over(i)
  /\ \/ Heals(checks[i].spot, checks[i].port, app.image) /\ ResetTicks(i)
     \/ StartFails(checks[i].spot, checks[i].port, app.image) /\ UNCHANGED rows
  /\ UNCHANGED <<app, nextId, op, pool, job, tick, opsDone, crashes>>

\* removalOrder: those that do not run first, then the newest.
Sooner(i, j) == \/ ~Running(i) /\ Running(j)
                \/ (Running(i) <=> Running(j)) /\ i > j
\* planConvergence: as many as are too many on a server, in that order.
TooMany(i) ==
  LET s == rows[i].server
  IN app.placement[s] > 0
     /\ Cardinality({j \in On(s) : Sooner(j, i)}) + app.placement[s] < Cardinality(On(s))
Surplus == {i \in DOMAIN rows : TooMany(i)}
Missing == [s \in Server |-> IF app.placement[s] > Cardinality(On(s))
                             THEN app.placement[s] - Cardinality(On(s)) ELSE 0]
\* Variant: a replica that serves is kept wherever it is.
KeepsServing == {i \in DOMAIN rows : app.placement[rows[i].server] = 0 /\ ~Running(i)}
Unplaced == {i \in DOMAIN rows : app.placement[rows[i].server] = 0}

\* The next of job.ids: server by server in a convergence, the oldest otherwise.
Before(i, j) ==
  IF job.by # "converge" THEN i < j
  ELSE IF rows[i].server # rows[j].server THEN rows[i].server < rows[j].server
  ELSE IF app.placement[rows[i].server] > 0 THEN Sooner(i, j) ELSE i < j
NextOne == CHOOSE i \in job.ids : \A j \in job.ids \ {i} : Before(i, j)

PlacementSatisfied == \A s \in Server :
  Cardinality({i \in On(s) : Running(i)}) >= app.placement[s]

\* Every check is over: the app's status follows its replicas, then the plan is
\* made and the lock tried, all of it in one turn.
AllHealthy == LET live == DOMAIN checks \intersect DOMAIN rows
              IN live # {} /\ (\A i \in live : Running(i)) /\ PlacementSatisfied
Converging == [NoJob EXCEPT !.by = "converge", !.before = DOMAIN rows,
  !.adds = Missing, !.ids = Surplus, !.late = Unplaced,
  !.pc = IF Missing # Nothing THEN "start" ELSE "drain"]
Gap == Missing # Nothing \/ Surplus # {} \/ Unplaced # {}

Propagate ==
  /\ tick = "checking" /\ \A i \in DOMAIN checks : checks[i].pc = "over"
  /\ tick' = "idle" /\ checks' = <<>>
  /\ app' = IF app.status = "deploying" THEN app
            ELSE [app EXCEPT !.status = IF AllHealthy THEN "running" ELSE "unhealthy"]
  /\ job' = IF app.status # "deploying" /\ job.by = "none" /\ Gap THEN Converging ELSE job
  /\ UNCHANGED <<rows, nextId, op, containers, pool, bounds>>

-----------------------------------------------------------------------------
(* How a job ends.                                                          *)

Release == job' = NoJob
\* The operation row settles; only a redeploy that began to replace anything has
\* something to compensate.
Settle == Release /\ op' = NoOp
Fail == CASE job.by = "converge" -> Release /\ UNCHANGED op
          [] job.by = "redeploy" -> /\ job' = [NoJob EXCEPT !.by = "redeploy", !.pc = "undo"]
                                    /\ op' = [op EXCEPT !.step = "undo"]
          [] OTHER               -> Settle

-----------------------------------------------------------------------------
(* addReplicas, by a convergence or a move.                                 *)

\* Variant: one more than there are.
CountPlusOne == Cardinality(DOMAIN rows) + 1
NextNumber == LET used == {rows[i].n : i \in DOMAIN rows}
  IN Min({n \in (Cardinality(DOMAIN rows) + 1)..(2 * Cardinality(DOMAIN rows) + 1) : n \notin used})
\* The app's first port if the server has it free, else the next one there.
NextPort(s) ==
  LET taken == {rows[i].port : i \in On(s)}
      first == rows[First].port
  IN IF DOMAIN rows # {} /\ first \notin taken THEN first
     ELSE IF taken = {} THEN 1 ELSE Max(taken) + 1

StartReplica ==
  /\ job.pc = "start"
  /\ LET s == Min({t \in Server : job.adds[t] > 0})  spot == <<s, NextNumber>>  port == NextPort(s) IN
     \/ /\ Starts(spot, port, app.image) \/ StartsIll(spot, port, app.image)
        /\ job' = [job EXCEPT !.pc = "insert", !.spot = spot, !.port = port]
     \/ /\ StartFails(spot, port, app.image)
        /\ job' = [job EXCEPT !.pc = "cleanup", !.spot = spot, !.id = 0]
  /\ UNCHANGED <<durable, pool, checks, tick, opsDone, crashes>>

\* The row appears only after the probe.
InsertReplica ==
  /\ job.pc = "insert"
  /\ rows' = With(rows, nextId, [server |-> job.spot[1], n |-> job.spot[2], port |-> job.port,
       ticks |-> 0, err |-> FALSE, status |-> IF Healthy(job.spot) THEN "attesting" ELSE "unhealthy"])
  /\ nextId' = nextId + 1
  /\ job' = [job EXCEPT !.id = nextId, !.pc = IF Healthy(job.spot) THEN "attest" ELSE "cleanup"]
  /\ UNCHANGED <<app, op, containers, pool, checks, tick, bounds>>

Exact(spot, image) == spot \in DOMAIN containers /\ containers[spot].image = image

AttestReplica ==
  /\ job.pc = "attest"
  /\ \/ /\ Exact(job.spot, app.image) /\ UNCHANGED faults
        /\ rows' = Attested(job.id, TRUE) /\ job' = [job EXCEPT !.pc = "admit"]
     \/ /\ IF Exact(job.spot, app.image) THEN Faulty ELSE UNCHANGED faults
        /\ rows' = Attested(job.id, FALSE) /\ job' = [job EXCEPT !.pc = "cleanup"]
  /\ UNCHANGED <<app, nextId, op, containers, pool, checks, tick, opsDone, crashes>>

\* What follows the last replica to add: a convergence has its plan, a move
\* reads what is on the source now.
Removing(j) == [j EXCEPT !.pc = "drain", !.adds = Nothing,
  !.ids = IF j.by = "move" THEN On(op.from) ELSE @]
StillToStart == [job.adds EXCEPT ![job.spot[1]] = @ - 1]

AdmitReplica ==
  /\ job.pc = "admit" /\ UNCHANGED rows
  /\ \/ /\ Synced
        /\ job' = IF StillToStart # Nothing
                  THEN [job EXCEPT !.pc = "start", !.adds = StillToStart] ELSE Removing(job)
     \/ Unsynced /\ job' = [job EXCEPT !.pc = "cleanup"]
  /\ UNCHANGED <<app, nextId, op, containers, checks, tick, opsDone, crashes>>

\* The catch block: the row goes even if the container does not.
CleanUp ==
  /\ job.pc = "cleanup" /\ Removed(job.spot)
  /\ rows' = Without(rows, job.id) /\ pool' = Upstreams(rows')
  /\ IF job.by = "converge" THEN job' = [job EXCEPT !.pc = "rollback"] /\ UNCHANGED op ELSE Fail
  /\ UNCHANGED <<app, nextId, checks, tick, opsDone, crashes>>

\* rollbackScaleUp: every row that was not there when the convergence began.
RollbackScaleUp ==
  /\ job.pc = "rollback"
  /\ LET added == DOMAIN rows \ job.before IN
     \/ /\ added = {} /\ Release /\ pool' = Upstreams(rows)
        /\ UNCHANGED <<rows, containers, faults>>
     \/ /\ added # {} /\ UNCHANGED <<job, pool>>
        /\ LET i == Min(added) IN
           rows' = Without(rows, i) /\ Removed(Spot(rows[i]))
  /\ UNCHANGED <<app, nextId, op, checks, tick, opsDone, crashes>>

-----------------------------------------------------------------------------
(* removeReplicas: out of the pool, ten seconds, gone, or believed to be.   *)

DrainReplica ==
  /\ job.pc = "drain" /\ job.ids # {}
  /\ rows' = SetStatus(NextOne, "draining") /\ Sync
  /\ job' = [job EXCEPT !.pc = "remove"]
  /\ UNCHANGED <<app, nextId, op, containers, checks, tick, opsDone, crashes>>

RemoveReplica ==
  /\ job.pc = "remove" /\ Drained
  /\ Removed(Spot(rows[NextOne])) /\ rows' = Without(rows, NextOne)
  /\ job' = [job EXCEPT !.pc = "drain", !.ids = @ \ {NextOne}]
  /\ UNCHANGED <<app, nextId, op, pool, checks, tick, opsDone, crashes>>

\* The plan's last part needs the placement to run; a move now declares its own.
Moved == [app.placement EXCEPT ![op.from] = 0, ![op.to] = @ + app.placement[op.from]]
RemovalOver ==
  /\ job.pc = "drain" /\ job.ids = {} /\ UNCHANGED rows
  /\ \/ /\ job.by = "move" /\ app' = [app EXCEPT !.placement = Moved, !.current = FALSE]
        /\ op' = [op EXCEPT !.step = "confirm"] /\ job' = [job EXCEPT !.pc = "confirm"]
     \/ /\ job.by = "converge" /\ job.late # {} /\ PlacementSatisfied
        /\ job' = [job EXCEPT !.ids = job.late, !.late = {}] /\ UNCHANGED <<app, op>>
     \/ /\ job.by = "converge" /\ (job.late = {} \/ ~PlacementSatisfied)
        /\ Release /\ UNCHANGED <<app, op>>
  /\ Sync
  /\ UNCHANGED <<nextId, containers, checks, tick, opsDone, crashes>>

\* verify_replicas_healthy, then the last sync: done or failed, nothing is undone.
ConfirmMove ==
  /\ job.pc = "confirm" /\ UNCHANGED rows /\ Settle /\ Sync
  /\ UNCHANGED <<app, nextId, containers, checks, tick, opsDone, crashes>>

-----------------------------------------------------------------------------
(* Replacing replicas in place: the primary of a redeploy, its rolling      *)
(* update over all replicas, the reload of the environment.                 *)

Redundant == Cardinality(DOMAIN rows) > 1
Primary == op.step = "primary"
Reload == job.by = "reload"
Expected == IF Reload THEN app.image ELSE op.image

\* What a step of the operation begins with, also after a restart.
StepJob(step) ==
  LET j == [NoJob EXCEPT !.by = op.kind] IN
  CASE step = "move" -> LET lacking == Moved[op.to] - Cardinality(On(op.to)) IN
         IF lacking > 0 THEN [j EXCEPT !.pc = "start", !.adds[op.to] = lacking]
                        ELSE Removing(j)
    [] step = "primary" -> [j EXCEPT !.pc = "out", !.ids = {First}]
    [] step = "roll"    -> [j EXCEPT !.pc = "out", !.ids = IF Redundant THEN DOMAIN rows ELSE {}]
    [] step = "reload"  -> [j EXCEPT !.pc = "out", !.ids = DOMAIN rows]
    [] step = "verify"  -> [j EXCEPT !.pc = "verify", !.ids = DOMAIN rows]
    [] OTHER            -> [j EXCEPT !.pc = step]   \* "prepare", "commit", "sync", "undo"...
GoTo(step) == op' = [op EXCEPT !.step = step] /\ job' = StepJob(step)

\* The image on every host, the restore point, disk space; then the app is
\* deploying.  The restore point names image_ref, not what the container runs;
\* without a container there is none.
RestorePoint ==
  LET r == rows[First] IN IF Spot(r) \in DOMAIN containers
                          THEN {[image |-> app.ref, n |-> r.n, port |-> r.port]} ELSE {}
Prepared(step) == op' = [op EXCEPT !.step = step, !.prior = app.status, !.snap = RestorePoint]
                  /\ job' = StepJob(step)
PrepareRedeploy ==
  /\ job.pc = "prepare"
  /\ \/ /\ DOMAIN rows # {} /\ UNCHANGED faults
        /\ Prepared("primary") /\ app' = [app EXCEPT !.status = "deploying"]
     \/ DOMAIN rows # {} /\ Faulty /\ Prepared("undo") /\ UNCHANGED app      \* no disk space
     \/ /\ IF DOMAIN rows # {} THEN Faulty ELSE UNCHANGED faults
        /\ Settle /\ UNCHANGED app
  /\ UNCHANGED <<rows, nextId, containers, pool, checks, tick, opsDone, crashes>>

\* Variant: another row is enough.
AnySibling(i) == DOMAIN rows \ {i} # {}
ServingSibling(i) == \E k \in DOMAIN rows \ {i} : Running(k)

\* Out of the pool, unless it is the only one.  Only the primary asks whether
\* another replica runs; only a reload goes on when the pool was not written.
TakeOut ==
  /\ job.pc = "out" /\ job.ids # {}
  /\ LET i == NextOne
         out == [job EXCEPT !.pc = "swap"]
     IN \/ /\ ~Redundant /\ job' = out /\ UNCHANGED <<rows, op, pool, faults>>
        \/ /\ Redundant /\ Primary /\ ~ServingSibling(i) /\ Fail
           /\ UNCHANGED <<rows, pool, faults>>
        \/ /\ Redundant /\ (Primary => ServingSibling(i))
           /\ rows' = SetStatus(i, "draining")
           /\ \/ Synced /\ job' = out /\ UNCHANGED op
              \/ Unsynced /\ IF Reload THEN job' = out /\ UNCHANGED op ELSE Fail
  /\ UNCHANGED <<app, nextId, containers, checks, tick, opsDone, crashes>>

Swap ==
  /\ job.pc = "swap" /\ (Redundant => Drained)
  /\ LET r == rows[NextOne]  alone == Primary /\ ~Redundant IN
     \/ /\ Starts(Spot(r), r.port, Expected) \/ StartsIll(Spot(r), r.port, Expected)
        /\ job' = IF alone THEN [job EXCEPT !.pc = "out", !.ids = {}] ELSE [job EXCEPT !.pc = "ready"]
        /\ UNCHANGED op
     \/ StartFails(Spot(r), r.port, Expected) /\ Fail
  /\ UNCHANGED <<app, rows, nextId, pool, checks, tick, opsDone, crashes>>

NextReplica == job' = [job EXCEPT !.pc = "out", !.ids = @ \ {NextOne}] /\ UNCHANGED op
NotReady == IF Reload THEN /\ job' = [job EXCEPT !.pc = "out", !.ids = @ \ {NextOne}, !.bad = TRUE]
                           /\ UNCHANGED op
            ELSE Fail

\* Probe, then attestation, which decides the status of the row.  A reload that
\* meets a bad replica remembers it and goes on to the next one.
VerifyReady ==
  /\ job.pc = "ready"
  /\ LET i == NextOne  spot == Spot(rows[i]) IN
     \/ /\ Healthy(spot) /\ Exact(spot, Expected) /\ UNCHANGED <<op, faults>>
        /\ rows' = Attested(i, TRUE) /\ job' = [job EXCEPT !.pc = "in"]
     \/ /\ Healthy(spot) /\ IF Exact(spot, Expected) THEN Faulty ELSE UNCHANGED faults
        /\ rows' = Attested(i, FALSE) /\ NotReady
     \/ /\ ~Healthy(spot) /\ UNCHANGED faults /\ NotReady
        /\ rows' = IF Primary THEN rows ELSE SetStatus(i, "unhealthy")
  /\ UNCHANGED <<app, nextId, containers, pool, checks, tick, opsDone, crashes>>

Readmit ==
  /\ job.pc = "in" /\ UNCHANGED rows
  /\ \/ Synced /\ NextReplica
     \/ Unsynced /\ IF Reload THEN NextReplica ELSE Fail
  /\ UNCHANGED <<app, nextId, containers, checks, tick, opsDone, crashes>>

\* The candidate answers on the primary before any other replica is touched.
ValidateCandidate ==
  /\ job.pc = "out" /\ job.ids = {} /\ Primary
  /\ IF Healthy(Spot(rows[First])) THEN GoTo("roll") ELSE Fail
  /\ UNCHANGED <<app, rows, nextId, containers, pool, checks, tick, bounds>>

RollOver ==
  /\ job.pc = "out" /\ job.ids = {}
  /\ \/ op.step = "roll" /\ GoTo("commit") /\ UNCHANGED app
     \/ /\ Reload /\ Settle
        /\ app' = [app EXCEPT !.status = IF job.bad THEN "unhealthy" ELSE "running"]
  /\ UNCHANGED <<rows, nextId, containers, pool, checks, tick, bounds>>

-----------------------------------------------------------------------------
(* The rest of a redeploy.                                                  *)

\* applyAppConfig raises the revision every time it is called: the second time when
\* the controller dies before the step is recorded.
CommitConfig ==
  /\ job.pc = "commit" /\ job' = [job EXCEPT !.pc = "record"]
  /\ app' = [app EXCEPT !.placement = op.placement, !.ref = op.image, !.current = FALSE]
  /\ op' = [op EXCEPT !.again = (app.ref = op.image)]
  /\ UNCHANGED <<rows, nextId, containers, pool, checks, tick, bounds>>

RecordCommit ==
  /\ job.pc = "record" /\ GoTo("sync")
  /\ UNCHANGED <<app, rows, nextId, containers, pool, checks, tick, bounds>>

SyncIngress ==
  /\ job.pc = "sync" /\ UNCHANGED rows
  /\ \/ Synced /\ GoTo("verify")
     \/ Unsynced /\ Fail
  /\ UNCHANGED <<app, nextId, containers, checks, tick, opsDone, crashes>>

\* health_check: every replica again, attesting while it is inspected, which a
\* rendering made meanwhile leaves out.
VerifyReplica ==
  /\ job.pc = "verify" /\ job.ids # {}
  /\ LET i == NextOne IN
     \/ /\ Healthy(Spot(rows[i])) /\ rows' = SetStatus(i, "attesting")
        /\ job' = [job EXCEPT !.pc = "inspect"] /\ UNCHANGED op
     \/ /\ ~Healthy(Spot(rows[i])) /\ rows' = SetStatus(i, "unhealthy") /\ Fail
  /\ UNCHANGED <<app, nextId, containers, pool, checks, tick, bounds>>

InspectReplica ==
  /\ job.pc = "inspect"
  /\ LET i == NextOne  exact == Exact(Spot(rows[i]), op.image) /\ ~op.again IN
     \/ /\ exact /\ rows' = Attested(i, TRUE) /\ UNCHANGED <<op, faults>>
        /\ job' = [job EXCEPT !.pc = "verify", !.ids = @ \ {NextOne}]
     \/ /\ rows' = Attested(i, FALSE) /\ Fail
        /\ IF exact THEN Faulty ELSE UNCHANGED faults
  /\ UNCHANGED <<app, nextId, containers, pool, checks, tick, opsDone, crashes>>

RecordDeployment ==
  /\ job.pc = "verify" /\ job.ids = {} /\ Settle
  /\ app' = [app EXCEPT !.status = "running", !.image = op.image, !.current = TRUE]
  /\ UNCHANGED <<rows, nextId, containers, pool, checks, tick, bounds>>

\* A pass over the compensations that fails leaves the row compensating and its key
\* free: the sweep lets it begin again, until its attempts are used up.
Incomplete == Release /\ op' = IF op.attempt = MaxAttempts THEN NoOp ELSE op

\* The compensations, newest first: the app's status, then the container of the
\* restore point, by its own name on the server of the first replica there is by
\* now: another one when a convergence came between two passes.  The other replicas
\* stay as they are.
RestorePrimary ==
  /\ job.pc = "undo"
  /\ LET back == [app EXCEPT !.status = IF @ = "deploying" THEN op.prior ELSE @] IN
     \/ /\ op.snap = {} \/ DOMAIN rows = {}
        /\ app' = back /\ Settle /\ UNCHANGED <<containers, faults>>
     \/ /\ DOMAIN rows # {} /\ app' = back
        /\ \E snap \in op.snap : LET spot == <<rows[First].server, snap.n>> IN
             \/ /\ Starts(spot, snap.port, snap.image) \/ StartsIll(spot, snap.port, snap.image)
                /\ job' = [job EXCEPT !.pc = "restored", !.spot = spot] /\ UNCHANGED op
             \/ StartFails(spot, snap.port, snap.image) /\ Incomplete
  /\ UNCHANGED <<rows, nextId, pool, checks, tick, opsDone, crashes>>

\* One that does not answer fails the pass, and so does the write of the pool; one
\* of which nothing is known counts as unhealthy, and the pass as done.
ProbeRestored ==
  /\ job.pc = "restored"
  /\ \E up \in BOOLEAN : LET s == IF up THEN "running" ELSE "unhealthy" IN
       /\ rows' = SetStatus(First, s) /\ app' = [app EXCEPT !.status = s]
       /\ \/ up = Healthy(job.spot) /\ Synced /\ IF up THEN Settle ELSE Incomplete
          \/ up = Healthy(job.spot) /\ Unsynced /\ Incomplete
          \/ ~up /\ Faulty /\ pool' = Upstreams(rows') /\ Settle
  /\ containers' = Orphaned(job.spot)
  /\ UNCHANGED <<nextId, checks, tick, opsDone, crashes>>

-----------------------------------------------------------------------------
(* The runtime reconciler: attests what runs, and submits a reload for a    *)
(* replica that diverges twice.  It skips an app whose configuration is not *)
(* the deployed one, which a move leaves behind as well as a redeploy that  *)
(* failed after its commit: the placement is part of the configuration.     *)

\* A pass over replicas that all are as they should be changes nothing, unless an
\* inspection fails; that its lock keeps others out for a moment is left out.
Sound(i) == Running(i) /\ ~rows[i].err /\ Exact(Spot(rows[i]), app.image)
ReconcileAppRuntime ==
  /\ "attest" \in Kinds /\ job = NoJob
  /\ app.status \in {"running", "unhealthy"} /\ app.current
  /\ \/ /\ \E i \in DOMAIN rows : ~Sound(i)
        /\ job' = [NoJob EXCEPT !.by = "attest", !.pc = "audit", !.ids = DOMAIN rows]
        /\ UNCHANGED <<rows, faults>>
     \/ /\ \A i \in DOMAIN rows : Sound(i)
        /\ \E i \in DOMAIN rows : rows' = Attested(i, FALSE)
        /\ Faulty /\ UNCHANGED job
  /\ UNCHANGED <<app, nextId, op, containers, pool, checks, tick, opsDone, crashes>>

AuditReplica ==
  /\ job.pc = "audit" /\ job.ids # {}
  /\ LET i == NextOne  exact == Exact(Spot(rows[i]), app.image) IN
     \/ /\ exact /\ rows' = Attested(i, TRUE) /\ UNCHANGED faults
        /\ job' = [job EXCEPT !.ids = @ \ {NextOne}]
     \/ /\ IF exact THEN Faulty ELSE UNCHANGED faults
        /\ rows' = Attested(i, FALSE)
        /\ job' = [job EXCEPT !.ids = @ \ {NextOne}, !.bad = @ \/ rows[i].status = "divergent"]
  /\ UNCHANGED <<app, nextId, op, containers, pool, checks, tick, opsDone, crashes>>

AuditOver ==
  /\ job.pc = "audit" /\ job.ids = {} /\ Release
  /\ op' = IF job.bad /\ op = NoOp THEN [NoOp EXCEPT !.kind = "reload", !.step = "reload"] ELSE op
  /\ UNCHANGED <<app, rows, nextId, containers, pool, checks, tick, bounds>>

-----------------------------------------------------------------------------
(* Operations come, begin and resume.                                       *)

Submit ==
  /\ op = NoOp /\ opsDone < MaxOps /\ opsDone' = opsDone + 1
  /\ \/ /\ "move" \in Kinds
        /\ \E a \in Server, b \in Server :
             /\ app.placement[a] > 0 /\ a # b
             /\ op' = [NoOp EXCEPT !.kind = "move", !.step = "move", !.from = a, !.to = b]
     \/ /\ "redeploy" \in Kinds
        /\ \E declared \in Placements : op' = [NoOp EXCEPT !.kind = "redeploy",
             !.step = "prepare", !.image = opsDone', !.placement = declared]
     \/ /\ "reload" \in Kinds /\ DOMAIN rows # {}
        /\ op' = [NoOp EXCEPT !.kind = "reload", !.step = "reload"]
  /\ UNCHANGED <<app, rows, nextId, containers, pool, job, checks, tick, faults, crashes>>

\* The scheduler gives the operation its lock, or ends it when a crash has used up
\* the last attempt at its compensations.
Exhausted == op.step = "undo" /\ op.attempt = MaxAttempts
Begin ==
  /\ op # NoOp /\ job = NoJob
  /\ IF Exhausted THEN op' = NoOp /\ UNCHANGED job
     ELSE /\ op' = [op EXCEPT !.attempt = IF @ < MaxAttempts THEN @ + 1 ELSE @]
          /\ job' = StepJob(op.step)
  /\ UNCHANGED <<app, rows, nextId, containers, pool, checks, tick, bounds>>

\* The controller dies and comes back: locks, checks and calls in flight are
\* gone, the step that was running begins again.  A replica that was started and
\* has no row yet is left behind.
Crash ==
  /\ crashes < MaxCrashes /\ crashes' = crashes + 1
  /\ job # NoJob \/ tick = "checking"
  /\ job' = NoJob /\ checks' = <<>> /\ tick' = "idle"
  /\ containers' = Orphaned(job.spot)
  /\ UNCHANGED <<durable, pool, opsDone, faults>>

-----------------------------------------------------------------------------
\* The first rows: the declared number on every server, with ports 1, 2, ...
FirstRows ==
  SetToSeq({x \in Server \X (1..Max({Declared[s] : s \in Server})) : x[2] <= Declared[x[1]]})
Init ==
  /\ app = [status |-> "running", placement |-> Declared, image |-> 0, ref |-> 0, current |-> TRUE]
  /\ rows = [i \in DOMAIN FirstRows |-> [server |-> FirstRows[i][1], n |-> i,
       port |-> FirstRows[i][2], status |-> "running", ticks |-> 0, err |-> FALSE]]
  /\ nextId = Len(FirstRows) + 1
  /\ containers = [c \in {Spot(rows[i]) : i \in DOMAIN rows} |->
       Fresh(rows[CHOOSE i \in DOMAIN rows : Spot(rows[i]) = c].port, 0)]
  /\ pool = Upstreams(rows)
  /\ op = NoOp /\ job = NoJob /\ checks = <<>> /\ tick = "idle"
  /\ opsDone = 0 /\ faults = 0 /\ crashes = 0

CheckStep == \E i \in DOMAIN checks : Probe(i) \/ Decide(i) \/ Restart(i) \/ Recreate(i)
TickStep == TickBegin \/ CheckStep \/ Propagate
AddStep == StartReplica \/ InsertReplica \/ AttestReplica \/ AdmitReplica \/ CleanUp \/ RollbackScaleUp
RemoveStep == DrainReplica \/ RemoveReplica \/ RemovalOver \/ ConfirmMove
RollStep == TakeOut \/ Swap \/ VerifyReady \/ Readmit \/ RollOver
DeployStep == PrepareRedeploy \/ ValidateCandidate \/ CommitConfig \/ RecordCommit
              \/ SyncIngress \/ VerifyReplica \/ InspectReplica \/ RecordDeployment
              \/ RestorePrimary \/ ProbeRestored
AuditStep == AuditReplica \/ AuditOver
JobStep == AddStep \/ RemoveStep \/ RollStep \/ DeployStep \/ AuditStep
Next == TickStep \/ JobStep \/ ReconcileAppRuntime \/ ReconcileTraefik \/ Submit \/ Begin \/ Crash

Spec == Init /\ [][Next]_vars
FairSpec == Spec /\ WF_vars(TickStep) /\ SF_vars(JobStep) /\ SF_vars(Begin)
                 /\ SF_vars(ReconcileAppRuntime) /\ WF_vars(ReconcileTraefik)

-----------------------------------------------------------------------------
(* Properties.                                                              *)

\* Step s takes replica i, which runs, out of service to remove or replace it.
TakenOut(i) == Running(i) /\ i \in DOMAIN rows' /\ rows'[i].status = "draining"

\* A replica that runs is taken out only while another one runs: convergence keeps
\* those that run on a server over those that do not, and waits for the placement
\* before it removes what lies outside it; a move starts on the target first, if it
\* starts any; the primary of a redeploy needs a sibling, and the roll goes on only
\* after a replica is back, unless a crash interrupted it.
Rolling == \/ job.by = "converge"
           \/ job.by = "move" /\ job.id # 0
           \/ job.by = "redeploy" /\ (Primary \/ op.attempt = 1)
DrainKeepsSibling == [][Rolling =>
  \A i \in DOMAIN rows : TakenOut(i) => \E k \in DOMAIN rows \ {i} : Running(k)]_vars

\* Once operations and failures end, every server comes to run what the app
\* declares for it and the ingress routes to all of it.  Nothing else runs, except
\* what a removal left behind unnoticed, what a crash or a restore left without a row
\* and what a health check recreated after its replica had been removed.
Astray(c) == containers[c].left \/ containers[c].healed
Materialized ==
  /\ \A s \in Server : Cardinality(On(s)) = app.placement[s]
  /\ \A i \in DOMAIN rows : Healthy(Spot(rows[i]))
  /\ \A c \in DOMAIN containers :
       Astray(c) \/ \E i \in DOMAIN rows : Spot(rows[i]) = c
  /\ pool = Upstreams(rows)
  /\ app.status # "deploying"
\* Nobody attests a replica again when its configuration is not the deployed one.
Stranded == ~app.current /\ \E i \in DOMAIN rows : rows[i].err
\* Such a container holds the port that the next replica on its server is given.
Blocked == \E c \in DOMAIN containers :
  Astray(c) /\ app.placement[c[1]] > Cardinality(On(c[1])) /\ containers[c].port = NextPort(c[1])
Converges == <>[](Materialized \/ Stranded \/ Blocked)

\* A redeploy that is recorded has put the new image on every server: every row is
\* attested, and the only container of another image is one that a health check,
\* begun before the redeploy, recreated under it.
RedeployWhole == [][app'.image # app.image => \A i \in DOMAIN rows :
  /\ Running(i) /\ ~rows[i].err
  /\ LET spot == Spot(rows[i]) IN
     spot \in DOMAIN containers /\ ~containers[spot].healed => containers[spot].image = app'.image]_vars
=============================================================================
