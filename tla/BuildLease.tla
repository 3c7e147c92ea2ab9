----------------------------- MODULE BuildLease -----------------------------
(***************************************************************************)
(* Build workers and a CI runner that shares their hosts: the lease rows   *)
(* of the build coordinator, its waiters in operation order, its one       *)
(* failover and its fence; the host reservation of CI and its              *)
(* reconciliation with GitHub and systemd; the flock on each host, which   *)
(* remote commands hold and which outlives the controller.                 *)
(*                                                                         *)
(* One action is what the controller does between two awaits, or one thing *)
(* that happens on a host or at GitHub.  lease, reserved, armed and the    *)
(* artifacts are durable; the rest of build and sync is memory; lock,      *)
(* service, registration, starting and orphan belong to the hosts          *)
(* and to GitHub.  Time is free: a lease may expire whenever it was not    *)
(* renewed.  The lease token stands for one run of one operation; the      *)
(* process has at most one, so the operation identifies it.                *)
(***************************************************************************)
EXTENDS Naturals, FiniteSets

CONSTANTS
  Host,       \* servers with a build worker
  CiHost,     \* those that also have a shared CI runner
  NumBuilds,  \* build operations 1..NumBuilds, in the order of their ids
  NumTargets, \* image targets of each build
  None,       \* no operation, no host
  Free, Ci,   \* a lock nobody holds, a lock the CI service holds
  MaxCrashes  \* bound: crashes of the controller process

ASSUME BuildAssumption ==
  /\ IsFiniteSet(Host) /\ CiHost \subseteq Host
  /\ NumBuilds \in Nat /\ NumTargets \in Nat \ {0}
  /\ None \notin Host \union Nat
  /\ Free \notin Nat /\ Ci \notin Nat /\ Free # Ci
  /\ MaxCrashes \in Nat

Build == 1..NumBuilds

VARIABLES
  lease,    \* build_worker_leases: the row of each worker
  build,    \* each build operation: its runner and its artifact rows
  reserved, \* ci_runners.host_reserved
  armed,    \* registered_at: "no", "yes", or "over" 60 s ago
  sync,     \* the sync_ci_runner operation of each runner
  registration, \* the runner's registration at GitHub
  service,  \* the hosts whose CI service is active
  starting, \* the hosts on which a configure-and-start command still runs
  lock,     \* who holds the flock of each host
  orphan,   \* hosts whose lock holder has lost its controller
  usurped,  \* history: builds whose host was given away since they got it
  up, crashes

hostVars == <<registration, service, starting, lock, orphan>>
ciVars   == <<reserved, armed, sync>>
process  == <<up, crashes>>
vars == <<lease, build, ciVars, hostVars, usurped, process>>

NoLease == [op |-> None, live |-> FALSE]
NewBuild == [pc |-> "absent", host |-> None, error |-> "none", retried |-> FALSE,
             excluded |-> {}, built |-> 0, artifacts |-> 0, origin |-> None]
NoSync == [pc |-> "idle", busy |-> FALSE, goal |-> "none"]

\* "arrived": at the top of the failover loop; "waiting": parked; "probing" and
\* "recovering": probing the workers, to build or to adopt an earlier result;
\* "building": between two guarded commands; "locked": in one; "reporting":
\* verifying its digest; "closing": all targets built; "cleaning": after an error.
BuildPc == {"absent", "arrived", "waiting", "probing", "building", "locked", "reporting",
            "closing", "cleaning", "recovering", "verifying", "done", "failed"}

OnWorker == {"building", "locked", "reporting", "closing", "cleaning", "verifying"}

TypeOK ==
  /\ lease \in [Host -> [op : Build \union {None}, live : BOOLEAN]]
  /\ build \in [Build -> [pc : BuildPc, host : Host \union {None},
                          error : {"none", "unavailable", "fatal"}, retried : BOOLEAN,
                          excluded : SUBSET Host, built : 0..NumTargets,
                          artifacts : 0..NumTargets, origin : Host \union {None}]]
  /\ \A b \in Build : (build[b].host # None) <=> (build[b].pc \in OnWorker)
  /\ reserved \in SUBSET CiHost
  /\ armed \in [CiHost -> {"no", "yes", "over"}]
  /\ sync \in [CiHost -> [pc : {"idle", "asking", "inspecting", "deleting", "stopping",
                                "releasing", "preparing", "starting"},
                          busy : BOOLEAN,
                          goal : {"none", "stop", "release", "start"}]]
  /\ registration \in [CiHost -> {"none", "idle", "busy"}]
  /\ service \in SUBSET CiHost /\ starting \in SUBSET CiHost
  /\ lock \in [Host -> Build \union {Free, Ci}]
  /\ orphan \in SUBSET Host /\ usurped \in SUBSET Build
  /\ up \in BOOLEAN /\ crashes \in 0..MaxCrashes

Init ==
  /\ lease = [h \in Host |-> NoLease]
  /\ build = [b \in Build |-> NewBuild]
  /\ reserved = {}
  /\ armed = [c \in CiHost |-> "no"]
  /\ sync = [c \in CiHost |-> NoSync]
  /\ registration = [c \in CiHost |-> "none"]
  /\ service = {} /\ starting = {}
  /\ lock = [h \in Host |-> Free]
  /\ orphan = {} /\ usurped = {}
  /\ up = TRUE /\ crashes = 0

-----------------------------------------------------------------------------
(* The queue of waiting builds *)

Settled == {b \in Build : build[b].pc \in {"done", "failed"}}
\* Running operations whose executing step says "Waiting for build worker...".
Waiters == {b \in Build : build[b].pc \in {"waiting", "probing"}}
Ahead(b) == {w \in Waiters : w < b}

Become(b, pc) == build' = [build EXCEPT ![b].pc = pc]

Arrive(b) ==
  /\ up /\ build[b].pc = "absent"
  /\ Become(b, "arrived")
  /\ UNCHANGED <<lease, ciVars, hostVars, usurped, process>>

\* One turn of withBuildFailover's loop up to its await.
Look(b) ==
  /\ up /\ build[b].pc \in {"arrived", "waiting"}
  /\ IF Ahead(b) = {} THEN Become(b, "probing") ELSE build[b].pc = "arrived" /\ Become(b, "waiting")
  /\ UNCHANGED <<lease, ciVars, hostVars, usurped, process>>

\* The deadline passes, or the operation is cancelled.
GiveUp(b) ==
  /\ up /\ build[b].pc = "waiting"
  /\ Become(b, "failed")
  /\ UNCHANGED <<lease, ciVars, hostVars, usurped, process>>

-----------------------------------------------------------------------------
(* tryAcquireBuildWorkerLease, one transaction *)

Renewable(b, C) == {h \in C \ reserved : lease[h].op = b /\ lease[h].live}
\* The rows left when those of settled operations, this operation's own and the
\* expired ones are deleted.
Kept(b) == [h \in Host |->
  IF lease[h].op \in Settled \union {b} \/ ~lease[h].live THEN NoLease ELSE lease[h]]
\* Faulty variant of Grantable: the reservation of the host is not looked at.
GrantableReserved(b, C) == {h \in C : Kept(b)[h] = NoLease}
Grantable(b, C) == {h \in C \ reserved : Kept(b)[h] = NoLease}

\* The builds that believe to own h.
On(h) == {b \in Build : build[b].host = h}

Granted(b, h, pc) ==
  /\ lease' = [Kept(b) EXCEPT ![h] = [op |-> b, live |-> TRUE]]
  /\ build' = [build EXCEPT ![b].host = h, ![b].pc = pc]
  /\ usurped' = (usurped \ {b}) \union (On(h) \ {b})

\* C are the workers whose probe answered; which of them the score puts first
\* is free.
Acquire(b, C, pc, busy, nobody) ==
  \/ \E h \in Renewable(b, C) :
       /\ lease' = [lease EXCEPT ![h].live = TRUE]
       /\ build' = [build EXCEPT ![b].host = h, ![b].pc = pc]
       /\ usurped' = usurped \ {b}
  \/ /\ Renewable(b, C) = {}
     /\ \E h \in Grantable(b, C) : Granted(b, h, pc)
  \/ /\ Renewable(b, C) = {} /\ Grantable(b, C) = {}
     /\ lease' = Kept(b)
     /\ Become(b, IF C = {} THEN nobody ELSE busy)
     /\ UNCHANGED usurped

Admit(b) ==
  /\ up /\ build[b].pc = "probing"
  /\ \E C \in SUBSET (Host \ build[b].excluded) :
       Acquire(b, C, "building", "waiting", "failed")
  /\ UNCHANGED <<ciVars, hostVars, process>>

\* Nobody renewed the row for 120 seconds.
Expire(h) ==
  /\ lease[h].live
  /\ lease' = [lease EXCEPT ![h].live = FALSE]
  /\ UNCHANGED <<build, ciVars, hostVars, usurped, process>>

\* Nobody does when its operation is not on the worker, or not any more.
ExpireUnattended(h) == Expire(h) /\ h \notin {build[b].host : b \in {lease[h].op} \ {None}}

\* It changes a live row only, and that one's expiry only.
Heartbeat(b) ==
  /\ up /\ \E h \in Host : lease[h].op = b /\ lease[h].live /\ build[b].host = h
  /\ UNCHANGED vars

-----------------------------------------------------------------------------
(* buildCommitOnWorker *)

Released(b) == [h \in Host |-> IF lease[h].op = b THEN NoLease ELSE lease[h]]

Err(b, e) == build' = [build EXCEPT ![b].pc = "cleaning", ![b].error = e]

\* A guarded command takes the lock of the host, or exits with 75.
TakeLock(b) ==
  /\ up /\ build[b].pc = "building"
  /\ LET h == build[b].host IN
     \/ /\ lock[h] = Free
        /\ lock' = [lock EXCEPT ![h] = b]
        /\ Become(b, "locked")
     \/ /\ lock[h] # Free
        /\ Err(b, "unavailable")
        /\ UNCHANGED lock
  /\ UNCHANGED <<lease, ciVars, registration, service, starting, orphan, usurped, process>>

\* The process on the host ends; its build learns of it unless the controller
\* crashed or the connection is lost.
CommandEnds(h) ==
  /\ lock[h] \in Build
  /\ lock' = [lock EXCEPT ![h] = Free]
  /\ orphan' = orphan \ {h}
  /\ LET b == lock[h] IN
     IF h \in orphan \/ build[b].pc # "locked" THEN UNCHANGED build
     ELSE \/ Become(b, "reporting")
          \/ Err(b, "fatal")
  /\ UNCHANGED <<lease, ciVars, registration, service, starting, usurped, process>>

\* The connection is lost or times out; the process may go on.
Disconnect(b) ==
  /\ up /\ build[b].pc = "locked"
  /\ Err(b, "unavailable")
  /\ UNCHANGED <<lease, ciVars, hostVars, usurped, process>>

SameOrigin(b) == build[b].origin \in {None, build[b].host}

\* The next target's digest is verified and recorded.  A row of another worker,
\* or another digest for a target of an earlier attempt, is refused.
Record(b) ==
  /\ up /\ build[b].pc = "reporting"
  /\ \/ /\ SameOrigin(b)
        /\ LET n == build[b].built + 1 IN
           build' = [build EXCEPT
             ![b].built = n, ![b].origin = build[b].host,
             ![b].artifacts = IF n > @ THEN n ELSE @,
             ![b].pc = IF n = NumTargets THEN "closing" ELSE "building"]
     \/ Err(b, "fatal")
  /\ UNCHANGED <<lease, ciVars, hostVars, usurped, process>>

\* The branch moved on, or its head cannot be read, after the artifacts were
\* recorded.
HeadMoved(b) ==
  /\ up /\ build[b].pc = "closing"
  /\ \E e \in {"unavailable", "fatal"} : Err(b, e)
  /\ UNCHANGED <<lease, ciVars, hostVars, usurped, process>>

\* Faulty variant of HoldsLease: the row may have expired.
OwnsRow(b) == lease[build[b].host].op = b
HoldsLease(b) == lease[build[b].host].op = b /\ lease[build[b].host].live

\* Faulty variant of Leave: the build goes on naming the worker it gave back.
LeaveBehind(b, pc) ==
  /\ lease' = Released(b)
  /\ build' = [build EXCEPT ![b].pc = pc, ![b].built = 0]
Leave(b, pc) ==
  /\ lease' = Released(b)
  /\ build' = [build EXCEPT ![b].pc = pc, ![b].host = None, ![b].built = 0]

\* The end of withWorker: the fence before publication, then the release.
Finish(b) ==
  /\ up /\ build[b].pc = "closing"
  /\ Leave(b, IF HoldsLease(b) THEN "done" ELSE "failed")
  /\ UNCHANGED <<ciVars, hostVars, usurped, process>>

\* The cleanup script kills the process of this attempt, if it gets through;
\* then the lease is released and the error decides about the one failover.
CleanUp(b) ==
  /\ up /\ build[b].pc = "cleaning"
  /\ LET h == build[b].host
         mine == lock[h] = b /\ h \notin orphan
         again == /\ build[b].error = "unavailable" /\ build[b].artifacts = 0
                  /\ ~build[b].retried
     IN /\ \/ /\ lock' = [lock EXCEPT ![h] = IF mine THEN Free ELSE @]
              /\ UNCHANGED orphan
           \/ /\ mine
              /\ orphan' = orphan \union {h}
              /\ UNCHANGED lock
        /\ build' = [build EXCEPT
             ![b].pc = IF again THEN "arrived" ELSE "failed", ![b].host = None,
             ![b].error = "none", ![b].built = 0, ![b].retried = again,
             ![b].excluded = IF again THEN @ \union {h} ELSE {}]
  /\ lease' = Released(b)
  /\ UNCHANGED <<ciVars, registration, service, starting, usurped, process>>

-----------------------------------------------------------------------------
(* The probe of a resumed build: adopt what an earlier attempt recorded *)

Recover(b) ==
  /\ up /\ build[b].pc = "recovering"
  /\ \E C \in SUBSET Host : Acquire(b, C, "verifying", "arrived", "arrived")
  /\ UNCHANGED <<ciVars, hostVars, process>>

\* The digests are found under a lease that lasted, or the step runs again.
Adopt(b) ==
  /\ up /\ build[b].pc = "verifying"
  /\ \/ HoldsLease(b) /\ Leave(b, "done")
     \/ Leave(b, "arrived")
  /\ UNCHANGED <<ciVars, hostVars, usurped, process>>

-----------------------------------------------------------------------------
(* tryReserveCiHost, and the remote half of the CI runner *)

\* Faulty variant of MayReserve: waiting builds do not come first.
MayReserveAnyway(c) == ~lease[c].live
MayReserve(c) == Waiters = {} /\ ~lease[c].live

\* The command that configures and starts the runner gets to its end: the
\* service takes the lock of the host or fails at once.
StartLands(c) ==
  /\ c \in starting
  /\ starting' = starting \ {c}
  /\ registration' = [registration EXCEPT ![c] = "idle"]
  /\ IF lock[c] = Free
       THEN service' = service \union {c} /\ lock' = [lock EXCEPT ![c] = Ci]
       ELSE UNCHANGED <<service, lock>>
  /\ sync' = IF sync[c].pc = "starting" THEN [sync EXCEPT ![c] = NoSync] ELSE sync
  /\ UNCHANGED <<lease, build, reserved, armed, orphan, usurped, process>>

\* GitHub assigns a job to the runner.
JobStarts(c) ==
  /\ c \in service /\ registration[c] = "idle"
  /\ registration' = [registration EXCEPT ![c] = "busy"]
  /\ UNCHANGED <<lease, build, ciVars, service, starting, lock, orphan, usurped, process>>

StopService(c) ==
  /\ service' = service \ {c}
  /\ lock' = IF c \in service THEN [lock EXCEPT ![c] = Free] ELSE lock

\* The single job ends and the ephemeral runner exits, or RuntimeMaxSec kills it
\* and GitHub learns of it later.
JobEnds(c) ==
  /\ c \in service /\ registration[c] = "busy"
  /\ StopService(c)
  /\ \E r \in {"none", "busy"} : registration' = [registration EXCEPT ![c] = r]
  /\ UNCHANGED <<lease, build, ciVars, starting, orphan, usurped, process>>

\* GitHub drops the registration of a runner that is gone.
Forgotten(c) ==
  /\ c \notin service /\ registration[c] # "none"
  /\ registration' = [registration EXCEPT ![c] = "none"]
  /\ UNCHANGED <<lease, build, ciVars, service, starting, lock, orphan, usurped, process>>

\* 60 seconds after the registration was persisted.
IdleDeadline(c) ==
  /\ armed[c] = "yes"
  /\ armed' = [armed EXCEPT ![c] = "over"]
  /\ UNCHANGED <<lease, build, reserved, sync, hostVars, usurped, process>>

-----------------------------------------------------------------------------
(* reconcileCiRunner, one durable operation at a time *)

Goto(c, pc) == sync' = [sync EXCEPT ![c].pc = pc]
SyncEnds(c) == sync' = [sync EXCEPT ![c] = NoSync]
CiKeep == UNCHANGED <<lease, build, usurped, process>>

\* The operation starts, or is started again after a crash.
SyncStarts(c) ==
  /\ up /\ sync[c].pc = "idle"
  /\ sync' = [sync EXCEPT ![c] = [NoSync EXCEPT !.pc = "asking"]]
  /\ UNCHANGED <<reserved, armed, hostVars>> /\ CiKeep

\* GitHub says whether the runner is busy.
SyncAsks(c) ==
  /\ up /\ sync[c].pc = "asking"
  /\ sync' = [sync EXCEPT ![c].pc = "inspecting", ![c].busy = registration[c] = "busy"]
  /\ UNCHANGED <<reserved, armed, hostVars>> /\ CiKeep

Delete(c, goal) == sync' = [sync EXCEPT ![c].pc = "deleting", ![c].goal = goal]

\* Faulty variant of YieldsToBuild: only builds that wait make it give way.
YieldsToWaiters(c) == c \in service /\ ~sync[c].busy /\ Waiters # {}
\* A runner without a job gives way when its idle time is over or builds wait.
YieldsToBuild(c) ==
  c \in service /\ ~sync[c].busy /\ (armed[c] = "over" \/ Waiters # {})

\* Whether an operator drains the runner is free at every reconciliation.
Retire(c) ==
  /\ IF sync[c].busy THEN SyncEnds(c) ELSE Delete(c, "stop")
  /\ UNCHANGED reserved

LeaveAlone(c) ==
  /\ c \in service \/ sync[c].busy \/ (c \notin reserved /\ Waiters # {})
  /\ SyncEnds(c) /\ UNCHANGED reserved

ReleaseHost(c) ==
  /\ c \notin service /\ ~sync[c].busy /\ c \in reserved
  /\ Delete(c, "release") /\ UNCHANGED reserved

\* A job is queued (or none is, and nothing happens).
ReserveHost(c) ==
  /\ c \notin service /\ ~sync[c].busy /\ c \notin reserved
  /\ \/ SyncEnds(c) /\ UNCHANGED reserved
     \/ /\ MayReserve(c)
        /\ Delete(c, "start") /\ reserved' = reserved \union {c}

\* The service was seen; everything up to the next await.
SyncDecides(c) ==
  /\ up /\ sync[c].pc = "inspecting"
  /\ \E drain \in BOOLEAN :
       IF drain \/ YieldsToBuild(c) THEN Retire(c)
       ELSE LeaveAlone(c) \/ ReleaseHost(c) \/ ReserveHost(c)
  /\ usurped' = usurped \union (IF reserved' = reserved THEN {} ELSE On(c))
  /\ UNCHANGED <<armed, hostVars, lease, build, process>>

\* A job assigned since the busy check makes GitHub refuse.
SyncDeletes(c) ==
  /\ up /\ sync[c].pc = "deleting"
  /\ IF registration[c] = "busy" THEN SyncEnds(c) /\ UNCHANGED registration
     ELSE /\ registration' = [registration EXCEPT ![c] = "none"]
          /\ Goto(c, CASE sync[c].goal = "stop" -> "stopping"
                       [] sync[c].goal = "release" -> "releasing"
                       [] OTHER -> "preparing")
  /\ UNCHANGED <<reserved, armed, service, starting, lock, orphan>> /\ CiKeep

SyncStops(c) ==
  /\ up /\ sync[c].pc = "stopping"
  /\ StopService(c)
  /\ IF c \in reserved THEN Goto(c, "releasing") ELSE SyncEnds(c)
  /\ UNCHANGED <<reserved, armed, registration, starting, orphan>> /\ CiKeep

\* The lock of the host and a look at the service decide whether its cleanup runs.
HostQuiet(c) == lock[c] = Free /\ c \notin service

\* releaseCiHost; a host that is not quiet remains reserved.
SyncReleases(c) ==
  /\ up /\ sync[c].pc = "releasing"
  /\ SyncEnds(c)
  /\ IF HostQuiet(c)
       THEN reserved' = reserved \ {c} /\ armed' = [armed EXCEPT ![c] = "no"]
       ELSE UNCHANGED <<reserved, armed>>
  /\ UNCHANGED hostVars /\ CiKeep

\* The cleanup and the preparation run under the lock; the idle deadline is
\* persisted before the runner is started.
SyncPrepares(c) ==
  /\ up /\ sync[c].pc = "preparing"
  /\ IF lock[c] = Free
       THEN /\ armed' = [armed EXCEPT ![c] = "yes"]
            /\ starting' = starting \union {c}
            /\ Goto(c, "starting")
       ELSE SyncEnds(c) /\ UNCHANGED <<armed, starting>>
  /\ UNCHANGED <<reserved, registration, service, lock, orphan>> /\ CiKeep

\* Any remote call of the reconciliation fails, or its answer is lost; the
\* operation fails and the controller asks again.
SyncFails(c) ==
  /\ up /\ sync[c].pc # "idle"
  /\ SyncEnds(c)
  /\ UNCHANGED <<reserved, armed, hostVars>> /\ CiKeep

-----------------------------------------------------------------------------
(* The controller process *)

\* Faulty variant of Complete: some artifact is enough.
Partial(b) == build[b].artifacts > 0
\* Every target of the build was recorded: recoverBuild has something to adopt.
Complete(b) == build[b].artifacts = NumTargets

Crash ==
  /\ up /\ crashes < MaxCrashes
  /\ up' = FALSE /\ crashes' = crashes + 1
  /\ sync' = [c \in CiHost |-> NoSync]
  /\ orphan' = {h \in Host : lock[h] \in Build}
  /\ build' = [b \in Build |->
       IF build[b].pc = "absent" \/ b \in Settled THEN build[b]
       ELSE [NewBuild EXCEPT !.pc = IF Complete(b) THEN "recovering" ELSE "arrived",
                             !.artifacts = build[b].artifacts, !.origin = build[b].origin]]
  /\ UNCHANGED <<lease, reserved, armed, registration, service, starting, lock, usurped>>

Restart ==
  /\ ~up
  /\ up' = TRUE
  /\ UNCHANGED <<lease, build, ciVars, hostVars, usurped, crashes>>

-----------------------------------------------------------------------------
Proceed(b) ==
  \/ Look(b) \/ Admit(b) \/ TakeLock(b) \/ Record(b) \/ Finish(b) \/ CleanUp(b)
  \/ Recover(b) \/ Adopt(b)

Reconcile(c) ==
  \/ SyncStarts(c) \/ SyncAsks(c) \/ SyncDecides(c) \/ SyncDeletes(c) \/ SyncStops(c)
  \/ SyncReleases(c) \/ SyncPrepares(c)

Next ==
  \/ \E b \in Build : Arrive(b) \/ GiveUp(b) \/ Proceed(b) \/ Heartbeat(b)
  \/ \E b \in Build : Disconnect(b) \/ HeadMoved(b)
  \/ \E h \in Host : Expire(h) \/ CommandEnds(h)
  \/ \E c \in CiHost : StartLands(c) \/ JobStarts(c) \/ JobEnds(c) \/ Forgotten(c)
  \/ \E c \in CiHost : IdleDeadline(c) \/ Reconcile(c) \/ SyncFails(c)
  \/ Crash \/ Restart

Spec == Init /\ [][Next]_vars

(***************************************************************************)
(* The failover loop polls, the CI controller asks every 30 seconds, every *)
(* remote command ends, a job ends or is killed by RuntimeMaxSec, the idle *)
(* deadline passes and a supervisor restarts the process.  A remote call   *)
(* of the reconciliation may fail any number of times; one that is tried   *)
(* again and again succeeds.  A lease whose operation has lost the worker  *)
(* in a crash expires.  New builds, new jobs, other expiries, failures,    *)
(* the deadline of the waiting and crashes are not fair.                   *)
(***************************************************************************)
Fairness ==
  /\ \A b \in Build : WF_vars(Proceed(b))
  /\ \A h \in Host : WF_vars(CommandEnds(h)) /\ WF_vars(ExpireUnattended(h))
  /\ \A c \in CiHost :
       /\ WF_vars(StartLands(c)) /\ WF_vars(JobEnds(c)) /\ WF_vars(Forgotten(c))
       /\ WF_vars(IdleDeadline(c))
       /\ WF_vars(SyncStarts(c)) /\ SF_vars(SyncAsks(c)) /\ SF_vars(SyncDecides(c))
       /\ SF_vars(SyncDeletes(c)) /\ SF_vars(SyncStops(c)) /\ SF_vars(SyncReleases(c))
       /\ SF_vars(SyncPrepares(c))
  /\ WF_vars(Restart)

FairSpec == Spec /\ Fairness

-----------------------------------------------------------------------------
(* Safety *)

\* A host is never leased to a build and reserved for CI at once
\* (build-worker-leases.ts:46-50, ci-runners.ts:41-54), although each side looks
\* at the other's row at another time, rows expire and a crash frees none.
AdmissionExclusive == \A c \in reserved : ~lease[c].live

\* What a build returns was made under a lease that lasted: since it was admitted
\* its host was given neither to another build nor to CI, over expiries,
\* failovers and restarts (build-coordinator.ts:117-125).
FencedPublication ==
  [][\A b \in Build : build[b].pc # "done" /\ build'[b].pc = "done" => b \notin usurped]_vars

\* A build is only ever done with all its targets, also when a restart adopts
\* what an interrupted attempt recorded (ops/build-delivery.ts:99-107).
WholeResult == \A b \in Build : build[b].pc = "done" => build[b].artifacts = NumTargets

-----------------------------------------------------------------------------
(* Liveness *)

\* Every build that starts gets its answer without running into the deadline of
\* its waiting: idle CI runners give way, no new job is admitted before a waiting
\* build (ci-runner.ts:175-190, ci-runners.ts:46), there is one failover, and what
\* a crash left behind on the host ends.
BuildsSettle ==
  \A b \in Build : build[b].pc # "absent" ~> build[b].pc \in {"done", "failed"}

\* Once its idle deadline is persisted, which is before the runner is started
\* (ci-runner.ts:233-236), a reservation ends or a job runs under it, over crashes,
\* failed calls and runners that GitHub never gives a job.
HostNotStranded ==
  \A c \in CiHost :
    c \in reserved /\ armed[c] # "no" ~> c \notin reserved \/ registration[c] = "busy"
=============================================================================
