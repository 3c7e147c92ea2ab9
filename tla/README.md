# A verification project for open-cli-deployment

OCD is a self-hosted deployment panel: one Bun process serves the HTTP API and
runs a durable operation engine (`src/src/engine`) over an SQLite database
(`src/src/shared/db`); a separate TCP proxy, a CLI and a web interface go with
it. Everything that changes the world (servers, containers, volumes, DNS) is an
*operation*: a row with resource keys and a list of steps, which the engine runs
forward and, when a step fails or a user cancels, undoes in reverse. This
directory models that machinery in TLA+, checks it with TLC on small instances
and proves most of the safety properties with TLAPS for all of them.

To check: `tlc -config MCSaga.cfg MCOpEngine` (the same module for `MCQueue`
and `MCCancel`), `tlc -config MCBuilds.cfg MCBuildLease` (and `MCHandover`),
`tlc -config MCDeliveries.cfg MCWebhookDelivery`,
`tlc -config MCReplicas.cfg MCReplicas`,
`tlc -config MCVolumes.cfg MCVolumes`,
`tlc -config MCStack.cfg MCStack` (and `MCTeardown`),
`tlc -config MCPanel.cfg MCPanelRelease`,
`tlc -config MCVips.cfg MCVipProxy`;
`tlapm` on each of `OpEngineProofs.tla`, `BuildLeaseProofs.tla`,
`PanelReleaseProofs.tla`, `WebhookDeliveryProofs.tla`, `VolumesProofs.tla`,
`StackProofs.tla`, `ReplicasProofs.tla` and `VipProxyProofs.tla`.

## Inventory

| component | state | operations | hard behaviour | what makes it correct |
|---|---|---|---|---|
| operation engine (`engine/engine.ts`, `scheduler.ts`, `step-runner.ts`, `stuck-sweep.ts`, `ops/_children.ts`, `shared/db/operations.ts`, `server/routes/operations.ts`) | `operations` and `operation_steps` rows; in memory: key holders, runners in flight, parked runners | enqueue, tick, start, step, compensate, park, sweep, cancel, retry, finalize, restart | crash between a side effect and its record; four ways to start a row; a newer operation taking resources over during a rollback; an attempt counter shared by all | keys exclude; locks never leak; a completed step runs once; a rollback is final, bounded and complete, or yields to a newer owner; every row settles |
| stack operations (`ops/deploy-stack.ts`, `destroy-stack.ts`, `cascade-redeploy.ts`, `apply-manifest.ts`, `server/lib/stack-operations.ts`) | stack rows, children of a parent row | levels of children, removals, resume of a failed stack | parents waiting for children under shared keys and slots; children found again by idempotency key | a level starts after the previous one succeeded; no member deployed twice; no deadlock |
| deploy and app operations (`ops/deploy.ts`, `redeploy.ts`, `move.ts`, `destroy-app.ts`, `app-lifecycle.ts`, volumes, servers) | apps, replicas, volumes, servers | step sequences with probes and compensations | one step of many fails; the row's key changes from `app:create:<name>` to `app:<id>` | an app serves from an attested revision or from its previous one; no resource without an owner |
| controller runtime and reconcilers (`controller-runtime.ts`, `reconciler.ts`, `app-runtime-reconciler.ts`, ...) | single-flight guards, timers | periodic runs, repair operations | timeout of a run that still works | one run of a controller at a time; repairs do not fight operations |
| build workers (`build-coordinator.ts`, `build-failover.ts`, `shared/db/build-worker-leases.ts`) | lease rows with token and expiry | acquire, heartbeat, release, reap, fail over | a build that outlives its lease | one build per worker slot; nothing is published without the lease |
| webhook deliveries (`shared/db/build-source-deliveries.ts`, `ops/webhook-build-source.ts`) | delivery rows with an event order | record, attach, supersede, retry, compact | late, repeated and reordered deliveries | an older commit is never delivered over a newer one |
| CI runners (`ci-runner.ts`, `ci-controller.ts`) | runner rows, host reservation | observe, reserve, start, drain, release | a crash between reservation and start; builds want the same host | a host is reserved for a job or leased for a build, never both |
| placement and rollout (`scale/*`) | replica rows and their status | converge, roll, scale, migrate | partial failure of a roll; unavailable servers | enough replicas serve at any time; the placement is reached |
| one-shot rows (`shared/db/action-confirmations.ts`, `device-auth-codes.ts`, `webauthn-challenges.ts`, `port-reservations.ts`) | rows with an expiry | approve, consume, claim, release | two requests race for one row | consumed at most once, by whom it is bound to |
| volume retention (`provisional-volume-sweep.ts`) | retired volume rows | retire, sweep, attach | the sweep against an attach | a volume with an owner is never deleted |
| notifications (`ntfy/*`) | outbox rows, credentials | publish, retry, synchronise | a delivery that succeeded and was not recorded | every alert at least once, retries bounded |
| TCP proxy (`src/src/proxy`) | connections, listeners, the redirection rules | pump, pause, half-close, reload | back-pressure against a half-close; a failed `nft` against a change | no byte lost or reordered; the last configuration is served |
| internal traffic (`scale/proxy-manager.ts`, `network-reconciler.ts`) | which proxies answered; on the server: files, unit, lines of `/etc/hosts` | converge, pass over the hosts files | a restart forgets what was ready; timers compete for the key of a server | a name resolves only where something answers, and comes to |
| panel release (`engine/deploy/panel.ts`, `server/routes/panel.ts`, `shared/db/panel.ts`, `connection.ts`) | the record of the release; a detached script, the container, the database and its copy | record, dispatch, swap, roll back | the script replaces the process that started it; reboots | the database outlives a bad release; a panel serves again |
| panel protection, hosts and providers, UI, CLI, accounts | files, remote hosts | I/O | | out of the model, see below |

The components meet in four places: the *lock table* (operations, HTTP handlers
and reconcilers take the same keys through `tryAcquire`), the *operations table*
(handlers, reconcilers and parents enqueue; the sweep and the routes edit rows
beside the runner), the *parent/child* relation, and the world outside.

The modules and what they are about:

| module | models | composes with |
|---|---|---|
| `OpEngine` | the operation engine | the world as side effects of steps |
| `Saga`, `OpEngineRefinement` | what the engine promises, and that it keeps it | `OpEngine` implements `Saga` |
| `BuildLease` | build workers and shared CI runners | one runner per operation, as `Saga` promises |
| `WebhookDelivery` | the deliveries of a build source, their operations and children | one runner per resource key, rows in order |
| `Replicas` | the replicas of a stateless app | the lock of the app; one operation at a time |
| `Volumes` | the volume of an app, retention and deletion | the walk forward and back over real side effects |
| `Stack` | deploy_stack and destroy_stack, their children, the finalizer | parents and children over one operations table; one operation per key, as `Saga` promises |
| `PanelRelease` | the self-update of the panel | the panel process, the script and the container daemon |
| `VipProxy` | internal traffic on one server: the proxy process and the two reconcilers that keep it | the key of the server, shared with operations |

`OpEngine` knows operations with any steps; the other modules know what the
steps of theirs do, and take from the engine what `Saga` states.

## The operation engine

`OpEngine.tla`. Its state and the code:

| variable | code |
|---|---|
| `db` | one `operations` row per member of `Op`, with its step rows summarised: `fwd` and `comp` are the steps with a completed forward or compensate row, `open` the status of the row in flight; `cancelReq`, `cancelled` and `fenced` are what the code reads again of `error_json` |
| `effects` | the side effects of steps that exist in the world |
| `holder` | `holders` of `scheduler.ts` |
| `run` | where each `runOperation` is suspended: in a probe, a run, a `probeCompensated` or a `compensate` of one step |
| `finalizing` | finalize requests between their lock test and their write |
| `up`, `crashes`, `requests` | the process, and two bounded counters |

An action is what the process does between two awaits. A remote call is two
steps: its effect (`EffectLands`, `EffectUndone`) and its return with all the
synchronous work that follows (`RunReturns`, `UndoReturns`, ...), so a call may
happen and then fail, and a crash may fall in between. That work is the
operators `ForwardAfter`, `FailForward`, `RunCompensation`, `UndoBelow`,
`EndPass`, `FenceOff` and `Leave`, the stretches of `step-runner.ts` in the
order the code has them. `TickStart` and `SweepRequeue` are the two callers of
`tryStart`; `SweepExhausted` the sweep's other decision; `Cancel`, `Retry`,
`FinalizeCheck` with `FinalizeWrite` the routes (finalize awaits the request body
between its lock test and its write, so it is two actions); `EnterSection` and
`LeaveSection` any handler or reconciler that takes a key; `Crash` and `Restart`
the process. `Def` gives each row its keys, the identities it names and the
shape of its kind; it never changes, as the INSERT fixes them. What a row owns is
looked up at each check (`Owned`, for `expandedResourceKeys`): a deploy that holds
`app:create:<name>` owns `app:<id>` as well while there is an app row that links the
two (`AppRows`: inserted by a step, gone when that step is undone or another
operation removes the app). A redeploy of an app can be enqueued only while it is there.

Abstractions: time (any row may be old enough for the sweep, any call may take
any time; `scheduled_for` is null in every row, no caller
of `enqueueOperation` sets it), step outputs, the wording of errors, the
assessment that decides whether finalize may write `done` (free). A child is
enqueued once: the idempotency key finds it again. A probe answers truthfully or
fails; a fatal probe error may always happen. A retry of a settled forward
attempt is a fresh row, so it is another `Enqueue`. The revival of zombie rows
(`stuck-sweep.ts:88-97`) is left out because `OneRunner` shows that it never
finds one within one process; the proof covers every instance.

`MCOpEngine.tla` has the small instances, `OpEngineProofs.tla` the proofs.

`Saga.tla` is the promise to whoever enqueues an operation: a phase, the
completed steps it owes an undo for, and the set of operations at work. An
operation advances or turns back for good, works only while nobody else works
under one of its keys, and a settled one is touched by operators only. Attempts,
probes, fences and locks are gone. `OpEngineRefinement.tla` maps the engine to
it: while a row has a runner, the runner decides the phase (`PhaseOf`), without
one the durable status; `owed` is `fwd \ comp`, `active` the rows in flight.
What the sweep or an operator writes to the row of a runner shows in the saga
when the runner is gone, which is why `Crash` may settle an operation at work.

## Builds and CI runners

`BuildLease.tla`: the build coordinator, its failover loop and the
reconciliation of shared CI runners over the hosts they both want.

| variable | code |
|---|---|
| `lease` | rows of `build_worker_leases`: operation, and whether it expired |
| `build` | one `build_delivery` operation each: where its failover loop is (`pc`), the host, the retried flag and excluded workers of `withBuildFailover`, `built` targets of this attempt, the durable `artifacts` and whether one `origin` made them |
| `reserved`, `armed` | `ci_runners.host_reserved`, `registered_at` |
| `sync` | the `sync_ci_runner` operation in flight and what it read |
| `registration`, `service`, `starting` | the runner at GitHub; the systemd unit; a configure-and-start command that still runs |
| `lock`, `orphan` | the `flock` of each host, and whether its holder lost its controller |
| `usurped` | history: builds whose host was given to someone else since they got it |

Actions follow the awaits: `Look` tests the waiters and probes, `Admit` is the
acquisition in one SQLite transaction, `TakeLock` and `CommandEnds` a guarded
command, `Record` the rows of an image, `Finish` the fence of the coordinator,
`CleanUp` the catch of the failover, `Recover` and `Adopt` what a resumed step
does first. On the other side `SyncAsks`, `SyncDecides`, `SyncDeletes`,
`SyncStops`, `SyncReleases` and `SyncPrepares` are the stretches of
`reconcileCiRunner`; `JobStarts`, `Forgotten` and the hosts are external.

Abstractions: time (a lease may expire whenever it was not renewed; a heartbeat
is a stutter unless it finds the lease gone); scores and probes of workers (any
eligible one is chosen); webhook builds pass an expected branch and adopt the
checkpoint of an attempt, `build-delivery` adopts artifacts alone: the model
allows both. A lease token is the operation, because a process runs an operation
once.

## Webhook deliveries

`WebhookDelivery.tla`: one build source and its one app.

| variable | code |
|---|---|
| `delivery` | `build_source_deliveries`: status, row id, operation |
| `last` | `build_sources.last_delivery_id` |
| `op`, `child` | the `webhook_build_source` rows with the step they reached, and the `apply_manifest` child of each |
| `live` | the delivery whose commit the app runs |
| `runner` | the operation in flight and what it awaits |
| `withdrawn` | history: operations whose child was cancelled on its own |
| `twice` | history: another delivery was handed to the app while the source named none |

`Push` is the whole webhook handler, which has no await between its writes and
no transaction around them: `PushCutShort` is the same handler cut by a crash
after any of its writes. `ReleaseNow` is the operator's release, `Prepare`,
`BuildReturns`, `Await` and `Finish` the operation, `Retry` the transfer of a
failed delivery to a new row.

Abstractions: every event has a timestamp; no compaction of old rows; one child
per operation; the wait for CI checks is part of the build; operations that fail
in their rollback are not retried in place.

## Replicas

`Replicas.tla`: one stateless app under its four kinds of actor.

| variable | code |
|---|---|
| `app` | the row: status, placement, image, whether the configuration is the deployed one |
| `rows`, `nextId` | the `replicas` table with its counter of failed probes and the error of the last attestation, by id |
| `containers` | what runs on each server, by name |
| `pool` | the upstreams of the rendered ingress |
| `op`, `job` | the operation row and what the holder of `app:<id>` awaits (an operation, a convergence or the runtime reconciler) |
| `checks`, `tick` | the health checks of a workload tick |

A convergence (`Converging`) plans once from the rows it reads: how many replicas a
server lacks (`adds`), which are `Surplus` on a server of the placement (`ids`) and
which are outside it (`late`, removed only when the placement is satisfied). It then
adds and removes them call by call (`AddStep`, `RemoveStep`, with the rollback
`RollbackScaleUp`); `NextOne` is the next of a set in the order of the code. A replica
is listed, in the order `Sooner` of `removalOrder`, when as many come before it as
there are too many (`TooMany`); `RollStep` and `DeployStep` are the redeploy of a candidate
with its restore point; `Decide` tests the lock of the app once and `Restart` or
`Recreate` follow without it, as `health.ts` does. `Removed` is every `docker rm` of a
replica: `sshExec` returns an exit code and throws nothing, and neither the
scale-down (`scale-down.ts:42-44`) nor the rollbacks look at it, so the row goes while
the container may run on (`left`). A compensation that fails (`Incomplete`) leaves the
row compensating and its key free until it begins again, at most `MaxAttempts` times;
whoever took the key in between may have changed the rows it restores by.

Abstractions: volumes (a module of its own), pause, destroy, servers that are
not ready, ports of other apps; `docker rm` and `docker run` of one call are one
step; one operation at a time; the configuration revision is the flag
`current` and, of the operation, `again` (committed a second time after a crash between
the commit and its step record); servers outside the placement are emptied by number, not by the age of
their first replica; a drain is always over before the next health check of the drained
replica counts (10 s against 5 s).

## Volumes

`Volumes.tla`: one app with one replica, the volumes at the provider, the
retained ones.

| variable | code |
|---|---|
| `app` | the row: volume, whether `volume_driver` is recorded, deletion requested; `on`, the servers of its replica rows; `home`, its placement |
| `disk` | each volume: exists, the server it is attached to, whether it is bound to the host path there |
| `retired` | `retired_volumes` with the class and the passing of `purge_after` |
| `host` | each server: the container, the volume it was started for (`want`), what it writes to (`on`), and host paths with files that were written with no mount (`dirty`) |
| `op` | the operation: kind, direction, step, the steps to undo, the flags of `VolumeMigrationContext` |
| `fix` | `reconcileActiveVolumes` between its awaits |
| `eraser` | the sweep or a DELETE request between its tests and the deletion |
| `lost` | history: volumes the code itself gives up |

`Plan` has the steps of the eight kinds that touch this state. `Do` is what a
step does, `CanDo` what it refuses, `Half` how a step of several calls can be
left, `Undo` the compensations. A step succeeds (`StepOk`), is refused by the
state (`StepRefused`), or a call of it fails before, amid or after its effect
(`FailsBefore`, `FailsHalfway`, `FailsAfter`); a crash may leave it at any of
these points. The stop and the removal of a container do not fail: `removeContainer`
(`hetzner/lifecycle.ts:4-6`) and the stop of a move (`migrate.ts:197-208`) ignore the
exit code, so the step, or its undoing, goes on as if the container were gone
(`Unheeded`, `UndoUnheeded`), and the container is a stray that writes on (`host.stray`). A move has no compensations: `RollbackMove` is the inline rollback
of `migrate.ts`, which reads the flags of this run only, and `Resumed` starts the
next run without them.

Abstractions: servers of one location, block storage only, no resize or rename;
one operation at a time (the reconciler, the sweep and the user's deletion go on
beside it); a failing call is one that fails after the retries of its caller; the
app writes to its host path whenever it runs; a health check is the step
`serve`, which may fail; once an app is marked for deletion only destructions are
submitted.

## Stacks

`Stack.tla`: one stack of apps, the parents that deploy and destroy it, and the
children they enqueue and wait for.

| variable | code |
|---|---|
| `stack` | the id of the `stacks` row, 0 without one |
| `apps` | the app row of each member: the stack it names, the image of its configuration and of its last recorded deployment, status, whether deletion was requested |
| `ops` | the `operations` table: parents, children and member operations, with the step each runs next and the cancel request |
| `walk` | what a running parent keeps in memory: the levels ahead, the level it is at, the members of it still to look at, the children it waits for; a crash forgets it |
| `strays` | history: the children that were not settled when their parent failed or was cancelled. No action reads it; properties excuse a member by it, since nobody waits for such a child and it may still change the member |

`PlanStack`, `DeployMember`, `PassLevel`, `ReconcileRemovals`, `PassRemovals` and
`FinalizeStack` are the steps of `deploy_stack` cut at their awaits; `PlanDestroy`,
`DestroyMembers`, `PassMembers` and `DeleteStackRow` those of `destroy_stack`;
`AwaitFails` and `AwaitCancels` the two ways in which `awaitChildren` does not
pass. `Start` is the scheduler with the fence of destructive children. A child is
the few moments at which it changes what its parent looks at: `InsertApp`,
`ServeApp` and `GiveUp` for a deploy, `StartRedeploy`, `Redeployed` and `Unroll`
for an `apply_manifest`, `MarkDeleting`, `RemoveApp` and `CleanupFails` for a
`destroy_app`. `Sickens` and `Recovers` are the propagation of the workload tick
(`reconciler.ts:175-187`): a member turns unhealthy, or running again, whoever holds
its key or that of the stack. Beside them run `Finalize` (the deletion finalizer), `Sweep` (the
repair of stale app states), member operations of users (`SubmitRestart`, which
lock the stack too), cancel requests and restarts.

Abstractions: the keys of the whole row are those the code expands to;
`apply_manifest` and the redeploy it enqueues are one child; the id of an app or a
stack is the row that inserted it; the single-flight test of `handleDeployStack`
comes before an await and so excludes nothing; the child of a planned member that
is already gone would do nothing and is left out. `Stack` has no fairness:
whether parents and children always settle is the question of the run `queue`.

## Panel releases

`PanelRelease.tla`: the panel asks the host to replace the panel.

| variable | code |
|---|---|
| `db` | the files of the database on the volume (`whole`, `torn`, `missing`), its schema, how many writes it holds, and the image `panel_deployments` records as deployed |
| `panel` | the container `ocd-panel`: its image, and whether it boots, serves, fails or is stopped |
| `ask` | a request in `redeployPanel`, between its awaits |
| `script` | the transient systemd unit of `buildPanelReleaseScript`: its command, the image it found (`prev`), the copy of the database it took |
| `acked`, `overlap`, `bereft`, `mixed` | history: the writes a panel confirmed that nobody was trying out; whether two scripts ever ran at once; whether a failure met a script that has no answer to it; whether a file of the newer database was left beside the restored ones |

Each host command of the script is an action: `Pull`, `Inspect`, `Stop`, the copy
(`CopyBegins`, `CopyEnds`), `Remove`, `Run` and `Healthy` forward; `Unhealthy`,
`Discard`, `Wipe`, `Restore` and `Rerun` back; each with the failure the script
looks at, or does not. `InspectFails` is the `|| echo ""` of line 486: the script takes a
failing inspection for "no panel before", does not stop the panel, copies the
database under it and has no image to go back to. `WipeFails` is the unchecked
`rm -f` of line 520. `Boot` is `connection.ts`: it migrates an older schema
and refuses a newer one. `Reboot` ends every script and starts the containers
that were not stopped (`--restart unless-stopped`).

Abstractions: the copy is one step unless something writes meanwhile; an image is
sound or never becomes healthy; the registry login and the environment file are
one await that may fail; the first installation is left out.

## Internal traffic

`VipProxy.tla`: one server. The panel renders the apps that have a virtual
address into the configuration of `ocd-proxy`, installs the proxy, and names the
apps in `/etc/hosts` once it answered.

| variable | code |
|---|---|
| `want`, `server` | the database: the backends of each app, which has its virtual address for life; the row of the server: ready, without a private address (`detached`), or unavailable |
| `host` | `config.json`, binary, unit and the `ocd-internal` block of `/etc/hosts` |
| `proc` | the process: configuration, `lastHash`, bound listeners, `appliedRuleset`, `natApplied` |
| `nft` | `nft -f` commands between their start and the moment `syncNat` sees their end |
| `kernel` | the ports the kernel redirects |
| `ready` | `proxyEverReady` |
| `conv`, `pass` | `convergeServerProxy`; the network controller, `reconcileServersAndNetwork` and then `syncInternalHosts`; both between their remote calls |
| `lock` | the holder of `server:<id>`: the converge, the network controller, another reconciler (firewall, volumes) or an operation |
| `crossed` | history: an `nft` committed before an earlier one was reported |

`Boot`, `Watch` and `Tick` are the three callers of `Reconcile` and `SyncNat`;
`Commit` and `Applied` the two moments of a command. `Render`, `TakeLock`, `Probe`,
`Write`, `Install` or `RewriteUnit`, `Active` and `AskStatus` are the converge,
`Observe` and `Observed` the reconciliation of the server row, `Look`, `Lines`, `Skip` and
`WriteHosts` the pass over `/etc/hosts`. The pass names apps only on a server that is
ready and has a private address, leaves an unavailable one alone, and skips one whose
key is taken; the converge waits ten seconds for the key and then gives up (`GiveUp`).
`ReconcilerBegins` and `OperationBegins` take the key, `OthersEnd` gives it back. A failing
call may have had its effect.

Abstractions: one server, since each has its own key, files and process; the row of the
panel, without which the pass does nothing, is there; a converge that a topology change pushes is one that gives up at once, and is left
out; a restarted panel may bring another binary or unit, which stands for an
upgrade; a second connection, its data and its half-closes are not modelled.

## Runs

| run | instance and bounds | what it shows |
|---|---|---|
| `saga` | a three-step deploy (a probe on the first step, a `probeCompensated` on the second), a later redeploy under the id that the row of the app gets, so that the two hold different keys; 2 slots, 3 attempts, 1 crash, 2 requests | type correctness, the safety invariants and action properties of the step runner, and `ImplementsSaga` |
| `queue` | a stack that parks for the deploy of one member and then for the removal of another, a redeploy of the first member that takes the stack's key too, a row of a kind that no longer exists under a key of its own; 1 slot, 1 crash, 1 request, so a window of two rows | `NoOvertaking` (first come, first served for one key) and `EventuallySettles`: no deadlock between parents and children over slots or keys, no row lost by a restart, no lock leaked |
| `builds` | two builds of one target, one host with a shared CI runner, 1 crash | `AdmissionExclusive` (never leased and reserved at once), `FencedPublication` (a returned build kept its host without a gap) |
| `handover` | one build of two targets and a CI runner on one host, 1 crash | `WholeResult`, and under fairness `BuildsSettle` and `HostNotStranded`: host and builds are handed back and forth for ever |
| `deliveries` | an old and a new push and a manual release of the old commit, in any order and number, 3 operations, 1 crash | `LiveMovesForward`, `OneWorkPerDelivery`, `DeployedIsLive` |
| `replicas` | two servers, placements `<<1, 1>>` and `<<0, 2>>`, one operation out of move, redeploy, reload, and the runtime reconciler, 2 attempts at a compensation (the code has 5), 1 failing call, noticed or not, 1 crash | `DrainKeepsSibling`, `RedeployWhole`, and under fairness `Converges` |
| `volumes` | one volume, two operations out of eight kinds and any number of finalizer retries, 2 failing calls, noticed or not, 1 crash | `NoVolumeForgotten`, `DoneIsWhole`, `RollbackServes`, `OwnedVolumeKept`, and under fairness `DeletionEnds` and `Homed` |
| `stack` | a web server that needs its database, none or deployed before; two requests out of a full deployment, one that drops a member, a partial one, a destruction and a member operation; 2 mishaps, each a failing step, a cancel request, a restart or a member that turns unhealthy | `OneChildPerMember`, `GatedLevels`, `DoneIsDesired`, `TornDown` |
| `panel` | three images, one of which never becomes healthy and brings a newer schema, as the good one does; two releases, two writes, 1 failing command (the inspection and the removal of files included) or reboot | `WritesKept`, `Readable`, and under fairness `ServesAgain` |
| `vips` | one app whose virtual address comes and goes, 2 changes, 2 mishaps out of failing calls and commands, calls that hang, crashes, reboots, restarts of the panel, operations on the server and a server that loses its address or becomes unavailable, any number of other reconcilers, two `nft` commands in flight | `Wired`: file, listeners and kernel come to the state of the database and stay, and so does `/etc/hosts` unless the pass is starved |
| `cancel`, `teardown` | the smallest instance of each | two statements of the repository's own comments and messages that the code does not keep, below |

Why the bounds are enough. Only a completed step before the one that fails is
ever undone, so three steps are the least with two compensations in a pass, one
of which may fail while the other succeeds; a deploy under the name and a redeploy under
the id for a newer operation that takes over, and may begin amid a compensation, since
no key of theirs is the same; the third attempt for a retry between the first pass
and the last. One slot in `queue` makes every slot shortage happen; the
window is then two rows. A second crash adds no new pair of steps around a crash
in the engine because a restart only depends on the rows. For deliveries it does:
`twice` stays false with one crash, and with two TLC finds the way back described
below, so the run shows the property at full strength and the proof what remains
of it with any number of crashes. Two builds and one host is the least
with a waiter, a usurper and a fence; a second target gives partial artifacts.
Three deliveries give an older, a newer and one that brings an older commit back
under a newer date; three operations a retry with another delivery between. Two
servers with two replicas are the least in which a sibling serves, a placement
moves and a surplus appears. Two failing calls let a step fail and then its
undoing; two operations put an attach after a failed deploy or a move after a
failed move. Two members in two levels are the least with a gate, two parents the
least with a newer one that fences or redoes an older one. Two releases are the
least that overlap, or that roll back to what a release brought. Two changes let
a configuration return to an earlier one, and two mishaps put a restart of the
panel after a failed command; `vips` also passes with two pools of backends and
one mishap (370,000 states). `Volumes` also passes its safety properties, with the
invariants of its proof, with two volumes (2.7 million states) and with three operations,
one failing call and two crashes (280,000). `Replicas` passes its properties with two operations
and no crash (moves and redeploys next to the runtime reconciler, 374,000 states), with two
operations and one crash (only moves, 1.04 million; only redeploys, 920,000), and with one
redeploy and two failing calls. That matters for `Converges`: a container that a removal left behind, in the first operation,
holds the port that the second one needs.
`CHECK_DEADLOCK FALSE` is set everywhere: once every row has settled and the
bounds are spent the system rests.

What the properties of `saga` say, in the order of their depth: `ImplementsSaga`;
`RolledBackClean` (a row reported compensated left nothing of its completed
compensable steps, unless fenced); `RollbackYieldsToNewer` (once a newer operation on the same
resources began, an old rollback begins no removal any more; only the call that was out at that moment
may still remove something);
`DoneMeansDone` (an operation reported done has the effects of all its steps);
`OneRunner` (the durable status and the runner agree at every moment).
`KeyExclusion`, `LockTable`, `RecordedOnce`, `NeverForwardAgain`, `PassBound` and
`SettledStays` are proved for all instances, so no run repeats them.

Some properties name the cases in which the code gives no guarantee, and only
those: `LiveMovesForward` leaves out a source that named no delivery while several
were handed to the app, `DrainKeepsSibling` a move that starts no replica and the roll
of a redeploy resumed after a crash,
`Converges` an app `Stranded` by a changed configuration, containers without a row
(`Astray`) and a port that one of them holds (`Blocked`), `RedeployWhole` a
container that an overlapping health check recreated, `NoVolumeForgotten` the
volumes in `lost`, `DoneIsWhole` a volume deleted meanwhile, a deploy over a container
that still ran, a container whose removal failed unnoticed (`stray`) and a move misled by a
replica row of its target, `RollbackServes` a
container that the inline removal (`soft`) or an unnoticed failure left, `OwnedVolumeKept` an adoption that overlaps the deletion,
`DeletionEnds` a volume that is gone or whose driver was forgotten, `Homed` a
host path with files of its own, `GatedLevels` and `DoneIsDesired` a member whose
child was cancelled, that is to be deleted, or that a stray child of a failed or cancelled
parent touches (and both speak of what was delivered, not of the member's health), `TornDown` the members whose removal was fenced, `WritesKept`,
`Readable` and `ServesAgain` scripts that overlapped, and a file left beside the
restored ones (`mixed`), the last two also a failure
the script has no answer to (`bereft`), `Wired` two `nft` commands that crossed, a server that
is unavailable, and for the names a proxy that is `Stuck` and a pass that is `Starved` (without any of
these the run fails). Each is described below.

## Where the code differs from its comments

With a run:

1. `cancel` - a running row is pending again after a restart; cancelling it then
   is a plain queue removal and its side effects stay
   (`server/routes/operations.ts:340-341` says pending rows have none).
2. `teardown` - `runOperation` fences a `destroy_app` child when any newer row shares
   the key of its parent's stack (`step-runner.ts:72`): a second DELETE, or any
   operation a user starts on a member, which locks the stack too. The fenced
   children end as cancelled, `awaitChildren` does not count that as a failure,
   the stack row is deleted, and the apps run on with the id of no stack
   (`server/routes/confirmations.ts:77` announces the stack "and all N app(s)").

Met while modelling, without a run of their own (engine):

- A retried `compensation_failed` row keeps its attempt count and is given up at
  once, without a pass (`server/routes/operations.ts:370-371`).
- Finalize tests the lock before it awaits the request body; a row that starts
  meanwhile is finalized while it executes (`server/routes/operations.ts:404`).
- The tick looks at the oldest `2 * ENGINE_CONCURRENCY` pending rows; that many
  member operations waiting for the key of a parked stack hide the stack's own
  children, and the stack never resumes (`engine/ops/_children.ts:53-54` says
  that it must not).
- A child cancelled on its own does not fail its level, so the stack goes on
  without the member (`engine/ops/deploy-stack.ts:438`).
- A deploy holds `app:create:<name>`, a redeploy of the app it created
  `app:<id>`; both may run, and the fence, looked at before each compensation
  only, misses a redeploy that starts during one (`step-runner.ts:239-242`). The
  compensation in hand then removes the row or the container under the redeploy; the
  next one is fenced. `RollbackYieldsToNewer` states just that much.

Builds, deliveries and CI:

- The command that starts the CI service goes on when its SSH call fails or the
  controller dies (`ci-runner.ts:236`); the next sync releases the host before
  the service is active, and a build is admitted next to a CI job
  (`shared/db/ci-runners.ts:40` says that cannot be). A chain of failures before
  `registered_at` is written leaves a reserved host with no deadline.
- `finish` tests the freshness of a delivery before it awaits a cleanup and then
  writes `last_delivery_id`, also over a newer one (`webhook-build-source.ts:420`).
- An operation that fails in `prepare` or is cancelled while pending leaves its
  delivery queued, and later releases are refused as "still active"
  (`server/routes/build-workers.ts:163-166`).
- The idempotency key is per commit and `event_at` the commit's date: a push back
  to an earlier commit is a duplicate or stale. A crash between enqueue and attach
  makes GitHub's redelivery a duplicate of nothing.
- The fence of `webhook_build_source` compares with `last_delivery_id` and passes
  when that is empty (`webhook-build-source.ts:64`). Two pushes each cut by a crash
  before the id is written leave it empty; when the newer one's operation has
  brought its commit and is cancelled before it writes the id, a retry of the
  older one passes the fence and brings the old commit back.

Replicas:

- Nothing looks at the exit code of a `docker rm` (`scale/scale-down.ts:42-44`: `sshExec`
  returns it and does not throw). The row goes while the container runs on; the
  next replica on that server is given its port, cannot start, and the convergence tries
  for ever (`Blocked`).
- A crash between `applyAppConfig` and the record of its step makes the resumed step
  raise the revision a second time; the replicas were started with the first, the last
  health check finds them divergent, and the redeploy is rolled back (`again`).
- A compensation that is tried again restores the container of the restore point,
  under its old name and port, on the server of whatever replica is first by then
  (`redeploy.ts:222-228`): another one when a convergence removed or added replicas
  meanwhile, and the container then has no row.
- A health check that began before a removal recreates the container of the row that is
  gone (`health.ts:125-142`).
- The restore point of a redeploy takes its image from the configuration
  (`redeploy.ts:169`). A redeploy that failed its last health check has committed
  its configuration already; the next redeploy that fails then replaces the good
  container by the failed image.
- `health.ts:84` says an operation in flight is never fought; the lock is looked at
  once, before a restart and a recreation that go on under whatever began.
- The attestation sets an exact but unhealthy replica `running`
  (`shared/db/replicas.ts:97-100`), and a move counts every row on the target as
  started, also what is attesting or unhealthy since a failed or interrupted one
  (`move.ts:141`): a serving replica is then drained without another one. A resumed roll starts at the first replica
  again while a later one drains.
- The placement is part of the configuration revision, so after a move (and after
  a redeploy that failed late) a replica with a failed attestation is attested by
  nobody until the next rollout (`app-runtime-reconciler.ts:73`).
- A reload goes on after a replica that did not come back and ignores failures of
  the ingress (`deploy/lifecycle.ts:197-232`); one failed inspection over SSH marks
  a sound replica divergent; a redeploy refused for lack of disk space restores
  the running container (`redeploy.ts:132`).

Volumes:

- The comment at `ops/deploy.ts:678-681` has "a genuine failure to remove the container
  PROPAGATE"; `removeContainer` ends in `|| true`, and its exit code, 255 when ssh does not
  answer, is looked at by nobody. A deploy ends as compensated with its container running,
  and a destruction deletes the row over one. The directory beside it is
  checked (`destroy-app.ts:59-62`).
- A move takes an ssh that does not answer for a source container that is gone, ignores a
  failing stop and removal, and notes the source as destroyed (`migrate.ts:197-208`): it may
  report done while the source container still writes.
- The rollback of a move re-attaches the volume to the source and starts the
  container there without mounting it (`migrate.ts:378`); the container writes to
  the bare directory, over which the reconciler then refuses to bind the volume.
- A remount stores an empty `volume_driver` (`remount-volume.ts:54`,
  `shared/db/apps.ts:518-527`); every later destruction of the app is refused in
  `delete_volume`, and the finalizer tries for ever.
- When the last ingress update of a move fails, the source row is gone already;
  the rollback gives the volume back to the source, and a retry reports done
  without a look at the volume (`move.ts:98-105`).
- A move rolled back after a crash may leave the replica row of its target; the
  next move takes it for a started replica (`migrate.ts:298`) and drops the source
  while nothing on the target writes to the volume.
- A deploy's probe adopts any running container of the name, also one that an
  earlier failed deploy could not remove (`deploy.ts:552`).
- An existing volume leaves the retained ones when a deploy or attach records it;
  if that is rolled back it is listed nowhere (`docs/volume-recovery.md:13` says
  retained volumes remain visible). A create call that fails after its effect,
  or crashes before its probe can answer, leaks the volume.
- A detach that unmounts cannot notice a failed unmount
  (`removeVolumeBindMount` never throws).
- Between the owner test and the deletion, neither the sweep nor the DELETE
  request hold a lock that an attach would need.
- The reconciler attaches a volume for an owner it read before it took the lock
  (`infrastructure-reconciler.ts:157-158`), also one detached meanwhile.

Stacks:

- `awaitChildren` looks at the rows of the children and never at the members again. A member
  that turns unhealthy after its deployment (`reconciler.ts:175-187`, `health.ts:105`) neither
  holds the next level back nor keeps the stack from being reported done: `GatedLevels` and
  `DoneIsDesired` say that the image of the member was recorded after its own health
  check, and no more.
- The single-flight test of `handleDeployStack` runs before it awaits the registry
  (`server/routes/stacks.ts:78`); two deployments of a stack may be enqueued.
- A member whose deletion was requested is redeployed and reported done, and the
  finalizer destroys it later (`deploy-stack.ts:371`).
- A parent that is pending again after a crash is cancelled as a queue removal; its
  children run on, and nobody waits for them.
- The removals of a deployment can be fenced as those of a destruction; the
  deployment then reports done with the dropped members still there.

Panel releases:

- A failing `docker inspect` counts as "no panel before" (`engine/deploy/panel.ts:486`): the panel is
  not stopped, so that the copy is taken under its writer and is worth nothing, and an image that
  never becomes healthy is left running with no way back (line 507).
- The `rm -f` of the database files is not checked (line 520): a log of the newer
  database may stay beside the restored one.
- The release is recorded as deployed before its script is dispatched, and no
  failed dispatch or pull and no rollback takes that back (the comment at
  `engine/deploy/panel.ts:651-652` says the row is rolled back "so the history
  doesn't lie"). The copy of the database holds the record too, so a webhook for
  the image answers that it is deployed already although it never ran.
- Nothing serialises releases. A second script may copy the database while the
  panel of the first one writes, or wipe it under that panel; `panel.ts:442` speaks
  of "the sole writer".
- A reboot amid the swap leaves the panel stopped or removed. So does a failing
  removal or start when the image is the one that ran before, or when there was
  none: the script then ends, "leaving it running".
- The health gate takes whoever answers on the port for the new container, and a
  panel that came up just after the last poll is discarded with its writes.

Internal traffic:

- A ruleset that failed leaves `natApplied` false. When the configuration then goes
  back to the ruleset applied before it, `syncNat` returns early for ever
  (`proxy/main.ts:47`) and `/status` says not ok (the comment at 41-44 says that the
  skip never absorbs a failure). After a restart of the panel this server counts as
  never ready and loses its names.
- Two commands may be in flight, from a reload and the timer. When the one that was
  started for the older configuration commits last, the kernel keeps its rules
  with `/status` ok until the next change.
- A restart of the panel empties `proxyEverReady`, and a pass over `/etc/hosts` that
  comes before the first converge writes an empty block over lines that worked
  (`proxy-manager.ts:451-455` says that they are kept).
- A unit that was written while its restart failed is found current by the next
  probe and never restarted (`proxy-manager.ts:426`).
- A probe without a status counts as ready (`proxy-manager.ts:474-477`), also for a
  proxy that waits for its first `nft`.
- The pass over `/etc/hosts` skips a server whose key is taken and does not wait, as
  the converge does for the starvation its comment describes
  (`proxy-manager.ts:496-499`); with timers of one period nothing but chance
  keeps the pass from meeting the converge each time. `Wired` therefore excuses the names, and
  only these, when the pass is `Starved`; without the excuse TLC finds the converge and the
  pass going round for ever in step.

## Fairness

`FairSpec` assumes weak fairness of the tick (a 400 ms loop that never stops, as
one action over all rows, because the tick decides which row starts), of each
suspended runner (every remote call has a transport timeout, so it returns or
throws), of a parent's enqueueing of its children (its own code), of
`LeaveSection` (a `finally` block) and of `Restart` (a supervisor). Users,
operators, the sweep and crashes are not fair, and which answer a call gives is
free; compensation passes are bounded, so a row whose calls always fail settles
as `compensation_failed`.

In `BuildLease`: weak fairness of the failover loop (it polls), of remote
commands, of jobs (`RuntimeMaxSec`), of the idle deadline, of the expiry of a
lease that nobody renews and of the restart; strong fairness of each call of the
reconciliation, which may fail any number of times and is tried again every 30
seconds. New builds, new jobs and the deadline of the waiting are not fair. In
`Replicas`: weak fairness of the workload tick and the ingress reconciler, which
are timers; strong fairness of the calls under the app's lock and of taking the
lock, because tick, reconciler and scheduler take turns on it and each retries.
In `Volumes`: weak fairness of the steps of an operation (calls return or time
out), of the finalizer and of the volume reconciler, which are periodic; strong
fairness of the start of an operation, since the tick tries it every 400 ms and
the reconciler holds its lock now and then. Failures are bounded in both, users
and crashes are not fair. In `PanelRelease`: weak fairness of a script's next
command, whose health gate polls a bounded number of times, and of a container's
boot, which the daemon repeats; requests, failures and reboots are not fair. In
`VipProxy`: weak fairness of the proxy's timers and boot (`Restart=always`), of
`nft` commands and SSH calls, and of the two timers of the panel; strong fairness
of the converge's lock, for which it waits ten seconds. Nothing is assumed of the
pass over `/etc/hosts` but that it runs: whether it finds the key free is open, and
`Wired` says what holds if it never does (`Starved`).

## Proofs

Every theorem holds for all values of the constants and rests on nothing but the
named assumptions of the modules (kinds have a step and rows a key, limits are
natural numbers, model values differ, there is at least one volume and one
request, the members of a stack and the apps are finitely many), which TLC
evaluates in the runs. No invariant below is inductive by itself; each section
says what had to be added, and TLC checked each strengthened invariant on the
instances of the runs before it was proved.

### The operation engine

`OpEngineProofs.tla` proves the type invariant, seven of the safety invariants
(`RolledBackClean` is the last), `SettledStays`, `NoOvertaking`,
`ImplementsSaga`, `DoneMeansDone` and `RollbackYieldsToNewer`. `Inv` adds to type correctness and `LockTable`:

- `RowOK` of every row: passes are bounded by attempts and by the policy, and a
  row that is absent, pending or running was never compensated;
- `RunnerOK` of every row with its runner: a forward runner's row is running (or
  was finalized underneath it), has no pass yet and has not completed the step in
  hand; an undoing one's row is compensating, was given up by the sweep or
  finalized, and the step in hand is completed and not yet undone;
- a running row of a live process has a runner, and only a live process has any.

Every stretch of the step runner ends in an `Outcome`: a good row, a good
runner, and the lock table with the keys released or kept. One lemma per
stretch shows that (`UndoBelowOutcome`, `ForwardAfterOutcome`, ...);
`OutcomeKeepsInv` carries an outcome to the invariant, whether the runner was
resumed or just started; `EditKeepsInv` does the same for the edits of rows
beside the runners (routes, sweep, children). `StepInv` has one case per action.
`NoOvertaking` follows from the order of the rows: the window of the tick holds
every pending row older than one that it holds (`WindowHasOlder`), and a row that
waits for the same keys cannot start before it. `LeastIsFirst` and `GreatestIsLast` justify the choice of the next step of a walk
for any set of steps. `SettledStep` proves the action property: a stretch of a
runner writes its own row only (`OnlyRow`), and whoever else edits rows leaves a
settled one alone.

`RolledBackClean` needs a second invariant, `Clean`, over the effects that exist
in the world. It says what a row, its runner and its effects owe one another
(`Owed`): only steps of the kind were completed; a fenced row has settled and
has no runner; until a row is finalized or while it has a runner, a step recorded
as undone is gone; an unfenced row reported compensated has every completed
compensable step recorded as undone; and a pass without a failure so far has
recorded every step above the one in hand. The last part carries the walk: when
nothing is left below, all of it was undone. The exception for finalized rows is
real: an operator may finalize a row whose fence wrote steps as undone that were
not. The lemmas follow those for `Inv`, one per stretch of the step
runner and one per action; `Inv` is assumed in each.

`ImplementsSaga` is proved step by step. What the two invariants do not say and the
mapping needs is `Walk`: the forward walk skipped no step, so that an advance to
`done` finds all of them completed, and the reverse walk stands at a step that can
be undone. A stretch of the runner `Lands` in a phase with some steps owed, and
there is one lemma per stretch again; each action is then a step of `Saga` or a
stutter, `Crash` and `FinalizeWrite` included. `DoneMeansDone` needs one more
invariant: what a forward walk recorded as completed exists in the world, as long
as no operator decided otherwise.

`RollbackYieldsToNewer` (`NewerIsYieldedTo`) needs no assumption on keys: whoever begins a
compensation has looked for newer rows in the same stretch, and no effect is removed but by a
compensation that was out (`Yields`). One lemma per stretch says so; the rows that link names and ids are those of the moment on both sides.

### Builds and CI runners

`BuildLeaseProofs.tla`, for any hosts, builds, targets and crashes.
`AdmissionExclusive` is inductive with the types, since both sides test the other
in one transaction. `WholeResult` needs `Counted`: what an attempt built never
exceeds what is recorded, and a build that is past its targets has all of them.
`FencedPublication` needs `Cast`: a build whose host was given away has no live
lease there, because a host is given away only when the lease is gone and a
lease is never given back to a build that keeps its host. That a build command
and a CI job never run on one host at once (`HostIsNotShared`) holds although
their admissions may overlap; it needs the lock of the host, its holder
(`CommandHolds`, `ServiceHolds`) and that a lock without a controller was left by
a build command only.

### Panel releases

`PanelReleaseProofs.tla`, for any images and schemas, releases, writes and
failures. `Phase` ties the place of a script to what it has made of panel,
database and copy, for a script that knows a previous image: from the copy to the
start of the new one the copy is the
database, from the health gate on it is what the previous image can open. A script whose
inspection failed knows none: it copies under a serving panel, its copy is worth nothing,
and the invariant says that it is never put back. While
one script works at a time (`Alone`) what was confirmed is in the database or in a
whole copy (`Kept`), and whoever serves can open the database. All of it
(`Orderly`) is under `~overlap` and `~mixed`, as the two properties are; `Formed` is what is left
when scripts overlapped or a file stayed beside the restored ones. TLC checked the invariant on
the 827,000 states of the run.

### Webhook deliveries

`WebhookDeliveryProofs.tla`, for any deliveries with any commits and dates, and any
number of operations and crashes. `RowsOrdered`: one recorded delivery is the
latest. `OwnerOK`: a delivery names the only operation that may still work for
it, or none, and then at most one exists, which gives `OneWorkPerDelivery` in spite
of the two writes of the handler with a crash between them. `ChildOK`: an operation begins when all earlier
ones are settled, so that children run in the order of the operations and the
app runs what the last of them brought; `DeployedIsLive` follows. `OrderOK`: along
that order deliveries only get newer, as long as the source named one whenever a
second one was handed over; `LiveMovesForward` follows.

### Volumes

`VolumesProofs.tla`, for any number of volumes, operations, failures and crashes.
`NoVolumeForgotten` speaks of the moments between operations, so the invariant has
to follow an operation through its plan: `OnPlan` (where a walk may stand), `Claims`
(what the row of the app names at each step, also after a failure in the middle of
one), `Undoing` (a created volume is to be undone or retained), and `Tracked`: only
the volume that an operation brings may be unaccounted for, and only while it
works. `OwnedVolumeKept` needs `Guarded`: whoever is about to delete a volume knows
of every operation on its way to adopt it. A step that is left halfway is treated
like one that succeeded: there is one lemma for each of `Do`, `Half` and `Undo` per
kind, and one for the inline rollback of a move.

`DoneIsWhole` and `RollbackServes` need a second invariant, `Firm`: what the steps
already taken have left at the provider and on the hosts, and what those still to
be undone account for. `Standing` says it for each place on each plan. A removal that nobody saw fail leaves the same promise, with a stray container beside it that
`Whole` names. `Brought`: a
volume is attached from "insert" on, mounted from "run" or "record" on, written to
from "serve" on, unless it was deleted meanwhile. `NotListed`, `Detaching`,
`Destroying` and `Moving` say the like of the other promises: a target that has a
replica row writes to the volume, and the source is stopped unless the move is still
to stop it. `Untouched` and `Undone` are for the way back: an operation on a live app
has left its container as the row says unless "record" or "remount" is still to be
taken back, a deploy has neither row nor container unless "insert" or "run" is.
`Ground` is what holds between operations (a volume that is named was created, one
that was not created is not listed, an app has a replica row). Each step is shown to
keep `Firm` and to keep the promise of the operation it ends (`Promised`); the other
actors are `Aloof`: a volume they do not delete keeps its place, its mount and its
writer. The proof corrected the model once: a move was thought to be misled only by
the replica row it had left itself, but TLC, with two volumes, found one that met a
row left by an earlier move of another volume. `served` now records whether a move
found its source as the only replica row.

### Stacks

`StackProofs.tla`, for any members, dependencies and requests and any number of
rows, cancel requests and crashes. `OneChildPerMember` speaks of the parent in
charge; the invariant `Once` says of all rows, whatever their status, that no two
would have one idempotency key, since a parent that crashed finds the children of
its earlier attempt. `Ids` says what an id is: the row that inserted the app, for
ever. An app that a removal or a plan names is therefore never inserted a second time
(`GoneForGood`), which the freshness of the ids in the database gives and the
names of members, which are used again, do not. `Walks`: one parent at a time is in charge,
by the key of the stack, and when a destruction has asked for its removals it
waits for one for each planned app that is still there; a crash empties what is
waited for and the parent asks again. With the children it waited for settled,
none failed and each that is done gone for good, only cancelled ones can be left
(`Ending`), and `TornDown` follows. That a sequence made of a set names each
member once (`SetAsSequence`) is proved from the definition of `SetToSeq`.

`GatedLevels` and `DoneIsDesired` say that what a level delivered is still there
several levels, removals and crashes later, whatever the health of the members. `PlanInvariance` proves `Desired` for
that, next to `Inv`:

- `Queue`: a parent that has begun comes before every other one that is still
  active, since the key of the stack serves them in the order of their rows and a
  crash leaves the order as it was;
- `ChildrenOK`: a child carries the request of its parent, and one that is not
  settled belongs to the parent that has begun, or is in `strays`;
- `AppsOK`: a member without an app has no trace of one, a removal that got as far as
  its host has marked the app, and a deploy that is about to serve still has its image;
- `Progress`: what the done children of the parent in charge deployed is safe, that
  is delivered with no child of it under way; so is all it selected that is not in a
  level ahead, and once it is past its levels, all of it. A parent that starts again
  after a crash sees the children it had and not its `walk`, so `Done` speaks of the
  rows and not of the levels;
- `Clearing`: each app that the manifest dropped has a removal the parent waits for
  and, when it finalizes, is gone but for those whose removal was cancelled.

Each action is shown to be `Orderly`: rows go on in their own form (`Onward`), an app
changes only by a child of its own or a removal (`AppMoves`), new rows are new parents
or children of the parent in charge. For the steps that are also `Calm`, as no deployment
goes on by them, `CalmKeeps` proves `Desired'` once; those that move a deployment
are treated one by one. TLC checked `Inv` and `Desired` on the 938,000 states of
the `stack` run.

The proof corrected the model twice. The excuse of both properties used to name only
children of cancelled parents: `Queue` and `ChildrenOK` did not give `Progress`, and TLC,
led through four requests and five mishaps, found a behaviour of 47 steps in which a restarted parent
*fails* while a child of its earlier attempt still runs, and that child takes the
image from under the next deployment. `strays` records those children. And `Start`
chose between two arms of a `CASE` that both held for a deployment at `deploy_apps`:
TLC takes the first, the prover could not choose, and the arms are disjoint now.

### Replicas

`ReplicasProofs.tla`, for any number of servers, any placements and any number of
operations, failing calls and crashes; the ids of replicas have no bound. `Inv` is
`World` (rows, containers and checks are well formed, names differ within the app and
ports on a server) and `Work`, one part for each thing the holder of the lock relies
on while others act beside him:

- `Adding`: the name and port a scale-up chose are still free when it inserts the row
  after the start and the probe, which is what `TypeOK` needs. A port above all taken
  is free, and of the numbers n+1..2n+1 the names of n replicas leave one.
- `Sparing`: for each running replica that a convergence is to remove it keeps a
  running one that was there when it began. `removalOrder` gives it for the surplus of a
  server, where at least one stays and those that run stay first; what is outside the
  placement goes only after `PlacementSatisfied`, so that a server of the placement
  has one. It lasts because a health check never takes a replica out of `running`
  while the lock is held, and because the rollback of a failed scale-up removes only
  rows that are not in `before`.
- `Moves`: a move that has started a replica runs it on the target, while it removes
  those of the source. `Rolls`: in a redeploy that no crash has interrupted another
  replica runs when one is taken out: for the primary the code asks for one, for the
  others the one before is back. `DrainKeepsSibling` follows from the three.
- `Verified`: the replicas the last health check has passed run, without an error, and
  their containers have the new image or were recreated; `RedeployWhole` follows.
- `Held`, `Listed` and `Resumes` tie the place of the holder to the operation row: who
  works is where his step lets him be, the replicas listed exist, and an
  operation without a holder that is past its first step was resumed.

One lemma per action shows that it keeps `Inv`; `Beside` serves all that is
done by others. The proof changed the property. `DrainKeepsSibling` once asked for a
sibling whose container answers, and excused every operation resumed after a crash.
That held in the run because of its bounds only: with a second operation, TLC finds a
move that counts what a failed one left on the target, starts nothing and drains the
source; and nobody asks the container again when a replica is taken out. The property
now speaks of the rows, as the code does when it decides, holds a resumed move that
starts a replica to its promise, and excuses the move that starts none (described
above). TLC checked `Inv` on the 192,000 states of the run.
A redeploy that waits to be compensated again is no longer in charge of the rows, so
`RestorePrimary` has to keep `World` from whatever it finds (`Restores`, `Probed`).

### Internal traffic

`VipProxyProofs.tla`, for any apps, pools and commands in flight. The invariant has a
part for the panel (who works on the server holds its key; a converge that writes
has a rendered configuration), one for the process (its listeners have the current
backends or are absent) and `KernelOK` for the commands: the kernel has the rules of the
one that committed and is not reported yet, else of the last that was. Two early
conclusions of the code follow that no run states: a ruleset that `syncNat` skips
is in force (`SkippedIsInForce`, with commands reported in the order they committed
in), and the status, which compares two counts (`proxy/status.ts:30`), says ok only when
each app has its listener with its current backends (`OkIsBound`). TLC checked both
and the invariant on the 741,000 states of the run and, with two apps and one change, on 1.1 million.

### Model-checked only

Liveness is out of the prover's reach: `EventuallySettles`, `BuildsSettle`,
`HostNotStranded`, `Converges`, `DeletionEnds`, `Homed`, `ServesAgain` and `Wired`. All other
properties of the passing runs are stated by theorems.

## Not modelled

Hosts and providers (SSH, Docker, Hetzner, S3) are the side effects of steps; UI,
CLI, accounts, migrations, SDK packages and the rendering of proxy
configurations are presentation or data, which is most of the lines of the
repository. With `OCD_ENGINE=0` the server and the
engine are two processes and the lock table is not shared; the model has the one
process that `scheduler.ts` states. Panel protection is file and object-storage
I/O. Of the modelled parts these are left out: rollouts of one kind of change only
(`config_only`, `control`, `runtime`), `build_stack_delivery` and
`cascade_redeploy`, the first installation of the panel, the configuration of
Traefik and its cache of written content, and the data of a proxied connection.
Notifications, one connection of the TCP proxy and the one-shot rows are open, see
the plan.

## Plan

Done: `OpEngine`, `Saga` and the refinement, `BuildLease`, `WebhookDelivery`,
`Volumes`, `PanelRelease`, `Stack`, `Replicas` and `VipProxy` with their proofs.

1. Proofs. Every safety and action property of the passing runs is proved; liveness
   stays with TLC.
2. `Ingress`: the Traefik manager with its cache of content hashes, next to
   `VipProxy`. `OneShot`: confirmations, challenges, port claims.
   `ProxyConnection`: one connection of the TCP proxy. `Controllers`: the
   single-flight guard.
