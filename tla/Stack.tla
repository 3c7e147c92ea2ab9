------------------------------- MODULE Stack -------------------------------
(***************************************************************************)
(* One stack of apps: the operations deploy_stack and destroy_stack, the   *)
(* child operations they enqueue level by level and wait for, and the      *)
(* finalizer that takes interrupted deletions up again.                    *)
(*                                                                         *)
(* The engine is taken as Saga promises it: one operation at a time under  *)
(* a key, a crash makes running rows pending and forgets where a parent    *)
(* stood inside its step.  A child is one operation with the few moments   *)
(* at which it changes what its parent looks at; apply_manifest and its    *)
(* redeploy are one.  The id of an app or a stack is the row that inserted *)
(* it.  handleDeployStack looks for a deployment in flight and awaits the  *)
(* registry before it enqueues: that test may be as old as one likes, so   *)
(* it excludes nothing here.                                               *)
(***************************************************************************)
EXTENDS Integers, Sequences, FiniteSets, SequencesExt

CONSTANTS
  Members,      \* the app keys of the manifests
  Needs,        \* the dependencies of each, declared or read from its environment
  Requests,     \* what users may ask to deploy, a sequence
  NoMember,     \* stands for the member of a row about the whole stack
  MaxRequests,  \* bound: rows that users submit
  MaxMishaps    \* bound: failing steps, cancel requests, restarts of the controller, and
                \* members whose replicas turn unhealthy

Request == [apps : SUBSET Members, selected : SUBSET Members, partial : BOOLEAN, image : Nat \ {0}]

ASSUME StackAssumption ==
  /\ IsFiniteSet(Members) /\ NoMember \notin Members
  /\ Needs \in [Members -> SUBSET Members]
  /\ Requests \in Seq(Request) /\ Requests # <<>>
  /\ \A r \in DOMAIN Requests :
       /\ Requests[r].selected \subseteq Requests[r].apps
       /\ \A m \in Requests[r].apps : Needs[m] \subseteq Requests[r].apps
  /\ MaxRequests \in Nat /\ MaxMishaps \in Nat

VARIABLES
  stack,   \* the id of the row of the stack, 0 without one
  apps,    \* member -> its app row: id, 0 without one, the stack it names, image of
           \* the configuration, image of the last recorded deployment, status,
           \* and doomed: deletion_requested_at is set
  ops,     \* the operations table
  walk,    \* where the parent in flight stands inside its step: levels ahead, the
           \* level it is at, the members of it to look at, the children it waits for
  strays,  \* history: the children that were not settled when their parent was
  requests, mishaps

bounds == <<strays, requests, mishaps>>
vars == <<stack, apps, ops, walk, bounds>>

NoApp == [id |-> 0, stack |-> 0, image |-> 0, deployed |-> 0, status |-> "gone", doomed |-> FALSE]
Nowhere == [left |-> {}, level |-> {}, todo |-> {}, wait |-> {}, asked |-> FALSE]

-----------------------------------------------------------------------------
(* Rows and their keys *)

Parents == {"deploy_stack", "destroy_stack"}
Settled == {"done", "failed", "cancelled"}

\* at: the step it runs next; app and stack: those it is about, or inserted;
\* out: the apps a destruction planned to remove.
Row(kind, parent, at) ==
  [kind |-> kind, parent |-> parent, at |-> at, status |-> "pending", cancel |-> FALSE,
   member |-> NoMember, app |-> 0, stack |-> 0, req |-> 0, out |-> {}]

Want(i) == Requests[ops[i].req]
Active(i) == ops[i].status \in {"pending", "running"}
Children(p) == {i \in DOMAIN ops : ops[i].parent = p}
Orphaned(p) == {c \in Children(p) : Active(c)}
Deploying(p, m) == {c \in Children(p) : ops[c].kind \in {"deploy", "apply"} /\ ops[c].member = m}
Removing(p, id) == {c \in Children(p) : ops[c].kind = "destroy_app" /\ ops[c].app = id}

Exists(m) == apps[m].id # 0
Named(id) == {m \in Members : Exists(m) /\ apps[m].id = id}
There(i) == Named(ops[i].app) # {}
InStack(s) == {m \in Members : Exists(m) /\ apps[m].stack = s}

\* What a user starts on a member locks its stack too; a child does not.
Keys(i) ==
  LET o == ops[i] IN
  CASE o.kind \in Parents      -> {<<"stack", 0>>}
    [] o.kind = "restart_app"  -> {<<"stack", 0>>, <<"app", o.app>>}
    [] o.kind = "deploy"       -> {<<"create", o.member>>}
    [] OTHER                   -> {<<"app", o.app>>}

Contend(i, j) == Keys(i) \cap Keys(j) # {}
Blocked(i) == \E j \in DOMAIN ops : ops[j].status = "running" /\ Contend(i, j)

\* The tick takes the pending rows in order and starts those whose keys are free.
MayStart(i) ==
  /\ ops[i].status = "pending" /\ ~Blocked(i)
  /\ \A j \in 1..(i - 1) : ops[j].status = "pending" /\ Contend(i, j) => Blocked(j)

\* findSupersedingOperation for a parent: any newer row that names the stack,
\* were it only to lock it.
Superseded(p) == \E j \in DOMAIN ops : j > p /\ ops[j].kind \in Parents \union {"restart_app"}

\* The app identities of a row as the tables name them now, and the newer row
\* that shares one.
Claims(i) ==
  LET o == ops[i] IN
  CASE o.kind \in Parents -> {}
    [] o.kind = "deploy"  -> {<<"create", o.member>>}
                             \union {<<"app", apps[m].id>> : m \in {n \in Members : n = o.member /\ Exists(n)}}
    [] OTHER              -> {<<"app", o.app>>} \union {<<"create", m>> : m \in Named(o.app)}
Adopted(i) == \E j \in DOMAIN ops : j > i /\ Claims(i) \intersect Claims(j) # {}

-----------------------------------------------------------------------------
(* The plan of a deployment *)

\* selectedApps: with a selected app, all that it needs.
Selected(r) ==
  {m \in r.apps : \A S \in SUBSET r.apps :
     (r.selected \subseteq S /\ \A n \in S : Needs[n] \subseteq S) => m \in S}

\* topoLevels, one level at a time.
NextLevel(rest) == {m \in rest : Needs[m] \intersect rest = {}}

\* Faulty variant of AtLevel: the order of the levels is forgotten.
AtLevelUnordered(rest) ==
  [Nowhere EXCEPT !.left = rest \ NextLevel(rest), !.level = NextLevel(rest), !.todo = rest]

AtLevel(rest) ==
  [Nowhere EXCEPT !.left = rest \ NextLevel(rest), !.level = NextLevel(rest), !.todo = NextLevel(rest)]

\* stackAppAlreadyConverged, and no difference in the configuration.
Converged(m, r) ==
  apps[m].status = "running" /\ apps[m].deployed = r.image /\ apps[m].image = r.image

-----------------------------------------------------------------------------
(* The start and the end of a row *)

With(i, row) == ops' = [ops EXCEPT ![i] = row]
At(i, step) == [ops[i] EXCEPT !.at = step]
Ended(i, status) == [ops[i] EXCEPT !.status = status]
Rolled(i) == Ended(i, IF ops[i].cancel THEN "cancelled" ELSE "failed")
Runs(i, kind) == ops[i].status = "running" /\ ops[i].kind = kind
IsRunning(i, kind, step) == Runs(i, kind) /\ ops[i].at = step

\* A resumed deploy_stack goes through its levels from the first one.
Start(i) ==
  /\ MayStart(i)
  /\ IF ops[i].kind = "destroy_app" /\ ops[i].parent # 0 /\ Superseded(ops[i].parent)
       THEN With(i, Ended(i, "cancelled")) /\ UNCHANGED walk
       ELSE /\ With(i, Ended(i, "running"))
            /\ walk' = CASE ops[i].kind \notin Parents -> walk
                         [] ops[i].kind = "deploy_stack" /\ ops[i].at = "deploy_apps" -> AtLevel(Selected(Want(i)))
                         [] OTHER -> Nowhere
  /\ UNCHANGED <<stack, apps, bounds>>

\* The step throws, or finds the cancel request before it begins, and the plan
\* is compensated: what the children did stays.
FailParent(i) ==
  /\ With(i, Rolled(i))
  /\ walk' = Nowhere /\ strays' = strays \union Orphaned(i)
  /\ UNCHANGED <<stack, apps, requests, mishaps>>

\* awaitChildren
AllSettled == \A c \in walk.wait : ops[c].status \in Settled
Waiting(i) == ops[i].status = "running" /\ ops[i].kind \in Parents /\ walk.todo = {} /\ walk.wait # {}

\* Faulty variant of Passed: a failed child counts as settled.
PassedSettled(i) == AllSettled /\ (ops[i].cancel => walk.wait = {})

Passed(i) ==
  /\ \A c \in walk.wait : ops[c].status \in {"done", "cancelled"}
  /\ ops[i].cancel => walk.wait = {}

AwaitFails(i) ==
  /\ Waiting(i) /\ AllSettled
  /\ ops[i].cancel \/ \E c \in walk.wait : ops[c].status = "failed"
  /\ FailParent(i)

CancelRow(o) ==
  CASE o.status = "pending" -> [o EXCEPT !.status = "cancelled"]
    [] o.status = "running" -> [o EXCEPT !.cancel = TRUE]
    [] OTHER -> o

AwaitCancels(i) ==
  /\ Waiting(i) /\ ops[i].cancel
  /\ \E c \in walk.wait : CancelRow(ops[c]) # ops[c]
  /\ ops' = [j \in DOMAIN ops |-> IF j \in walk.wait THEN CancelRow(ops[j]) ELSE ops[j]]
  /\ UNCHANGED <<stack, apps, walk, bounds>>

-----------------------------------------------------------------------------
(* deploy_stack *)

PlanStack(i) ==
  /\ IsRunning(i, "deploy_stack", "plan") /\ ~ops[i].cancel
  /\ stack' = IF stack = 0 THEN i ELSE stack
  /\ With(i, [At(i, "deploy_apps") EXCEPT !.stack = stack'])
  /\ walk' = AtLevel(Selected(Want(i)))
  /\ UNCHANGED <<apps, bounds>>

ChildRow(i, m) ==
  IF Exists(m)
    THEN [Row("apply", i, "redeploy") EXCEPT !.member = m, !.app = apps[m].id, !.req = ops[i].req]
    ELSE [Row("deploy", i, "insert") EXCEPT
            !.member = m, !.req = ops[i].req, !.stack = ops[i].stack]

\* Faulty variant of DeployMember: the children of an earlier attempt are not
\* looked up.
DeployMemberAgain(i, m) ==
  /\ IsRunning(i, "deploy_stack", "deploy_apps") /\ m \in walk.todo
  /\ IF Converged(m, Want(i))
       THEN walk' = [walk EXCEPT !.todo = @ \ {m}] /\ UNCHANGED ops
       ELSE /\ ops' = Append(ops, ChildRow(i, m))
            /\ walk' = [walk EXCEPT !.todo = @ \ {m}, !.wait = @ \union {Len(ops) + 1}]
  /\ UNCHANGED <<stack, apps, bounds>>

\* One member of the level: its child of an earlier attempt, none, or a new one.
DeployMember(i, m) ==
  /\ IsRunning(i, "deploy_stack", "deploy_apps") /\ m \in walk.todo
  /\ \/ /\ Deploying(i, m) # {}
        /\ walk' = [walk EXCEPT !.todo = @ \ {m}, !.wait = @ \union Deploying(i, m)]
        /\ UNCHANGED ops
     \/ /\ Deploying(i, m) = {} /\ Converged(m, Want(i))
        /\ walk' = [walk EXCEPT !.todo = @ \ {m}]
        /\ UNCHANGED ops
     \/ /\ Deploying(i, m) = {} /\ ~Converged(m, Want(i))
        /\ ops' = Append(ops, ChildRow(i, m))
        /\ walk' = [walk EXCEPT !.todo = @ \ {m}, !.wait = @ \union {Len(ops) + 1}]
  /\ UNCHANGED <<stack, apps, bounds>>

\* The gate: its apps are the stack's, and the next level begins.
PassLevel(i) ==
  /\ IsRunning(i, "deploy_stack", "deploy_apps") /\ walk.todo = {} /\ Passed(i)
  /\ apps' = [m \in Members |-> IF m \in walk.level /\ Exists(m)
                 THEN [apps[m] EXCEPT !.stack = ops[i].stack] ELSE apps[m]]
  /\ IF walk.left # {}
       THEN walk' = AtLevel(walk.left) /\ UNCHANGED ops
       ELSE walk' = Nowhere /\ With(i, At(i, "reconcile_removals"))
  /\ UNCHANGED <<stack, bounds>>

RemovalRow(i, m) == [Row("destroy_app", i, "mark") EXCEPT !.member = m, !.app = apps[m].id]

Removals(i, M, earlier) ==
  LET fresh == SetToSeq({m \in M : Removing(i, apps[m].id) = {}}) IN
  /\ ops' = ops \o [k \in DOMAIN fresh |-> RemovalRow(i, fresh[k])]
  /\ walk' = [Nowhere EXCEPT !.asked = TRUE,
                !.wait = earlier \union (Len(ops) + 1)..(Len(ops) + Len(fresh))]

Undeclared(i) == IF Want(i).partial THEN {} ELSE InStack(ops[i].stack) \ Want(i).apps

\* Faulty variant of ReconcileRemovals: every removal passes for disabled.
ReconcileNothing(i) ==
  /\ IsRunning(i, "deploy_stack", "reconcile_removals") /\ ~walk.asked /\ ~ops[i].cancel
  /\ Removals(i, {}, {})
  /\ UNCHANGED <<stack, apps, bounds>>

ReconcileRemovals(i) ==
  /\ IsRunning(i, "deploy_stack", "reconcile_removals") /\ ~walk.asked /\ ~ops[i].cancel
  /\ Removals(i, Undeclared(i), UNION {Removing(i, apps[m].id) : m \in Undeclared(i)})
  /\ UNCHANGED <<stack, apps, bounds>>

PassRemovals(i) ==
  /\ IsRunning(i, "deploy_stack", "reconcile_removals") /\ walk.asked /\ Passed(i)
  /\ With(i, At(i, "finalize")) /\ walk' = Nowhere
  /\ UNCHANGED <<stack, apps, bounds>>

FinalizeStack(i) ==
  /\ IsRunning(i, "deploy_stack", "finalize") /\ ~ops[i].cancel
  /\ With(i, Ended(i, "done")) /\ walk' = Nowhere
  /\ UNCHANGED <<stack, apps, bounds>>

\* A cancel request is seen between two steps.
CancelSeen(i) ==
  /\ ops[i].status = "running" /\ ops[i].cancel /\ ~walk.asked
  /\ \/ ops[i].kind = "deploy_stack" /\ ops[i].at \in {"plan", "reconcile_removals", "finalize"}
     \/ ops[i].kind = "destroy_stack"
  /\ FailParent(i)

-----------------------------------------------------------------------------
(* destroy_stack *)

PlanDestroy(i) ==
  /\ IsRunning(i, "destroy_stack", "plan_destroy") /\ ~ops[i].cancel
  /\ IF stack = ops[i].stack
       THEN /\ With(i, [At(i, "destroy_members") EXCEPT !.out = {apps[m].id : m \in InStack(stack)}])
            /\ UNCHANGED <<stack, apps, walk, bounds>>
       ELSE FailParent(i)

\* A planned member that is gone is asked for all the same: the model leaves
\* that child out, it would do nothing.
DestroyMembers(i) ==
  /\ IsRunning(i, "destroy_stack", "destroy_members") /\ ~walk.asked /\ ~ops[i].cancel
  /\ Removals(i, {m \in Members : Exists(m) /\ apps[m].id \in ops[i].out}, Children(i))
  /\ UNCHANGED <<stack, apps, bounds>>

PassMembers(i) ==
  /\ IsRunning(i, "destroy_stack", "destroy_members") /\ walk.asked /\ Passed(i)
  /\ With(i, At(i, "delete_stack_row")) /\ walk' = Nowhere
  /\ UNCHANGED <<stack, apps, bounds>>

DeleteStackRow(i) ==
  /\ IsRunning(i, "destroy_stack", "delete_stack_row") /\ ~ops[i].cancel
  /\ stack' = IF stack = ops[i].stack THEN 0 ELSE stack
  /\ With(i, Ended(i, "done")) /\ walk' = Nowhere
  /\ UNCHANGED <<apps, bounds>>

-----------------------------------------------------------------------------
(* deploy: a member that has no app yet *)

\* Its place, the look at the name and the app row, under the key of the name.
InsertApp(i) ==
  LET m == ops[i].member IN
  /\ IsRunning(i, "deploy", "insert") /\ ~ops[i].cancel /\ ~Exists(m)
  /\ apps' = [apps EXCEPT ![m] = [NoApp EXCEPT !.id = i, !.stack = ops[i].stack,
                                    !.image = Want(i).image, !.status = "deploying"]]
  /\ With(i, [At(i, "serve") EXCEPT !.app = i])
  /\ UNCHANGED <<stack, walk, bounds>>

ServeApp(i) ==
  LET m == ops[i].member IN
  /\ IsRunning(i, "deploy", "serve") /\ There(i)
  /\ apps' = [apps EXCEPT ![m].status = "running", ![m].deployed = Want(i).image]
  /\ With(i, Ended(i, "done"))
  /\ UNCHANGED <<stack, walk, bounds>>

\* What a deployment gives up: its app row, unless a newer row claims the app.
GiveUp(i) ==
  /\ With(i, Rolled(i))
  /\ apps' = IF Adopted(i) THEN apps
             ELSE [m \in Members |-> IF m \in Named(ops[i].app) THEN NoApp ELSE apps[m]]
  /\ UNCHANGED <<stack, walk>>

NameTaken(i) ==
  /\ IsRunning(i, "deploy", "insert") /\ Exists(ops[i].member)
  /\ GiveUp(i) /\ UNCHANGED bounds

AppGone(i) ==
  /\ IsRunning(i, "deploy", "serve") /\ ~There(i)
  /\ GiveUp(i) /\ UNCHANGED bounds

CancelDeploy(i) ==
  /\ Runs(i, "deploy") /\ ops[i].cancel
  /\ GiveUp(i) /\ UNCHANGED bounds

DeployFails(i) ==
  /\ Runs(i, "deploy") /\ mishaps < MaxMishaps
  /\ GiveUp(i)
  /\ mishaps' = mishaps + 1 /\ UNCHANGED <<strays, requests>>

-----------------------------------------------------------------------------
(* apply_manifest and its redeploy: a member that has an app *)

StartRedeploy(i) ==
  LET m == ops[i].member IN
  /\ IsRunning(i, "apply", "redeploy") /\ There(i) /\ ~ops[i].cancel
  /\ apps' = [apps EXCEPT ![m].status = "deploying"]
  /\ With(i, At(i, "serve"))
  /\ UNCHANGED <<stack, walk, bounds>>

\* It commits the configuration, passes the health check and records the deployment.
Redeployed(i) ==
  LET m == ops[i].member IN
  /\ IsRunning(i, "apply", "serve") /\ There(i)
  /\ apps' = [apps EXCEPT ![m].image = Want(i).image, ![m].deployed = Want(i).image,
                          ![m].status = "running"]
  /\ With(i, Ended(i, "done"))
  /\ UNCHANGED <<stack, walk, bounds>>

\* The configuration may be committed by then, and the snapshot may come back
\* sick.  A newer row of the app leaves everything as it stands.
Unroll(i) ==
  LET m == ops[i].member IN
  /\ With(i, Rolled(i))
  /\ IF ops[i].at = "redeploy" \/ ~There(i) THEN UNCHANGED apps
       ELSE \E image \in {apps[m].image, Want(i).image}, status \in {"running", "unhealthy"} :
              apps' = [apps EXCEPT ![m].image = image,
                                   ![m].status = IF Adopted(i) THEN "deploying" ELSE status]
  /\ UNCHANGED <<stack, walk>>

NoSuchApp(i) ==
  /\ Runs(i, "apply") /\ ~There(i)
  /\ Unroll(i) /\ UNCHANGED bounds

CancelApply(i) ==
  /\ Runs(i, "apply") /\ ops[i].cancel
  /\ Unroll(i) /\ UNCHANGED bounds

ApplyFails(i) ==
  /\ Runs(i, "apply") /\ mishaps < MaxMishaps
  /\ Unroll(i)
  /\ mishaps' = mishaps + 1 /\ UNCHANGED <<strays, requests>>

-----------------------------------------------------------------------------
(* destroy_app, the finalizer that retries it, and a member operation *)

MarkDeleting(i) ==
  /\ IsRunning(i, "destroy_app", "mark") /\ ~ops[i].cancel
  /\ apps' = [m \in Members |-> IF m \in Named(ops[i].app)
                THEN [apps[m] EXCEPT !.doomed = TRUE, !.status = "destroying"] ELSE apps[m]]
  /\ With(i, At(i, "remove"))
  /\ UNCHANGED <<stack, walk, bounds>>

RemoveApp(i) ==
  /\ IsRunning(i, "destroy_app", "remove")
  /\ apps' = [m \in Members |-> IF m \in Named(ops[i].app) THEN NoApp ELSE apps[m]]
  /\ With(i, Ended(i, "done"))
  /\ UNCHANGED <<stack, walk, bounds>>

\* Faulty variant of CleanupFails: nobody asserts that the cleanup was complete.
CleanupFailsSilently(i) ==
  /\ IsRunning(i, "destroy_app", "remove") /\ There(i) /\ mishaps < MaxMishaps
  /\ apps' = [m \in Members |-> IF m \in Named(ops[i].app)
                THEN [apps[m] EXCEPT !.status = "cleanup_failed"] ELSE apps[m]]
  /\ With(i, Ended(i, "done"))
  /\ mishaps' = mishaps + 1 /\ UNCHANGED <<stack, walk, strays, requests>>

\* A container or a volume stays: the gate keeps the rows.
CleanupFails(i) ==
  /\ IsRunning(i, "destroy_app", "remove") /\ There(i) /\ mishaps < MaxMishaps
  /\ apps' = [m \in Members |-> IF m \in Named(ops[i].app)
                THEN [apps[m] EXCEPT !.status = "cleanup_failed"] ELSE apps[m]]
  /\ With(i, Rolled(i))
  /\ mishaps' = mishaps + 1 /\ UNCHANGED <<stack, walk, strays, requests>>

CancelDestroy(i) ==
  /\ Runs(i, "destroy_app") /\ ops[i].cancel
  /\ With(i, Ended(i, "cancelled"))
  /\ UNCHANGED <<stack, apps, walk, bounds>>

Finalize(m) ==
  /\ Exists(m) /\ apps[m].doomed
  /\ \A i \in DOMAIN ops : ops[i].status = "running" => <<"app", apps[m].id>> \notin Keys(i)
  /\ \A i \in DOMAIN ops : ops[i].kind = "destroy_app" /\ ops[i].app = apps[m].id => ~Active(i)
  /\ ops' = Append(ops, RemovalRow(0, m))
  /\ UNCHANGED <<stack, apps, walk, bounds>>

RestartMember(i) ==
  /\ Runs(i, "restart_app")
  /\ With(i, Ended(i, IF ops[i].cancel THEN "cancelled" ELSE "done"))
  /\ UNCHANGED <<stack, apps, walk, bounds>>

-----------------------------------------------------------------------------
(* Users, crashes, and the sweep *)

UserKinds == Parents \union {"restart_app"}

Submit(row) ==
  /\ requests < MaxRequests /\ requests' = requests + 1
  /\ ops' = Append(ops, row)
  /\ UNCHANGED <<stack, apps, walk, strays, mishaps>>

SubmitDeploy(r) == Submit([Row("deploy_stack", 0, "plan") EXCEPT !.req = r])
SubmitDestroy == stack # 0 /\ Submit([Row("destroy_stack", 0, "plan_destroy") EXCEPT !.stack = stack])
SubmitRestart(m) ==
  /\ stack # 0 /\ m \in InStack(stack)
  /\ Submit([Row("restart_app", 0, "restart") EXCEPT !.member = m, !.app = apps[m].id])

Cancel(i) ==
  /\ mishaps < MaxMishaps /\ CancelRow(ops[i]) # ops[i]
  /\ With(i, CancelRow(ops[i]))
  /\ strays' = IF ops[i].status = "pending" THEN strays \union Orphaned(i) ELSE strays
  /\ mishaps' = mishaps + 1 /\ UNCHANGED <<stack, apps, walk, requests>>

\* The engine on its way up queues again what was running; a cancel request stays.
Crash ==
  /\ mishaps < MaxMishaps /\ \E i \in DOMAIN ops : ops[i].status = "running"
  /\ ops' = [i \in DOMAIN ops |-> IF ops[i].status = "running" THEN Ended(i, "pending") ELSE ops[i]]
  /\ walk' = Nowhere
  /\ mishaps' = mishaps + 1 /\ UNCHANGED <<stack, apps, strays, requests>>

\* The reconciler makes the status of a member what its replicas are, whoever
\* holds the stack or the app.
Recovers(m) ==
  /\ Exists(m) /\ apps[m].status = "unhealthy"
  /\ apps' = [apps EXCEPT ![m].status = "running"]
  /\ UNCHANGED <<stack, ops, walk, bounds>>

Sickens(m) ==
  /\ Exists(m) /\ apps[m].status = "running" /\ mishaps < MaxMishaps
  /\ apps' = [apps EXCEPT ![m].status = "unhealthy"]
  /\ mishaps' = mishaps + 1 /\ UNCHANGED <<stack, ops, walk, strays, requests>>

\* Rows that hold the keys of the member's app or of its stack.
Busy(m) ==
  \E i \in DOMAIN ops : Active(i) /\
    Keys(i) \intersect {<<"app", apps[m].id>>, <<"create", m>>, <<"stack", 0>>} # {}

Healed ==
  [m \in Members |->
     IF /\ Exists(m) /\ apps[m].status = "deploying" /\ ~Busy(m)
        /\ apps[m].deployed # 0 /\ apps[m].deployed = apps[m].image
       THEN [apps[m] EXCEPT !.status = "running"] ELSE apps[m]]

Sweep ==
  /\ apps' = Healed /\ Healed # apps
  /\ UNCHANGED <<stack, ops, walk, bounds>>

-----------------------------------------------------------------------------

\* A stack that the first request deployed long ago.
Deployed ==
  <<[Row("deploy_stack", 0, "finalize") EXCEPT !.req = 1, !.stack = 1, !.status = "done"]>>
  \o [k \in 1..Cardinality(Requests[1].apps) |->
        [Row("deploy", 1, "serve") EXCEPT !.req = 1, !.stack = 1, !.app = k + 1,
           !.member = SetToSeq(Requests[1].apps)[k], !.status = "done"]]
Standing ==
  [m \in Members |-> LET rows == {i \in DOMAIN Deployed : Deployed[i].member = m} IN
     IF rows = {} THEN NoApp
     ELSE [id |-> CHOOSE i \in rows : TRUE, stack |-> 1, image |-> Requests[1].image,
           deployed |-> Requests[1].image, status |-> "running", doomed |-> FALSE]]

Init ==
  /\ \/ stack = 0 /\ ops = <<>> /\ apps = [m \in Members |-> NoApp]
     \/ stack = 1 /\ ops = Deployed /\ apps = Standing
  /\ walk = Nowhere /\ strays = {}
  /\ requests = 0 /\ mishaps = 0

ParentStep(i) ==
  \/ PlanStack(i) \/ PassLevel(i) \/ ReconcileRemovals(i) \/ PassRemovals(i) \/ FinalizeStack(i)
  \/ PlanDestroy(i) \/ DestroyMembers(i) \/ PassMembers(i) \/ DeleteStackRow(i)
  \/ \E m \in Members : DeployMember(i, m)
  \/ AwaitFails(i) \/ AwaitCancels(i) \/ CancelSeen(i)

ChildStep(i) ==
  \/ InsertApp(i) \/ ServeApp(i) \/ NameTaken(i) \/ AppGone(i) \/ CancelDeploy(i)
  \/ StartRedeploy(i) \/ Redeployed(i) \/ NoSuchApp(i) \/ CancelApply(i)
  \/ MarkDeleting(i) \/ RemoveApp(i) \/ CancelDestroy(i)
  \/ RestartMember(i)

ChildFails(i) == DeployFails(i) \/ ApplyFails(i) \/ CleanupFails(i)

Next ==
  \/ \E i \in DOMAIN ops : Start(i) \/ Cancel(i)
  \/ \E i \in DOMAIN ops : ops[i].status = "running" /\ (ParentStep(i) \/ ChildStep(i) \/ ChildFails(i))
  \/ \E m \in Members : Finalize(m) \/ Recovers(m) \/ Sickens(m) \/ SubmitRestart(m)
  \/ \E r \in DOMAIN Requests : SubmitDeploy(r)
  \/ SubmitDestroy \/ Crash \/ Sweep

Spec == Init /\ [][Next]_vars

-----------------------------------------------------------------------------
(* Properties *)

\* TypeOK: the rows and the tables keep their form, and the two ids of an app
\* and a stack name rows that inserted them.
TypeOK ==
  /\ stack \in 0..Len(ops)
  /\ \A m \in Members : apps[m].id \in 0..Len(ops) /\ (Exists(m) => ops[apps[m].id].member = m)
  /\ \A i \in DOMAIN ops :
       /\ ops[i].status \in Settled \union {"pending", "running"}
       /\ ops[i].parent \in 0..(i - 1)
  /\ walk.wait \subseteq DOMAIN ops /\ walk.todo \subseteq walk.level
  /\ requests \in 0..MaxRequests /\ mishaps \in 0..MaxMishaps

\* OneChildPerMember: however often a parent is taken up again, it deploys a
\* member once and removes an app once (the idempotency key of each child).
OneChildPerMember ==
  \A p \in {q \in DOMAIN ops : ops[q].status = "running" /\ ops[q].kind \in Parents}, m \in Members :
    /\ Cardinality(Deploying(p, m)) <= 1
    /\ Exists(m) => Cardinality(Removing(p, apps[m].id)) <= 1

\* A member runs what a request wants: a deployment of that image was recorded
\* after its health check, and nothing else was begun since.  It may have turned
\* unhealthy after that: awaitChildren does not look at a member again.
Delivered(m, r) ==
  apps[m].status \in {"running", "unhealthy"} /\ apps[m].deployed = r.image /\ apps[m].image = r.image

\* Or somebody was told to take it out of the way: its child was cancelled, the
\* app is to be deleted, or a parent that failed or was cancelled after a crash
\* left a child that nobody waits for.
Destroyed(m) == \E j \in DOMAIN ops : ops[j].kind = "destroy_app" /\ ops[j].member = m /\ ops[j].status = "done"
Stray(m) == \E c \in strays : ops[c].kind \in {"deploy", "apply"} /\ ops[c].member = m
Served(p, m) ==
  \/ Delivered(m, Want(p))
  \/ \E c \in Deploying(p, m) : ops[c].status = "cancelled"
  \/ apps[m].doomed
  \/ ~Exists(m) /\ Destroyed(m)
  \/ Stray(m)

\* GatedLevels: a member is deployed only when all it depends on in this
\* deployment runs the image the request wants ("Readiness gate").
GatedLevels ==
  [][\A c \in DOMAIN ops' \ DOMAIN ops :
       LET row == ops'[c] IN
       row.kind \in {"deploy", "apply"} =>
         \A d \in Needs[row.member] : Served(row.parent, d)]_vars

\* DoneIsDesired: a deployment that reports done has every selected member
\* running its image, and no app left that the manifest dropped.
DoneIsDesired ==
  [][\A p \in DOMAIN ops :
       ops[p].kind = "deploy_stack" /\ ops[p].status # "done" /\ ops'[p].status = "done" =>
         /\ \A m \in Selected(Want(p)) : Served(p, m)
         /\ \A m \in Undeclared(p) :
              Stray(m) \/ \E c \in Removing(p, apps[m].id) : ops[c].status = "cancelled"]_vars

\* TornDown: a destruction that reports done leaves no app it planned to remove
\* but those whose child was cancelled.
TornDown ==
  [][\A p \in DOMAIN ops :
       ops[p].kind = "destroy_stack" /\ ops[p].status # "done" /\ ops'[p].status = "done" =>
         \A m \in Members : Exists(m) /\ apps[m].id \in ops[p].out =>
           \E c \in Removing(p, apps[m].id) : ops[c].status = "cancelled"]_vars

\* DestroyTakesAll: "Destroy stack ... and all N app(s)" (confirmations.ts).
DestroyTakesAll ==
  [][\A p \in DOMAIN ops :
       ops[p].kind = "destroy_stack" /\ ops[p].status # "done" /\ ops'[p].status = "done" =>
         InStack(ops[p].stack) = {}]_vars

=============================================================================
