------------------------------ MODULE Volumes ------------------------------
(***************************************************************************)
(* The volume of one app with one replica: the app row, the volumes at the *)
(* provider and the host mounts, the retained volumes, the containers; the *)
(* operations that create, adopt, move, detach and retain a volume, step   *)
(* by step and back; and three actors that hold other locks or none: the   *)
(* reconciler of active volumes, the sweep of expired provisional volumes  *)
(* and the confirmed deletion by a user.                                   *)
(*                                                                         *)
(* An operation is the list of its steps that touch one of these (Plan).   *)
(* A step may take effect; fail before, halfway or after it; or be cut by  *)
(* a crash of the controller, after which it runs again.  A failure of     *)
(* docker rm goes unnoticed where the code ignores its exit code, and the  *)
(* container stays.  Failures are bounded by MaxFaults, except those the   *)
(* state itself causes (~CanDo).                                           *)
(* One operation is active at a time.                                      *)
(***************************************************************************)
EXTENDS Naturals, Sequences, FiniteSets

CONSTANTS
  NumVolumes,  \* volumes 1..NumVolumes; an operation creates the next one
  Kinds,       \* the operations submitted, see Plan
  MaxOps,      \* bound: operations submitted (retried deletions not counted)
  MaxFaults,   \* bound: calls that fail
  MaxCrashes   \* bound: crashes of the controller

Server == {1, 2}
Volume == 1..NumVolumes
NoVol == 0
Nowhere == 0

\* "deploy" creates a volume, "redeploy" deploys an app on an existing one;
\* "attach" creates one for a live app, "adopt" attaches an existing one.
Plan == [deploy   |-> <<"create", "insert", "bind", "run", "serve">>,
         redeploy |-> <<"adopt", "insert", "bind", "run", "serve">>,
         attach   |-> <<"create", "bind", "record", "recreate">>,
         adopt    |-> <<"take", "bind", "record", "recreate">>,
         detach   |-> <<"unbind", "release", "clear", "recreate", "assert">>,
         remount  |-> <<"remount", "recreate">>,
         destroy  |-> <<"mark", "remove", "release", "rows", "assert">>,
         move     |-> <<"stop", "off", "on", "mount", "start", "drop">>]
Steps == {"create", "adopt", "take", "insert", "bind", "run", "serve", "record", "recreate",
          "unbind", "release", "clear", "assert", "remount", "mark", "remove", "rows",
          "stop", "off", "on", "mount", "start", "drop"}
Compensable == {"create", "adopt", "take", "insert", "bind", "run", "record", "remount"}

ASSUME VolumesAssumption ==
  /\ Kinds \subseteq DOMAIN Plan
  /\ NumVolumes \in Nat \ {0}
  /\ {MaxOps, MaxFaults, MaxCrashes} \subseteq Nat

VARIABLES
  app,       \* the app row: volume_id, whether volume_driver is recorded,
             \* deletion_requested_at, the servers of its replica rows (on), the one of
             \* its placement (home)
  disk,      \* volume -> state at the provider, the server it is attached to,
             \* whether it is mounted there on the host path of the app
  retired,   \* retired_volumes: class of each volume's row, "expired" past its date
  host,      \* server -> its container: up, the volume it was started for, the one it
             \* writes to; the volumes whose host path has files written with no mount;
             \* stray: history, the code took the container for removed and it stayed
  op,        \* the last operation, see NoOp
  fix,       \* reconcileActiveVolumes: the owner it read and what it awaits
  eraser,    \* the sweep or a DELETE request; raced: history, an operation adopts
             \* the volume it is about to delete
  lost,      \* history: volumes the code itself gives up, see Abandoned
  opsDone, faults, crashes

world  == <<app, disk, retired, host>>
bounds == <<opsDone, faults, crashes>>
vars   == <<world, op, fix, eraser, lost, bounds>>

\* dir: forward, back over the completed steps (todo; left: those of this pass
\* still to try), "restore": the inline rollback of a move; or how it ended.
\* live: it holds its lock.  soft: a best-effort call failed, or the inline undo of a
\* failed step.  mine: its adoption attached the volume.  gone, moved, placed: what this
\* run of a move did.  served: history, the container ran as the row says (for no app:
\* none ran; for a move: its source was the only replica row) at submission.
NoOp == [kind |-> "none", dir |-> "done", step |-> "none", live |-> FALSE, vol |-> NoVol,
         from |-> 1, todo |-> {}, left |-> {}, soft |-> FALSE,
         mine |-> FALSE, gone |-> FALSE, moved |-> FALSE, placed |-> FALSE, served |-> TRUE]
NoApp == [row |-> FALSE, vol |-> NoVol, driver |-> TRUE, deleting |-> FALSE, on |-> {}, home |-> 1]
NoHost == [up |-> FALSE, want |-> NoVol, on |-> NoVol, dirty |-> {}, stray |-> FALSE]
NoFix == [pc |-> "idle", vol |-> NoVol, server |-> 1, driver |-> TRUE]
NoEraser == [pc |-> "idle", vol |-> NoVol, by |-> "sweep", raced |-> FALSE]
NoDisk == [state |-> "none", at |-> Nowhere, bound |-> FALSE]

Bringing == {"deploy", "redeploy", "attach", "adopt"}
Settled == {"done", "compensated", "failed"}
Active == op.dir \notin Settled

TypeOK ==
  /\ app \in [row : BOOLEAN, vol : Volume \union {NoVol}, driver : BOOLEAN,
              deleting : BOOLEAN, on : SUBSET Server, home : Server]
  /\ disk \in [Volume -> [state : {"none", "there", "gone"}, at : Server \union {Nowhere},
                          bound : BOOLEAN]]
  /\ retired \in [Volume -> {"no", "user", "provisional", "expired"}]
  /\ host \in [Server -> [up : BOOLEAN, want : Volume \union {NoVol},
                          on : Volume \union {NoVol}, dirty : SUBSET Volume,
                          stray : BOOLEAN]]
  /\ op \in [kind : DOMAIN Plan \union {"none"},
             dir : Settled \union {"forward", "back", "restore"},
             step : Steps \union {"none"}, live : BOOLEAN,
             vol : Volume \union {NoVol}, from : Server,
             todo : SUBSET Compensable, left : SUBSET Compensable, soft : BOOLEAN,
             mine : BOOLEAN, gone : BOOLEAN, moved : BOOLEAN, placed : BOOLEAN,
             served : BOOLEAN]
  /\ fix \in [pc : {"idle", "listed", "locked", "mounting"}, vol : Volume \union {NoVol},
              server : Server, driver : BOOLEAN]
  /\ eraser \in [pc : {"idle", "listed", "looked", "erasing"}, vol : Volume \union {NoVol},
                 by : {"sweep", "user"}, raced : BOOLEAN]
  /\ lost \in SUBSET Volume
  /\ opsDone \in 0..MaxOps /\ faults \in 0..MaxFaults /\ crashes \in 0..MaxCrashes
  /\ \A v \in Volume : disk[v].bound => disk[v].at # Nowhere
  /\ \A v \in Volume : disk[v].at # Nowhere => disk[v].state = "there"
  /\ op.left \subseteq op.todo /\ (op.live => Active)
  /\ ~app.row => app = NoApp

-----------------------------------------------------------------------------
(* What one call does to the world.                                        *)

There(v) == v # NoVol /\ disk[v].state = "there"
Retire(v, class) == retired' = [retired EXCEPT ![v] = class]

Plug(v, s) == disk' = [disk EXCEPT ![v].at = s] /\ UNCHANGED host
\* Mutant: the mount of a detached volume is kept.
UnplugMounted(v, state) ==
  /\ disk' = [disk EXCEPT ![v].state = state, ![v].at = Nowhere] /\ UNCHANGED host
\* A container loses the volume that is taken from under it.
Unplug(v, state) ==
  /\ disk' = [disk EXCEPT ![v] = [state |-> state, at |-> Nowhere, bound |-> FALSE]]
  /\ host' = [s \in Server |-> IF host[s].on = v THEN [host[s] EXCEPT !.on = NoVol] ELSE host[s]]
\* Nothing is mounted over files of another origin.
Bindable(v, s) == disk[v].at = s /\ (disk[v].bound \/ v \notin host[s].dirty)
Bind(v) == disk' = [disk EXCEPT ![v].bound = TRUE]
Unbind(v) == disk' = [disk EXCEPT ![v].bound = FALSE]

\* docker run -v: the container writes to what is mounted on the host path at that
\* moment, the disk of the host if nothing is.
Start(s, v) ==
  LET mounted == v # NoVol /\ disk[v].at = s /\ disk[v].bound
  IN host' = [host EXCEPT ![s] =
       [up |-> TRUE, want |-> v, on |-> IF mounted THEN v ELSE NoVol,
        dirty |-> @.dirty \union (IF mounted THEN {} ELSE {v} \ {NoVol}), stray |-> FALSE]]
Stop(S) == host' = [s \in Server |-> IF s \in S THEN [NoHost EXCEPT !.dirty = host[s].dirty]
                                     ELSE host[s]]

\* docker rm fails, and removeContainer ignores its exit code.
Stay(S) == host' = [s \in Server |-> IF s \in S THEN [host[s] EXCEPT !.stray = @ \/ host[s].up]
                                     ELSE host[s]]

Here == op.from                        \* the server of the replica
Target == 3 - op.from                  \* of a move
Vol == op.vol                          \* it brings, or the app's when it started

-----------------------------------------------------------------------------
(* The forward steps.                                                      *)

\* A probe finds the volume of an interrupted attempt by its name.
Create ==
  /\ op.step = "create"
  /\ disk' = [disk EXCEPT ![Vol].state = "there", ![Vol].at = Here]
  /\ UNCHANGED <<app, retired, host>>

Take == op.step \in {"adopt", "take"} /\ Plug(Vol, Here) /\ UNCHANGED <<app, retired>>

\* Mutant: an existing volume attached to a live app stays listed as retained.
OwnedByDeploy == retired' = IF op.kind = "redeploy" THEN [retired EXCEPT ![Vol] = "no"] ELSE retired
\* A volume with an owner leaves the retained ones.
Owned == retired' = IF op.kind \in {"redeploy", "adopt"}
                    THEN [retired EXCEPT ![Vol] = "no"] ELSE retired

Insert ==
  /\ op.step = "insert"
  /\ app' = [NoApp EXCEPT !.row = TRUE, !.vol = Vol, !.on = {Here}, !.home = Here]
  /\ Owned /\ UNCHANGED <<disk, host>>

Mount == op.step \in {"bind", "mount"} /\ Bind(Vol) /\ UNCHANGED <<app, retired, host>>

\* The probe adopts a container that runs.
Run ==
  /\ op.step = "run"
  /\ IF host[Here].up THEN UNCHANGED host ELSE Start(Here, Vol)
  /\ UNCHANGED <<app, disk, retired>>

Serve == op.step = "serve" /\ UNCHANGED world

Record ==
  /\ op.step = "record" /\ app' = [app EXCEPT !.vol = Vol, !.driver = TRUE]
  /\ Owned /\ UNCHANGED <<disk, host>>

Recreate == op.step = "recreate" /\ Start(Here, app.vol) /\ UNCHANGED <<app, disk, retired>>

RemoveMount == op.step = "unbind" /\ Unbind(Vol) /\ UNCHANGED <<app, retired, host>>

\* Detach and retain; nothing to do for an app without a volume.
Release ==
  /\ op.step = "release" /\ UNCHANGED app
  /\ IF Vol = NoVol THEN UNCHANGED <<disk, retired, host>>
     ELSE Unplug(Vol, "there") /\ Retire(Vol, "user")

Clear ==
  /\ op.step = "clear" /\ app' = [app EXCEPT !.vol = NoVol, !.driver = TRUE]
  /\ UNCHANGED <<disk, retired, host>>

\* updateAppVolume without a driver.
Remount ==
  /\ op.step = "remount" /\ app' = [app EXCEPT !.driver = FALSE]
  /\ UNCHANGED <<disk, retired, host>>

MarkDeleting ==
  /\ op.step = "mark" /\ app' = [app EXCEPT !.deleting = TRUE]
  /\ UNCHANGED <<disk, retired, host>>

RemoveContainers == op.step = "remove" /\ Stop(app.on) /\ UNCHANGED <<app, disk, retired>>

\* Mutant: the row goes even when a step failed.
RowsDeletedAnyway(complete) == app' = NoApp
\* The gate: the row stays as the anchor of a retry when a step failed.
RowsDeleted(complete) == app' = IF complete THEN NoApp ELSE app
DeleteRows == op.step = "rows" /\ RowsDeleted(~op.soft) /\ UNCHANGED <<disk, retired, host>>

Assert == op.step = "assert" /\ UNCHANGED world

StopSource == op.step = "stop" /\ Stop({op.from}) /\ UNCHANGED <<app, disk, retired>>

DetachSource ==
  /\ op.step = "off"
  /\ IF disk[Vol].at = op.from THEN Unplug(Vol, "there") ELSE UNCHANGED <<disk, host>>
  /\ UNCHANGED <<app, retired>>

AttachTarget == op.step = "on" /\ Plug(Vol, Target) /\ UNCHANGED <<app, retired>>

StartTarget ==
  /\ op.step = "start"
  /\ IF Target \in app.on THEN UNCHANGED <<app, host>>
     ELSE app' = [app EXCEPT !.on = @ \union {Target}] /\ Start(Target, Vol)
  /\ UNCHANGED <<disk, retired>>

Placed == app' = [app EXCEPT !.on = {Target}, !.home = Target]
DropSource == op.step = "drop" /\ Placed /\ UNCHANGED <<disk, retired, host>>

Do == Create \/ Take \/ Insert \/ Mount \/ Run \/ Serve \/ Record \/ Recreate \/ RemoveMount
        \/ Release \/ Clear \/ Remount \/ MarkDeleting \/ RemoveContainers \/ DeleteRows
        \/ Assert \/ StopSource \/ DetachSource \/ AttachTarget \/ StartTarget \/ DropSource

\* A step of several calls that is left between them: a released volume not yet
\* retained; a container removed and not started again; an app row taken back when
\* its bindings failed, after the retained row was dropped; a target container that
\* its replica's inline cleanup could not remove; a source row dropped when the ingress
\* cannot be written.
HalfReleased == op.step = "release" /\ Vol # NoVol /\ Unplug(Vol, "there") /\ UNCHANGED <<app, retired>>
HalfRecreated == op.step = "recreate" /\ Stop({Here}) /\ UNCHANGED <<app, disk, retired>>
HalfInserted == op.step = "insert" /\ ~app.row /\ Owned /\ UNCHANGED <<app, disk, host>>
HalfStarted == op.step = "start" /\ Target \notin app.on /\ Start(Target, Vol)
                 /\ UNCHANGED <<app, disk, retired>>
HalfDropped == op.step = "drop" /\ app' = [app EXCEPT !.on = {Target}]
                 /\ UNCHANGED <<disk, retired, host>>
Half == HalfReleased \/ HalfRecreated \/ HalfInserted \/ HalfStarted \/ HalfDropped

-----------------------------------------------------------------------------
(* What the steps refuse.                                                  *)

\* A resumed move whose source row is gone only records its placement.
Moved == op.step = "stop" /\ op.from \notin app.on
Reachable(v, s) == There(v) /\ disk[v].at \in {Nowhere, s}
CanDo ==
  CASE op.step \in {"adopt", "take"} -> Reachable(Vol, Here)
    [] op.step = "bind" -> Bindable(Vol, Here)
    [] op.step = "unbind" -> app.driver
    [] op.step = "release" -> Vol = NoVol \/ (app.driver /\ There(Vol))
    [] op.step = "assert" -> ~op.soft
    [] op.step = "stop" -> Moved \/ (app.driver /\ There(Vol))
    [] op.step = "on" -> Reachable(Vol, Target)
    [] op.step = "mount" -> Bindable(Vol, Target)
    [] OTHER -> TRUE

\* Best-effort steps record their failure and go on; a failed unmount is only logged.
Soft == op.step \in {"unbind", "remove"}
          \/ (op.step = "release" /\ op.kind = "destroy")
          \/ (op.step = "recreate" /\ op.kind = "detach")

\* Steps that call a host or the provider, and those that undo their own effect
\* when they fail, so that it stays only if two calls fail.
Remote == {"create", "adopt", "take", "bind", "run", "serve", "recreate", "unbind", "release",
           "remove", "stop", "off", "on", "mount", "start"}
Binds == op.step = "bind" /\ op.kind \in {"deploy", "redeploy"}
Inline == op.step \in {"take", "run"} \/ Binds
\* That undo also takes what an interrupted attempt left.
InlineUndo ==
  /\ IF op.step = "run" THEN Stop({Here}) ELSE UNCHANGED host
  /\ IF Binds THEN Unbind(Vol) ELSE UNCHANGED disk
  /\ UNCHANGED <<app, retired>>

Fails(n) == faults + n <= MaxFaults /\ faults' = faults + n

-----------------------------------------------------------------------------
(* The walk forward.                                                       *)

PlanOf == Plan[op.kind]
Index(step) == CHOOSE i \in DOMAIN PlanOf : PlanOf[i] = step
Skips == op.step = "off" /\ disk[Vol].at = Target        \* nothing to attach

End(o, dir) == [o EXCEPT !.dir = dir, !.live = FALSE]
Forward(o) == IF Moved \/ Index(op.step) = Len(PlanOf) THEN End(o, "done")
              ELSE [o EXCEPT !.step = PlanOf[Index(op.step) + IF Skips THEN 2 ELSE 1]]

\* Only completed steps are undone; a move undoes itself inline.
Backward(o) == IF o.kind = "move" THEN [o EXCEPT !.dir = "restore", !.step = "off"]
               ELSE IF o.todo = {} THEN End(o, "compensated")
               ELSE [o EXCEPT !.dir = "back", !.left = o.todo]
Failed == IF Soft THEN Forward([op EXCEPT !.soft = TRUE]) ELSE Backward(op)
Thrown == IF op.step = "unbind" THEN Forward(op) ELSE Failed

\* A volume that the operation in hand stops accounting for as it ends, or that a move
\* gives back to its source while the target keeps its replica row.
Unaccounted == op.step = "create" \/ op.kind \in {"redeploy", "adopt"}
Abandoned == IF op'.dir = "failed" \/ (op'.dir = "compensated" /\ Unaccounted)
                  \/ (op'.dir = "restore" /\ Target \in app'.on)
             THEN {op.vol} \ {NoVol} ELSE {}
Keep == lost' = lost \union Abandoned /\ UNCHANGED <<fix, eraser, opsDone, crashes>>

\* What a run has done is noted where the code sets its flags.
Noted == [op EXCEPT !.gone   = @ \/ op.step = "stop",
                    !.moved  = @ \/ op.step = "off",
                    !.placed = @ \/ Skips \/ op.step = "on",
                    !.mine   = IF op.step = "adopt" THEN disk[Vol].at = Nowhere ELSE @,
                    !.todo   = @ \union ({op.step} \intersect Compensable)]

StepOk ==
  /\ op.live /\ op.dir = "forward" /\ CanDo
  /\ IF Moved THEN Placed /\ UNCHANGED <<disk, retired, host>> ELSE Do
  /\ op' = Forward(Noted)
  /\ Keep /\ UNCHANGED faults

StepRefused ==
  /\ op.live /\ op.dir = "forward" /\ ~CanDo
  /\ op' = Failed
  /\ UNCHANGED <<world, faults>> /\ Keep

FailsBefore ==
  /\ op.live /\ op.dir = "forward" /\ CanDo /\ op.step \in Remote
  /\ Fails(IF op.step = "on" THEN 2 ELSE 1)
  /\ op' = Thrown
  /\ InlineUndo /\ Keep

\* The containers that a step takes for removed, whatever docker says.
Taken == IF op.step = "stop" THEN {op.from} ELSE app.on
Unheeded ==
  /\ op.live /\ op.dir = "forward" /\ CanDo /\ ~Moved /\ op.step \in {"stop", "remove"}
  /\ Fails(1)
  /\ Stay(Taken) /\ UNCHANGED <<app, disk, retired>>
  /\ op' = Forward(Noted)
  /\ Keep

FailsHalfway ==
  /\ op.live /\ op.dir = "forward" /\ CanDo /\ Half
  /\ Fails(IF op.step = "start" THEN 2 ELSE 1)
  /\ op' = Failed
  /\ Keep

FailsAfter ==
  /\ op.live /\ op.dir = "forward" /\ CanDo /\ op.step \in Remote \ {"serve", "start", "stop"}
  /\ ~Moved /\ Do
  /\ Fails(IF Inline THEN 2 ELSE 1)
  /\ op' = IF Inline THEN [Failed EXCEPT !.soft = TRUE] ELSE Thrown
  /\ Keep

\* The target does not take the volume; the source takes it back at once.
TargetRefuses ==
  /\ op.live /\ op.dir = "forward" /\ op.step = "on" /\ CanDo /\ Fails(1)
  /\ Plug(Vol, op.from) /\ UNCHANGED <<app, retired>>
  /\ op' = Backward([op EXCEPT !.moved = FALSE])
  /\ Keep

-----------------------------------------------------------------------------
(* The inline rollback of a move: each call is tried, none may stop it.    *)

RestoreCall(step, wanted, Call, next) ==
  /\ op.live /\ op.dir = "restore" /\ op.step = step
  /\ \/ wanted /\ Call /\ op' = next /\ UNCHANGED faults
     \/ wanted /\ Fails(1) /\ UNCHANGED world /\ op' = [next EXCEPT !.soft = TRUE]
     \/ ~wanted /\ UNCHANGED <<world, faults>> /\ op' = next
  /\ Keep

GiveBack == IF There(Vol) /\ disk[Vol].at = Nowhere THEN Plug(Vol, op.from)
            ELSE UNCHANGED <<disk, host>>

RollbackMove ==
  \/ RestoreCall("off", op.placed, Unplug(Vol, disk[Vol].state) /\ UNCHANGED <<app, retired>>,
                 [op EXCEPT !.step = "on"])
  \/ RestoreCall("on", op.placed \/ op.moved, GiveBack /\ UNCHANGED <<app, retired>>,
                 [op EXCEPT !.step = "run"])
  \/ RestoreCall("run", op.gone, Start(op.from, Vol) /\ UNCHANGED <<app, disk, retired>>,
                 End(op, "compensated"))

-----------------------------------------------------------------------------
(* The walk back.                                                          *)

Latest == CHOOSE s \in op.left : \A t \in op.left : Index(t) <= Index(s)
Detached(v) == IF There(v) THEN Unplug(v, "there") ELSE UNCHANGED <<disk, host>>
\* Mutant: the container is not recreated once the row is cleared.
BareLater(s) == UNCHANGED host
Bare(s) == Start(s, NoVol)
WithoutVolume == [app EXCEPT !.vol = NoVol, !.driver = TRUE]

UndoCreate == Latest = "create" /\ Detached(Vol) /\ Retire(Vol, "provisional") /\ UNCHANGED app
UndoAdopt ==
  /\ Latest = "adopt" /\ UNCHANGED app
  /\ IF op.mine THEN Detached(Vol) /\ Retire(Vol, "user") ELSE UNCHANGED <<disk, retired, host>>
UndoTake == Latest = "take" /\ Detached(Vol) /\ UNCHANGED <<app, retired>>
UndoMount == Latest = "bind" /\ Unbind(Vol) /\ UNCHANGED <<app, retired, host>>
UndoInsert == Latest = "insert" /\ app' = NoApp /\ UNCHANGED <<disk, retired, host>>
UndoRun == Latest = "run" /\ Stop({Here}) /\ UNCHANGED <<app, disk, retired>>
UndoRecord == Latest = "record" /\ app' = WithoutVolume /\ Bare(Here) /\ UNCHANGED <<disk, retired>>
UndoRemount == Latest = "remount" /\ app' = [app EXCEPT !.driver = FALSE] /\ Start(Here, app.vol)
                 /\ UNCHANGED <<disk, retired>>
Undo == UndoCreate \/ UndoAdopt \/ UndoTake \/ UndoMount \/ UndoInsert \/ UndoRun
          \/ UndoRecord \/ UndoRemount

\* Left between two calls: detached and not retained; the row cleared and the
\* container removed.
HalfUndone ==
  \/ Latest = "create" /\ Detached(Vol) /\ UNCHANGED <<app, retired>>
  \/ Latest = "record" /\ app' = WithoutVolume /\ Stop({Here}) /\ UNCHANGED <<disk, retired>>

\* The adopted volume of a live app is detached again only if it can be inspected.
Undoable == Latest = "take" => There(Vol)

UndoOk ==
  /\ op.live /\ op.dir = "back" /\ op.left # {} /\ Undoable /\ Undo
  /\ op' = [op EXCEPT !.left = @ \ {Latest}, !.todo = @ \ {Latest}]
  /\ Keep /\ UNCHANGED faults

\* The container stays, and its removal counts as done.
UndoUnheeded ==
  /\ op.live /\ op.dir = "back" /\ op.left # {} /\ Latest = "run" /\ Fails(1)
  /\ Stay({Here}) /\ UNCHANGED <<app, disk, retired>>
  /\ op' = [op EXCEPT !.left = @ \ {"run"}, !.todo = @ \ {"run"}]
  /\ Keep

\* The unmount is best effort and counts as done; the rows never fail.
UndoFails ==
  /\ op.live /\ op.dir = "back" /\ op.left # {} /\ Latest \notin {"insert", "run"}
  /\ \/ Fails(1) /\ (UNCHANGED world \/ HalfUndone)
     \/ ~Undoable /\ UNCHANGED <<world, faults>>
  /\ op' = [op EXCEPT !.left = @ \ {Latest}, !.todo = IF Latest = "bind" THEN @ \ {"bind"} ELSE @]
  /\ Keep

\* What a pass did not undo is tried again or given up.
EndPass ==
  /\ op.live /\ op.dir = "back" /\ op.left = {}
  /\ \/ op.todo = {} /\ op' = End(op, "compensated")
     \/ op.todo # {} /\ op' \in {End(op, "failed"), [op EXCEPT !.left = op.todo]}
  /\ UNCHANGED <<world, faults>> /\ Keep

-----------------------------------------------------------------------------
(* Submission, start and restart.                                          *)

Fresh == CHOOSE v \in Volume : disk[v].state = "none" /\ \A w \in 1..v - 1 : disk[w].state # "none"
Creatable == \E v \in Volume : disk[v].state = "none"
Live == app.row /\ ~app.deleting

\* The volume the operation works on: the one it brings, else the one of the app.
Subject(kind) ==
  CASE kind = "deploy"   -> IF ~app.row /\ Creatable THEN {Fresh} ELSE {}
    [] kind = "redeploy" -> IF ~app.row THEN {v \in Volume : There(v)} ELSE {}
    [] kind = "attach"   -> IF Live /\ app.vol = NoVol /\ Creatable THEN {Fresh} ELSE {}
    [] kind = "adopt"    -> IF Live /\ app.vol = NoVol THEN {v \in Volume : There(v)} ELSE {}
    [] kind = "destroy"  -> IF app.row THEN {app.vol} ELSE {}
    [] kind = "move"     -> IF Live /\ app.vol # NoVol /\ app.driver THEN {app.vol} ELSE {}
    [] OTHER             -> IF Live /\ app.vol # NoVol THEN {app.vol} ELSE {}

\* The oldest replica row.
First == IF app.home \in app.on THEN app.home ELSE 3 - app.home
Ran(s) == IF app.row THEN host[s].up /\ host[s].want = app.vol ELSE ~host[s].up
Issue(kind, v, s) ==
  op' = [NoOp EXCEPT !.kind = kind, !.dir = "forward", !.step = Plan[kind][1], !.vol = v,
                     !.from = s,
                     !.served = IF kind = "move" THEN app.on = {s} ELSE Ran(s)]

Submit(kind) ==
  /\ ~Active /\ opsDone < MaxOps /\ opsDone' = opsDone + 1
  /\ \E v \in Subject(kind) :
       /\ \E s \in (IF ~app.row THEN Server ELSE IF kind = "move" THEN {app.home} ELSE {First}) :
            Issue(kind, v, s)
       \* an operation may take the very volume that is about to be deleted
       /\ eraser' = IF eraser.vol = v /\ kind \in Bringing /\ eraser.pc # "idle"
                    THEN [eraser EXCEPT !.raced = TRUE] ELSE eraser
  /\ UNCHANGED <<world, fix, lost, faults, crashes>>

\* Mutant: only one destruction is queued.
FinalizerOnce ==
  /\ ~Active /\ app.row /\ app.deleting /\ op.kind # "destroy"
  /\ Issue("destroy", app.vol, First)
  /\ UNCHANGED <<world, fix, eraser, lost, bounds>>
\* The reconciler queues the destruction of an app marked for deletion again.
Finalizer ==
  /\ ~Active /\ app.row /\ app.deleting
  /\ Issue("destroy", app.vol, First)
  /\ UNCHANGED <<world, fix, eraser, lost, bounds>>

\* A deploy holds the key of the name it creates; the others that of the app.
KeyOfApp == op.kind \notin {"deploy", "redeploy"}
Begin ==
  /\ Active /\ ~op.live
  /\ KeyOfApp => fix.pc \notin {"locked", "mounting"}
  /\ op' = [op EXCEPT !.live = TRUE]
  /\ UNCHANGED <<world, fix, eraser, lost, bounds>>

\* A move that runs again starts over, with none of the flags its rollback reads.
Resumed ==
  [op EXCEPT !.live = FALSE, !.gone = FALSE, !.moved = FALSE, !.placed = FALSE,
             !.step = IF op.kind = "move" THEN "stop" ELSE @,
             !.dir  = IF @ = "restore" THEN "forward" ELSE @,
             !.left = IF op.dir = "back" THEN op.todo ELSE {}]

\* The call in flight may still take effect, whole or halfway.
Cut == CASE op.dir = "forward" -> ~Moved /\ ((CanDo /\ Do) \/ (CanDo /\ Half))
         [] op.dir = "back"    -> op.left # {} /\ ((Undoable /\ Undo) \/ HalfUndone)
         [] OTHER              -> FALSE

Crash ==
  /\ crashes < MaxCrashes /\ crashes' = crashes + 1
  /\ \/ UNCHANGED world
     \/ op.live /\ Cut
  /\ op' = IF Active THEN Resumed ELSE op
  /\ fix' = NoFix /\ eraser' = NoEraser
  /\ UNCHANGED <<lost, opsDone, faults>>

-----------------------------------------------------------------------------
(* The reconciler of active volumes: it lists the owners, then takes the   *)
(* lock of each, inspects its volume, attaches and binds it.               *)

MayFail == UNCHANGED faults \/ Fails(1)
FixIdle == fix' = NoFix
Others == UNCHANGED <<op, eraser, lost, opsDone, crashes>>

FixLook ==
  /\ fix.pc = "idle" /\ Live /\ app.vol # NoVol
  /\ \E s \in app.on : fix' = [pc |-> "listed", vol |-> app.vol, server |-> s, driver |-> app.driver]
  /\ UNCHANGED <<world, faults>> /\ Others

FixBusy == op.live /\ KeyOfApp
FixLock ==
  /\ fix.pc = "listed"
  /\ IF FixBusy \/ ~fix.driver THEN FixIdle ELSE fix' = [fix EXCEPT !.pc = "locked"]
  /\ UNCHANGED <<world, faults>> /\ Others

\* Mutant: a volume that is not attached is left alone.
FixAttached ==
  /\ fix.pc = "locked" /\ UNCHANGED <<app, retired, disk, host, faults>>
  /\ fix' = IF disk[fix.vol].at = fix.server THEN [fix EXCEPT !.pc = "mounting"] ELSE NoFix
  /\ Others

FixAttach ==
  /\ fix.pc = "locked" /\ UNCHANGED <<app, retired>>
  /\ LET v == fix.vol IN
     IF ~Reachable(v, fix.server) THEN FixIdle /\ UNCHANGED <<disk, host, faults>>
     ELSE \/ /\ fix' = [fix EXCEPT !.pc = "mounting"] /\ UNCHANGED faults
             /\ IF disk[v].at = Nowhere THEN Plug(v, fix.server) ELSE UNCHANGED <<disk, host>>
          \/ FixIdle /\ Fails(1) /\ UNCHANGED <<disk, host>>
  /\ Others

FixMount ==
  /\ fix.pc = "mounting" /\ FixIdle /\ UNCHANGED <<app, retired, host>>
  /\ IF Bindable(fix.vol, fix.server)
     THEN (Bind(fix.vol) /\ UNCHANGED faults) \/ (UNCHANGED disk /\ Fails(1))
     ELSE UNCHANGED <<disk, faults>>
  /\ Others

-----------------------------------------------------------------------------
(* Deletion, by the sweep of what expired and by a user.                   *)

\* Seven days pass.
Expire(v) ==
  /\ retired[v] = "provisional" /\ retired' = [retired EXCEPT ![v] = "expired"]
  /\ UNCHANGED <<app, disk, host, op, fix, eraser, lost, bounds>>

Owner(v) == app.row /\ app.vol = v
EraserOnly == UNCHANGED <<world, op, fix, lost, bounds>>
\* An operation under way is about to make the volume its own.
Racing(v) == Active /\ op.vol = v /\ op.kind \in Bringing

SweepList(v) ==
  /\ eraser.pc = "idle" /\ retired[v] = "expired"
  /\ eraser' = [pc |-> "listed", vol |-> v, by |-> "sweep", raced |-> Racing(v)]
  /\ EraserOnly

\* Mutant: the sweep trusts the list it read.
SweepTrusts ==
  /\ eraser.pc = "listed" /\ eraser' = [eraser EXCEPT !.pc = "looked"]
  /\ EraserOnly

SweepLook ==
  /\ eraser.pc = "listed"
  /\ eraser' = IF Owner(eraser.vol) THEN NoEraser ELSE [eraser EXCEPT !.pc = "looked"]
  /\ EraserOnly

\* Between the look and the inspection the user confirms.
UserAsks(v) ==
  /\ eraser.pc = "idle" /\ disk[v].state # "none" /\ ~Owner(v)
  /\ eraser' = [pc |-> "looked", vol |-> v, by |-> "user", raced |-> Racing(v)]
  /\ EraserOnly

\* The sweep takes a volume that is gone for deleted; a user's deletion needs a driver,
\* from the retained row or an app, and fails if the volume is gone.
Inspected(v) == IF eraser.by = "sweep" THEN disk[v].at = Nowhere
                ELSE There(v) /\ (retired[v] # "no" \/ (Owner(v) /\ app.driver))
EraserInspect ==
  /\ eraser.pc = "looked"
  /\ eraser' = IF Inspected(eraser.vol) THEN [eraser EXCEPT !.pc = "erasing"] ELSE NoEraser
  /\ EraserOnly

\* The provider detaches what is attached before it deletes.
Erase ==
  /\ eraser.pc = "erasing" /\ eraser' = NoEraser
  /\ \/ Unplug(eraser.vol, "gone") /\ Retire(eraser.vol, "no") /\ UNCHANGED faults
     \/ Fails(1) /\ UNCHANGED <<disk, host, retired>>
     \/ Fails(1) /\ Unplug(eraser.vol, "gone") /\ UNCHANGED retired
  /\ UNCHANGED <<app, op, fix, lost, opsDone, crashes>>

-----------------------------------------------------------------------------
OpStep == StepOk \/ StepRefused \/ FailsBefore \/ FailsHalfway \/ FailsAfter \/ Unheeded
            \/ TargetRefuses \/ RollbackMove \/ UndoOk \/ UndoFails \/ UndoUnheeded \/ EndPass
FixStep == FixLook \/ FixLock \/ FixAttach \/ FixMount

\* No app yet; an app without a volume; with volume 1; volume 1 retained.
Init ==
  /\ \E vol \in {NoVol, 1}, row \in BOOLEAN :
       /\ app = IF row THEN [NoApp EXCEPT !.row = TRUE, !.vol = vol, !.on = {1}] ELSE NoApp
       /\ host = [s \in Server |-> IF row /\ s = 1
                    THEN [NoHost EXCEPT !.up = TRUE, !.want = vol, !.on = vol] ELSE NoHost]
       /\ disk = [v \in Volume |-> IF v # vol THEN NoDisk
                    ELSE [state |-> "there", at |-> IF row THEN 1 ELSE Nowhere, bound |-> row]]
       /\ retired = [v \in Volume |-> IF v = vol /\ ~row THEN "user" ELSE "no"]
  /\ op = NoOp /\ fix = NoFix /\ eraser = NoEraser /\ lost = {}
  /\ opsDone = 0 /\ faults = 0 /\ crashes = 0

Next ==
  \/ \E kind \in Kinds : Submit(kind)
  \/ Finalizer \/ Begin \/ Crash
  \/ OpStep \/ FixStep
  \/ \E v \in Volume : Expire(v) \/ SweepList(v) \/ UserAsks(v)
  \/ SweepLook \/ EraserInspect \/ Erase

Spec == Init /\ [][Next]_vars

\* A remote call returns or times out; the tick tries a waiting operation far more
\* often than the reconciler takes its lock; the reconcilers are periodic.
Fairness == WF_vars(OpStep) /\ SF_vars(Begin) /\ WF_vars(Finalizer) /\ WF_vars(FixStep)
FairSpec == Spec /\ Fairness

-----------------------------------------------------------------------------
(* Properties.                                                             *)

Mounted(d, s) == d.state = "there" /\ d.at = s /\ d.bound
Ends(dir) == Active /\ op'.dir = dir

\* The server has no container, or one whose removal failed and nobody noticed.
Emptied(h) == h.up => h.stray

\* What an operation that reports done has promised: the row, the volume at the
\* provider, its mount and what the container writes to.
Whole ==
  CASE op.kind \in Bringing ->
         /\ app'.row /\ app'.vol = op.vol /\ retired'[op.vol] = "no"
         /\ Mounted(disk'[op.vol], op.from) /\ host'[op.from].on = op.vol
    [] op.kind = "detach"  -> /\ app'.vol = NoVol /\ retired'[op.vol] # "no"
                              /\ host'[op.from].up /\ host'[op.from].want = NoVol
    [] op.kind = "remount" -> app'.vol = op.vol /\ host'[op.from].up /\ host'[op.from].want = op.vol
    [] op.kind = "destroy" -> ~app'.row /\ Emptied(host'[op.from])
    [] op.kind = "move"    -> /\ app'.on = {3 - op.from} /\ Mounted(disk'[op.vol], 3 - op.from)
                              /\ host'[3 - op.from].on = op.vol /\ Emptied(host'[op.from])

\* An operation that reports done left the row, the provider, the mount and the
\* container in agreement, however often its steps failed or ran again.  Excused: the
\* volume was deleted meanwhile; a deploy over a container that an earlier one could
\* not remove (the probe takes any running container of the name for its own); a move
\* that gave the volume back and left the replica row of its target behind, or that
\* finds such a row.
DoneIsWhole ==
  [][ (Ends("done") /\ op.kind # "none") =>
        \/ Whole
        \/ op.vol # NoVol /\ disk'[op.vol].state = "gone"
        \/ op.kind \in {"deploy", "redeploy"} /\ ~op.served
        \/ op.kind = "move" /\ (~op.served \/ op.vol \in lost) ]_vars

\* An operation on a live app that reports compensated left its container running as
\* the row says, if it did so before; a deploy left neither row nor container, unless
\* docker rm failed and nobody noticed: in the compensation (stray), or in the inline
\* removal of a half-started container (soft).
RollbackServes ==
  [][ (Ends("compensated") /\ op.served) =>
        CASE op.kind \in {"attach", "adopt", "remount"} ->
               app'.row /\ host'[op.from].up /\ host'[op.from].want = app'.vol
          [] op.kind \in {"deploy", "redeploy"} -> ~app'.row /\ (Emptied(host'[op.from]) \/ op.soft)
          [] OTHER -> TRUE ]_vars

\* Every volume at the provider is named by the app, or retained and listed; the code
\* loses sight only of those in lost: created by a call that failed, left by a rollback
\* that gave up, or adopted by an operation that was rolled back.
NoVolumeForgotten == ~Active => \A v \in Volume : There(v) => Owner(v) \/ retired[v] # "no" \/ v \in lost

\* No volume an app names is deleted, unless an operation that adopts it overlaps the
\* deletion: the sweep and the DELETE request look at the owners first.
OwnedVolumeKept ==
  [][\A v \in Volume : (There(v) /\ disk'[v].state = "gone") => ~Owner(v) \/ eraser.raced]_vars

\* An app marked for deletion is deleted at last; its volume is in the way if it is
\* gone or if the app has no record of the driver.
DeletionEnds ==
  app.deleting ~> (~app.row \/ (app.vol # NoVol /\ (~app.driver \/ ~There(app.vol))))

\* A volume an app names does not stay detached or unmounted where its one replica is,
\* unless files under its host path forbid the mount.
Adrift(s) == /\ Live /\ app.vol # NoVol /\ app.on = {s} /\ app.driver /\ Reachable(app.vol, s)
             /\ app.vol \notin host[s].dirty /\ ~disk[app.vol].bound
Homed == []<>(\A s \in Server : ~Adrift(s))
=============================================================================
