--------------------------- MODULE VolumesProofs ---------------------------
(***************************************************************************)
(* Volumes for any number of volumes and every bound on operations,        *)
(* failures and crashes, in two parts. First where each operation may      *)
(* stand, what the row of the app names meanwhile, and that whoever is     *)
(* about to delete a volume knows of every operation that adopts it (Inv): *)
(* the types, that no volume at the provider is forgotten, and that no     *)
(* volume an app names is deleted. Then what the steps already taken have  *)
(* left at the provider and on the hosts, and what those still to be       *)
(* undone will restore (Firm): that an operation that reports done has     *)
(* kept its promise, and that one that reports compensated has given back  *)
(* what it found.                                                          *)
(***************************************************************************)
EXTENDS Volumes, WellFoundedInduction, TLAPS

-----------------------------------------------------------------------------
(* What an operation relies on and what it owes *)

StepsOf(kind) == {Plan[kind][i] : i \in DOMAIN Plan[kind]}

\* A volume at the provider is retained.
Safe(v) == There(v) => retired[v] # "no"
\* It is retained, named by the app, or the code itself gave it up.
Accounted(v) == There(v) => Owner(v) \/ retired[v] # "no" \/ v \in lost

\* Where a walk may stand.
OnPlan ==
  /\ op.kind \in DOMAIN Plan
  /\ op.vol \in Volume \/ op.kind = "destroy"
  /\ op.todo \subseteq StepsOf(op.kind)
  /\ op.dir = "forward" => op.step \in StepsOf(op.kind)
  /\ op.dir = "restore" => op.kind = "move"

\* What the row of the app says meanwhile: an operation that brings a volume
\* names it from "insert" or "record" on; one that takes it away stops naming it
\* only when it is retained, unless its release failed, and then the row stays.
Claims ==
  /\ app.vol \in {NoVol, op.vol}
  /\ op.kind \in {"attach", "adopt", "detach", "remount", "move"} => app.row
  /\ op.kind \in {"remount", "move"} => app.vol = op.vol
  /\ op.kind = "detach" =>
       IF op.step \in {"unbind", "release"} THEN app.vol = op.vol ELSE Safe(op.vol)
  /\ op.kind = "destroy" =>
       IF op.soft \/ op.step \in {"mark", "remove", "release"}
       THEN app.row /\ app.vol = op.vol ELSE Safe(op.vol)
  /\ op.kind \in Bringing /\ op.dir = "forward"
       /\ (op.step \in {"run", "serve", "recreate"}
             \/ (op.step = "bind" /\ op.kind \in {"deploy", "redeploy"}))
         => app.row /\ app.vol = op.vol

\* A created volume is undone or retained.
Undoing ==
  op.kind \in {"deploy", "attach"} =>
    /\ op.dir = "forward" => IF op.step = "create" THEN op.todo = {} ELSE "create" \in op.todo
    /\ op.dir = "back" => "create" \in op.todo \/ Safe(op.vol)

Course == Active => OnPlan /\ Claims /\ Undoing

\* Only the volume an operation brings may be unaccounted for, while it works.
Tracked == \A v \in Volume : Accounted(v) \/ (Active /\ op.kind \in Bringing /\ op.vol = v)

\* Who is about to delete a volume knows of every operation that adopts it.
Guarded ==
  /\ eraser.pc # "idle" => eraser.vol \in Volume /\ (Racing(eraser.vol) => eraser.raced)
  /\ eraser.pc \in {"looked", "erasing"} => ~Owner(eraser.vol) \/ eraser.raced

FixOK == fix.pc # "idle" => fix.vol \in Volume

Inv == TypeOK /\ Course /\ Tracked /\ Guarded /\ FixOK

-----------------------------------------------------------------------------
(* The plans and the walk along them *)

\* The plans, one by one: Plan is a record the provers do not open by
\* themselves.
LEMMA Plans ==
  /\ Plan["deploy"] = <<"create", "insert", "bind", "run", "serve">>
  /\ Plan["redeploy"] = <<"adopt", "insert", "bind", "run", "serve">>
  /\ Plan["attach"] = <<"create", "bind", "record", "recreate">>
  /\ Plan["adopt"] = <<"take", "bind", "record", "recreate">>
  /\ Plan["detach"] = <<"unbind", "release", "clear", "recreate", "assert">>
  /\ Plan["remount"] = <<"remount", "recreate">>
  /\ Plan["destroy"] = <<"mark", "remove", "release", "rows", "assert">>
  /\ Plan["move"] = <<"stop", "off", "on", "mount", "start", "drop">>
  /\ DOMAIN Plan = {"deploy", "redeploy", "attach", "adopt", "detach", "remount", "destroy", "move"}
BY DEF Plan

\* The steps of each plan, as sets.
LEMMA StepSets ==
  /\ StepsOf("deploy") = {"create", "insert", "bind", "run", "serve"}
  /\ StepsOf("redeploy") = {"adopt", "insert", "bind", "run", "serve"}
  /\ StepsOf("attach") = {"create", "bind", "record", "recreate"}
  /\ StepsOf("adopt") = {"take", "bind", "record", "recreate"}
  /\ StepsOf("detach") = {"unbind", "release", "clear", "recreate", "assert"}
  /\ StepsOf("remount") = {"remount", "recreate"}
  /\ StepsOf("destroy") = {"mark", "remove", "release", "rows", "assert"}
  /\ StepsOf("move") = {"stop", "off", "on", "mount", "start", "drop"}
<1>1. ASSUME NEW a, NEW b, NEW c, NEW d, NEW e
      PROVE  {<<a, b, c, d, e>>[i] : i \in DOMAIN <<a, b, c, d, e>>} = {a, b, c, d, e}
  OBVIOUS
<1>2. ASSUME NEW a, NEW b, NEW c, NEW d
      PROVE  {<<a, b, c, d>>[i] : i \in DOMAIN <<a, b, c, d>>} = {a, b, c, d}
  OBVIOUS
<1>3. ASSUME NEW a, NEW b
      PROVE  {<<a, b>>[i] : i \in DOMAIN <<a, b>>} = {a, b}
  OBVIOUS
<1>4. ASSUME NEW a, NEW b, NEW c, NEW d, NEW e, NEW f
      PROVE  {<<a, b, c, d, e, f>>[i] : i \in DOMAIN <<a, b, c, d, e, f>>} = {a, b, c, d, e, f}
  OBVIOUS
<1>5. StepsOf("deploy") = {"create", "insert", "bind", "run", "serve"}
  BY <1>1, Plans DEF StepsOf
<1>6. StepsOf("redeploy") = {"adopt", "insert", "bind", "run", "serve"}
  BY <1>1, Plans DEF StepsOf
<1>7. StepsOf("attach") = {"create", "bind", "record", "recreate"}
  BY <1>2, Plans DEF StepsOf
<1>8. StepsOf("adopt") = {"take", "bind", "record", "recreate"}
  BY <1>2, Plans DEF StepsOf
<1>9. StepsOf("detach") = {"unbind", "release", "clear", "recreate", "assert"}
  BY <1>1, Plans DEF StepsOf
<1>10. StepsOf("remount") = {"remount", "recreate"}
  BY <1>3, Plans DEF StepsOf
<1>11. StepsOf("destroy") = {"mark", "remove", "release", "rows", "assert"}
  BY <1>1, Plans DEF StepsOf
<1>12. StepsOf("move") = {"stop", "off", "on", "mount", "start", "drop"}
  BY <1>4, Plans DEF StepsOf
<1> QED  BY <1>5, <1>6, <1>7, <1>8, <1>9, <1>10, <1>11, <1>12

\* The index of a step of the plan is the place where it stands.
LEMMA IndexOfStep ==
  ASSUME NEW s \in StepsOf(op.kind)
  PROVE  Index(s) \in DOMAIN PlanOf /\ PlanOf[Index(s)] = s
<1>1. \E i \in DOMAIN PlanOf : PlanOf[i] = s
  BY DEF StepsOf, PlanOf
<1> QED  BY <1>1 DEF Index

\* How a step follows another, as far as claims and debts change.
Follows(t) ==
  /\ t \in StepsOf(op.kind) /\ t # "create"
  /\ op.kind \in {"deploy", "redeploy"} /\ t = "bind" => op.step = "insert"
  /\ op.kind \in {"deploy", "redeploy"} /\ t \in {"run", "serve"} => op.step \in {"bind", "run"}
  /\ op.kind \in {"attach", "adopt"} /\ t = "recreate" => op.step = "record"
  /\ op.kind = "detach" /\ t = "release" => op.step = "unbind"
  /\ op.kind = "detach" /\ t = "clear" => op.step = "release"
  /\ op.kind = "detach" /\ t \in {"recreate", "assert"} => op.step \in {"clear", "recreate"}
  /\ op.kind = "detach" => t # "unbind"
  /\ op.kind = "destroy" /\ t \in {"remove", "release"} => op.step \in {"mark", "remove"}
  /\ op.kind = "destroy" /\ t = "rows" => op.step = "release"
  /\ op.kind = "destroy" /\ t = "assert" => op.step = "rows"
  /\ op.kind = "destroy" => t # "mark"

\* The last step of a plan.
LastStep ==
  /\ op.kind \in {"deploy", "redeploy"} => op.step = "serve"
  /\ op.kind \in {"attach", "adopt", "remount"} => op.step = "recreate"
  /\ op.kind \in {"detach", "destroy"} => op.step = "assert"

\* A walk forward takes the next step of its plan or is done.
LEMMA Onward ==
  ASSUME op.kind \in DOMAIN Plan, op.step \in StepsOf(op.kind), NEW o
  PROVE  \/ Forward(o) = End(o, "done") /\ LastStep
         \/ \E t \in Steps : Follows(t) /\ Forward(o) = [o EXCEPT !.step = t]
<1> PICK i : i = Index(op.step)
  OBVIOUS
<1>1. i \in DOMAIN PlanOf /\ PlanOf[i] = op.step
  BY IndexOfStep
<1>2. Forward(o) = IF Moved \/ i = Len(PlanOf) THEN End(o, "done")
                   ELSE [o EXCEPT !.step = PlanOf[i + IF Skips THEN 2 ELSE 1]]
  BY DEF Forward
<1>3. (Moved => op.step = "stop") /\ (Skips => op.step = "off")
  BY DEF Moved, Skips
<1> DEFINE t == PlanOf[i + IF Skips THEN 2 ELSE 1]
<1>4. ASSUME i # Len(PlanOf)
      PROVE  t \in Steps /\ (Moved \/ Follows(t))
  <2>1. CASE op.kind = "deploy"
    BY <1>1, <1>3, <1>4, <2>1, Plans, StepSets DEF PlanOf, Follows, Steps
  <2>2. CASE op.kind = "redeploy"
    BY <1>1, <1>3, <1>4, <2>2, Plans, StepSets DEF PlanOf, Follows, Steps
  <2>3. CASE op.kind = "attach"
    BY <1>1, <1>3, <1>4, <2>3, Plans, StepSets DEF PlanOf, Follows, Steps
  <2>4. CASE op.kind = "adopt"
    BY <1>1, <1>3, <1>4, <2>4, Plans, StepSets DEF PlanOf, Follows, Steps
  <2>5. CASE op.kind = "detach"
    BY <1>1, <1>3, <1>4, <2>5, Plans, StepSets DEF PlanOf, Follows, Steps
  <2>6. CASE op.kind = "remount"
    BY <1>1, <1>3, <1>4, <2>6, Plans, StepSets DEF PlanOf, Follows, Steps
  <2>7. CASE op.kind = "destroy"
    BY <1>1, <1>3, <1>4, <2>7, Plans, StepSets DEF PlanOf, Follows, Steps
  <2>8. CASE op.kind = "move"
    BY <1>1, <1>3, <1>4, <2>8, Plans, StepSets DEF PlanOf, Follows, Steps
  <2> QED  BY <2>1, <2>2, <2>3, <2>4, <2>5, <2>6, <2>7, <2>8, Plans
<1>5. Moved \/ i = Len(PlanOf) => LastStep
  <2>1. CASE op.kind = "deploy"
    BY <1>1, <1>3, <2>1, Plans, StepSets DEF PlanOf, LastStep
  <2>2. CASE op.kind = "redeploy"
    BY <1>1, <1>3, <2>2, Plans, StepSets DEF PlanOf, LastStep
  <2>3. CASE op.kind = "attach"
    BY <1>1, <1>3, <2>3, Plans, StepSets DEF PlanOf, LastStep
  <2>4. CASE op.kind = "adopt"
    BY <1>1, <1>3, <2>4, Plans, StepSets DEF PlanOf, LastStep
  <2>5. CASE op.kind = "detach"
    BY <1>1, <1>3, <2>5, Plans, StepSets DEF PlanOf, LastStep
  <2>6. CASE op.kind = "remount"
    BY <1>1, <1>3, <2>6, Plans, StepSets DEF PlanOf, LastStep
  <2>7. CASE op.kind = "destroy"
    BY <1>1, <1>3, <2>7, Plans, StepSets DEF PlanOf, LastStep
  <2>8. CASE op.kind = "move"
    BY <2>8 DEF LastStep
  <2> QED  BY <2>1, <2>2, <2>3, <2>4, <2>5, <2>6, <2>7, <2>8, Plans
<1> QED
  <2>1. CASE Moved \/ i = Len(PlanOf)
    BY <1>2, <1>5, <2>1
  <2>2. CASE ~(Moved \/ i = Len(PlanOf))
    <3>1. t \in Steps /\ Follows(t)
      BY <1>4, <2>2
    <3>2. Forward(o) = [o EXCEPT !.step = t]
      BY <1>2, <2>2
    <3> QED  BY <3>1, <3>2
  <2> QED  BY <2>1, <2>2

\* A rollback looks at one of the steps that are left.
LEMMA LatestIsLeft ==
  ASSUME op.kind \in DOMAIN Plan, op.left \subseteq StepsOf(op.kind) \intersect Compensable,
         op.left # {}
  PROVE  Latest \in op.left
<1> DEFINE Last(s) == s \in op.left /\ \A t \in op.left : Index(t) <= Index(s)
<1>1. \A s \in op.left : Index(s) \in DOMAIN PlanOf /\ PlanOf[Index(s)] = s
  BY IndexOfStep
<1>2. CASE op.kind = "deploy"
  <2>1. \A s \in op.left : s \in {"create", "insert", "bind", "run"}
    BY <1>2, StepSets DEF Compensable
  <2>2. \A s \in op.left : /\ s = "create" => Index(s) = 1
                           /\ s = "insert" => Index(s) = 2
                           /\ s = "bind" => Index(s) = 3
                           /\ s = "run" => Index(s) = 4
    BY <1>1, <1>2, Plans DEF PlanOf
  <2> QED  BY <2>1, <2>2 DEF Latest
<1>3. CASE op.kind = "redeploy"
  <2>1. \A s \in op.left : s \in {"adopt", "insert", "bind", "run"}
    BY <1>3, StepSets DEF Compensable
  <2>2. \A s \in op.left : /\ s = "adopt" => Index(s) = 1
                           /\ s = "insert" => Index(s) = 2
                           /\ s = "bind" => Index(s) = 3
                           /\ s = "run" => Index(s) = 4
    BY <1>1, <1>3, Plans DEF PlanOf
  <2> QED  BY <2>1, <2>2 DEF Latest
<1>4. CASE op.kind \in {"attach", "adopt"}
  <2>1. \A s \in op.left : s \in {"create", "take", "bind", "record"}
    BY <1>4, StepSets DEF Compensable
  <2>2. \A s \in op.left : /\ s \in {"create", "take"} => Index(s) = 1
                           /\ s = "bind" => Index(s) = 2
                           /\ s = "record" => Index(s) = 3
    BY <1>1, <1>4, Plans DEF PlanOf
  <2> QED  BY <2>1, <2>2 DEF Latest
<1>5. CASE op.kind \in {"remount"}
  <2>1. \A s \in op.left : s = "remount"
    BY <1>5, StepSets DEF Compensable
  <2>2. \A s \in op.left : Index(s) = 1
    BY <1>1, <1>5, <2>1, Plans DEF PlanOf
  <2> QED  BY <2>1, <2>2 DEF Latest
<1>6. CASE op.kind \in {"detach", "destroy", "move"}
  BY <1>6, StepSets DEF Compensable
<1> QED  BY <1>2, <1>3, <1>4, <1>5, <1>6, Plans

\* The next volume to create exists.
LEMMA FreshVolume ==
  ASSUME VolumesAssumption, Creatable
  PROVE  Fresh \in Volume /\ disk[Fresh].state = "none"
<1> DEFINE S == {v \in Volume : disk[v].state = "none"}
<1>1. S \subseteq Nat /\ S # {}
  BY DEF Creatable, Volume, VolumesAssumption
<1>2. PICK m \in S : \A t \in S : <<t, m>> \notin OpToRel(<, Nat)
  <2> HIDE DEF S
  <2> QED  BY <1>1, WFMin, NatLessThanWellFounded, Zenon
<1>3. \A t \in S : ~(t < m)
  <2> HIDE DEF S
  <2> QED  BY <1>1, <1>2, Zenon DEF OpToRel
<1>4. \A w \in 1..m - 1 : w \in Volume /\ w < m
  BY DEF Volume, VolumesAssumption
<1>5. \A w \in 1..m - 1 : disk[w].state # "none"
  BY <1>3, <1>4
<1>6. m \in Volume /\ disk[m].state = "none"
  OBVIOUS
<1> QED  BY <1>5, <1>6 DEF Fresh

-----------------------------------------------------------------------------
(* What a call does to the world *)

AppRow == [row : BOOLEAN, vol : Volume \union {NoVol}, driver : BOOLEAN,
           deleting : BOOLEAN, on : SUBSET Server, home : Server]
DiskRow == [state : {"none", "there", "gone"}, at : Server \union {Nowhere}, bound : BOOLEAN]
HostRow == [up : BOOLEAN, want : Volume \union {NoVol}, on : Volume \union {NoVol},
            dirty : SUBSET Volume, stray : BOOLEAN]
OpRow == [kind : DOMAIN Plan \union {"none"}, dir : Settled \union {"forward", "back", "restore"},
          step : Steps \union {"none"}, live : BOOLEAN, vol : Volume \union {NoVol},
          from : Server, todo : SUBSET Compensable, left : SUBSET Compensable, soft : BOOLEAN,
          mine : BOOLEAN, gone : BOOLEAN, moved : BOOLEAN, placed : BOOLEAN, served : BOOLEAN]
Classes == {"no", "user", "provisional", "expired"}

AppOK == app \in AppRow /\ (~app.row => app = NoApp)
DiskOK == /\ disk \in [Volume -> DiskRow]
          /\ \A v \in Volume : disk[v].bound => disk[v].at # Nowhere
          /\ \A v \in Volume : disk[v].at # Nowhere => disk[v].state = "there"
RetiredOK == retired \in [Volume -> Classes]
HostOK == host \in [Server -> HostRow]
WorldOK == AppOK /\ DiskOK /\ RetiredOK /\ HostOK
OpOK == op \in OpRow /\ op.left \subseteq op.todo /\ (op.live => Active)

\* The type invariant gives the types of the world and of the operation.
LEMMA TypeParts == TypeOK => WorldOK /\ OpOK
BY DEF TypeOK, WorldOK, AppOK, DiskOK, RetiredOK, HostOK, OpOK, AppRow, DiskRow, HostRow,
       OpRow, Classes

\* A volume is a number, and neither "no volume" nor "nowhere" is one.
LEMMA Volumes0 == Volume \subseteq Nat /\ NoVol \notin Volume /\ Nowhere \notin Server
BY DEF Volume, NoVol, Nowhere, Server

\* No volume but v comes, goes or changes its place in the list of the retained,
\* and none is deleted.
Touched(v) ==
  /\ \A w \in Volume : w # v => disk'[w].state = disk[w].state /\ retired'[w] = retired[w]
  /\ \A w \in Volume : disk'[w].state = "gone" => disk[w].state = "gone"

\* Attaching a volume that is there keeps the types, and creates or deletes
\* none.
LEMMA PlugOK ==
  ASSUME WorldOK, NEW v \in Volume, NEW s \in Server, disk[v].state = "there", Plug(v, s)
  PROVE  DiskOK' /\ HostOK' /\ \A w \in Volume : disk'[w].state = disk[w].state
<1> PICK r : r = [disk[v] EXCEPT !.at = s]
  OBVIOUS
<1>1. disk' = [disk EXCEPT ![v] = r] /\ host' = host
  BY DEF Plug
<1>2. r \in DiskRow /\ r.state = "there" /\ r.at = s
  BY DEF WorldOK, DiskOK, DiskRow
<1>3. s # Nowhere
  BY Volumes0
<1> QED  BY <1>1, <1>2, <1>3 DEF WorldOK, DiskOK, HostOK

\* Taking a volume from its server keeps the types and sets the state of that
\* volume only.
LEMMA UnplugOK ==
  ASSUME WorldOK, NEW v \in Volume, NEW st \in {"none", "there", "gone"}, Unplug(v, st)
  PROVE  /\ DiskOK' /\ HostOK' /\ disk'[v].state = st
         /\ \A w \in Volume : w # v => disk'[w].state = disk[w].state
<1> PICK r : r = [state |-> st, at |-> Nowhere, bound |-> FALSE]
  OBVIOUS
<1>1. disk' = [disk EXCEPT ![v] = r]
  BY DEF Unplug
<1>2. r \in DiskRow /\ r.state = st /\ r.at = Nowhere /\ ~r.bound
  BY DEF DiskRow
<1>3. DiskOK' /\ disk'[v].state = st /\ \A w \in Volume : w # v => disk'[w].state = disk[w].state
  BY <1>1, <1>2 DEF WorldOK, DiskOK
<1>4. HostOK'
  <2>1. \A s \in Server : host[s] \in HostRow /\ [host[s] EXCEPT !.on = NoVol] \in HostRow
    BY DEF WorldOK, HostOK, HostRow
  <2>2. host' = [s \in Server |-> IF host[s].on = v THEN [host[s] EXCEPT !.on = NoVol] ELSE host[s]]
    BY DEF Unplug
  <2> QED  BY <2>1, <2>2 DEF HostOK
<1> QED  BY <1>3, <1>4

\* Mounting a volume that is attached keeps the types and every state.
LEMMA BindOK ==
  ASSUME WorldOK, NEW v \in Volume, disk[v].at # Nowhere, Bind(v)
  PROVE  DiskOK' /\ \A w \in Volume : disk'[w].state = disk[w].state
<1> PICK r : r = [disk[v] EXCEPT !.bound = TRUE]
  OBVIOUS
<1>1. disk' = [disk EXCEPT ![v] = r]
  BY DEF Bind
<1>2. r \in DiskRow /\ r.state = disk[v].state /\ r.at = disk[v].at
  BY DEF WorldOK, DiskOK, DiskRow
<1> QED  BY <1>1, <1>2 DEF WorldOK, DiskOK

\* Unmounting keeps the types and every state.
LEMMA UnbindOK ==
  ASSUME WorldOK, NEW v \in Volume, Unbind(v)
  PROVE  DiskOK' /\ \A w \in Volume : disk'[w].state = disk[w].state
<1> PICK r : r = [disk[v] EXCEPT !.bound = FALSE]
  OBVIOUS
<1>1. disk' = [disk EXCEPT ![v] = r]
  BY DEF Unbind
<1>2. r \in DiskRow /\ r.state = disk[v].state /\ r.at = disk[v].at /\ ~r.bound
  BY DEF WorldOK, DiskOK, DiskRow
<1> QED  BY <1>1, <1>2 DEF WorldOK, DiskOK

\* Starting a container keeps the type of the hosts.
LEMMA StartOK ==
  ASSUME WorldOK, NEW s \in Server, NEW v \in Volume \union {NoVol}, Start(s, v)
  PROVE  HostOK'
<1> DEFINE mounted == v # NoVol /\ disk[v].at = s /\ disk[v].bound
           files == host[s].dirty \union (IF mounted THEN {} ELSE {v} \ {NoVol})
           r == [up |-> TRUE, want |-> v, on |-> IF mounted THEN v ELSE NoVol, dirty |-> files,
                 stray |-> FALSE]
<1>1. host' = [host EXCEPT ![s] = r]
  BY DEF Start
<1>2. files \subseteq Volume
  BY DEF WorldOK, HostOK, HostRow
<1>3. r \in HostRow
  <2> HIDE DEF files, mounted
  <2> QED  BY <1>2 DEF HostRow
<1> HIDE DEF r
<1> QED  BY <1>1, <1>3 DEF WorldOK, HostOK

\* Stopping containers keeps the type of the hosts.
LEMMA StopOK ==
  ASSUME WorldOK, NEW S \in SUBSET Server, Stop(S)
  PROVE  HostOK'
<1>1. \A s \in Server : host[s] \in HostRow /\ [NoHost EXCEPT !.dirty = host[s].dirty] \in HostRow
  BY DEF WorldOK, HostOK, HostRow, NoHost
<1>2. host' = [s \in Server |-> IF s \in S THEN [NoHost EXCEPT !.dirty = host[s].dirty] ELSE host[s]]
  BY DEF Stop
<1> QED  BY <1>1, <1>2 DEF HostOK

\* Containers that stay keep the type of the hosts.
LEMMA StayOK ==
  ASSUME WorldOK, NEW S \in SUBSET Server, Stay(S)
  PROVE  HostOK'
<1>1. ASSUME NEW s \in Server  PROVE host'[s] \in HostRow
  <2> PICK b : b = (host[s].stray \/ host[s].up)
    OBVIOUS
  <2>1. host[s] \in HostRow /\ b \in BOOLEAN
    BY DEF WorldOK, HostOK, HostRow
  <2>2. host'[s] = IF s \in S THEN [host[s] EXCEPT !.stray = b] ELSE host[s]
    BY DEF Stay
  <2>3. [host[s] EXCEPT !.stray = b] \in HostRow
    BY <2>1 DEF HostRow
  <2> QED  BY <2>1, <2>2, <2>3
<1>2. host' = [s \in Server |-> host'[s]]
  BY DEF Stay
<1> QED  BY <1>1, <1>2 DEF HostOK

\* Listing a volume as retained changes its class only.
LEMMA RetireOK ==
  ASSUME WorldOK, NEW v \in Volume, NEW c \in Classes, Retire(v, c)
  PROVE  /\ RetiredOK' /\ retired'[v] = c
         /\ \A w \in Volume : w # v => retired'[w] = retired[w]
BY DEF WorldOK, RetiredOK, Retire

-----------------------------------------------------------------------------
(* What a forward step does to the world, whole or in part *)

\* The row and the retained list as far as claims and debts go: the row names
\* the volume from "insert" or "record" on, and stops naming it in "clear" or,
\* when nothing failed, in "rows".
RowMoves ==
  \/ app'.row = app.row /\ app'.vol = app.vol
  \/ op.step \in {"insert", "record"} /\ app'.row /\ app'.vol = op.vol
  \/ op.step = "clear" /\ app'.row = app.row /\ app'.vol = NoVol
  \/ op.step = "rows" /\ ~op.soft /\ app' = NoApp

\* Safe in the next state.
SafeThen(v) == v # NoVol /\ disk'[v].state = "there" => retired'[v] # "no"

Effect ==
  /\ WorldOK' /\ Touched(op.vol) /\ RowMoves
  /\ op.kind \notin Bringing => (Safe(op.vol) => SafeThen(op.vol))
  /\ op.kind \notin Bringing /\ op.vol \in Volume => disk'[op.vol].state = disk[op.vol].state

\* What a step that took effect has reached.
Reached ==
  /\ op.step \in {"insert", "record"} => app'.row /\ app'.vol = op.vol
  /\ op.step = "release" => SafeThen(op.vol)

Ready == TypeOK /\ Course /\ op.live /\ op.dir = "forward"

\* What holds when an operation is about to take a forward step.
LEMMA ReadyFacts ==
  ASSUME Ready
  PROVE  /\ WorldOK /\ OpOK /\ OnPlan /\ Claims /\ Undoing /\ Active
         /\ op.step \in StepsOf(op.kind) /\ op.kind \in DOMAIN Plan
         /\ op.from \in Server /\ Target \in Server /\ op.vol \in Volume \union {NoVol}
         /\ app.on \subseteq Server /\ app.vol \in Volume \union {NoVol}
         /\ op.kind # "destroy" => op.vol \in Volume
<1>1. WorldOK /\ OpOK
  BY TypeParts DEF Ready
<1>2. Active
  BY DEF Ready, Active, Settled
<1>3. op.from \in Server /\ op.vol \in Volume \union {NoVol}
  BY <1>1 DEF OpOK, OpRow
<1>4. Target \in Server
  BY <1>3 DEF Target, Server
<1>5. app.on \subseteq Server /\ app.vol \in Volume \union {NoVol}
  BY <1>1 DEF WorldOK, AppOK, AppRow
<1> QED  BY <1>1, <1>2, <1>3, <1>4, <1>5 DEF Ready, Course, OnPlan

\* The kinds that have a step, and that need a volume for it.
LEMMA KindOfStep ==
  ASSUME op.kind \in DOMAIN Plan, op.step \in StepsOf(op.kind)
  PROVE  /\ op.step \in {"create", "adopt", "take", "insert", "run", "serve", "record"} => op.kind \in Bringing
         /\ op.step = "create" => op.kind \in {"deploy", "attach"}
         /\ op.step \in {"insert", "run", "serve"} => op.kind \in {"deploy", "redeploy"}
         /\ op.step \in {"take", "record"} => op.kind \in {"attach", "adopt"}
         /\ op.step = "take" => op.kind = "adopt"
         /\ op.step = "adopt" => op.kind = "redeploy"
         /\ op.step = "recreate" => op.kind \in {"attach", "adopt", "detach", "remount"}
         /\ op.step = "bind" => op.kind \in Bringing
         /\ op.step \in {"unbind", "clear"} => op.kind = "detach"
         /\ op.step = "release" => op.kind \in {"detach", "destroy"}
         /\ op.step = "remount" => op.kind = "remount"
         /\ op.step \in {"mark", "remove", "rows"} => op.kind = "destroy"
         /\ op.step = "assert" => op.kind \in {"detach", "destroy"}
         /\ op.step \in {"stop", "off", "on", "mount", "start", "drop"} => op.kind = "move"
BY Plans, StepSets DEF Bringing

\* A step that leaves rows and lists alone.
LEMMA HostEffect ==
  ASSUME Ready, UNCHANGED <<app, retired>>, DiskOK', HostOK',
         \A w \in Volume : disk'[w].state = disk[w].state
  PROVE  Effect
<1>1. WorldOK /\ op.vol \in Volume \union {NoVol}
  BY ReadyFacts
<1>2. WorldOK'
  BY <1>1 DEF WorldOK, AppOK, RetiredOK
<1>3. Safe(op.vol) => SafeThen(op.vol)
  BY <1>1, Volumes0 DEF Safe, SafeThen, There
<1> QED  BY <1>2, <1>3 DEF Effect, Touched, RowMoves

\* A step that writes the row of the app only.
LEMMA RowEffect ==
  ASSUME Ready, UNCHANGED <<disk, retired>>, HostOK', AppOK', RowMoves
  PROVE  Effect
<1>1. WorldOK /\ op.vol \in Volume \union {NoVol}
  BY ReadyFacts
<1>2. WorldOK'
  BY <1>1 DEF WorldOK, DiskOK, RetiredOK
<1>3. Safe(op.vol) => SafeThen(op.vol)
  BY <1>1 DEF Safe, SafeThen, There
<1> QED  BY <1>2, <1>3 DEF Effect, Touched

\* A volume is given an owner: it leaves the retained ones.
LEMMA OwnedOK ==
  ASSUME Ready, op.kind \in Bringing, Owned
  PROVE  RetiredOK' /\ \A w \in Volume : w # op.vol => retired'[w] = retired[w]
<1>1. WorldOK /\ op.vol \in Volume
  BY ReadyFacts DEF Bringing
<1>2. CASE retired' = retired
  BY <1>1, <1>2 DEF WorldOK, RetiredOK
<1>3. CASE Retire(op.vol, "no")
  BY <1>1, <1>3, RetireOK DEF Classes
<1> QED  BY <1>2, <1>3 DEF Owned, Retire, Vol

\* Insert, Record: the row takes the volume.
LEMMA TakeoverEffect ==
  ASSUME Ready, op.kind \in Bringing, Owned, UNCHANGED <<disk, host>>, AppOK', RowMoves
  PROVE  Effect
<1>1. WorldOK
  BY ReadyFacts
<1>2. DiskOK' /\ HostOK'
  BY <1>1 DEF WorldOK, DiskOK, HostOK
<1>3. WorldOK'
  BY <1>1, <1>2, OwnedOK DEF WorldOK
<1> QED  BY <1>3, OwnedOK DEF Effect, Touched

\* Release, whole or left before the volume is listed as retained.
LEMMA ReleaseEffect ==
  ASSUME Ready, op.step = "release", op.vol # NoVol, There(op.vol), UNCHANGED app,
         Unplug(op.vol, "there"), UNCHANGED retired \/ Retire(op.vol, "user")
  PROVE  Effect
<1>1. WorldOK /\ op.vol \in Volume
  BY ReadyFacts
<1>2. DiskOK' /\ HostOK' /\ \A w \in Volume : disk'[w].state = disk[w].state
  BY <1>1, UnplugOK DEF There
<1>3. RetiredOK' /\ \A w \in Volume : w # op.vol => retired'[w] = retired[w]
  BY <1>1, RetireOK DEF WorldOK, RetiredOK, Classes
<1>4. WorldOK'
  BY <1>1, <1>2, <1>3 DEF WorldOK, AppOK
<1>5. Safe(op.vol) => SafeThen(op.vol)
  <2>1. "user" # "no"
    OBVIOUS
  <2>2. retired' = retired \/ retired'[op.vol] = "user"
    BY <1>1, RetireOK DEF Classes
  <2> QED  BY <1>1, <1>2, <2>1, <2>2 DEF Safe, SafeThen, There
<1> QED  BY <1>2, <1>3, <1>4, <1>5 DEF Effect, Touched, RowMoves

\* The step "create" brings its volume and changes no other.
LEMMA CreateEffect ==
  ASSUME Ready, Create
  PROVE  Effect
<1>1. WorldOK /\ op.vol \in Volume /\ op.from \in Server /\ op.kind \in Bringing
  BY ReadyFacts, KindOfStep DEF Create, Bringing
<1> PICK r : r = [disk[op.vol] EXCEPT !.state = "there", !.at = op.from]
  OBVIOUS
<1>2. disk' = [disk EXCEPT ![op.vol] = r]
  <2>1. disk' = [disk EXCEPT ![op.vol].state = "there", ![op.vol].at = op.from]
    BY DEF Create, Vol, Here
  <2> QED  BY <1>1, <2>1 DEF WorldOK, DiskOK, DiskRow
<1>3. r \in DiskRow /\ r.state = "there" /\ r.at = op.from
  BY <1>1 DEF WorldOK, DiskOK, DiskRow
<1>4. op.from # Nowhere
  BY <1>1, Volumes0
<1>5. DiskOK'
  BY <1>1, <1>2, <1>3, <1>4 DEF WorldOK, DiskOK
<1>6. \A w \in Volume : /\ w # op.vol => disk'[w].state = disk[w].state
                        /\ disk'[w].state = "gone" => disk[w].state = "gone"
  BY <1>1, <1>2, <1>3 DEF WorldOK, DiskOK
<1>7. UNCHANGED <<app, retired, host>>
  BY DEF Create
<1>8. WorldOK'
  BY <1>1, <1>5, <1>7 DEF WorldOK, AppOK, RetiredOK, HostOK
<1> QED  BY <1>1, <1>6, <1>7, <1>8 DEF Effect, Touched, RowMoves

\* The volume is attached to a server from which it can be reached.
LEMMA AttachEffect ==
  ASSUME Ready, op.kind # "destroy", disk[op.vol].state = "there", NEW s \in Server,
         Plug(op.vol, s), UNCHANGED <<app, retired>>
  PROVE  Effect
BY ReadyFacts, PlugOK, HostEffect

\* The step "insert" writes the row of the app, which names the volume.
LEMMA InsertEffect ==
  ASSUME Ready, Insert
  PROVE  Effect /\ app'.row /\ app'.vol = op.vol
<1>1. WorldOK /\ op.vol \in Volume /\ op.from \in Server /\ op.kind \in Bringing
  BY ReadyFacts, KindOfStep DEF Insert, Bringing
<1>2. app' = [NoApp EXCEPT !.row = TRUE, !.vol = op.vol, !.on = {op.from}, !.home = op.from]
  BY DEF Insert, Vol, Here
<1>3. NoApp \in AppRow
  BY DEF NoApp, AppRow, Server
<1>4. app' \in AppRow /\ app'.row = TRUE /\ app'.vol = op.vol
  BY <1>1, <1>2, <1>3 DEF AppRow
<1>5. AppOK' /\ RowMoves
  BY <1>4 DEF AppOK, RowMoves, Insert
<1> QED  BY <1>1, <1>4, <1>5, TakeoverEffect DEF Insert

\* The step "record" names the volume in the row of a live app.
LEMMA RecordEffect ==
  ASSUME Ready, Record
  PROVE  Effect /\ app'.row /\ app'.vol = op.vol
<1>1. WorldOK /\ op.vol \in Volume /\ op.kind \in {"attach", "adopt"}
  BY ReadyFacts, KindOfStep DEF Record
<1>2. app.row /\ op.kind \in Bringing
  BY <1>1, ReadyFacts DEF Claims, Bringing
<1>3. app' \in AppRow /\ app'.row = app.row /\ app'.vol = op.vol
  BY <1>1 DEF Record, Vol, WorldOK, AppOK, AppRow
<1>4. AppOK' /\ RowMoves
  BY <1>2, <1>3 DEF AppOK, RowMoves, Record
<1> QED  BY <1>2, <1>3, <1>4, TakeoverEffect DEF Record

\* A container is started or not, on a server, for a volume.
LEMMA RunEffect ==
  ASSUME Ready, NEW s \in Server, NEW v \in Volume \union {NoVol},
         Start(s, v) \/ UNCHANGED host, UNCHANGED <<app, disk, retired>>
  PROVE  Effect
<1>1. WorldOK
  BY ReadyFacts
<1>2. HostOK'
  BY <1>1, StartOK DEF WorldOK, HostOK
<1>3. DiskOK'
  BY <1>1 DEF WorldOK, DiskOK
<1> QED  BY <1>2, <1>3, HostEffect

\* A step that only stops containers.
LEMMA StopEffect ==
  ASSUME Ready, NEW S \in SUBSET Server, Stop(S), UNCHANGED <<app, disk, retired>>
  PROVE  Effect
<1>1. WorldOK
  BY ReadyFacts
<1>2. HostOK' /\ DiskOK'
  BY <1>1, StopOK DEF WorldOK, DiskOK
<1> QED  BY <1>2, HostEffect

\* A step whose containers stay.
LEMMA StayEffect ==
  ASSUME Ready, NEW S \in SUBSET Server, Stay(S), UNCHANGED <<app, disk, retired>>
  PROVE  Effect
<1>1. WorldOK
  BY ReadyFacts
<1>2. HostOK' /\ DiskOK'
  BY <1>1, StayOK DEF WorldOK, DiskOK
<1> QED  BY <1>2, HostEffect

\* The row of an app that is there changes, but not the volume it names.
LEMMA SameRowEffect ==
  ASSUME Ready, NEW a \in AppRow, app' = a, a.row, app.row, a.vol = app.vol,
         UNCHANGED <<disk, retired>>, HostOK'
  PROVE  Effect
<1>1. AppOK' /\ RowMoves
  BY DEF AppOK, RowMoves
<1> QED  BY <1>1, RowEffect

\* A step of the plan takes effect.
LEMMA DoEffect ==
  ASSUME Ready, CanDo, Do
  PROVE  Effect /\ Reached
<1>0. /\ WorldOK /\ op.kind \in DOMAIN Plan /\ op.step \in StepsOf(op.kind)
      /\ op.from \in Server /\ Target \in Server /\ op.vol \in Volume \union {NoVol}
      /\ app.on \subseteq Server /\ app.vol \in Volume \union {NoVol}
      /\ op.kind # "destroy" => op.vol \in Volume
  BY ReadyFacts
<1> USE DEF Vol, Here
<1>1. ASSUME op.step \notin {"insert", "record", "release"}  PROVE Reached
  BY <1>1 DEF Reached
<1>2. CASE Create
  BY <1>1, <1>2, CreateEffect DEF Create
<1>3. CASE Take
  <2>1. There(op.vol) /\ op.kind # "destroy"
    BY <1>0, <1>3, KindOfStep DEF Take, CanDo, Reachable, Bringing
  <2>2. Effect
    BY <1>0, <1>3, <2>1, AttachEffect DEF Take, There
  <2> QED  BY <1>1, <1>3, <2>2 DEF Take
<1>4. CASE Insert
  BY <1>4, InsertEffect DEF Reached, Insert
<1>5. CASE Mount
  <2>1. op.vol \in Volume /\ disk[op.vol].at # Nowhere /\ Bind(op.vol)
    <3>1. op.vol \in Volume
      BY <1>0, <1>5, KindOfStep DEF Mount, Bringing
    <3>2. op.step \in {"bind", "mount"} /\ Bind(op.vol)
      BY <1>5 DEF Mount
    <3>3. op.step = "bind" => Bindable(op.vol, op.from)
      BY DEF CanDo
    <3>4. op.step = "mount" => Bindable(op.vol, Target)
      BY DEF CanDo
    <3> QED  BY <1>0, <3>1, <3>2, <3>3, <3>4, Volumes0 DEF Bindable
  <2>2. DiskOK' /\ HostOK' /\ \A w \in Volume : disk'[w].state = disk[w].state
    BY <1>0, <1>5, <2>1, BindOK DEF Mount, WorldOK, HostOK
  <2> QED  BY <1>1, <1>5, <2>2, HostEffect DEF Mount
<1>6. CASE Run
  BY <1>0, <1>1, <1>6, RunEffect DEF Run
<1>7. CASE Serve \/ Assert
  <2>1. UNCHANGED <<app, disk, retired, host>>
    BY <1>7 DEF Serve, Assert, world
  <2>2. DiskOK' /\ HostOK'
    BY <1>0, <2>1 DEF WorldOK, DiskOK, HostOK
  <2>3. Effect
    BY <2>1, <2>2, HostEffect
  <2> QED  BY <1>1, <1>7, <2>3 DEF Serve, Assert
<1>8. CASE Record
  BY <1>8, RecordEffect DEF Reached, Record
<1>9. CASE Recreate
  BY <1>0, <1>1, <1>9, RunEffect DEF Recreate
<1>10. CASE RemoveMount
  <2>1. op.vol \in Volume
    BY <1>0, <1>10, KindOfStep DEF RemoveMount
  <2>2. DiskOK' /\ HostOK' /\ \A w \in Volume : disk'[w].state = disk[w].state
    BY <1>0, <1>10, <2>1, UnbindOK DEF RemoveMount, WorldOK, HostOK
  <2> QED  BY <1>1, <1>10, <2>2, HostEffect DEF RemoveMount
<1>11. CASE Release
  <2>1. CASE op.vol = NoVol
    <3>1. UNCHANGED <<app, disk, retired, host>>
      BY <1>11, <2>1 DEF Release
    <3>2. DiskOK' /\ HostOK'
      BY <1>0, <3>1 DEF WorldOK, DiskOK, HostOK
    <3>3. Effect /\ SafeThen(op.vol)
      BY <2>1, <3>1, <3>2, HostEffect DEF SafeThen
    <3> QED  BY <1>11, <3>3 DEF Reached, Release
  <2>2. CASE op.vol # NoVol
    <3>1. There(op.vol) /\ op.vol \in Volume
      BY <1>0, <1>11, <2>2 DEF Release, CanDo
    <3>2. UNCHANGED app /\ Unplug(op.vol, "there") /\ Retire(op.vol, "user") /\ op.step = "release"
      BY <1>11, <2>2 DEF Release
    <3>3. Effect
      BY <2>2, <3>1, <3>2, ReleaseEffect
    <3>4. SafeThen(op.vol)
      BY <1>0, <3>1, <3>2, RetireOK DEF SafeThen, Classes
    <3> QED  BY <3>2, <3>3, <3>4 DEF Reached
  <2> QED  BY <2>1, <2>2
<1>12. CASE Clear
  <2>1. op.kind = "detach" /\ app.row
    BY <1>0, <1>12, KindOfStep, ReadyFacts DEF Clear, Claims
  <2>2. app' \in AppRow /\ app'.row = app.row /\ app'.vol = NoVol
    BY <1>0, <1>12 DEF Clear, WorldOK, AppOK, AppRow
  <2>3. AppOK' /\ RowMoves /\ HostOK'
    BY <1>0, <1>12, <2>1, <2>2 DEF Clear, AppOK, RowMoves, WorldOK, HostOK
  <2> QED  BY <1>1, <1>12, <2>3, RowEffect DEF Clear
<1>13. CASE Remount
  <2>1. app.row
    BY <1>0, <1>13, KindOfStep, ReadyFacts DEF Remount, Claims
  <2>2. app' \in AppRow /\ app'.row = app.row /\ app'.vol = app.vol /\ HostOK'
    BY <1>0, <1>13 DEF Remount, WorldOK, AppOK, AppRow, HostOK
  <2> QED  BY <1>1, <1>13, <2>1, <2>2, SameRowEffect DEF Remount
<1>14. CASE MarkDeleting
  <2>1. app.row
    BY <1>0, <1>14, KindOfStep, ReadyFacts DEF MarkDeleting, Claims
  <2>2. app' \in AppRow /\ app'.row = app.row /\ app'.vol = app.vol /\ HostOK'
    BY <1>0, <1>14 DEF MarkDeleting, WorldOK, AppOK, AppRow, HostOK
  <2> QED  BY <1>1, <1>14, <2>1, <2>2, SameRowEffect DEF MarkDeleting
<1>15. CASE RemoveContainers
  BY <1>0, <1>1, <1>15, StopEffect DEF RemoveContainers
<1>16. CASE DeleteRows
  <2>1. op.step = "rows" /\ app' = IF ~op.soft THEN NoApp ELSE app
    BY <1>16 DEF DeleteRows, RowsDeleted
  <2>2. NoApp \in AppRow
    BY DEF NoApp, AppRow, Server
  <2>3. AppOK' /\ RowMoves /\ HostOK'
    BY <1>0, <1>16, <2>1, <2>2 DEF AppOK, RowMoves, WorldOK, HostOK, DeleteRows
  <2> QED  BY <1>1, <1>16, <2>1, <2>3, RowEffect DEF DeleteRows
<1>17. CASE StopSource
  BY <1>0, <1>1, <1>17, StopEffect DEF StopSource
<1>18. CASE DetachSource
  <2>1. op.vol \in Volume /\ op.step = "off" /\ UNCHANGED <<app, retired>>
    BY <1>0, <1>18, KindOfStep DEF DetachSource
  <2>2. DiskOK' /\ HostOK' /\ \A w \in Volume : disk'[w].state = disk[w].state
    <3>1. CASE disk[op.vol].at = op.from
      <4>1. disk[op.vol].state = "there" /\ Unplug(op.vol, "there")
        BY <1>0, <1>18, <2>1, <3>1, Volumes0 DEF DetachSource, WorldOK, DiskOK
      <4> QED  BY <1>0, <2>1, <4>1, UnplugOK
    <3>2. CASE disk[op.vol].at # op.from
      BY <1>0, <1>18, <3>2 DEF DetachSource, WorldOK, DiskOK, HostOK
    <3> QED  BY <3>1, <3>2
  <2> QED  BY <1>1, <2>1, <2>2, HostEffect
<1>19. CASE AttachTarget
  <2>1. There(op.vol) /\ op.kind = "move"
    BY <1>0, <1>19, KindOfStep DEF AttachTarget, CanDo, Reachable
  <2>2. Effect
    BY <1>0, <1>19, <2>1, AttachEffect DEF AttachTarget, There
  <2> QED  BY <1>1, <1>19, <2>2 DEF AttachTarget
<1>20. CASE StartTarget
  <2>1. op.step = "start" /\ app.row /\ op.vol \in Volume
    BY <1>0, <1>20, KindOfStep, ReadyFacts DEF StartTarget, Claims
  <2>2. CASE Target \in app.on
    BY <1>0, <1>1, <1>20, <2>1, <2>2, RunEffect DEF StartTarget
  <2>3. CASE Target \notin app.on
    <3>1. app' = [app EXCEPT !.on = app.on \union {Target}] /\ Start(Target, op.vol)
      BY <1>20, <2>3 DEF StartTarget
    <3>2. app' \in AppRow /\ app'.row = app.row /\ app'.vol = app.vol
      BY <1>0, <3>1 DEF WorldOK, AppOK, AppRow
    <3>3. HostOK'
      BY <1>0, <2>1, <3>1, StartOK
    <3> QED  BY <1>1, <1>20, <2>1, <3>2, <3>3, SameRowEffect DEF StartTarget
  <2> QED  BY <2>2, <2>3
<1>21. CASE DropSource
  <2>1. op.step = "drop" /\ app.row
    BY <1>0, <1>21, KindOfStep, ReadyFacts DEF DropSource, Claims
  <2>2. app' \in AppRow /\ app'.row = app.row /\ app'.vol = app.vol /\ HostOK'
    BY <1>0, <1>21 DEF DropSource, Placed, WorldOK, AppOK, AppRow, HostOK
  <2> QED  BY <1>1, <1>21, <2>1, <2>2, SameRowEffect DEF DropSource
<1> QED
  BY <1>2, <1>3, <1>4, <1>5, <1>6, <1>7, <1>8, <1>9, <1>10, <1>11, <1>12, <1>13, <1>14,
     <1>15, <1>16, <1>17, <1>18, <1>19, <1>20, <1>21 DEF Do

\* A step that is left halfway.
LEMMA HalfEffect ==
  ASSUME Ready, CanDo, Half
  PROVE  Effect
<1>0. /\ WorldOK /\ op.kind \in DOMAIN Plan /\ op.step \in StepsOf(op.kind)
      /\ op.from \in Server /\ Target \in Server /\ op.vol \in Volume \union {NoVol}
      /\ op.kind # "destroy" => op.vol \in Volume
  BY ReadyFacts
<1> USE DEF Vol, Here
<1>1. CASE HalfReleased
  <2>1. op.step = "release" /\ op.vol # NoVol /\ There(op.vol)
    BY <1>1 DEF HalfReleased, CanDo
  <2> QED  BY <1>1, <2>1, ReleaseEffect DEF HalfReleased
<1>2. CASE HalfRecreated
  BY <1>0, <1>2, StopEffect DEF HalfRecreated
<1>3. CASE HalfInserted
  <2>1. op.kind \in Bringing
    BY <1>0, <1>3, KindOfStep DEF HalfInserted
  <2>2. AppOK' /\ RowMoves
    BY <1>0, <1>3 DEF HalfInserted, WorldOK, AppOK, RowMoves
  <2> QED  BY <1>3, <2>1, <2>2, TakeoverEffect DEF HalfInserted
<1>4. CASE HalfStarted
  BY <1>0, <1>4, RunEffect DEF HalfStarted
<1>5. CASE HalfDropped
  <2>1. op.step = "drop" /\ app.row
    BY <1>0, <1>5, KindOfStep, ReadyFacts DEF HalfDropped, Claims
  <2>2. app' \in AppRow /\ app'.row = app.row /\ app'.vol = app.vol /\ HostOK'
    BY <1>0, <1>5 DEF HalfDropped, WorldOK, AppOK, AppRow, HostOK
  <2> QED  BY <1>5, <2>1, <2>2, SameRowEffect DEF HalfDropped
<1> QED  BY <1>1, <1>2, <1>3, <1>4, <1>5 DEF Half

\* A step that changes nothing.
LEMMA NoEffect ==
  ASSUME Ready, UNCHANGED world
  PROVE  Effect
<1>1. WorldOK
  BY ReadyFacts
<1>2. UNCHANGED <<app, retired>> /\ DiskOK' /\ HostOK'
  BY <1>1 DEF world, WorldOK, DiskOK, HostOK
<1> QED  BY <1>2, HostEffect DEF world

\* A step that undoes its own effect.
LEMMA InlineUndoEffect ==
  ASSUME Ready, InlineUndo
  PROVE  Effect
<1>1. WorldOK /\ op.from \in Server /\ UNCHANGED <<app, retired>>
  BY ReadyFacts DEF InlineUndo
<1>2. HostOK'
  <2>1. CASE op.step = "run"
    BY <1>1, <2>1, StopOK DEF InlineUndo, Here
  <2>2. CASE op.step # "run"
    BY <1>1, <2>2 DEF InlineUndo, WorldOK, HostOK
  <2> QED  BY <2>1, <2>2
<1>3. DiskOK' /\ \A w \in Volume : disk'[w].state = disk[w].state
  <2>1. CASE Binds
    <3>1. op.vol \in Volume /\ Unbind(op.vol)
      BY <2>1, ReadyFacts DEF InlineUndo, Binds, Vol
    <3> QED  BY <1>1, <3>1, UnbindOK
  <2>2. CASE ~Binds
    BY <1>1, <2>2 DEF InlineUndo, WorldOK, DiskOK
  <2> QED  BY <2>1, <2>2
<1> QED  BY <1>1, <1>2, <1>3, HostEffect

\* A resumed move records its placement.
LEMMA PlacedEffect ==
  ASSUME Ready, Moved, Placed, UNCHANGED <<disk, retired, host>>
  PROVE  Effect /\ Reached
<1>1. WorldOK /\ Target \in Server /\ op.step = "stop" /\ app.row
  BY ReadyFacts, KindOfStep DEF Moved, Claims
<1>2. app' \in AppRow /\ app'.row = app.row /\ app'.vol = app.vol /\ HostOK'
  BY <1>1 DEF Placed, WorldOK, AppOK, AppRow, HostOK
<1>3. Effect
  BY <1>1, <1>2, SameRowEffect
<1> QED  BY <1>1, <1>3 DEF Reached

-----------------------------------------------------------------------------
(* The walk forward *)

\* The operation goes on with the same work.
SameWork == op'.kind = op.kind /\ op'.vol = op.vol /\ op'.from = op.from

\* What a step that is no last one leaves to its operation.
LEMMA EffectClaims ==
  ASSUME Ready, Effect, SameWork
  PROVE  /\ app'.vol \in {NoVol, op'.vol}
         /\ op'.kind \in {"attach", "adopt", "detach", "remount", "move"} => app'.row
         /\ op'.kind \in {"remount", "move"} => app'.vol = op'.vol
<1>1. Claims /\ op.kind \in DOMAIN Plan /\ op.step \in StepsOf(op.kind)
  BY ReadyFacts
<1>2. RowMoves
  BY DEF Effect
<1>3. op.step = "clear" => op.kind = "detach"
  BY <1>1, KindOfStep
<1>4. op.step = "rows" => op.kind = "destroy"
  BY <1>1, KindOfStep
<1>5. op.step \in {"insert", "record"} => op.kind \in Bringing
  BY <1>1, KindOfStep
<1>6. NoApp.vol = NoVol
  BY DEF NoApp
<1> QED  BY <1>1, <1>2, <1>3, <1>4, <1>5, <1>6 DEF Claims, RowMoves, SameWork, Bringing

\* A volume that nobody brings stays accounted for.
LEMMA AccountKept ==
  ASSUME Ready, Effect, op.kind \notin Bringing, op.vol \in Volume, Accounted(op.vol),
         lost \subseteq lost'
  PROVE  There(op.vol) /\ disk'[op.vol].state = "there" =>
           \/ app'.row /\ app'.vol = op.vol
           \/ retired'[op.vol] # "no"
           \/ op.vol \in lost'
<1>1. Claims /\ op.kind \in DOMAIN Plan /\ op.step \in StepsOf(op.kind) /\ op.vol # NoVol
  BY ReadyFacts, Volumes0
<1>2. RowMoves /\ (Safe(op.vol) => SafeThen(op.vol))
  BY DEF Effect
<1>3. op.step = "clear" => Safe(op.vol)
  BY <1>1, KindOfStep DEF Claims
<1>4. op.step = "rows" /\ ~op.soft => Safe(op.vol)
  BY <1>1, KindOfStep DEF Claims
<1>5. op.step \notin {"insert", "record"}
  BY <1>1, KindOfStep
<1> QED  BY <1>1, <1>2, <1>3, <1>4, <1>5 DEF RowMoves, Safe, SafeThen, There, Accounted, Owner

\* Every volume stays accounted for, when the one that the operation brings is
\* still in its hands, lost, retained, or named by the app.
LEMMA TrackedAfter ==
  ASSUME Ready, Tracked, Effect, lost \subseteq lost', SameWork,
         op.kind \in Bringing => \/ Active'
                                 \/ op.vol \in lost'
                                 \/ app'.row /\ app'.vol = op.vol
                                 \/ SafeThen(op.vol)
  PROVE  Tracked'
<1> SUFFICES ASSUME NEW v \in Volume, disk'[v].state = "there",
                    ~(Active' /\ op'.kind \in Bringing /\ op'.vol = v)
             PROVE  \/ app'.row /\ app'.vol = v
                    \/ retired'[v] # "no"
                    \/ v \in lost'
  BY DEF Tracked, Accounted, There, Owner
<1>1. v # NoVol
  BY Volumes0
<1>2. Claims /\ op.kind \in DOMAIN Plan
  BY ReadyFacts
<1>3. CASE v # op.vol
  <2>1. disk[v].state = "there" /\ retired'[v] = retired[v]
    BY <1>3 DEF Effect, Touched
  <2>2. Accounted(v)
    BY <1>3 DEF Tracked
  <2>3. ~Owner(v)
    BY <1>1, <1>2, <1>3 DEF Claims, Owner
  <2> QED  BY <1>1, <2>1, <2>2, <2>3 DEF Accounted, There
<1>4. CASE v = op.vol /\ op.kind \in Bringing
  BY <1>1, <1>4 DEF SameWork, SafeThen
<1>5. CASE v = op.vol /\ op.kind \notin Bringing
  <2>1. Accounted(v)
    BY <1>5 DEF Tracked
  <2>2. disk[v].state = "there"
    BY <1>5 DEF Effect
  <2> QED  BY <1>1, <1>5, <2>1, <2>2, AccountKept DEF There
<1> QED  BY <1>3, <1>4, <1>5

\* The operation goes on to its next step, or is done.
LEMMA ForwardCourse ==
  ASSUME Ready, Tracked, Effect, lost \subseteq lost',
         NEW o \in OpRow, o.kind = op.kind, o.vol = op.vol, o.from = op.from, o.live,
         o.dir = "forward", o.step = op.step, o.left \subseteq o.todo,
         op.todo \subseteq o.todo, o.todo \subseteq StepsOf(op.kind),
         op.step = "create" => "create" \in o.todo,
         op.soft => o.soft,
         op.kind = "destroy" /\ o.soft => op.soft \/ op.step \in {"remove", "release"},
         op.step \in {"insert", "record"} => app'.row /\ app'.vol = op.vol,
         op.step = "release" /\ ~(op.kind = "destroy" /\ o.soft) => SafeThen(op.vol),
         op' = Forward(o)
  PROVE  OpOK' /\ SameWork /\ Course' /\ Tracked' /\ lost \subseteq lost'
<1>1. /\ OnPlan /\ Claims /\ Undoing /\ op.step \in StepsOf(op.kind) /\ op.kind \in DOMAIN Plan
      /\ WorldOK /\ Active /\ op.dir = "forward"
  BY ReadyFacts DEF Ready
<1>2. RowMoves /\ (op.kind \notin Bringing => (Safe(op.vol) => SafeThen(op.vol)))
  BY DEF Effect
<1>3. CASE op' = End(o, "done") /\ LastStep
  <2>1. op' \in OpRow /\ op'.dir = "done" /\ ~op'.live /\ op'.left = o.left /\ op'.todo = o.todo
        /\ SameWork
    BY <1>3, ZenonT(60) DEF End, OpRow, Settled, SameWork
  <2>2. ~Active'
    BY <2>1 DEF Active, Settled
  <2>3. OpOK' /\ Course'
    BY <2>1, <2>2 DEF OpOK, Course
  <2>4. op.kind \in Bringing => app.row /\ app.vol = op.vol /\ op.step \in {"serve", "recreate"}
    BY <1>1, <1>3 DEF Claims, LastStep, Bringing
  <2>5. op.kind \in Bringing => app'.row /\ app'.vol = op.vol
    BY <1>2, <2>4 DEF RowMoves
  <2>6. Tracked'
    BY <2>1, <2>5, TrackedAfter
  <2> QED  BY <2>1, <2>3, <2>6
<1>4. ASSUME NEW t \in Steps, Follows(t), op' = [o EXCEPT !.step = t]
      PROVE  OpOK' /\ SameWork /\ Course' /\ Tracked'
  <2>1. /\ op' \in OpRow /\ SameWork
        /\ op'.dir = "forward" /\ op'.live = o.live /\ op'.left = o.left /\ op'.todo = o.todo
        /\ op'.step = t /\ op'.soft = o.soft
    BY <1>4, ZenonT(60) DEF OpRow, SameWork
  <2>2. Active'
    BY <2>1 DEF Active, Settled
  <2>3. OpOK'
    BY <2>1, <2>2 DEF OpOK
  <2>4. Tracked'
    BY <2>1, <2>2, TrackedAfter
  <2>5. OnPlan'
    BY <1>1, <1>4, <2>1 DEF OnPlan, SameWork, Follows, StepsOf
  <2>6. Undoing'
    BY <1>1, <1>4, <2>1 DEF Undoing, SameWork, Follows
  <2>7. Claims'
    <3>1. /\ app'.vol \in {NoVol, op'.vol}
          /\ op'.kind \in {"attach", "adopt", "detach", "remount", "move"} => app'.row
          /\ op'.kind \in {"remount", "move"} => app'.vol = op'.vol
      BY <2>1, EffectClaims
    <3>2. Safe(op.vol)' <=> SafeThen(op.vol)
      BY <2>1 DEF SafeThen, Safe, There, SameWork
    <3>3. op.kind = "detach" => IF t \in {"unbind", "release"} THEN app'.vol = op.vol
                                ELSE SafeThen(op.vol)
      <4> SUFFICES ASSUME op.kind = "detach"
                   PROVE  IF t \in {"unbind", "release"} THEN app'.vol = op.vol ELSE SafeThen(op.vol)
        OBVIOUS
      <4>1. t \in {"release", "clear", "recreate", "assert"}
        BY <1>4, StepSets DEF Follows
      <4>2. CASE t = "release"
        BY <1>1, <1>2, <1>4, <4>2 DEF Follows, Claims, RowMoves
      <4>3. CASE t = "clear"
        BY <1>4, <4>3 DEF Follows
      <4>4. CASE t \in {"recreate", "assert"}
        <5>1. op.step \in {"clear", "recreate"}
          BY <1>4, <4>4 DEF Follows
        <5>2. Safe(op.vol)
          BY <1>1, <5>1 DEF Claims
        <5> QED  BY <1>2, <4>4, <5>2 DEF Bringing
      <4> QED  BY <4>1, <4>2, <4>3, <4>4
    <3>4. op.kind = "destroy" => IF o.soft \/ t \in {"mark", "remove", "release"}
                                 THEN app'.row /\ app'.vol = op.vol ELSE SafeThen(op.vol)
      <4> SUFFICES ASSUME op.kind = "destroy"
                   PROVE  IF o.soft \/ t \in {"mark", "remove", "release"}
                          THEN app'.row /\ app'.vol = op.vol ELSE SafeThen(op.vol)
        OBVIOUS
      <4>1. t \in {"remove", "release", "rows", "assert"}
        BY <1>4, StepSets DEF Follows
      <4>2. CASE t \in {"remove", "release"}
        <5>1. op.step \in {"mark", "remove"}
          BY <1>4, <4>2 DEF Follows
        <5> QED  BY <1>1, <1>2, <4>2, <5>1 DEF Claims, RowMoves
      <4>3. CASE t \in {"rows", "assert"} /\ o.soft
        <5>1. op.soft \/ op.step \in {"remove", "release"}
          BY <4>3
        <5>2. op.step \in {"release", "rows"}
          BY <1>4, <4>3 DEF Follows
        <5>3. app.row /\ app.vol = op.vol
          BY <1>1, <5>1, <5>2 DEF Claims
        <5> QED  BY <1>2, <4>3, <5>1, <5>2, <5>3 DEF RowMoves
      <4>4. CASE t \in {"rows", "assert"} /\ ~o.soft
        <5>1. op.step \in {"release", "rows"} /\ ~op.soft
          BY <1>4, <4>4 DEF Follows
        <5>2. op.step = "rows" => SafeThen(op.vol)
          BY <1>1, <1>2, <5>1 DEF Claims, Bringing
        <5> QED  BY <4>4, <5>1, <5>2
      <4> QED  BY <4>1, <4>2, <4>3, <4>4
    <3>5. op.kind \in Bringing /\ (t \in {"run", "serve", "recreate"}
                                     \/ (t = "bind" /\ op.kind \in {"deploy", "redeploy"}))
            => app'.row /\ app'.vol = op.vol
      <4> SUFFICES ASSUME op.kind \in Bringing,
                          t \in {"run", "serve", "recreate"}
                            \/ (t = "bind" /\ op.kind \in {"deploy", "redeploy"})
                   PROVE  app'.row /\ app'.vol = op.vol
        OBVIOUS
      <4>1. CASE op.kind \in {"deploy", "redeploy"}
        <5>1. t \in {"bind", "run", "serve"}
          BY <1>4, <4>1, StepSets DEF Follows
        <5>2. op.step \in {"insert", "bind", "run"}
          BY <1>4, <4>1, <5>1 DEF Follows
        <5>3. op.step # "insert" => app.row /\ app.vol = op.vol
          BY <1>1, <4>1, <5>2 DEF Claims
        <5> QED  BY <1>2, <5>2, <5>3 DEF RowMoves
      <4>2. CASE op.kind \in {"attach", "adopt"}
        <5>1. t = "recreate"
          BY <1>4, <4>2, StepSets DEF Follows
        <5> QED  BY <1>4, <4>2, <5>1 DEF Follows
      <4> QED  BY <4>1, <4>2 DEF Bringing
    <3> QED  BY <2>1, <3>1, <3>2, <3>3, <3>4, <3>5 DEF Claims, SameWork
  <2> QED  BY <2>1, <2>2, <2>3, <2>4, <2>5, <2>6, <2>7 DEF Course
<1>5. \/ op' = End(o, "done") /\ LastStep
      \/ \E t \in Steps : Follows(t) /\ op' = [o EXCEPT !.step = t]
  BY <1>1, Onward
<1> QED  BY <1>3, <1>4, <1>5

\* An operation that fails stops with nothing to undo, or walks back.
LEMMA BackCourse ==
  ASSUME Ready, Tracked, Effect, lost' = lost \union Abandoned,
         NEW o \in OpRow, o.kind = op.kind, o.vol = op.vol, o.from = op.from, o.live,
         o.todo = op.todo, o.left \subseteq o.todo,
         op' \in {Backward(o), [Backward(o) EXCEPT !.soft = TRUE]}
  PROVE  OpOK' /\ SameWork /\ Course' /\ Tracked' /\ lost \subseteq lost'
<1>1. /\ OnPlan /\ Claims /\ Undoing /\ op.step \in StepsOf(op.kind) /\ op.kind \in DOMAIN Plan
      /\ WorldOK /\ OpOK /\ Active /\ op.dir = "forward" /\ (op.kind # "destroy" => op.vol \in Volume)
  BY ReadyFacts DEF Ready
<1>2. lost \subseteq lost'
  OBVIOUS
<1>3. op.todo \subseteq StepsOf(op.kind) \intersect Compensable
  BY <1>1 DEF OnPlan, OpOK, OpRow
<1>4. op.kind \in {"detach", "destroy"} => op.todo = {}
  BY <1>3, StepSets DEF Compensable
<1> PICK b : b = Backward(o)
  OBVIOUS
<1>0. ASSUME b \in OpRow
      PROVE  /\ op' \in OpRow /\ op'.kind = b.kind /\ op'.vol = b.vol /\ op'.from = b.from
             /\ op'.dir = b.dir /\ op'.todo = b.todo /\ op'.left = b.left /\ op'.live = b.live
  <2>1. CASE op' = b
    BY <1>0, <2>1
  <2>2. CASE op' = [b EXCEPT !.soft = TRUE]
    BY <1>0, <2>2 DEF OpRow
  <2> QED  BY <2>1, <2>2
<1>5. CASE op.kind = "move"
  <2>1. b = [o EXCEPT !.dir = "restore", !.step = "off"]
    <3>1. o.kind = "move"
      BY <1>5
    <3> QED  BY <3>1 DEF Backward
  <2>0. /\ b \in OpRow /\ b.dir = "restore" /\ b.kind = o.kind /\ b.vol = o.vol
        /\ b.from = o.from /\ b.todo = o.todo /\ b.left = o.left
    BY <2>1, ZenonT(60) DEF OpRow, Steps
  <2>2. /\ op' \in OpRow /\ SameWork /\ op'.dir = "restore" /\ op'.todo = op.todo
        /\ op'.left = o.left
    BY <1>0, <2>0, <2>1 DEF SameWork
  <2>3. Active'
    BY <2>2 DEF Active, Settled
  <2>4. OpOK'
    BY <2>2, <2>3 DEF OpOK
  <2>5. OnPlan'
    BY <1>1, <1>5, <2>2 DEF OnPlan, SameWork, StepsOf
  <2>6. Undoing' /\ Claims'
    BY <1>5, <2>2, EffectClaims DEF Undoing, Claims, SameWork, Bringing
  <2>7. Tracked'
    BY <1>2, <1>5, <2>2, TrackedAfter DEF Bringing
  <2> QED  BY <1>2, <2>2, <2>4, <2>5, <2>6, <2>7 DEF Course
<1>6. CASE op.kind # "move" /\ op.todo = {}
  <2>1. b = [o EXCEPT !.dir = "compensated", !.live = FALSE]
    BY <1>6 DEF Backward, End
  <2>0. /\ b \in OpRow /\ b.dir = "compensated" /\ ~b.live /\ b.kind = o.kind /\ b.vol = o.vol
        /\ b.from = o.from /\ b.todo = o.todo /\ b.left = o.left
    BY <2>1, ZenonT(60) DEF OpRow, Settled
  <2>2. /\ op' \in OpRow /\ SameWork /\ op'.dir = "compensated" /\ op'.todo = op.todo
        /\ op'.left = o.left /\ ~op'.live
    BY <1>0, <2>0, <2>1 DEF SameWork
  <2>3. ~Active'
    BY <2>2 DEF Active, Settled
  <2>4. OpOK' /\ Course'
    BY <2>2, <2>3 DEF OpOK, Course
  <2>5. ASSUME op.kind \in Bringing  PROVE op.vol \in lost'
    <3>1. Unaccounted
      BY <1>1, <1>6, <2>5 DEF Unaccounted, Undoing, Bringing
    <3>2. op.vol \in Volume /\ op.vol # NoVol
      BY <1>1, <2>5, Volumes0 DEF Bringing
    <3> QED  BY <2>2, <3>1, <3>2 DEF Abandoned
  <2>6. Tracked'
    BY <1>2, <2>2, <2>5, TrackedAfter
  <2> QED  BY <1>2, <2>2, <2>4, <2>6
<1>7. CASE op.kind # "move" /\ op.todo # {}
  <2>1. b = [o EXCEPT !.dir = "back", !.left = op.todo]
    BY <1>7 DEF Backward
  <2>0. /\ b \in OpRow /\ b.dir = "back" /\ b.left = op.todo /\ b.kind = o.kind /\ b.vol = o.vol
        /\ b.from = o.from /\ b.todo = o.todo
    BY <1>1, <2>1, ZenonT(60) DEF OpRow, OpOK
  <2>2. /\ op' \in OpRow /\ SameWork /\ op'.dir = "back" /\ op'.todo = op.todo
        /\ op'.left = op.todo
    BY <1>0, <2>0, <2>1 DEF SameWork
  <2>3. Active'
    BY <2>2 DEF Active, Settled
  <2>4. OpOK'
    BY <2>2, <2>3 DEF OpOK
  <2>5. OnPlan'
    BY <1>1, <1>7, <2>2 DEF OnPlan, SameWork, StepsOf
  <2>6. Undoing'
    BY <1>1, <1>7, <2>2 DEF Undoing, SameWork
  <2>7. op.kind \notin {"detach", "destroy"}
    BY <1>4, <1>7
  <2>8. Claims'
    BY <2>2, <2>7, EffectClaims DEF Claims, SameWork
  <2>9. Tracked'
    BY <1>2, <2>2, <2>3, TrackedAfter
  <2> QED  BY <1>2, <2>2, <2>4, <2>5, <2>6, <2>8, <2>9 DEF Course
<1> QED  BY <1>5, <1>6, <1>7

-----------------------------------------------------------------------------
(* The walk back *)

\* A volume is detached if it is there: the types and every state stay.
LEMMA DetachedOK ==
  ASSUME WorldOK, NEW v \in Volume, Detached(v)
  PROVE  DiskOK' /\ HostOK' /\ \A w \in Volume : disk'[w].state = disk[w].state
<1>1. CASE There(v)
  <2>1. Unplug(v, "there") /\ disk[v].state = "there"
    BY <1>1 DEF Detached, There
  <2> QED  BY <2>1, UnplugOK
<1>2. CASE ~There(v)
  BY <1>2 DEF Detached, WorldOK, DiskOK, HostOK
<1> QED  BY <1>1, <1>2

\* What a call of the walk back may change.
BackEffect ==
  /\ WorldOK' /\ Touched(op.vol)
  /\ app'.vol \in {NoVol, op.vol}
  /\ op.kind \in {"attach", "adopt", "remount"} => app'.row
  /\ op.kind = "remount" => /\ app'.row = app.row /\ app'.vol = app.vol
                            /\ disk'[op.vol].state = disk[op.vol].state
                            /\ retired'[op.vol] = retired[op.vol]
  /\ Safe(op.vol) => SafeThen(op.vol)

BackReady == TypeOK /\ Course /\ op.live /\ op.dir = "back" /\ op.left # {}

\* What holds when a rollback is about to undo a step.
LEMMA BackFacts ==
  ASSUME BackReady
  PROVE  /\ WorldOK /\ OpOK /\ OnPlan /\ Claims /\ Undoing /\ Active
         /\ Latest \in op.left /\ Latest \in StepsOf(op.kind) /\ Latest \in Compensable
         /\ op.vol \in Volume /\ op.from \in Server /\ app.vol \in Volume \union {NoVol}
         /\ op.kind \in Bringing \union {"remount"}
<1>1. WorldOK /\ OpOK
  BY TypeParts DEF BackReady
<1>2. Active
  BY DEF BackReady, Active, Settled
<1>3. OnPlan /\ Claims /\ Undoing
  BY <1>2 DEF BackReady, Course
<1>4. op.left \subseteq StepsOf(op.kind) \intersect Compensable /\ op.kind \in DOMAIN Plan
  BY <1>1, <1>3 DEF OnPlan, OpOK, OpRow
<1>5. Latest \in op.left
  BY <1>4, LatestIsLeft DEF BackReady
<1>6. op.kind \in Bringing \union {"remount"}
  BY <1>4, <1>5, Plans, StepSets DEF Bringing, Compensable
<1>7. op.vol \in Volume
  BY <1>3, <1>6 DEF OnPlan, Bringing
<1>8. op.from \in Server /\ app.vol \in Volume \union {NoVol}
  BY <1>1 DEF OpOK, OpRow, WorldOK, AppOK, AppRow
<1> QED  BY <1>1, <1>2, <1>3, <1>4, <1>5, <1>6, <1>7, <1>8

\* The kinds whose walk back comes past a step.
LEMMA KindOfUndo ==
  ASSUME BackReady
  PROVE  /\ Latest = "create" => op.kind \in {"deploy", "attach"}
         /\ Latest = "adopt" => op.kind = "redeploy"
         /\ Latest = "take" => op.kind = "adopt"
         /\ Latest = "bind" => op.kind \in Bringing
         /\ Latest \in {"insert", "run"} => op.kind \in {"deploy", "redeploy"}
         /\ Latest = "record" => op.kind \in {"attach", "adopt"}
         /\ Latest = "remount" => op.kind = "remount"
<1>1. Latest \in StepsOf(op.kind) /\ op.kind \in Bringing \union {"remount"}
  BY BackFacts
<1> QED  BY <1>1, StepSets DEF Bringing

\* A call that leaves the row and the list of the retained alone.
LEMMA QuietBack ==
  ASSUME BackReady, UNCHANGED <<app, retired>>, DiskOK', HostOK',
         \A w \in Volume : disk'[w].state = disk[w].state
  PROVE  BackEffect
<1>1. WorldOK /\ op.vol \in Volume /\ Claims
  BY BackFacts
<1>2. WorldOK'
  BY <1>1 DEF WorldOK, AppOK, RetiredOK
<1>3. Safe(op.vol) => SafeThen(op.vol)
  BY <1>1 DEF Safe, SafeThen, There
<1> QED  BY <1>1, <1>2, <1>3 DEF BackEffect, Touched, Claims

\* A call that lists the volume as retained.
LEMMA RetiringBack ==
  ASSUME BackReady, op.kind \in Bringing, Detached(op.vol), UNCHANGED app,
         NEW c \in Classes, c # "no", Retire(op.vol, c)
  PROVE  BackEffect /\ SafeThen(op.vol)
<1>1. WorldOK /\ op.vol \in Volume /\ Claims
  BY BackFacts
<1>2. DiskOK' /\ HostOK' /\ \A w \in Volume : disk'[w].state = disk[w].state
  BY <1>1, DetachedOK
<1>3. RetiredOK' /\ retired'[op.vol] = c /\ \A w \in Volume : w # op.vol => retired'[w] = retired[w]
  BY <1>1, RetireOK
<1>4. WorldOK' /\ SafeThen(op.vol)
  BY <1>1, <1>2, <1>3 DEF WorldOK, AppOK, SafeThen
<1>5. op.kind # "remount"
  BY DEF Bringing
<1> QED  BY <1>1, <1>2, <1>3, <1>4, <1>5 DEF BackEffect, Touched, Claims

\* A call that writes the row and the host only.
LEMMA RowBack ==
  ASSUME BackReady, UNCHANGED <<disk, retired>>, HostOK', AppOK', app'.vol \in {NoVol, op.vol},
         op.kind \in {"attach", "adopt", "remount"} => app'.row,
         op.kind = "remount" => app'.row = app.row /\ app'.vol = app.vol
  PROVE  BackEffect
<1>1. WorldOK /\ op.vol \in Volume
  BY BackFacts
<1>2. WorldOK'
  BY <1>1 DEF WorldOK, DiskOK, RetiredOK
<1>3. Safe(op.vol) => SafeThen(op.vol)
  BY <1>1 DEF Safe, SafeThen, There
<1> QED  BY <1>1, <1>2, <1>3 DEF BackEffect, Touched

\* The row of a live app is cleared.
LEMMA ClearedBack ==
  ASSUME BackReady, Latest = "record", app' = WithoutVolume, UNCHANGED <<disk, retired>>, HostOK'
  PROVE  BackEffect
<1>1. WorldOK /\ app.row /\ op.kind \in {"attach", "adopt"}
  BY BackFacts, KindOfUndo DEF Claims
<1>2. app' \in AppRow /\ app'.row = app.row /\ app'.vol = NoVol
  BY <1>1 DEF WithoutVolume, WorldOK, AppOK, AppRow
<1>3. AppOK'
  BY <1>1, <1>2 DEF AppOK
<1> QED  BY <1>1, <1>2, <1>3, RowBack

\* A completed step is undone.
LEMMA UndoEffect ==
  ASSUME BackReady, Undoable, Undo
  PROVE  BackEffect /\ (Latest = "create" => SafeThen(op.vol))
<1>0. /\ WorldOK /\ op.vol \in Volume /\ op.from \in Server /\ app.vol \in Volume \union {NoVol}
      /\ Claims /\ op.kind \in Bringing \union {"remount"}
  BY BackFacts
<1> USE DEF Vol, Here
<1>1. CASE UndoCreate
  <2>1. op.kind \in Bringing
    BY <1>1, KindOfUndo DEF UndoCreate, Bringing
  <2>2. "provisional" \in Classes /\ "provisional" # "no"
    BY DEF Classes
  <2>3. Detached(op.vol) /\ UNCHANGED app /\ Retire(op.vol, "provisional")
    BY <1>1 DEF UndoCreate
  <2> QED  BY <2>1, <2>2, <2>3, RetiringBack
<1>2. CASE UndoAdopt
  <2>1. op.kind \in Bringing /\ Latest # "create"
    BY <1>2, KindOfUndo DEF UndoAdopt, Bringing
  <2>2. CASE op.mine
    <3>1. "user" \in Classes /\ "user" # "no"
      BY DEF Classes
    <3>2. Detached(op.vol) /\ UNCHANGED app /\ Retire(op.vol, "user")
      BY <1>2, <2>2 DEF UndoAdopt
    <3> QED  BY <2>1, <3>1, <3>2, RetiringBack
  <2>3. CASE ~op.mine
    <3>1. UNCHANGED <<app, retired, disk, host>>
      BY <1>2, <2>3 DEF UndoAdopt
    <3>2. DiskOK' /\ HostOK' /\ \A w \in Volume : disk'[w].state = disk[w].state
      BY <1>0, <3>1 DEF WorldOK, DiskOK, HostOK
    <3> QED  BY <2>1, <3>1, <3>2, QuietBack
  <2> QED  BY <2>2, <2>3
<1>3. CASE UndoTake
  <2>1. UNCHANGED <<app, retired>> /\ Detached(op.vol) /\ Latest # "create"
    BY <1>3 DEF UndoTake
  <2> QED  BY <1>0, <2>1, DetachedOK, QuietBack
<1>4. CASE UndoMount
  <2>1. UNCHANGED <<app, retired, host>> /\ Unbind(op.vol) /\ Latest # "create"
    BY <1>4 DEF UndoMount
  <2>2. HostOK'
    BY <1>0, <2>1 DEF WorldOK, HostOK
  <2> QED  BY <1>0, <2>1, <2>2, UnbindOK, QuietBack
<1>5. CASE UndoInsert
  <2>1. UNCHANGED <<disk, retired, host>> /\ app' = NoApp /\ Latest = "insert"
    BY <1>5 DEF UndoInsert
  <2>2. HostOK' /\ NoApp \in AppRow /\ NoApp.vol = NoVol
    BY <1>0, <2>1 DEF WorldOK, HostOK, NoApp, AppRow, Server
  <2>3. AppOK' /\ app'.vol = NoVol
    BY <2>1, <2>2 DEF AppOK
  <2>4. op.kind \in {"deploy", "redeploy"}
    BY <2>1, KindOfUndo
  <2> QED  BY <2>1, <2>2, <2>3, <2>4, RowBack
<1>6. CASE UndoRun
  <2>1. UNCHANGED <<app, disk, retired>> /\ Stop({op.from}) /\ Latest # "create"
    BY <1>6 DEF UndoRun
  <2>2. HostOK' /\ DiskOK' /\ \A w \in Volume : disk'[w].state = disk[w].state
    BY <1>0, <2>1, StopOK DEF WorldOK, DiskOK
  <2> QED  BY <2>1, <2>2, QuietBack
<1>7. CASE UndoRecord
  <2>1. /\ UNCHANGED <<disk, retired>> /\ app' = WithoutVolume /\ Latest = "record"
        /\ Start(op.from, NoVol)
    BY <1>7 DEF UndoRecord, Bare
  <2>2. HostOK'
    BY <1>0, <2>1, StartOK
  <2> QED  BY <2>1, <2>2, ClearedBack
<1>8. CASE UndoRemount
  <2>1. /\ UNCHANGED <<disk, retired>> /\ app' = [app EXCEPT !.driver = FALSE]
        /\ Latest = "remount" /\ Start(op.from, app.vol)
    BY <1>8 DEF UndoRemount
  <2>2. HostOK'
    BY <1>0, <2>1, StartOK
  <2>3. app' \in AppRow /\ app'.row = app.row /\ app'.vol = app.vol /\ app.row
    BY <1>0, <2>1, KindOfUndo DEF WorldOK, AppOK, AppRow, Claims
  <2>4. AppOK' /\ app'.vol \in {NoVol, op.vol}
    BY <1>0, <2>3 DEF AppOK, Claims
  <2> QED  BY <2>1, <2>2, <2>3, <2>4, RowBack
<1> QED  BY <1>1, <1>2, <1>3, <1>4, <1>5, <1>6, <1>7, <1>8 DEF Undo

\* A compensation is left between two calls.
LEMMA HalfUndoneEffect ==
  ASSUME BackReady, HalfUndone
  PROVE  BackEffect
<1>0. WorldOK /\ op.vol \in Volume /\ op.from \in Server
  BY BackFacts
<1> USE DEF Vol, Here
<1>1. CASE Latest = "create" /\ Detached(op.vol) /\ UNCHANGED <<app, retired>>
  BY <1>0, <1>1, DetachedOK, QuietBack
<1>2. CASE Latest = "record" /\ app' = WithoutVolume /\ Stop({op.from}) /\ UNCHANGED <<disk, retired>>
  <2>1. HostOK'
    BY <1>0, <1>2, StopOK
  <2> QED  BY <1>2, <2>1, ClearedBack
<1> QED  BY <1>1, <1>2 DEF HalfUndone

\* Every volume stays accounted for.
LEMMA TrackedBack ==
  ASSUME Tracked, Active, Claims, op.kind \in DOMAIN Plan, Touched(op.vol), lost \subseteq lost',
         SameWork,
         op.kind \in Bringing => Active' \/ op.vol \in lost' \/ SafeThen(op.vol),
         op.kind \notin Bringing => /\ app'.row = app.row /\ app'.vol = app.vol
                                    /\ op.vol \in Volume =>
                                         /\ disk'[op.vol].state = disk[op.vol].state
                                         /\ retired'[op.vol] = retired[op.vol]
  PROVE  Tracked'
<1> SUFFICES ASSUME NEW v \in Volume, disk'[v].state = "there",
                    ~(Active' /\ op'.kind \in Bringing /\ op'.vol = v)
             PROVE  \/ app'.row /\ app'.vol = v
                    \/ retired'[v] # "no"
                    \/ v \in lost'
  BY DEF Tracked, Accounted, There, Owner
<1>1. v # NoVol
  BY Volumes0
<1>2. CASE v # op.vol
  <2>1. disk[v].state = "there" /\ retired'[v] = retired[v]
    BY <1>2 DEF Touched
  <2>2. Accounted(v)
    BY <1>2 DEF Tracked
  <2>3. ~Owner(v)
    BY <1>1, <1>2 DEF Claims, Owner
  <2> QED  BY <1>1, <2>1, <2>2, <2>3 DEF Accounted, There
<1>3. CASE v = op.vol /\ op.kind \in Bringing
  BY <1>1, <1>3 DEF SameWork, SafeThen
<1>4. CASE v = op.vol /\ op.kind \notin Bringing
  <2>1. Accounted(v)
    BY <1>4 DEF Tracked
  <2> QED  BY <1>1, <1>4, <2>1 DEF Accounted, There, Owner
<1> QED  BY <1>2, <1>3, <1>4

\* The walk back goes on.
LEMMA BackGoesOn ==
  ASSUME BackReady, Tracked, BackEffect, lost \subseteq lost',
         op' \in OpRow, SameWork, op'.dir = "back", op'.left \subseteq op'.todo,
         op'.todo \subseteq op.todo,
         "create" \in op.todo => "create" \in op'.todo \/ SafeThen(op.vol)
  PROVE  OpOK' /\ Course' /\ Tracked'
<1>1. /\ WorldOK /\ OpOK /\ OnPlan /\ Claims /\ Undoing /\ Active /\ op.vol \in Volume
      /\ op.kind \in Bringing \union {"remount"} /\ op.dir = "back"
  BY BackFacts DEF BackReady
<1>2. Active'
  BY DEF Active, Settled
<1>3. OpOK'
  BY <1>2 DEF OpOK
<1>4. OnPlan'
  BY <1>1 DEF OnPlan, SameWork, StepsOf
<1>5. Claims'
  BY <1>1 DEF Claims, SameWork, Bringing, BackEffect
<1>6. Undoing'
  <2>1. Safe(op.vol)' <=> SafeThen(op.vol)
    BY <1>1 DEF SafeThen, Safe, There, SameWork
  <2>2. op.kind \in {"deploy", "attach"} => "create" \in op'.todo \/ SafeThen(op.vol)
    BY <1>1 DEF Undoing, BackEffect
  <2> QED  BY <2>1, <2>2 DEF Undoing, SameWork
<1>7. Tracked'
  <2>1. op.kind \in DOMAIN Plan /\ Touched(op.vol)
    BY <1>1 DEF OnPlan, BackEffect
  <2>2. op.kind \notin Bringing => /\ app'.row = app.row /\ app'.vol = app.vol
                                   /\ disk'[op.vol].state = disk[op.vol].state
                                   /\ retired'[op.vol] = retired[op.vol]
    BY <1>1 DEF BackEffect
  <2> QED  BY <1>1, <1>2, <2>1, <2>2, TrackedBack
<1> QED  BY <1>2, <1>3, <1>4, <1>5, <1>6, <1>7 DEF Course

-----------------------------------------------------------------------------
(* Each step keeps the invariant *)

OthersOK ==
  /\ fix \in [pc : {"idle", "listed", "locked", "mounting"}, vol : Volume \union {NoVol},
              server : Server, driver : BOOLEAN]
  /\ eraser \in [pc : {"idle", "listed", "looked", "erasing"}, vol : Volume \union {NoVol},
                 by : {"sweep", "user"}, raced : BOOLEAN]
  /\ lost \in SUBSET Volume
  /\ opsDone \in 0..MaxOps /\ faults \in 0..MaxFaults /\ crashes \in 0..MaxCrashes

\* The type invariant gives the types of the world, the operation and the
\* others.
LEMMA TypeWhole == TypeOK => WorldOK /\ OpOK /\ OthersOK
BY DEF TypeOK, WorldOK, AppOK, DiskOK, RetiredOK, HostOK, OpOK, AppRow, DiskRow, HostRow,
       OpRow, Classes, OthersOK

\* No step makes anybody the owner of a volume but the operation that brings it.
OwnersOld == \A v \in Volume : app'.row /\ app'.vol = v =>
               Owner(v) \/ (Active /\ op.kind \in Bringing /\ op.vol = v)

\* No volume is deleted.
NoneDeleted == \A v \in Volume : disk'[v].state = "gone" => disk[v].state = "gone"

\* What a step of the operation leaves.
Goes == /\ WorldOK' /\ OpOK' /\ Course' /\ Tracked' /\ SameWork /\ Active /\ OwnersOld
        /\ NoneDeleted

\* A call that fails counts within its bound.
LEMMA FailsOK ==
  ASSUME VolumesAssumption, TypeOK, NEW n \in Nat, Fails(n)
  PROVE  faults' \in 0..MaxFaults
BY DEF TypeOK, Fails, VolumesAssumption

\* The operation takes a step, the others stay where they are.
LEMMA StepKeepsInv ==
  ASSUME Inv, Goes, Keep, faults' \in 0..MaxFaults
  PROVE  Inv' /\ NoneDeleted
<1>1. OthersOK /\ OpOK
  BY TypeWhole DEF Inv
<1>2. lost' \in SUBSET Volume
  <2>1. Abandoned \subseteq {op.vol} \ {NoVol}
    BY DEF Abandoned
  <2>2. op.vol \in Volume \union {NoVol} /\ lost \in SUBSET Volume
    BY <1>1 DEF OpOK, OpRow, OthersOK
  <2>3. lost' = lost \union Abandoned
    BY DEF Keep
  <2> QED  BY <2>1, <2>2, <2>3
<1>3. OthersOK'
  BY <1>1, <1>2 DEF OthersOK, Keep
<1>4. TypeOK'
  BY <1>3 DEF Goes, TypeOK, WorldOK, AppOK, DiskOK, RetiredOK, HostOK, OpOK, AppRow, DiskRow,
              HostRow, OpRow, Classes, OthersOK
<1>5. Guarded'
  <2>1. \A v \in Volume : Racing(v)' => Racing(v)
    BY DEF Goes, SameWork, Racing
  <2>2. \A v \in Volume : Owner(v)' => Owner(v) \/ Racing(v)
    BY DEF Goes, OwnersOld, Owner, Racing
  <2>3. eraser' = eraser /\ Guarded
    BY DEF Keep, Inv
  <2>4. eraser.pc # "idle" => eraser.vol \in Volume /\ (Racing(eraser.vol)' => eraser.raced)
    BY <2>1, <2>3 DEF Guarded
  <2>5. eraser.pc \in {"looked", "erasing"} => ~Owner(eraser.vol)' \/ eraser.raced
    BY <2>2, <2>3 DEF Guarded
  <2> QED  BY <2>3, <2>4, <2>5 DEF Guarded, Racing, Owner
<1>6. FixOK'
  BY DEF FixOK, Keep, Inv
<1> QED  BY <1>4, <1>5, <1>6 DEF Inv, Goes

\* No forward step names a volume in the row but the one it brings.
LEMMA EffectOwners ==
  ASSUME Ready, Effect
  PROVE  WorldOK' /\ Active /\ OwnersOld /\ NoneDeleted
<1>1. Active /\ op.step \in StepsOf(op.kind) /\ op.kind \in DOMAIN Plan
  BY ReadyFacts
<1>2. op.step \in {"insert", "record"} => op.kind \in Bringing
  BY <1>1, KindOfStep
<1>3. NoApp.row = FALSE
  BY DEF NoApp
<1> QED  BY <1>1, <1>2, <1>3, Volumes0 DEF Effect, RowMoves, OwnersOld, Owner,
     NoneDeleted, Touched

\* No compensation names a volume in the row.
LEMMA BackOwners ==
  ASSUME BackReady, BackEffect
  PROVE  WorldOK' /\ Active /\ OwnersOld /\ NoneDeleted
<1>1. Active /\ op.kind \in Bringing \union {"remount"}
  BY BackFacts
<1> QED  BY <1>1, Volumes0 DEF BackEffect, OwnersOld, Owner, Bringing, NoneDeleted, Touched

\* An operation under way that walks forward is ready for its step.
LEMMA ReadyInv ==
  ASSUME Inv, op.live, op.dir = "forward"
  PROVE  Ready /\ Tracked /\ OpOK /\ op \in OpRow
BY TypeWhole DEF Inv, Ready, OpOK

\* A step that is noted and goes on keeps the invariant, whatever its effect.
LEMMA NotedKeeps ==
  ASSUME VolumesAssumption, Inv, op.live, op.dir = "forward", Keep, faults' \in 0..MaxFaults,
         op' = Forward(Noted), Effect, Reached
  PROVE  Inv' /\ NoneDeleted
<1>1. Ready /\ Tracked /\ OpOK /\ op \in OpRow
  BY ReadyInv
<1>2. op.step \in StepsOf(op.kind) /\ OnPlan
  BY <1>1, ReadyFacts
<1> PICK o : o = Noted
  OBVIOUS
<1>3. /\ o \in OpRow /\ o.kind = op.kind /\ o.vol = op.vol /\ o.from = op.from /\ o.live
      /\ o.dir = "forward" /\ o.step = op.step /\ o.left = op.left /\ o.soft = op.soft
      /\ o.todo = op.todo \union ({op.step} \intersect Compensable)
  <2> PICK g : g = (op.gone \/ op.step = "stop")
    OBVIOUS
  <2> PICK mv : mv = (op.moved \/ op.step = "off")
    OBVIOUS
  <2> PICK pl : pl = (op.placed \/ Skips \/ op.step = "on")
    OBVIOUS
  <2> PICK m : m = IF op.step = "adopt" THEN disk[Vol].at = Nowhere ELSE op.mine
    OBVIOUS
  <2> PICK td : td = op.todo \union ({op.step} \intersect Compensable)
    OBVIOUS
  <2>1. o = [op EXCEPT !.gone = g, !.moved = mv, !.placed = pl, !.mine = m, !.todo = td]
    BY DEF Noted
  <2>2. g \in BOOLEAN /\ mv \in BOOLEAN /\ pl \in BOOLEAN
    OBVIOUS
  <2>3. m \in BOOLEAN
    BY <1>1 DEF OpRow
  <2>4. td \in SUBSET Compensable
    BY <1>1 DEF OpRow
  <2>5. /\ o \in OpRow /\ o.kind = op.kind /\ o.vol = op.vol /\ o.from = op.from /\ o.live = op.live
        /\ o.dir = op.dir /\ o.step = op.step /\ o.left = op.left /\ o.soft = op.soft
        /\ o.todo = td
    BY <1>1, <2>1, <2>2, <2>3, <2>4, ZenonT(60) DEF OpRow
  <2> QED  BY <2>5
<1>4. o.left \subseteq o.todo /\ op.todo \subseteq o.todo /\ o.todo \subseteq StepsOf(op.kind)
  BY <1>1, <1>2, <1>3 DEF OpOK, OnPlan
<1>5. op.step = "create" => "create" \in o.todo
  BY <1>3 DEF Compensable
<1>6. OpOK' /\ SameWork /\ Course' /\ Tracked'
  <2>1. lost \subseteq lost'
    BY DEF Keep
  <2>2. op.step \in {"insert", "record"} => app'.row /\ app'.vol = op.vol
    BY DEF Reached
  <2>3. op.step = "release" => SafeThen(op.vol)
    BY DEF Reached
  <2>4. op' = Forward(o)
    OBVIOUS
  <2> QED  BY <1>1, <1>3, <1>4, <1>5, <2>1, <2>2, <2>3, <2>4, ForwardCourse
<1> QED  BY <1>1, <1>6, EffectOwners, StepKeepsInv DEF Goes

\* A step that succeeds keeps the invariant.
LEMMA StepOkKeeps ==
  ASSUME VolumesAssumption, Inv, StepOk
  PROVE  Inv' /\ NoneDeleted
<1>1. /\ op.live /\ op.dir = "forward" /\ CanDo /\ Keep /\ UNCHANGED faults
      /\ op' = Forward(Noted)
      /\ IF Moved THEN Placed /\ UNCHANGED <<disk, retired, host>> ELSE Do
  BY DEF StepOk
<1>2. Ready
  BY <1>1, ReadyInv
<1>3. Effect /\ Reached
  BY <1>1, <1>2, DoEffect, PlacedEffect
<1>4. faults' \in 0..MaxFaults
  BY <1>1 DEF Inv, TypeOK
<1> QED  BY <1>1, <1>3, <1>4, NotedKeeps

\* The containers that a step takes for removed are on servers.
LEMMA TakenServers ==
  ASSUME Ready
  PROVE  Taken \in SUBSET Server
BY ReadyFacts DEF Taken

\* A removal that fails unnoticed keeps the invariant.
LEMMA UnheededKeeps ==
  ASSUME VolumesAssumption, Inv, Unheeded
  PROVE  Inv' /\ NoneDeleted
<1>1. /\ op.live /\ op.dir = "forward" /\ op.step \in {"stop", "remove"} /\ Keep /\ Fails(1)
      /\ op' = Forward(Noted) /\ Stay(Taken) /\ UNCHANGED <<app, disk, retired>>
  BY DEF Unheeded
<1>2. Ready
  BY <1>1, ReadyInv
<1>3. Effect
  BY <1>1, <1>2, TakenServers, StayEffect
<1>4. Reached
  BY <1>1 DEF Reached
<1>5. faults' \in 0..MaxFaults
  BY <1>1, FailsOK DEF Inv
<1> QED  BY <1>1, <1>3, <1>4, <1>5, NotedKeeps

\* A step that fails goes on if it is best effort, else back.
LEMMA FailedCourse ==
  ASSUME Inv, Ready, Effect, Keep, op' \in {Failed, Thrown}
  PROVE  OpOK' /\ SameWork /\ Course' /\ Tracked'
<1>1. /\ Tracked /\ OpOK /\ op \in OpRow /\ op.live /\ op.dir = "forward"
      /\ op.step \in StepsOf(op.kind) /\ op.kind \in DOMAIN Plan /\ OnPlan
  BY ReadyFacts, ReadyInv DEF Ready
<1>2. lost' = lost \union Abandoned /\ lost \subseteq lost'
  BY DEF Keep
<1>3. CASE op' = Forward(op) /\ op.step = "unbind"
  <2>1. op.kind = "detach"
    BY <1>1, <1>3, KindOfStep
  <2> QED  BY <1>1, <1>2, <1>3, <2>1, ForwardCourse DEF OnPlan, OpOK
<1>4. CASE op' = Forward([op EXCEPT !.soft = TRUE]) /\ Soft
  <2> PICK o : o = [op EXCEPT !.soft = TRUE]
    OBVIOUS
  <2>1. /\ o \in OpRow /\ o.kind = op.kind /\ o.vol = op.vol /\ o.from = op.from /\ o.live
        /\ o.dir = "forward" /\ o.step = op.step /\ o.left = op.left /\ o.soft
        /\ o.todo = op.todo
    BY <1>1 DEF OpRow
  <2>2. /\ op.step \in {"unbind", "remove", "release", "recreate"}
        /\ op.step = "release" => op.kind = "destroy"
        /\ op.step = "recreate" => op.kind = "detach"
    BY <1>4 DEF Soft
  <2>3. op.kind = "destroy" => op.step \in {"remove", "release"}
    BY <1>1, <2>2, KindOfStep
  <2>4. op' = Forward(o)
    BY <1>4
  <2>5. o.left \subseteq o.todo /\ op.todo \subseteq o.todo /\ o.todo \subseteq StepsOf(op.kind)
    BY <1>1, <2>1 DEF OnPlan, OpOK
  <2>6. op.step \notin {"create", "insert", "record"} /\ ~(op.step = "release" /\ ~(op.kind = "destroy" /\ o.soft))
    BY <2>1, <2>2
  <2> QED  BY <1>1, <1>2, <2>1, <2>3, <2>4, <2>5, <2>6, ForwardCourse
<1>5. CASE op' = Backward(op)
  BY <1>1, <1>2, <1>5, BackCourse DEF OpOK
<1> QED  BY <1>3, <1>4, <1>5 DEF Thrown, Failed

\* A step the state refuses keeps the invariant.
LEMMA StepRefusedKeeps ==
  ASSUME Inv, StepRefused
  PROVE  Inv' /\ NoneDeleted
<1>1. op.live /\ op.dir = "forward" /\ op' = Failed /\ UNCHANGED <<world, faults>> /\ Keep
  BY DEF StepRefused
<1>2. Ready
  BY <1>1, ReadyInv
<1>3. Effect
  BY <1>1, <1>2, NoEffect
<1>4. faults' \in 0..MaxFaults
  BY <1>1 DEF Inv, TypeOK
<1> QED  BY <1>1, <1>2, <1>3, <1>4, FailedCourse, EffectOwners, StepKeepsInv DEF Goes

\* A call that fails before its effect keeps the invariant.
LEMMA FailsBeforeKeeps ==
  ASSUME VolumesAssumption, Inv, FailsBefore
  PROVE  Inv' /\ NoneDeleted
<1>1. op.live /\ op.dir = "forward" /\ op' = Thrown /\ InlineUndo /\ Keep
  BY DEF FailsBefore
<1>2. Ready
  BY <1>1, ReadyInv
<1>3. Effect
  BY <1>1, <1>2, InlineUndoEffect
<1>4. faults' \in 0..MaxFaults
  BY FailsOK DEF FailsBefore, Inv
<1> QED  BY <1>1, <1>2, <1>3, <1>4, FailedCourse, EffectOwners, StepKeepsInv DEF Goes

\* A step left between two calls keeps the invariant.
LEMMA FailsHalfwayKeeps ==
  ASSUME VolumesAssumption, Inv, FailsHalfway
  PROVE  Inv' /\ NoneDeleted
<1>1. op.live /\ op.dir = "forward" /\ CanDo /\ Half /\ op' = Failed /\ Keep
  BY DEF FailsHalfway
<1>2. Ready
  BY <1>1, ReadyInv
<1>3. Effect
  BY <1>1, <1>2, HalfEffect
<1>4. faults' \in 0..MaxFaults
  BY FailsOK DEF FailsHalfway, Inv
<1> QED  BY <1>1, <1>2, <1>3, <1>4, FailedCourse, EffectOwners, StepKeepsInv DEF Goes

\* A call that fails after its effect keeps the invariant.
LEMMA FailsAfterKeeps ==
  ASSUME VolumesAssumption, Inv, FailsAfter
  PROVE  Inv' /\ NoneDeleted
<1>1. /\ op.live /\ op.dir = "forward" /\ CanDo /\ Do /\ Keep
      /\ op' = IF Inline THEN [Failed EXCEPT !.soft = TRUE] ELSE Thrown
  BY DEF FailsAfter
<1>2. Ready /\ Tracked /\ OpOK /\ op \in OpRow
  BY <1>1, ReadyInv
<1>3. Effect
  BY <1>1, <1>2, DoEffect
<1>4. faults' \in 0..MaxFaults
  BY FailsOK DEF FailsAfter, Inv
<1>5. CASE ~Inline
  BY <1>1, <1>2, <1>3, <1>4, <1>5, FailedCourse, EffectOwners, StepKeepsInv DEF Goes
<1>6. CASE Inline
  <2>1. ~Soft
    BY <1>6 DEF Inline, Binds, Soft
  <2>2. op' \in {Backward(op), [Backward(op) EXCEPT !.soft = TRUE]}
    BY <1>1, <1>6, <2>1 DEF Failed
  <2>3. lost' = lost \union Abandoned
    BY <1>1 DEF Keep
  <2>4. OpOK' /\ SameWork /\ Course' /\ Tracked'
    BY <1>1, <1>2, <1>3, <2>2, <2>3, BackCourse DEF OpOK
  <2> QED  BY <1>1, <1>2, <1>3, <1>4, <2>4, EffectOwners, StepKeepsInv DEF Goes
<1> QED  BY <1>5, <1>6

\* A move whose target does not take the volume keeps the invariant.
LEMMA TargetRefusesKeeps ==
  ASSUME VolumesAssumption, Inv, TargetRefuses
  PROVE  Inv' /\ NoneDeleted
<1>1. /\ op.live /\ op.dir = "forward" /\ op.step = "on" /\ CanDo /\ Fails(1) /\ Keep
      /\ Plug(op.vol, op.from) /\ UNCHANGED <<app, retired>>
      /\ op' = Backward([op EXCEPT !.moved = FALSE])
  BY DEF TargetRefuses, Vol
<1>2. Ready /\ Tracked /\ OpOK /\ op \in OpRow
  BY <1>1, ReadyInv
<1>3. Effect
  <2>1. There(op.vol)
    BY <1>1 DEF CanDo, Reachable, Vol
  <2>2. op.kind = "move" /\ op.from \in Server
    BY <1>1, <1>2, ReadyFacts, KindOfStep
  <2> QED  BY <1>1, <1>2, <2>1, <2>2, AttachEffect DEF There
<1>4. faults' \in 0..MaxFaults
  BY <1>1, FailsOK DEF Inv
<1> PICK o : o = [op EXCEPT !.moved = FALSE]
  OBVIOUS
<1>5. /\ o \in OpRow /\ o.kind = op.kind /\ o.vol = op.vol /\ o.from = op.from /\ o.live
      /\ o.todo = op.todo /\ o.left = op.left
  BY <1>1, <1>2 DEF OpRow
<1>6. OpOK' /\ SameWork /\ Course' /\ Tracked'
  <2>1. lost' = lost \union Abandoned
    BY <1>1 DEF Keep
  <2>2. op' \in {Backward(o), [Backward(o) EXCEPT !.soft = TRUE]}
    BY <1>1
  <2>3. o.left \subseteq o.todo
    BY <1>2, <1>5 DEF OpOK
  <2> QED  BY <1>2, <1>3, <1>5, <2>1, <2>2, <2>3, BackCourse
<1> QED  BY <1>1, <1>2, <1>3, <1>4, <1>6, EffectOwners, StepKeepsInv DEF Goes

\* The inline rollback of a move changes neither the row nor the list of the retained.
LEMMA RestoreKeeps ==
  ASSUME Inv, op.live, op.dir = "restore", UNCHANGED <<app, retired>>, DiskOK', HostOK',
         \A w \in Volume : disk'[w].state = disk[w].state, Keep, faults' \in 0..MaxFaults,
         op' \in OpRow, SameWork, op'.todo = op.todo, op'.left = op.left,
         op'.dir = "restore" \/ (op'.dir = "compensated" /\ ~op'.live)
  PROVE  Inv' /\ NoneDeleted
<1>1. Active /\ TypeOK /\ Tracked
  BY DEF Active, Settled, Inv
<1>2. WorldOK /\ OpOK /\ OnPlan /\ Claims /\ Undoing
  BY <1>1, TypeParts DEF Inv, Course
<1>3. op.kind = "move" /\ op.vol \in Volume /\ op.kind \in DOMAIN Plan /\ op.kind \notin Bringing
  BY <1>2, Plans DEF OnPlan, Bringing
<1>4. WorldOK'
  BY <1>2 DEF WorldOK, AppOK, RetiredOK
<1>5. OpOK'
  BY <1>2 DEF OpOK, Active, Settled
<1>6. Course'
  <2>1. OnPlan'
    BY <1>2, <1>3 DEF OnPlan, SameWork, StepsOf
  <2>2. Claims'
    BY <1>2, <1>3 DEF Claims, SameWork, Bringing
  <2>3. Undoing'
    BY <1>3 DEF Undoing, SameWork
  <2> QED  BY <2>1, <2>2, <2>3 DEF Course
<1>7. Tracked'
  <2>1. Touched(op.vol) /\ lost \subseteq lost'
    BY DEF Touched, Keep
  <2> QED  BY <1>1, <1>2, <1>3, <2>1, TrackedBack
<1>8. OwnersOld
  BY DEF OwnersOld, Owner
<1>9. NoneDeleted
  BY DEF NoneDeleted
<1> QED  BY <1>9, <1>1, <1>4, <1>5, <1>6, <1>7, <1>8, StepKeepsInv DEF Goes

\* What a call of the inline rollback of a move does to the operation.
LEMMA RestoreIs ==
  ASSUME Inv, RollbackMove
  PROVE  /\ op' \in OpRow /\ SameWork /\ op'.served = op.served
         /\ op'.todo = op.todo /\ op'.left = op.left
         /\ op'.dir = "restore" \/ (op'.dir = "compensated" /\ ~op'.live)
<1>1. op.live /\ op.dir = "restore" /\ OpOK
  BY TypeParts DEF RollbackMove, RestoreCall, Inv
<1>2. PICK o : /\ o \in {[op EXCEPT !.step = "on"], [op EXCEPT !.step = "run"],
                         [op EXCEPT !.dir = "compensated", !.live = FALSE]}
               /\ op' \in {o, [o EXCEPT !.soft = TRUE]}
  BY DEF RollbackMove, RestoreCall, End
<1>3. /\ o \in OpRow /\ o.kind = op.kind /\ o.vol = op.vol /\ o.from = op.from
      /\ o.todo = op.todo /\ o.left = op.left /\ o.served = op.served
      /\ o.dir = "restore" \/ (o.dir = "compensated" /\ ~o.live)
  <2>1. CASE o = [op EXCEPT !.step = "on"]
    BY <1>1, <2>1 DEF OpOK, OpRow, Steps
  <2>2. CASE o = [op EXCEPT !.step = "run"]
    BY <1>1, <2>2 DEF OpOK, OpRow, Steps
  <2>3. CASE o = [op EXCEPT !.dir = "compensated", !.live = FALSE]
    BY <1>1, <2>3 DEF OpOK, OpRow, Settled
  <2> QED  BY <1>2, <2>1, <2>2, <2>3
<1>4. CASE op' = o
  BY <1>3, <1>4 DEF SameWork
<1>5. CASE op' = [o EXCEPT !.soft = TRUE]
  BY <1>3, <1>5 DEF SameWork, OpRow
<1> QED  BY <1>2, <1>4, <1>5

\* What a call of the inline rollback of a move does to the world: it touches where the
\* volume is and the container of its source, no row and no list.
LEMMA RestoreWorld ==
  ASSUME Inv, RollbackMove
  PROVE  /\ UNCHANGED <<app, retired>> /\ DiskOK' /\ HostOK'
         /\ \A w \in Volume : disk'[w].state = disk[w].state
<1>1. WorldOK /\ OpOK /\ OnPlan /\ op.dir = "restore"
  BY TypeParts DEF RollbackMove, RestoreCall, Active, Settled, Inv, Course
<1>2. op.vol \in Volume /\ op.from \in Server
  BY <1>1, Plans DEF OnPlan, OpOK, OpRow
<1>3. CASE UNCHANGED world
  BY <1>1, <1>3 DEF world, WorldOK, DiskOK, HostOK
<1>4. CASE Unplug(op.vol, disk[op.vol].state) /\ UNCHANGED <<app, retired>>
  <2>1. disk[op.vol].state \in {"none", "there", "gone"}
    BY <1>1, <1>2 DEF WorldOK, DiskOK, DiskRow
  <2> QED  BY <1>1, <1>2, <1>4, <2>1, UnplugOK
<1>5. CASE GiveBack /\ UNCHANGED <<app, retired>>
  <2>1. CASE There(op.vol) /\ disk[op.vol].at = Nowhere
    <3>1. Plug(op.vol, op.from) /\ disk[op.vol].state = "there"
      BY <1>5, <2>1 DEF GiveBack, Vol, There
    <3> QED  BY <1>1, <1>2, <1>5, <3>1, PlugOK
  <2>2. CASE ~(There(op.vol) /\ disk[op.vol].at = Nowhere)
    BY <1>1, <1>5, <2>2 DEF GiveBack, Vol, WorldOK, DiskOK, HostOK
  <2> QED  BY <2>1, <2>2
<1>6. CASE Start(op.from, op.vol) /\ UNCHANGED <<app, disk, retired>>
  BY <1>1, <1>2, <1>6, StartOK DEF WorldOK, DiskOK
<1> QED  BY <1>3, <1>4, <1>5, <1>6 DEF RollbackMove, RestoreCall, Vol

\* The inline rollback of a move keeps the invariant.
LEMMA RollbackMoveKeeps ==
  ASSUME VolumesAssumption, Inv, RollbackMove
  PROVE  Inv' /\ NoneDeleted
<1>1. op.live /\ op.dir = "restore" /\ Keep
  BY DEF RollbackMove, RestoreCall
<1>2. TypeOK
  BY DEF Inv
<1>3. faults' \in 0..MaxFaults
  <2>1. CASE UNCHANGED faults
    BY <1>2, <2>1 DEF TypeOK
  <2>2. CASE Fails(1)
    BY <1>2, <2>2, FailsOK
  <2> QED  BY <2>1, <2>2 DEF RollbackMove, RestoreCall
<1> QED  BY <1>1, <1>3, RestoreIs, RestoreWorld, RestoreKeeps

\* A compensation that succeeds keeps the invariant.
LEMMA UndoOkKeeps ==
  ASSUME VolumesAssumption, Inv, UndoOk
  PROVE  Inv' /\ NoneDeleted
<1>1. /\ BackReady /\ Undoable /\ Undo /\ Keep /\ UNCHANGED faults /\ Tracked
      /\ op' = [op EXCEPT !.left = op.left \ {Latest}, !.todo = op.todo \ {Latest}]
  BY DEF UndoOk, BackReady, Inv
<1>2. BackEffect /\ (Latest = "create" => SafeThen(op.vol))
  BY <1>1, UndoEffect
<1>3. OpOK
  BY <1>1, BackFacts
<1>4. /\ op' \in OpRow /\ SameWork /\ op'.dir = "back" /\ op'.left = op.left \ {Latest}
      /\ op'.todo = op.todo \ {Latest}
  BY <1>1, <1>3 DEF OpOK, OpRow, SameWork, BackReady
<1>5. OpOK' /\ Course' /\ Tracked'
  <2>1. lost \subseteq lost'
    BY <1>1 DEF Keep
  <2>2. op'.left \subseteq op'.todo /\ op'.todo \subseteq op.todo
    BY <1>3, <1>4 DEF OpOK
  <2>3. "create" \in op.todo => "create" \in op'.todo \/ SafeThen(op.vol)
    BY <1>2, <1>4
  <2> QED  BY <1>1, <1>2, <1>4, <2>1, <2>2, <2>3, BackGoesOn
<1>6. faults' \in 0..MaxFaults
  BY <1>1 DEF Inv, TypeOK
<1> QED  BY <1>1, <1>2, <1>4, <1>5, <1>6, BackOwners, StepKeepsInv DEF Goes

\* A compensation whose container stays keeps the invariant.
LEMMA UndoUnheededKeeps ==
  ASSUME VolumesAssumption, Inv, UndoUnheeded
  PROVE  Inv' /\ NoneDeleted
<1>1. /\ BackReady /\ Keep /\ Fails(1) /\ Tracked /\ Latest = "run" /\ Stay({op.from})
      /\ UNCHANGED <<app, disk, retired>>
      /\ op' = [op EXCEPT !.left = op.left \ {Latest}, !.todo = op.todo \ {Latest}]
  BY DEF UndoUnheeded, BackReady, Inv, Here
<1>2. OpOK /\ WorldOK /\ op.from \in Server
  BY <1>1, BackFacts
<1>3. BackEffect
  <2>1. HostOK'
    BY <1>1, <1>2, StayOK
  <2>2. DiskOK'
    BY <1>1, <1>2 DEF WorldOK, DiskOK
  <2> QED  BY <1>1, <2>1, <2>2, QuietBack
<1>4. /\ op' \in OpRow /\ SameWork /\ op'.dir = "back" /\ op'.left = op.left \ {Latest}
      /\ op'.todo = op.todo \ {Latest}
  BY <1>1, <1>2 DEF OpOK, OpRow, SameWork, BackReady
<1>5. OpOK' /\ Course' /\ Tracked'
  <2>1. lost \subseteq lost'
    BY <1>1 DEF Keep
  <2>2. op'.left \subseteq op'.todo /\ op'.todo \subseteq op.todo
    BY <1>2, <1>4 DEF OpOK
  <2>3. "create" \in op.todo => "create" \in op'.todo
    BY <1>1, <1>4
  <2> QED  BY <1>1, <1>3, <1>4, <2>1, <2>2, <2>3, BackGoesOn
<1>6. faults' \in 0..MaxFaults
  BY <1>1, FailsOK DEF Inv
<1> QED  BY <1>1, <1>3, <1>4, <1>5, <1>6, BackOwners, StepKeepsInv DEF Goes

\* A compensation that changes nothing.
LEMMA NoBackEffect ==
  ASSUME BackReady, UNCHANGED world
  PROVE  BackEffect
<1>1. WorldOK
  BY BackFacts
<1>2. UNCHANGED <<app, retired>> /\ DiskOK' /\ HostOK'
  BY <1>1 DEF world, WorldOK, DiskOK, HostOK
<1> QED  BY <1>2, QuietBack DEF world

\* A compensation that fails, whole or halfway, keeps the invariant.
LEMMA UndoFailsKeeps ==
  ASSUME VolumesAssumption, Inv, UndoFails
  PROVE  Inv' /\ NoneDeleted
<1> PICK td : td = IF Latest = "bind" THEN op.todo \ {"bind"} ELSE op.todo
  OBVIOUS
<1>1. /\ BackReady /\ Keep /\ Tracked /\ (UNCHANGED world \/ HalfUndone)
      /\ op' = [op EXCEPT !.left = op.left \ {Latest}, !.todo = td]
      /\ Fails(1) \/ UNCHANGED faults
  BY DEF UndoFails, BackReady, Inv
<1>2. BackEffect
  BY <1>1, NoBackEffect, HalfUndoneEffect
<1>3. OpOK
  BY <1>1, BackFacts
<1>4. /\ op' \in OpRow /\ SameWork /\ op'.dir = "back" /\ op'.left = op.left \ {Latest}
      /\ op'.todo = td
  BY <1>1, <1>3 DEF OpOK, OpRow, SameWork, BackReady
<1>5. OpOK' /\ Course' /\ Tracked'
  <2>1. lost \subseteq lost'
    BY <1>1 DEF Keep
  <2>2. op'.left \subseteq op'.todo /\ op'.todo \subseteq op.todo
    BY <1>3, <1>4 DEF OpOK
  <2>3. "create" \in op.todo => "create" \in op'.todo
    BY <1>4
  <2> QED  BY <1>1, <1>2, <1>4, <2>1, <2>2, <2>3, BackGoesOn
<1>6. faults' \in 0..MaxFaults
  BY <1>1, FailsOK DEF Inv, TypeOK
<1> QED  BY <1>1, <1>2, <1>4, <1>5, <1>6, BackOwners, StepKeepsInv DEF Goes

\* Nothing changes in the world.
LEMMA SameWorld ==
  ASSUME Inv, Active, UNCHANGED world
  PROVE  /\ WorldOK' /\ Touched(op.vol) /\ OwnersOld /\ NoneDeleted
         /\ Safe(op.vol) => SafeThen(op.vol)
         /\ app' = app /\ disk' = disk /\ retired' = retired
<1>1. WorldOK
  BY TypeParts DEF Inv
<1>2. app' = app /\ disk' = disk /\ retired' = retired /\ host' = host
  BY DEF world
<1>3. WorldOK'
  BY <1>1, <1>2 DEF WorldOK, AppOK, DiskOK, RetiredOK, HostOK
<1> QED  BY <1>2, <1>3 DEF Touched, OwnersOld, Owner, Safe, SafeThen, There, NoneDeleted

\* A pass of the rollback that ends, is repeated or gives up keeps the
\* invariant.
LEMMA EndPassKeeps ==
  ASSUME VolumesAssumption, Inv, EndPass
  PROVE  Inv' /\ NoneDeleted
<1>1. /\ op.live /\ op.dir = "back" /\ op.left = {} /\ UNCHANGED <<world, faults>> /\ Keep
      /\ Active /\ Tracked
  BY DEF EndPass, Active, Settled, Inv
<1>2. /\ WorldOK' /\ Touched(op.vol) /\ OwnersOld /\ (Safe(op.vol) => SafeThen(op.vol))
      /\ NoneDeleted /\ app' = app /\ disk' = disk /\ retired' = retired
  BY <1>1, SameWorld
<1>3. OpOK /\ OnPlan /\ Claims /\ Undoing /\ op.kind \in DOMAIN Plan
  BY <1>1, TypeParts DEF Inv, Course, OnPlan
<1>4. lost' = lost \union Abandoned /\ lost \subseteq lost'
  BY <1>1 DEF Keep
<1>5. OpOK' /\ Course' /\ Tracked' /\ SameWork
  <2>1. CASE op' = [op EXCEPT !.left = op.todo]
    <3>1. op' \in OpRow /\ SameWork /\ op'.dir = "back" /\ op'.left = op.todo /\ op'.todo = op.todo
          /\ op'.step = op.step /\ op'.soft = op.soft
      BY <1>1, <1>3, <2>1 DEF OpOK, OpRow, SameWork
    <3>2. Active'
      BY <3>1 DEF Active, Settled
    <3>3. OpOK'
      BY <3>1, <3>2 DEF OpOK
    <3>4. Safe(op.vol)' <=> Safe(op.vol)
      BY <1>2, <3>1 DEF Safe, There, SameWork
    <3>5. Course'
      BY <1>1, <1>2, <1>3, <3>1, <3>4 DEF Course, OnPlan, Claims, Undoing, SameWork, StepsOf
    <3>6. Tracked'
      BY <1>1, <1>2, <1>3, <1>4, <3>1, <3>2, TrackedBack
    <3> QED  BY <3>1, <3>3, <3>5, <3>6
  <2>2. ASSUME NEW d \in {"compensated", "failed"}, op' = End(op, d), op.todo = {} \/ d = "failed"
        PROVE  OpOK' /\ Course' /\ Tracked' /\ SameWork
    <3>1. op' \in OpRow /\ SameWork /\ op'.dir = d /\ op'.left = op.left /\ op'.todo = op.todo
          /\ ~op'.live
      BY <1>1, <1>3, <2>2 DEF OpOK, OpRow, SameWork, End, Settled
    <3>2. ~Active'
      BY <3>1 DEF Active, Settled
    <3>3. OpOK' /\ Course'
      BY <1>3, <3>1, <3>2 DEF OpOK, Course
    <3>4. op.kind \in Bringing => op.vol \in lost' \/ SafeThen(op.vol)
      <4> SUFFICES ASSUME op.kind \in Bringing  PROVE op.vol \in lost' \/ SafeThen(op.vol)
        OBVIOUS
      <4>1. op.vol \in Volume /\ op.vol # NoVol
        BY <1>3, Volumes0 DEF OnPlan, Bringing
      <4>2. CASE d = "failed" \/ op.kind \in {"redeploy", "adopt"}
        BY <1>4, <3>1, <4>1, <4>2 DEF Abandoned, Unaccounted
      <4>3. CASE d = "compensated" /\ op.kind \in {"deploy", "attach"}
        BY <1>1, <1>2, <1>3, <2>2, <4>3 DEF Undoing
      <4> QED  BY <4>2, <4>3 DEF Bringing
    <3>5. Tracked'
      BY <1>1, <1>2, <1>3, <1>4, <3>1, <3>4, TrackedBack
    <3> QED  BY <3>1, <3>3, <3>5
  <2>3. \/ op' = [op EXCEPT !.left = op.todo]
        \/ op' = End(op, "compensated") /\ op.todo = {}
        \/ op' = End(op, "failed")
    BY DEF EndPass
  <2> QED  BY <2>1, <2>2, <2>3
<1>6. faults' \in 0..MaxFaults
  BY <1>1 DEF Inv, TypeOK
<1> QED  BY <1>1, <1>2, <1>5, <1>6, StepKeepsInv DEF Goes

-----------------------------------------------------------------------------
(* A crash *)

\* The call that a crash cuts has the effect of a forward step or of a
\* compensation.
LEMMA CutEffect ==
  ASSUME Inv, op.live, Cut
  PROVE  (Ready /\ Effect) \/ (BackReady /\ BackEffect)
<1>1. CASE op.dir = "forward"
  <2>1. CanDo /\ (Do \/ Half)
    BY <1>1 DEF Cut
  <2>2. Ready
    BY <1>1, ReadyInv
  <2> QED  BY <2>1, <2>2, DoEffect, HalfEffect
<1>2. CASE op.dir = "back"
  <2>1. op.left # {} /\ ((Undoable /\ Undo) \/ HalfUndone)
    BY <1>2 DEF Cut
  <2>2. BackReady
    BY <1>2, <2>1 DEF BackReady, Inv
  <2> QED  BY <2>1, <2>2, UndoEffect, HalfUndoneEffect
<1> QED  BY <1>1, <1>2 DEF Cut

\* A walk that runs again stands where it stood, a move at its beginning.
LEMMA ResumedOp ==
  ASSUME Inv, Active, op' = Resumed
  PROVE  /\ op' \in OpRow /\ SameWork /\ op'.todo = op.todo /\ op'.soft = op.soft /\ ~op'.live
         /\ op'.served = op.served /\ op'.left \subseteq op'.todo
         /\ op.kind # "move" => op'.dir = op.dir /\ op'.step = op.step
         /\ op.kind = "move" => op'.step = "stop" /\ op'.dir # "restore"
         /\ Active' /\ OpOK'
<1>1. OpOK /\ OnPlan /\ op \in OpRow
  BY TypeParts DEF Inv, Course, OpOK
<1> PICK st : st = IF op.kind = "move" THEN "stop" ELSE op.step
  OBVIOUS
<1> PICK d : d = IF op.dir = "restore" THEN "forward" ELSE op.dir
  OBVIOUS
<1> PICK l : l = IF op.dir = "back" THEN op.todo ELSE {}
  OBVIOUS
<1>2. op' = [op EXCEPT !.live = FALSE, !.gone = FALSE, !.moved = FALSE, !.placed = FALSE,
                       !.step = st, !.dir = d, !.left = l]
  BY DEF Resumed
<1>3. st \in Steps \union {"none"} /\ d \in Settled \union {"forward", "back", "restore"}
      /\ l \in SUBSET Compensable
  BY <1>1 DEF OpRow, Steps
<1>4. /\ op' \in OpRow /\ op'.kind = op.kind /\ op'.vol = op.vol /\ op'.from = op.from
      /\ op'.todo = op.todo /\ op'.soft = op.soft /\ ~op'.live /\ op'.left = l /\ op'.dir = d
      /\ op'.step = st /\ op'.served = op.served
  BY <1>1, <1>2, <1>3, ZenonT(60) DEF OpRow
<1>5. d \notin Settled
  BY DEF Active, Settled
<1>6. Active' /\ OpOK'
  BY <1>4, <1>5 DEF Active, OpOK
<1>7. op.kind # "move" => op.dir # "restore"
  BY <1>1 DEF OnPlan
<1> QED  BY <1>4, <1>6, <1>7 DEF SameWork

\* An operation that a crash interrupted stands where its claims still hold.
LEMMA ResumedCourse ==
  ASSUME Inv, Active, op' = Resumed, lost' = lost,
         (Ready /\ Effect) \/ (BackReady /\ BackEffect) \/ UNCHANGED world
  PROVE  WorldOK' /\ OpOK' /\ Course' /\ Tracked'
<1>0. /\ op' \in OpRow /\ SameWork /\ op'.todo = op.todo /\ op'.soft = op.soft /\ ~op'.live
      /\ op'.left \subseteq op'.todo
      /\ op.kind # "move" => op'.dir = op.dir /\ op'.step = op.step
      /\ op.kind = "move" => op'.step = "stop" /\ op'.dir # "restore"
      /\ Active' /\ OpOK'
  BY ResumedOp
<1>1. OnPlan /\ Claims /\ Undoing /\ Tracked /\ op.kind \in DOMAIN Plan
  BY DEF Inv, Course, OnPlan
<1>2. OnPlan'
  BY <1>0, <1>1, StepSets DEF OnPlan, SameWork, StepsOf
<1>3. lost \subseteq lost'
  OBVIOUS
<1>4. Safe(op.vol)' <=> SafeThen(op.vol)
  BY <1>0 DEF SafeThen, Safe, There, SameWork
<1>5. Undoing' /\ Claims' /\ Tracked' /\ WorldOK'
  <2>1. CASE UNCHANGED world
    <3>1. /\ WorldOK' /\ Touched(op.vol) /\ (Safe(op.vol) => SafeThen(op.vol))
          /\ app' = app /\ disk' = disk /\ retired' = retired
      BY <2>1, SameWorld
    <3>2. Undoing' /\ Claims'
      BY <1>0, <1>1, <1>4, <3>1 DEF Undoing, Claims, SameWork, Bringing
    <3>3. Tracked'
      BY <1>0, <1>1, <1>3, <3>1, TrackedBack
    <3> QED  BY <3>1, <3>2, <3>3
  <2>2. CASE BackReady /\ BackEffect
    <3>1. /\ op.kind \in Bringing \union {"remount"} /\ op.vol \in Volume /\ op.dir = "back"
          /\ WorldOK' /\ Touched(op.vol) /\ (Safe(op.vol) => SafeThen(op.vol))
      BY <2>2, BackFacts DEF BackEffect, BackReady
    <3>2. op'.dir = "back"
      BY <1>0, <3>1 DEF Bringing
    <3>3. Undoing'
      BY <1>0, <1>1, <1>4, <3>1, <3>2 DEF Undoing, SameWork
    <3>4. Claims'
      <4>1. app.vol = op.vol \/ op.kind # "remount"
        BY <1>1 DEF Claims
      <4>2. /\ app'.vol \in {NoVol, op.vol}
            /\ op.kind \in {"attach", "adopt", "remount"} => app'.row
            /\ op.kind = "remount" => app'.vol = op.vol
        BY <2>2, <4>1 DEF BackEffect
      <4> QED  BY <1>0, <3>1, <3>2, <4>2 DEF Claims, SameWork, Bringing
    <3>5. op.kind \notin Bringing => /\ app'.row = app.row /\ app'.vol = app.vol
                                     /\ disk'[op.vol].state = disk[op.vol].state
                                     /\ retired'[op.vol] = retired[op.vol]
      BY <2>2, <3>1 DEF BackEffect
    <3>6. Tracked'
      BY <1>0, <1>1, <1>3, <3>1, <3>5, TrackedBack
    <3> QED  BY <3>1, <3>3, <3>4, <3>6
  <2>3. CASE Ready /\ Effect
    <3>1. WorldOK' /\ RowMoves /\ (op.kind \notin Bringing => (Safe(op.vol) => SafeThen(op.vol)))
      BY <2>3 DEF Effect
    <3>2. op.step \in StepsOf(op.kind) /\ op.dir = "forward"
      BY <2>3, ReadyFacts DEF Ready
    <3>3. Undoing'
      BY <1>0, <1>1, <3>2 DEF Undoing, SameWork
    <3>4. Tracked'
      BY <1>0, <1>1, <1>3, <2>3, TrackedAfter
    <3>5. /\ app'.vol \in {NoVol, op'.vol}
          /\ op'.kind \in {"attach", "adopt", "detach", "remount", "move"} => app'.row
          /\ op'.kind \in {"remount", "move"} => app'.vol = op'.vol
      BY <1>0, <2>3, EffectClaims
    <3>6. op.kind = "detach" => IF op.step \in {"unbind", "release"} THEN app'.vol = op.vol
                                ELSE SafeThen(op.vol)
      BY <1>1, <3>1 DEF Claims, RowMoves, Bringing
    <3>7. op.kind = "destroy" => IF op.soft \/ op.step \in {"mark", "remove", "release"}
                                 THEN app'.row /\ app'.vol = op.vol ELSE SafeThen(op.vol)
      <4>1. op.kind = "destroy" => op.step \notin {"insert", "record", "clear"}
        BY <3>2, StepSets
      <4> QED  BY <1>1, <3>1, <4>1 DEF Claims, RowMoves, Bringing
    <3>8. op.kind \in Bringing /\ (op.step \in {"run", "serve", "recreate"}
                                     \/ (op.step = "bind" /\ op.kind \in {"deploy", "redeploy"}))
            => app'.row /\ app'.vol = op.vol
      BY <1>1, <3>1, <3>2 DEF Claims, RowMoves
    <3>9. Claims'
      BY <1>0, <1>4, <3>5, <3>6, <3>7, <3>8 DEF Claims, SameWork, Bringing
    <3> QED  BY <3>1, <3>3, <3>4, <3>9
  <2> QED  BY <2>1, <2>2, <2>3
<1> QED  BY <1>0, <1>2, <1>5 DEF Course

\* An idle reconciler and an idle eraser have their types.
LEMMA IdleTypes ==
  /\ NoFix \in [pc : {"idle", "listed", "locked", "mounting"}, vol : Volume \union {NoVol},
                server : Server, driver : BOOLEAN]
  /\ NoEraser \in [pc : {"idle", "listed", "looked", "erasing"}, vol : Volume \union {NoVol},
                   by : {"sweep", "user"}, raced : BOOLEAN]
  /\ NoFix.pc = "idle" /\ NoEraser.pc = "idle"
BY DEF NoFix, NoEraser, Server

\* The invariant from its parts.
LEMMA InvAfter ==
  ASSUME WorldOK', OpOK', OthersOK', Course', Tracked', Guarded', FixOK'
  PROVE  Inv'
BY DEF Inv, TypeOK, WorldOK, AppOK, DiskOK, RetiredOK, HostOK, OpOK, AppRow, DiskRow,
       HostRow, OpRow, Classes, OthersOK

\* A crash keeps the invariant.
LEMMA CrashKeeps ==
  ASSUME VolumesAssumption, Inv, Crash
  PROVE  Inv' /\ NoneDeleted
<1>1. /\ crashes < MaxCrashes /\ crashes' = crashes + 1 /\ fix' = NoFix /\ eraser' = NoEraser
      /\ lost' = lost /\ opsDone' = opsDone /\ faults' = faults
      /\ UNCHANGED world \/ (op.live /\ Cut)
      /\ op' = IF Active THEN Resumed ELSE op
  BY DEF Crash
<1>2. WorldOK /\ OpOK /\ OthersOK
  BY TypeWhole DEF Inv
<1>3. OthersOK'
  BY <1>1, <1>2, IdleTypes DEF OthersOK, VolumesAssumption
<1>4. Guarded' /\ FixOK'
  BY <1>1, IdleTypes DEF Guarded, FixOK
<1>5. WorldOK' /\ OpOK' /\ Course' /\ Tracked'
  <2>1. CASE Active
    BY <1>1, <2>1, CutEffect, ResumedCourse
  <2>2. CASE ~Active
    <3>1. UNCHANGED world /\ op' = op
      BY <1>1, <1>2, <2>2 DEF OpOK
    <3>2. WorldOK' /\ OpOK' /\ ~Active'
      BY <1>2, <2>2, <3>1 DEF world, WorldOK, AppOK, DiskOK, RetiredOK, HostOK, OpOK, Active
    <3>3. Tracked'
      BY <1>1, <2>2, <3>1, <3>2 DEF Inv, Tracked, Accounted, There, Owner, world
    <3> QED  BY <3>2, <3>3 DEF Course
  <2> QED  BY <2>1, <2>2
<1>6. NoneDeleted
  BY <1>1, CutEffect DEF Effect, BackEffect, Touched, NoneDeleted, world
<1> QED  BY <1>3, <1>4, <1>5, <1>6, InvAfter

-----------------------------------------------------------------------------
(* Submission and start *)

\* An operation is issued for the volume the row of the app names, or for one
\* it may bring.
LEMMA IssueCourse ==
  ASSUME Inv, ~Active, NEW kind \in DOMAIN Plan, NEW v \in Volume \union {NoVol},
         NEW s \in Server, Issue(kind, v, s), UNCHANGED world, lost' = lost,
         kind # "destroy" => v \in Volume,
         app.vol \in {NoVol, v},
         kind \notin {"deploy", "redeploy"} => app.row,
         kind \in {"remount", "move", "detach", "destroy"} => app.vol = v
  PROVE  /\ WorldOK' /\ OpOK' /\ Course' /\ Tracked' /\ op'.kind = kind /\ op'.vol = v
         /\ op'.dir = "forward" /\ op'.step = Plan[kind][1] /\ op'.from = s
         /\ op'.served = IF kind = "move" THEN app.on = {s} ELSE Ran(s)
<1>1. WorldOK /\ Tracked
  BY TypeParts DEF Inv
<1>2. app' = app /\ disk' = disk /\ retired' = retired /\ host' = host
  BY DEF world
<1>3. WorldOK'
  BY <1>1, <1>2 DEF WorldOK, AppOK, DiskOK, RetiredOK, HostOK
<1>4. /\ Plan[kind][1] \in StepsOf(kind) /\ Plan[kind][1] \in Steps
      /\ kind \in {"deploy", "attach"} => Plan[kind][1] = "create"
      /\ kind \in Bringing => Plan[kind][1] \in {"create", "adopt", "take"}
      /\ kind = "detach" => Plan[kind][1] = "unbind"
      /\ kind = "destroy" => Plan[kind][1] = "mark"
  BY Plans, StepSets DEF Bringing, Steps
<1> PICK st : st = Plan[kind][1]
  OBVIOUS
<1> PICK sv : sv = IF kind = "move" THEN app.on = {s} ELSE Ran(s)
  OBVIOUS
<1>5. sv \in BOOLEAN
  BY <1>1 DEF Ran, WorldOK, HostOK, HostRow
<1>6. op' = [NoOp EXCEPT !.kind = kind, !.dir = "forward", !.step = st, !.vol = v,
                         !.from = s, !.served = sv]
  BY DEF Issue
<1>7. NoOp \in OpRow /\ NoOp.todo = {} /\ NoOp.left = {} /\ ~NoOp.live /\ ~NoOp.soft
  BY DEF NoOp, OpRow, Settled, Server
<1>8. /\ op' \in OpRow /\ op'.kind = kind /\ op'.dir = "forward" /\ op'.step = st /\ op'.vol = v
      /\ op'.from = s /\ op'.served = sv
      /\ op'.todo = {} /\ op'.left = {} /\ ~op'.live /\ ~op'.soft
  BY <1>4, <1>5, <1>6, <1>7, ZenonT(60) DEF OpRow
<1>9. Active' /\ OpOK'
  BY <1>8 DEF Active, Settled, OpOK
<1>10. OnPlan'
  BY <1>4, <1>8 DEF OnPlan, StepsOf
<1>11. Claims'
  BY <1>2, <1>4, <1>8 DEF Claims, Bringing
<1>12. Undoing'
  BY <1>4, <1>8 DEF Undoing
<1>13. Tracked'
  BY <1>1, <1>2 DEF Tracked, Accounted, There, Owner
<1> QED  BY <1>3, <1>8, <1>9, <1>10, <1>11, <1>12, <1>13 DEF Course

\* The server of the oldest replica row is a server.
LEMMA FirstServer ==
  ASSUME Inv
  PROVE  First \in Server /\ app.home \in Server
<1>1. app.home \in Server
  BY TypeParts DEF Inv, WorldOK, AppOK, AppRow
<1> QED  BY <1>1 DEF First, Server

\* What an operation may be submitted for: a volume that is brought is new or at the
\* provider, any other is the one the row of the app names.
LEMMA SubjectIs ==
  ASSUME VolumesAssumption, Inv, NEW kind \in DOMAIN Plan, NEW v \in Subject(kind)
  PROVE  /\ v \in Volume \union {NoVol} /\ (kind # "destroy" => v \in Volume)
         /\ app.vol \in {NoVol, v}
         /\ kind \notin {"deploy", "redeploy"} <=> app.row
         /\ kind \in {"remount", "move", "detach", "destroy"} => app.vol = v
         /\ kind \in {"deploy", "attach"} => disk[v].state = "none"
         /\ kind \in {"redeploy", "adopt"} => disk[v].state # "none"
<1>1. app.vol \in Volume \union {NoVol} /\ (~app.row => app.vol = NoVol)
  BY TypeParts DEF Inv, WorldOK, AppOK, AppRow, NoApp
<1>2. CASE kind = "deploy"
  BY <1>1, <1>2, FreshVolume DEF Subject
<1>3. CASE kind = "redeploy"
  BY <1>1, <1>3 DEF Subject, There
<1>4. CASE kind = "attach"
  BY <1>4, FreshVolume DEF Subject, Live
<1>5. CASE kind = "adopt"
  BY <1>5 DEF Subject, Live, There
<1>6. CASE kind = "destroy"
  BY <1>1, <1>6 DEF Subject
<1>7. CASE kind = "move"
  BY <1>1, <1>7 DEF Subject, Live
<1>8. CASE kind \in {"detach", "remount"}
  <2>1. v \in (IF Live /\ app.vol # NoVol THEN {app.vol} ELSE {})
    BY <1>8 DEF Subject
  <2> QED  BY <1>1, <1>8, <2>1 DEF Live
<1> QED  BY <1>2, <1>3, <1>4, <1>5, <1>6, <1>7, <1>8, Plans

\* A submission keeps the invariant: a volume about to be deleted is marked as
\* raced.
LEMMA SubmitKeeps ==
  ASSUME VolumesAssumption, Inv, NEW kind \in Kinds, Submit(kind)
  PROVE  Inv' /\ NoneDeleted
<1>1. /\ ~Active /\ opsDone < MaxOps /\ opsDone' = opsDone + 1
      /\ UNCHANGED world /\ fix' = fix /\ lost' = lost /\ faults' = faults /\ crashes' = crashes
  BY DEF Submit
<1>2. PICK v \in Subject(kind) :
        /\ \E s \in (IF ~app.row THEN Server ELSE IF kind = "move" THEN {app.home} ELSE {First}) :
             Issue(kind, v, s)
        /\ eraser' = IF eraser.vol = v /\ kind \in Bringing /\ eraser.pc # "idle"
                     THEN [eraser EXCEPT !.raced = TRUE] ELSE eraser
  BY DEF Submit
<1>3. PICK s \in Server : Issue(kind, v, s)
  BY <1>2, FirstServer
<1>4. kind \in DOMAIN Plan /\ OthersOK
  BY TypeWhole DEF VolumesAssumption, Inv
<1>5. /\ v \in Volume \union {NoVol} /\ (kind # "destroy" => v \in Volume)
      /\ app.vol \in {NoVol, v}
      /\ kind \notin {"deploy", "redeploy"} => app.row
      /\ kind \in {"remount", "move", "detach", "destroy"} => app.vol = v
  BY <1>2, <1>4, SubjectIs
<1>6. WorldOK' /\ OpOK' /\ Course' /\ Tracked' /\ op'.kind = kind /\ op'.vol = v
  BY <1>1, <1>3, <1>4, <1>5, IssueCourse
<1>7. /\ eraser'.pc = eraser.pc /\ eraser'.vol = eraser.vol
      /\ eraser.raced => eraser'.raced
      /\ eraser.vol = v /\ kind \in Bringing /\ eraser.pc # "idle" => eraser'.raced
      /\ eraser' \in [pc : {"idle", "listed", "looked", "erasing"}, vol : Volume \union {NoVol},
                      by : {"sweep", "user"}, raced : BOOLEAN]
  BY <1>2, <1>4 DEF OthersOK
<1>8. OthersOK'
  BY <1>1, <1>4, <1>7 DEF OthersOK, VolumesAssumption
<1>9. Guarded'
  <2>1. Guarded /\ app' = app
    BY <1>1 DEF Inv, world
  <2> QED  BY <1>6, <1>7, <2>1 DEF Guarded, Racing, Owner
<1>10. FixOK'
  BY <1>1 DEF Inv, FixOK
<1>11. NoneDeleted
  BY <1>1 DEF NoneDeleted, world
<1> QED  BY <1>6, <1>8, <1>9, <1>10, <1>11, InvAfter

\* The finalizer queues the destruction of a marked app and keeps the
\* invariant.
LEMMA FinalizerKeeps ==
  ASSUME VolumesAssumption, Inv, Finalizer
  PROVE  Inv' /\ NoneDeleted
<1>1. /\ ~Active /\ app.row /\ Issue("destroy", app.vol, First) /\ UNCHANGED world
      /\ UNCHANGED <<fix, eraser, lost, opsDone, faults, crashes>>
  BY DEF Finalizer, bounds
<1>2. WorldOK /\ OthersOK /\ app.vol \in Volume \union {NoVol} /\ First \in Server
  BY TypeWhole, FirstServer DEF Inv, WorldOK, AppOK, AppRow
<1>3. "destroy" \in DOMAIN Plan
  BY Plans
<1>4. WorldOK' /\ OpOK' /\ Course' /\ Tracked' /\ op'.kind = "destroy"
  BY <1>1, <1>2, <1>3, IssueCourse
<1>5. OthersOK' /\ FixOK'
  BY <1>1, <1>2 DEF OthersOK, FixOK, Inv
<1>6. Guarded'
  BY <1>1, <1>4 DEF Inv, Guarded, Racing, Owner, Bringing, world
<1>7. NoneDeleted
  BY <1>1 DEF NoneDeleted, world
<1> QED  BY <1>4, <1>5, <1>6, <1>7, InvAfter

\* An operation that takes its lock keeps the invariant.
LEMMA BeginKeeps ==
  ASSUME VolumesAssumption, Inv, Begin
  PROVE  Inv' /\ NoneDeleted
<1>1. /\ Active /\ op' = [op EXCEPT !.live = TRUE] /\ UNCHANGED world
      /\ UNCHANGED <<fix, eraser, lost, opsDone, faults, crashes>>
  BY DEF Begin, bounds
<1>2. OpOK /\ OthersOK /\ Tracked /\ OnPlan /\ Claims /\ Undoing
  BY <1>1, TypeWhole DEF Inv, Course
<1>3. /\ WorldOK' /\ app' = app /\ disk' = disk /\ retired' = retired
  BY <1>1, SameWorld
<1>4. /\ op' \in OpRow /\ op'.kind = op.kind /\ op'.dir = op.dir /\ op'.step = op.step
      /\ op'.vol = op.vol /\ op'.todo = op.todo /\ op'.left = op.left /\ op'.soft = op.soft
  BY <1>1, <1>2 DEF OpOK, OpRow
<1>5. Active' /\ OpOK'
  BY <1>1, <1>2, <1>4 DEF Active, OpOK
<1>6. Course'
  BY <1>2, <1>3, <1>4 DEF Course, OnPlan, Claims, Undoing, StepsOf, Safe, There
<1>7. Tracked'
  BY <1>1, <1>2, <1>3, <1>4, <1>5 DEF Tracked, Accounted, There, Owner
<1>8. OthersOK' /\ FixOK'
  BY <1>1, <1>2 DEF OthersOK, FixOK, Inv
<1>9. Guarded'
  BY <1>1, <1>3, <1>4, <1>5 DEF Inv, Guarded, Racing, Owner
<1>10. NoneDeleted
  BY <1>3 DEF NoneDeleted
<1> QED  BY <1>3, <1>5, <1>6, <1>7, <1>8, <1>9, <1>10, InvAfter

-----------------------------------------------------------------------------
(* The actors beside the operation *)

\* They leave the row and the operation alone; a volume they touch keeps its place
\* in the list of the retained or is gone.
AsideKept ==
  /\ WorldOK' /\ app' = app /\ op' = op /\ lost' = lost
  /\ \A v \in Volume : /\ disk'[v].state \in {disk[v].state, "gone"}
                       /\ disk'[v].state = "there" /\ retired[v] # "no" => retired'[v] # "no"

\* What the actors beside the operation do leaves its course and the accounts
\* as they are.
LEMMA AsideCourse ==
  ASSUME Inv, AsideKept
  PROVE  WorldOK' /\ OpOK' /\ Course' /\ Tracked'
<1>1. OpOK /\ Tracked /\ Course
  BY TypeParts DEF Inv
<1>2. OpOK' /\ (Active' <=> Active)
  BY <1>1 DEF AsideKept, OpOK, Active
<1>3. op.vol \in Volume \union {NoVol}
  BY <1>1 DEF OpOK, OpRow
<1>4. Safe(op.vol) => Safe(op.vol)'
  BY <1>3, Volumes0 DEF AsideKept, Safe, There
<1>5. Course'
  <2> SUFFICES ASSUME Active  PROVE OnPlan' /\ Claims' /\ Undoing'
    BY <1>2 DEF Course
  <2>1. OnPlan'
    BY <1>1 DEF Course, AsideKept, OnPlan, StepsOf
  <2>2. Claims'
    BY <1>1, <1>4 DEF Course, AsideKept, Claims
  <2>3. Undoing'
    BY <1>1, <1>4 DEF Course, AsideKept, Undoing
  <2> QED  BY <2>1, <2>2, <2>3
<1>6. Tracked'
  <2> SUFFICES ASSUME NEW v \in Volume, ~(Active' /\ op'.kind \in Bringing /\ op'.vol = v)
               PROVE  Accounted(v)'
    BY DEF Tracked
  <2>1. Accounted(v)
    BY <1>1, <1>2 DEF Tracked, AsideKept
  <2> QED  BY <2>1 DEF AsideKept, Accounted, There, Owner
<1> QED  BY <1>2, <1>5, <1>6 DEF AsideKept

\* A step beside the operation that attaches or mounts.
LEMMA QuietAside ==
  ASSUME Inv, UNCHANGED <<app, retired, op, lost>>, DiskOK', HostOK',
         \A w \in Volume : disk'[w].state = disk[w].state
  PROVE  AsideKept /\ NoneDeleted
<1>1. WorldOK
  BY TypeParts DEF Inv
<1>2. WorldOK'
  BY <1>1 DEF WorldOK, AppOK, RetiredOK
<1> QED  BY <1>2 DEF AsideKept, NoneDeleted

\* A step beside the operation that changes nothing in the world.
LEMMA StillAside ==
  ASSUME Inv, UNCHANGED <<world, op, lost>>
  PROVE  AsideKept /\ NoneDeleted
<1>1. WorldOK
  BY TypeParts DEF Inv
<1>2. UNCHANGED <<app, retired>> /\ DiskOK' /\ HostOK'
  BY <1>1 DEF world, WorldOK, DiskOK, HostOK
<1> QED  BY <1>2, QuietAside DEF world

\* The reconciler reads the row of the app and mounts what it names.
FixRow == [pc : {"idle", "listed", "locked", "mounting"}, vol : Volume \union {NoVol},
           server : Server, driver : BOOLEAN]

\* The reconciler of active volumes keeps the invariant.
LEMMA FixKeeps ==
  ASSUME VolumesAssumption, Inv, FixStep
  PROVE  Inv' /\ NoneDeleted
<1>1. WorldOK /\ OthersOK /\ fix \in FixRow /\ (fix.pc # "idle" => fix.vol \in Volume)
  BY TypeWhole DEF Inv, OthersOK, FixRow, FixOK
<1>2. UNCHANGED <<op, eraser, lost, opsDone, crashes>> /\ (UNCHANGED faults \/ Fails(1))
  BY DEF FixStep, FixLook, FixLock, FixAttach, FixMount, Others
<1>3. faults' \in 0..MaxFaults
  BY <1>2, FailsOK DEF Inv, TypeOK
<1>4. AsideKept /\ NoneDeleted
  <2>1. CASE UNCHANGED world
    BY <1>2, <2>1, StillAside
  <2>2. CASE FixAttach
    <3>1. fix.vol \in Volume /\ fix.server \in Server /\ UNCHANGED <<app, retired>>
      BY <1>1, <2>2 DEF FixAttach, FixRow
    <3>2. CASE UNCHANGED <<disk, host>>
      BY <1>2, <3>1, <3>2, StillAside DEF world
    <3>3. CASE Reachable(fix.vol, fix.server) /\ Plug(fix.vol, fix.server)
      BY <1>1, <1>2, <3>1, <3>3, PlugOK, QuietAside DEF Reachable, There
    <3> QED  BY <2>2, <3>2, <3>3 DEF FixAttach
  <2>3. CASE FixMount
    <3>1. fix.vol \in Volume /\ fix.server \in Server /\ UNCHANGED <<app, retired, host>>
      BY <1>1, <2>3 DEF FixMount, FixRow
    <3>2. CASE UNCHANGED disk
      BY <1>2, <3>1, <3>2, StillAside DEF world
    <3>3. CASE Bindable(fix.vol, fix.server) /\ Bind(fix.vol)
      <4>1. disk[fix.vol].at # Nowhere
        BY <3>1, <3>3, Volumes0 DEF Bindable
      <4>2. HostOK'
        BY <1>1, <3>1 DEF WorldOK, HostOK
      <4> QED  BY <1>1, <1>2, <3>1, <3>3, <4>1, <4>2, BindOK, QuietAside
    <3> QED  BY <2>3, <3>2, <3>3 DEF FixMount
  <2> QED  BY <2>1, <2>2, <2>3 DEF FixStep, FixLook, FixLock
<1>5. WorldOK' /\ OpOK' /\ Course' /\ Tracked'
  BY <1>4, AsideCourse
<1>6. fix' \in FixRow /\ (fix'.pc # "idle" => fix'.vol \in Volume)
  <2>1. NoFix \in FixRow /\ NoFix.pc = "idle"
    BY IdleTypes DEF FixRow
  <2>2. CASE FixLook
    <3>1. PICK s \in app.on : fix' = [pc |-> "listed", vol |-> app.vol, server |-> s,
                                      driver |-> app.driver]
      BY <2>2 DEF FixLook
    <3>2. /\ s \in Server /\ app.vol \in Volume \union {NoVol} /\ app.driver \in BOOLEAN
          /\ app.vol # NoVol
      BY <1>1, <2>2 DEF WorldOK, AppOK, AppRow, FixLook
    <3> QED  BY <3>1, <3>2 DEF FixRow
  <2>3. CASE fix' = NoFix
    BY <2>1, <2>3
  <2>4. CASE fix' = [fix EXCEPT !.pc = "locked"] /\ fix.pc = "listed"
    BY <1>1, <2>4 DEF FixRow
  <2>5. CASE fix' = [fix EXCEPT !.pc = "mounting"] /\ fix.pc = "locked"
    BY <1>1, <2>5 DEF FixRow
  <2> QED  BY <2>2, <2>3, <2>4, <2>5 DEF FixStep, FixLock, FixAttach, FixMount, FixIdle
<1>7. OthersOK' /\ FixOK'
  BY <1>1, <1>2, <1>3, <1>6 DEF OthersOK, FixOK, FixRow
<1>8. Guarded'
  BY <1>2, <1>4 DEF Inv, Guarded, AsideKept, Racing, Owner, Active
<1> QED  BY <1>4, <1>5, <1>7, <1>8, InvAfter

\* The end of the seven days keeps the invariant.
LEMMA ExpireKeeps ==
  ASSUME Inv, NEW v \in Volume, Expire(v)
  PROVE  Inv' /\ NoneDeleted
<1>1. /\ retired' = [retired EXCEPT ![v] = "expired"] /\ retired[v] = "provisional"
      /\ UNCHANGED <<app, disk, host, op, fix, eraser, lost, opsDone, faults, crashes>>
  BY DEF Expire, bounds
<1>2. WorldOK /\ OthersOK
  BY TypeWhole DEF Inv
<1>3. RetiredOK' /\ retired'[v] # "no" /\ \A w \in Volume : w # v => retired'[w] = retired[w]
  BY <1>1, <1>2 DEF WorldOK, RetiredOK, Classes
<1>4. WorldOK'
  BY <1>1, <1>2, <1>3 DEF WorldOK, AppOK, DiskOK, HostOK
<1>5. AsideKept /\ NoneDeleted
  BY <1>1, <1>3, <1>4 DEF AsideKept, NoneDeleted
<1>6. WorldOK' /\ OpOK' /\ Course' /\ Tracked'
  BY <1>5, AsideCourse
<1>7. OthersOK' /\ FixOK' /\ Guarded'
  BY <1>1, <1>2 DEF OthersOK, FixOK, Inv, Guarded, Racing, Owner, Active
<1> QED  BY <1>5, <1>6, <1>7, InvAfter

EraserRow == [pc : {"idle", "listed", "looked", "erasing"}, vol : Volume \union {NoVol},
              by : {"sweep", "user"}, raced : BOOLEAN]

\* Whoever deletes a volume looks and changes nothing.
LEMMA EraserKeeps ==
  ASSUME Inv, EraserOnly, eraser' \in EraserRow,
         eraser'.pc # "idle" => eraser'.vol \in Volume /\ (Racing(eraser'.vol) => eraser'.raced),
         eraser'.pc \in {"looked", "erasing"} => ~Owner(eraser'.vol) \/ eraser'.raced
  PROVE  Inv' /\ NoneDeleted
<1>1. UNCHANGED <<world, op, fix, lost, opsDone, faults, crashes>>
  BY DEF EraserOnly, bounds
<1>2. WorldOK' /\ OpOK' /\ Course' /\ Tracked' /\ NoneDeleted
  BY <1>1, StillAside, AsideCourse
<1>3. OthersOK' /\ FixOK'
  BY <1>1, TypeWhole DEF OthersOK, FixOK, Inv, EraserRow
<1>4. Guarded'
  BY <1>1 DEF Guarded, Racing, Owner, Active, world
<1> QED  BY <1>2, <1>3, <1>4, InvAfter

\* The looks of the sweep and of the user keep the invariant: an owner that
\* appears after the look is one that raced.
LEMMA SweepKeeps ==
  ASSUME Inv, (\E v \in Volume : SweepList(v) \/ UserAsks(v)) \/ SweepLook \/ EraserInspect
  PROVE  Inv' /\ NoneDeleted
<1>1. eraser \in EraserRow /\ Guarded /\ NoEraser \in EraserRow /\ NoEraser.pc = "idle"
  BY TypeWhole, IdleTypes DEF Inv, OthersOK, EraserRow
<1>2. ASSUME NEW v \in Volume, SweepList(v)  PROVE Inv' /\ NoneDeleted
  <2> PICK r : r = Racing(v)
    OBVIOUS
  <2>1. eraser' = [pc |-> "listed", vol |-> v, by |-> "sweep", raced |-> r] /\ EraserOnly
    BY <1>2 DEF SweepList
  <2>2. r \in BOOLEAN
    BY DEF Racing
  <2>3. eraser' \in EraserRow
    BY <2>1, <2>2 DEF EraserRow
  <2> QED  BY <2>1, <2>3, EraserKeeps
<1>3. ASSUME NEW v \in Volume, UserAsks(v)  PROVE Inv' /\ NoneDeleted
  <2> PICK r : r = Racing(v)
    OBVIOUS
  <2>1. /\ eraser' = [pc |-> "looked", vol |-> v, by |-> "user", raced |-> r] /\ EraserOnly
        /\ ~Owner(v)
    BY <1>3 DEF UserAsks
  <2>2. r \in BOOLEAN
    BY DEF Racing
  <2>3. eraser' \in EraserRow
    BY <2>1, <2>2 DEF EraserRow
  <2> QED  BY <2>1, <2>3, EraserKeeps
<1>4. ASSUME EraserOnly, eraser' = NoEraser  PROVE Inv' /\ NoneDeleted
  BY <1>1, <1>4, EraserKeeps
<1>5. ASSUME NEW p \in {"looked", "erasing"}, eraser' = [eraser EXCEPT !.pc = p], EraserOnly,
             eraser.pc # "idle", ~Owner(eraser.vol) \/ eraser.raced
      PROVE  Inv' /\ NoneDeleted
  <2>1. /\ eraser' \in EraserRow /\ eraser'.pc = p /\ eraser'.vol = eraser.vol
        /\ eraser'.raced = eraser.raced
    BY <1>1, <1>5 DEF EraserRow
  <2> QED  BY <1>1, <1>5, <2>1, EraserKeeps DEF Guarded
<1>6. CASE SweepLook
  BY <1>4, <1>5, <1>6 DEF SweepLook
<1>7. CASE EraserInspect
  BY <1>1, <1>4, <1>5, <1>7 DEF EraserInspect, Guarded
<1> QED  BY <1>2, <1>3, <1>6, <1>7

\* What OwnedVolumeKept says of a step.
OwnedKept == \A v \in Volume : There(v) /\ disk'[v].state = "gone" => ~Owner(v) \/ eraser.raced

\* The deletion keeps the invariant, and the volume it takes has no owner or
\* was raced for.
LEMMA EraseKeeps ==
  ASSUME VolumesAssumption, Inv, Erase
  PROVE  Inv' /\ OwnedKept
<1>1. /\ eraser.pc = "erasing" /\ eraser' = NoEraser /\ (UNCHANGED faults \/ Fails(1))
      /\ UNCHANGED <<app, op, fix, lost, opsDone, crashes>>
  BY DEF Erase
<1>2. WorldOK /\ OthersOK /\ eraser.vol \in Volume
  BY <1>1, TypeWhole DEF Inv, Guarded
<1>3. faults' \in 0..MaxFaults
  BY <1>1, FailsOK DEF Inv, TypeOK
<1>4. AsideKept
  <2>1. CASE UNCHANGED <<disk, host, retired>>
    BY <1>1, <2>1, StillAside DEF world
  <2>2. CASE Unplug(eraser.vol, "gone") /\ (Retire(eraser.vol, "no") \/ UNCHANGED retired)
    <3>1. /\ DiskOK' /\ HostOK' /\ disk'[eraser.vol].state = "gone"
          /\ \A w \in Volume : w # eraser.vol => disk'[w].state = disk[w].state
      BY <1>2, <2>2, UnplugOK
    <3>2. RetiredOK' /\ \A w \in Volume : w # eraser.vol => retired'[w] = retired[w]
      BY <1>2, <2>2, RetireOK DEF Classes, WorldOK, RetiredOK
    <3>3. WorldOK'
      BY <1>1, <1>2, <3>1, <3>2 DEF WorldOK, AppOK
    <3> QED  BY <1>1, <3>1, <3>2, <3>3 DEF AsideKept
  <2> QED  BY <2>1, <2>2 DEF Erase
<1>5. WorldOK' /\ OpOK' /\ Course' /\ Tracked'
  BY <1>4, AsideCourse
<1>6. OthersOK' /\ FixOK' /\ Guarded'
  BY <1>1, <1>2, <1>3, IdleTypes DEF OthersOK, FixOK, Inv, Guarded
<1>7. OwnedKept
  <2> SUFFICES ASSUME NEW v \in Volume, disk[v].state = "there", disk'[v].state = "gone"
               PROVE  ~Owner(v) \/ eraser.raced
    BY DEF OwnedKept, There
  <2>1. Unplug(eraser.vol, "gone")
    BY DEF Erase
  <2>2. v = eraser.vol
    BY <1>2, <2>1, UnplugOK
  <2> QED  BY <1>1, <2>2 DEF Inv, Guarded
<1> QED  BY <1>5, <1>6, <1>7, InvAfter

-----------------------------------------------------------------------------
(* The theorems *)

\* The invariant holds at first.
LEMMA InitInv ==
  ASSUME VolumesAssumption, Init
  PROVE  Inv
<1>1. PICK vol \in {NoVol, 1}, row \in BOOLEAN :
        /\ app = IF row THEN [NoApp EXCEPT !.row = TRUE, !.vol = vol, !.on = {1}] ELSE NoApp
        /\ host = [s \in Server |-> IF row /\ s = 1
                     THEN [NoHost EXCEPT !.up = TRUE, !.want = vol, !.on = vol] ELSE NoHost]
        /\ disk = [v \in Volume |-> IF v # vol THEN NoDisk
                     ELSE [state |-> "there", at |-> IF row THEN 1 ELSE Nowhere, bound |-> row]]
        /\ retired = [v \in Volume |-> IF v = vol /\ ~row THEN "user" ELSE "no"]
  BY DEF Init
<1>2. /\ op = NoOp /\ fix = NoFix /\ eraser = NoEraser /\ lost = {}
      /\ opsDone = 0 /\ faults = 0 /\ crashes = 0
  BY DEF Init
<1>3. vol \in Volume \union {NoVol}
  BY DEF Volume, VolumesAssumption
<1>4. AppOK
  <2>1. NoApp \in AppRow
    BY DEF NoApp, AppRow, Server
  <2>2. CASE row
    <3>1. app = [NoApp EXCEPT !.row = TRUE, !.vol = vol, !.on = {1}]
      BY <1>1, <2>2
    <3>2. {1} \subseteq Server
      BY DEF Server
    <3>3. app \in AppRow /\ app.row = TRUE
      BY <1>3, <2>1, <3>1, <3>2 DEF AppRow
    <3> QED  BY <3>3 DEF AppOK
  <2>3. CASE ~row
    BY <1>1, <2>1, <2>3 DEF AppOK
  <2> QED  BY <2>2, <2>3
<1>5. HostOK
  <2>1. NoHost \in HostRow /\ [NoHost EXCEPT !.up = TRUE, !.want = vol, !.on = vol] \in HostRow
    BY <1>3 DEF NoHost, HostRow
  <2> QED  BY <1>1, <2>1 DEF HostOK
<1>6. DiskOK
  <2> PICK at : at = IF row THEN 1 ELSE Nowhere
    OBVIOUS
  <2>1. at \in Server \union {Nowhere} /\ (row => at # Nowhere)
    BY DEF Server, Nowhere
  <2>2. NoDisk \in DiskRow /\ NoDisk.at = Nowhere /\ ~NoDisk.bound
    BY DEF NoDisk, DiskRow
  <2>3. [state |-> "there", at |-> at, bound |-> row] \in DiskRow
    BY <2>1 DEF DiskRow
  <2>4. disk = [v \in Volume |-> IF v # vol THEN NoDisk
                  ELSE [state |-> "there", at |-> at, bound |-> row]]
    BY <1>1
  <2> QED  BY <2>1, <2>2, <2>3, <2>4 DEF DiskOK
<1>7. RetiredOK
  BY <1>1 DEF RetiredOK, Classes
<1>8. OpOK /\ ~Active
  BY <1>2 DEF OpOK, OpRow, NoOp, Active, Settled, Server
<1>9. OthersOK
  BY <1>2, IdleTypes DEF OthersOK, VolumesAssumption
<1>10. Tracked
  <2> SUFFICES ASSUME NEW v \in Volume, disk[v].state = "there"
               PROVE  Owner(v) \/ retired[v] # "no"
    BY DEF Tracked, Accounted, There
  <2>1. v = vol
    BY <1>1 DEF NoDisk
  <2>2. CASE row
    <3>1. app = [NoApp EXCEPT !.row = TRUE, !.vol = vol, !.on = {1}]
      BY <1>1, <2>2
    <3>2. app.row /\ app.vol = vol
      BY <3>1 DEF NoApp
    <3> QED  BY <2>1, <3>2 DEF Owner
  <2>3. CASE ~row
    BY <1>1, <2>1, <2>3
  <2> QED  BY <2>2, <2>3
<1>11. Guarded /\ FixOK
  BY <1>2, IdleTypes DEF Guarded, FixOK
<1>12. TypeOK
  BY <1>4, <1>5, <1>6, <1>7, <1>8, <1>9
     DEF TypeOK, WorldOK, AppOK, DiskOK, RetiredOK, HostOK, OpOK, AppRow, DiskRow,
         HostRow, OpRow, Classes, OthersOK
<1> QED  BY <1>8, <1>10, <1>11, <1>12 DEF Inv, Course

\* Nothing happens.
LEMMA StutterKeeps ==
  ASSUME Inv, UNCHANGED vars
  PROVE  Inv' /\ NoneDeleted
<1>1. UNCHANGED <<app, disk, retired, host, op, fix, eraser, lost, opsDone, faults, crashes>>
  BY DEF vars, world, bounds
<1>2. WorldOK /\ OpOK /\ OthersOK
  BY TypeWhole DEF Inv
<1>3. AsideKept /\ NoneDeleted
  BY <1>1, StillAside DEF world
<1>4. OthersOK' /\ FixOK' /\ Guarded'
  BY <1>1, <1>2 DEF OthersOK, FixOK, Inv, Guarded, Racing, Owner, Active
<1> QED  BY <1>3, <1>4, AsideCourse, InvAfter

\* Every step keeps the invariant and deletes no volume that an app names,
\* races aside.
LEMMA NextInv ==
  ASSUME VolumesAssumption, Inv, [Next]_vars
  PROVE  Inv' /\ OwnedKept
<1>0. NoneDeleted => OwnedKept
  BY DEF NoneDeleted, OwnedKept, There
<1>1. ASSUME OpStep  PROVE Inv' /\ OwnedKept
  BY <1>0, <1>1, StepOkKeeps, StepRefusedKeeps, FailsBeforeKeeps, FailsHalfwayKeeps, FailsAfterKeeps,
     UnheededKeeps, TargetRefusesKeeps, RollbackMoveKeeps, UndoOkKeeps, UndoFailsKeeps,
     UndoUnheededKeeps, EndPassKeeps
     DEF OpStep
<1>2. ASSUME NEW kind \in Kinds, Submit(kind)  PROVE Inv' /\ OwnedKept
  BY <1>0, <1>2, SubmitKeeps
<1>3. ASSUME Finalizer \/ Begin \/ Crash  PROVE Inv' /\ OwnedKept
  BY <1>0, <1>3, FinalizerKeeps, BeginKeeps, CrashKeeps
<1>4. ASSUME FixStep  PROVE Inv' /\ OwnedKept
  BY <1>0, <1>4, FixKeeps
<1>5. ASSUME NEW v \in Volume, Expire(v)  PROVE Inv' /\ OwnedKept
  BY <1>0, <1>5, ExpireKeeps
<1>6. ASSUME (\E v \in Volume : SweepList(v) \/ UserAsks(v)) \/ SweepLook \/ EraserInspect
      PROVE  Inv' /\ OwnedKept
  BY <1>0, <1>6, SweepKeeps
<1>7. ASSUME Erase  PROVE Inv' /\ OwnedKept
  BY <1>0, <1>7, EraseKeeps
<1>8. ASSUME UNCHANGED vars  PROVE Inv' /\ OwnedKept
  BY <1>0, <1>8, StutterKeeps
<1> QED  BY <1>0, <1>1, <1>2, <1>3, <1>4, <1>5, <1>6, <1>7, <1>8 DEF Next

\* The inductive invariant: operations stand on their plans with the claims and
\* the debts of their step, every volume is accounted for, and whoever deletes
\* one knows of its races.
THEOREM Invariance == Spec => []Inv
<1>1. Init => Inv
  BY InitInv, VolumesAssumption
<1>2. Inv /\ [Next]_vars => Inv'
  BY NextInv, VolumesAssumption
<1> QED  BY <1>1, <1>2, PTL DEF Spec

\* Every state of every behaviour has its type: an operation keeps to the steps
\* of its plan, and nothing is mounted that is not attached, or attached that
\* is not there.
THEOREM TypeCorrectness == Spec => []TypeOK
<1>1. Inv => TypeOK
  BY DEF Inv
<1> QED  BY <1>1, Invariance, PTL

\* No volume at the provider is forgotten: between operations each is named by
\* the app, listed as retained, or one that the code itself gave up.
THEOREM NothingForgotten == Spec => []NoVolumeForgotten
<1>1. Inv => NoVolumeForgotten
  BY DEF Inv, Tracked, Accounted, NoVolumeForgotten
<1> QED  BY <1>1, Invariance, PTL

\* Neither the sweep nor a user's DELETE takes a volume that an app names,
\* unless an operation that adopts it overlapped.
THEOREM OwnersKeepTheirs == Spec => OwnedVolumeKept
<1>1. Inv /\ [Next]_vars => OwnedKept
  BY NextInv, VolumesAssumption
<1>2. Inv /\ [Next]_vars =>
        [\A v \in Volume : (There(v) /\ disk'[v].state = "gone") => ~Owner(v) \/ eraser.raced]_vars
  BY <1>1 DEF OwnedKept
<1> QED  BY <1>2, Invariance, PTL DEF Spec, OwnedVolumeKept

-----------------------------------------------------------------------------
(* What the steps already taken leave at the provider and on the hosts *)

\* The volume of the operation was deleted.
Gone == op.vol # NoVol /\ disk[op.vol].state = "gone"
\* The container on the server of the replica runs, and as the row says.
Up == host[op.from].up
AsRow == Up /\ host[op.from].want = app.vol
\* None runs there, but one that could not be removed.
Empty == Emptied(host[op.from])

\* A volume not created yet is not listed; a volume that is named, or that the
\* operation works on, was created; an app has a replica.
Blank == \A v \in Volume : disk[v].state = "none" => retired[v] = "no"
Named == app.vol # NoVol => disk[app.vol].state # "none"
Placeable == app.row => app.on # {}
Known == op.vol # NoVol /\ ~(op.dir = "forward" /\ op.step = "create")
           => disk[op.vol].state # "none"

\* What the steps still to be undone account for: an operation on a live app has
\* left its container as the row says unless its row is still to be taken back; a
\* deploy has left no row and no container unless they are still to be removed.
Undone ==
  /\ op.kind \in {"attach", "adopt", "remount"} /\ op.served
       /\ "record" \notin op.todo /\ "remount" \notin op.todo => AsRow
  /\ op.kind \in {"deploy", "redeploy"} =>
       /\ "insert" \notin op.todo => ~app.row
       /\ op.served /\ "run" \notin op.todo => Empty \/ op.soft

\* What an operation that walks forward has not touched yet, or is to undo.
Untouched ==
  /\ op.kind \in {"attach", "adopt", "remount"} /\ op.served =>
       /\ op.step \in {"create", "take", "bind", "remount"} => AsRow
       /\ op.step = "recreate" => "record" \in op.todo \/ "remount" \in op.todo
  /\ op.kind \in {"deploy", "redeploy"} =>
       /\ op.step \in {"create", "adopt"} => ~app.row
       /\ op.step \in {"bind", "run", "serve"} => "insert" \in op.todo
       /\ op.served =>
            /\ op.step \in {"create", "adopt", "insert", "bind"} => ~Up
            /\ op.step = "serve" => "run" \in op.todo

\* A volume that is brought is attached, then mounted, then written to, and has left
\* the retained ones, unless it was deleted meanwhile.
Brought ==
  \/ Gone
  \/ /\ op.step \in {"insert", "bind", "run", "serve", "record", "recreate"}
          => disk[op.vol].at = op.from
     /\ op.step \in {"run", "serve", "record", "recreate"} => disk[op.vol].bound
     /\ op.served /\ op.step = "run" /\ Up => host[op.from].on = op.vol
     /\ op.served /\ op.step = "serve" => host[op.from].on = op.vol
NotListed ==
  (\/ op.kind \in {"deploy", "attach"}
   \/ op.step \in {"run", "serve", "recreate"}
   \/ op.kind = "redeploy" /\ op.step = "bind") => retired[op.vol] = "no"

\* A detached app is started without a volume.
Detaching ==
  /\ op.step \in {"recreate", "assert"} => app.vol = NoVol
  /\ op.step = "assert" => op.soft \/ (Up /\ host[op.from].want = NoVol)

\* An app that is destroyed loses its container, then its row, unless a step failed.
Destroying ==
  /\ op.step \in {"mark", "remove"} => op.from \in app.on
  /\ op.step \in {"release", "rows", "assert"} => op.soft \/ Empty
  /\ op.step = "assert" => op.soft \/ ~app.row

\* A volume that moves is mounted and written to on the target as soon as the target
\* has a replica row, and the source is stopped, unless an earlier replica row of the
\* target misled the move.
Landed == Mounted(disk[op.vol], Target) /\ host[Target].on = op.vol
Misled == ~op.served \/ op.vol \in lost \/ Gone
Moving ==
  \/ Misled
  \/ /\ op.step # "stop" \/ op.from \notin app.on => Empty
     /\ Target \in app.on => Landed /\ op.step # "on"
     /\ op.step \in {"mount", "start"} => disk[op.vol].at = Target
     /\ op.step = "start" => disk[op.vol].bound
     /\ op.step = "drop" => Target \in app.on

Standing ==
  /\ op.dir = "forward" =>
       /\ Untouched
       /\ op.kind \in Bringing => Brought /\ NotListed
       /\ op.kind = "detach" => Detaching
       /\ op.kind = "destroy" => Destroying
       /\ op.kind = "move" => Moving
  /\ op.dir = "back" => Undone
  /\ op.dir = "restore" => Misled \/ app.on = {op.from}

Ground == Blank /\ Named /\ Placeable
Firm == Ground /\ (Active => Known /\ Standing)

-----------------------------------------------------------------------------
(* What a call does, place by place *)

\* Attaching a volume changes its server only.
LEMMA PlugIs ==
  ASSUME WorldOK, NEW v \in Volume, NEW s, Plug(v, s)
  PROVE  /\ host' = host /\ disk'[v].at = s
         /\ disk'[v].state = disk[v].state /\ disk'[v].bound = disk[v].bound
         /\ \A w \in Volume : w # v => disk'[w] = disk[w]
<1> PICK r : r = [disk[v] EXCEPT !.at = s]
  OBVIOUS
<1>1. disk' = [disk EXCEPT ![v] = r] /\ host' = host
  BY DEF Plug
<1>2. r.at = s /\ r.state = disk[v].state /\ r.bound = disk[v].bound
  BY DEF WorldOK, DiskOK, DiskRow
<1> QED  BY <1>1, <1>2 DEF WorldOK, DiskOK

\* Taking a volume from its server takes it from the container that writes to it,
\* and changes no other volume and nothing else of a container.
LEMMA UnplugIs ==
  ASSUME WorldOK, NEW v \in Volume, NEW st, Unplug(v, st)
  PROVE  /\ disk'[v].state = st /\ disk'[v].at = Nowhere /\ ~disk'[v].bound
         /\ \A w \in Volume : w # v => disk'[w] = disk[w]
         /\ \A s \in Server : /\ host'[s].up = host[s].up /\ host'[s].want = host[s].want
                              /\ host'[s].stray = host[s].stray
                              /\ host[s].on # v => host'[s].on = host[s].on
<1> PICK r : r = [state |-> st, at |-> Nowhere, bound |-> FALSE]
  OBVIOUS
<1>1. disk' = [disk EXCEPT ![v] = r] /\ r.state = st /\ r.at = Nowhere /\ ~r.bound
  BY DEF Unplug
<1>2. disk'[v] = r /\ \A w \in Volume : w # v => disk'[w] = disk[w]
  BY <1>1 DEF WorldOK, DiskOK
<1>3. host' = [s \in Server |-> IF host[s].on = v THEN [host[s] EXCEPT !.on = NoVol] ELSE host[s]]
  BY DEF Unplug
<1>4. ASSUME NEW s \in Server
      PROVE  /\ host'[s].up = host[s].up /\ host'[s].want = host[s].want
             /\ host'[s].stray = host[s].stray
             /\ host[s].on # v => host'[s].on = host[s].on
  <2>1. host[s] \in HostRow
    BY DEF WorldOK, HostOK
  <2>2. host'[s] = IF host[s].on = v THEN [host[s] EXCEPT !.on = NoVol] ELSE host[s]
    BY <1>3
  <2> QED  BY <2>1, <2>2 DEF HostRow
<1> QED  BY <1>1, <1>2, <1>4

\* Mounting a volume changes that only.
LEMMA BindIs ==
  ASSUME WorldOK, NEW v \in Volume, Bind(v)
  PROVE  /\ disk'[v].bound /\ disk'[v].at = disk[v].at /\ disk'[v].state = disk[v].state
         /\ \A w \in Volume : w # v => disk'[w] = disk[w]
<1> PICK r : r = [disk[v] EXCEPT !.bound = TRUE]
  OBVIOUS
<1>1. disk' = [disk EXCEPT ![v] = r]
  BY DEF Bind
<1>2. r.bound /\ r.state = disk[v].state /\ r.at = disk[v].at
  BY DEF WorldOK, DiskOK, DiskRow
<1> QED  BY <1>1, <1>2 DEF WorldOK, DiskOK

\* Unmounting a volume changes that only.
LEMMA UnbindIs ==
  ASSUME WorldOK, NEW v \in Volume, Unbind(v)
  PROVE  /\ disk'[v].at = disk[v].at /\ disk'[v].state = disk[v].state
         /\ \A w \in Volume : w # v => disk'[w] = disk[w]
<1> PICK r : r = [disk[v] EXCEPT !.bound = FALSE]
  OBVIOUS
<1>1. disk' = [disk EXCEPT ![v] = r]
  BY DEF Unbind
<1>2. r.state = disk[v].state /\ r.at = disk[v].at
  BY DEF WorldOK, DiskOK, DiskRow
<1> QED  BY <1>1, <1>2 DEF WorldOK, DiskOK

\* A container that is started runs for its volume, and writes to it when it is
\* mounted there.
LEMMA StartIs ==
  ASSUME WorldOK, NEW s \in Server, NEW v, Start(s, v)
  PROVE  /\ host'[s].up /\ host'[s].want = v
         /\ v # NoVol /\ disk[v].at = s /\ disk[v].bound => host'[s].on = v
         /\ \A t \in Server : t # s => host'[t] = host[t]
<1> DEFINE mounted == v # NoVol /\ disk[v].at = s /\ disk[v].bound
<1> PICK files : files = host[s].dirty \union (IF mounted THEN {} ELSE {v} \ {NoVol})
  OBVIOUS
<1> PICK r : r = [up |-> TRUE, want |-> v, on |-> IF mounted THEN v ELSE NoVol, dirty |-> files,
                  stray |-> FALSE]
  OBVIOUS
<1>1. host' = [host EXCEPT ![s] = r]
  BY DEF Start
<1>2. r.up /\ r.want = v /\ (mounted => r.on = v)
  OBVIOUS
<1> HIDE DEF mounted
<1>3. host'[s] = r /\ \A t \in Server : t # s => host'[t] = host[t]
  BY <1>1 DEF WorldOK, HostOK
<1> QED  BY <1>2, <1>3 DEF mounted

\* Containers that are stopped do not run, the others are left alone.
LEMMA StopIs ==
  ASSUME WorldOK, NEW S, Stop(S)
  PROVE  \A s \in Server : IF s \in S THEN ~host'[s].up ELSE host'[s] = host[s]
<1>1. host' = [s \in Server |-> IF s \in S THEN [NoHost EXCEPT !.dirty = host[s].dirty] ELSE host[s]]
  BY DEF Stop
<1>2. \A s \in Server : ~[NoHost EXCEPT !.dirty = host[s].dirty].up
  BY DEF NoHost
<1> QED  BY <1>1, <1>2

\* Containers that stay run as before, and are strays; the others are left alone.
LEMMA StayIs ==
  ASSUME WorldOK, NEW S \in SUBSET Server, Stay(S)
  PROVE  \A s \in Server : IF s \in S THEN Emptied(host'[s]) ELSE host'[s] = host[s]
<1> SUFFICES ASSUME NEW s \in Server, s \in S  PROVE Emptied(host'[s])
  BY DEF Stay
<1> PICK b : b = (host[s].stray \/ host[s].up)
  OBVIOUS
<1>1. host[s] \in HostRow
  BY DEF WorldOK, HostOK
<1>2. host'[s] = [host[s] EXCEPT !.stray = b]
  BY DEF Stay
<1>3. host'[s].up = host[s].up /\ host'[s].stray = b
  BY <1>1, <1>2 DEF HostRow
<1> QED  BY <1>3 DEF Emptied

\* The step that is at hand is the one that is done.
LEMMA DoOf ==
  ASSUME Do
  PROVE  /\ op.step = "create" => Create
         /\ op.step \in {"adopt", "take"} => Take
         /\ op.step = "insert" => Insert
         /\ op.step \in {"bind", "mount"} => Mount
         /\ op.step = "run" => Run
         /\ op.step = "serve" => Serve
         /\ op.step = "record" => Record
         /\ op.step = "recreate" => Recreate
         /\ op.step = "unbind" => RemoveMount
         /\ op.step = "release" => Release
         /\ op.step = "clear" => Clear
         /\ op.step = "remount" => Remount
         /\ op.step = "mark" => MarkDeleting
         /\ op.step = "remove" => RemoveContainers
         /\ op.step = "rows" => DeleteRows
         /\ op.step = "assert" => Assert
         /\ op.step = "stop" => StopSource
         /\ op.step = "off" => DetachSource
         /\ op.step = "on" => AttachTarget
         /\ op.step = "start" => StartTarget
         /\ op.step = "drop" => DropSource
<1>1. /\ Create => op.step = "create"
      /\ Take => op.step \in {"adopt", "take"}
      /\ Insert => op.step = "insert"
      /\ Mount => op.step \in {"bind", "mount"}
      /\ Run => op.step = "run"
      /\ Serve => op.step = "serve"
      /\ Record => op.step = "record"
      /\ Recreate => op.step = "recreate"
      /\ RemoveMount => op.step = "unbind"
      /\ Release => op.step = "release"
      /\ Clear => op.step = "clear"
      /\ Remount => op.step = "remount"
      /\ MarkDeleting => op.step = "mark"
      /\ RemoveContainers => op.step = "remove"
      /\ DeleteRows => op.step = "rows"
      /\ Assert => op.step = "assert"
      /\ StopSource => op.step = "stop"
      /\ DetachSource => op.step = "off"
      /\ AttachTarget => op.step = "on"
      /\ StartTarget => op.step = "start"
      /\ DropSource => op.step = "drop"
  BY DEF Create, Take, Insert, Mount, Run, Serve, Record, Recreate, RemoveMount, Release, Clear,
         Remount, MarkDeleting, RemoveContainers, DeleteRows, Assert, StopSource, DetachSource,
         AttachTarget, StartTarget, DropSource
<1> QED  BY <1>1 DEF Do

\* Where a step can be left halfway.
LEMMA HalfOf ==
  ASSUME Half
  PROVE  \/ op.step = "release" /\ HalfReleased
         \/ op.step = "recreate" /\ HalfRecreated
         \/ op.step = "insert" /\ HalfInserted
         \/ op.step = "start" /\ HalfStarted
         \/ op.step = "drop" /\ HalfDropped
BY DEF Half, HalfReleased, HalfRecreated, HalfInserted, HalfStarted, HalfDropped

-----------------------------------------------------------------------------
(* Where a step leads *)

\* The step after the one at hand.
Precedes(t) ==
  /\ t \in StepsOf(op.kind)
  /\ t \notin {"create", "adopt", "take", "unbind", "mark", "stop"}
  /\ op.kind = "remount" => t = "recreate" /\ op.step = "remount"
  /\ t = "insert" => op.step \in {"create", "adopt"}
  /\ t = "bind" => op.step = IF op.kind \in {"deploy", "redeploy"} THEN "insert"
                             ELSE IF op.kind = "attach" THEN "create" ELSE "take"
  /\ t = "run" => op.step = "bind"
  /\ t = "serve" => op.step = "run"
  /\ t = "record" => op.step = "bind"
  /\ t = "recreate" => op.step = IF op.kind = "detach" THEN "clear"
                                 ELSE IF op.kind = "remount" THEN "remount" ELSE "record"
  /\ t = "clear" => op.step = "release"
  /\ t = "assert" => op.step = IF op.kind = "detach" THEN "recreate" ELSE "rows"
  /\ t = "remove" => op.step = "mark"
  /\ t = "release" => op.step = IF op.kind = "detach" THEN "unbind" ELSE "remove"
  /\ t = "rows" => op.step = "release"
  /\ t = "off" => op.step = "stop" /\ ~Moved
  /\ t = "on" => op.step = "off" /\ ~Skips
  /\ t = "mount" => op.step = "on" \/ Skips
  /\ t = "start" => op.step = "mount"
  /\ t = "drop" => op.step = "start"

\* The last step of each plan; a resumed move may be over at its first.
Final == /\ LastStep
         /\ op.kind = "move" => Moved \/ op.step = "drop"

\* A walk forward takes the step after the one at hand, or is done after the last.
LEMMA OnwardExactly ==
  ASSUME op.kind \in DOMAIN Plan, op.step \in StepsOf(op.kind), NEW o
  PROVE  \/ Forward(o) = End(o, "done") /\ Final
         \/ \E t \in Steps : Precedes(t) /\ Forward(o) = [o EXCEPT !.step = t]
<1> PICK i : i = Index(op.step)
  OBVIOUS
<1>1. i \in DOMAIN PlanOf /\ PlanOf[i] = op.step
  BY IndexOfStep
<1>2. Forward(o) = IF Moved \/ i = Len(PlanOf) THEN End(o, "done")
                   ELSE [o EXCEPT !.step = PlanOf[i + IF Skips THEN 2 ELSE 1]]
  BY DEF Forward
<1>3. (Moved => op.step = "stop") /\ (Skips => op.step = "off")
  BY DEF Moved, Skips
<1> DEFINE t == PlanOf[i + IF Skips THEN 2 ELSE 1]
<1>4. ASSUME i # Len(PlanOf), ~Moved
      PROVE  t \in Steps /\ Precedes(t)
  <2>1. CASE op.kind = "deploy"
    BY <1>1, <1>3, <1>4, <2>1, Plans, StepSets DEF PlanOf, Precedes, Steps
  <2>2. CASE op.kind = "redeploy"
    BY <1>1, <1>3, <1>4, <2>2, Plans, StepSets DEF PlanOf, Precedes, Steps
  <2>3. CASE op.kind = "attach"
    BY <1>1, <1>3, <1>4, <2>3, Plans, StepSets DEF PlanOf, Precedes, Steps
  <2>4. CASE op.kind = "adopt"
    BY <1>1, <1>3, <1>4, <2>4, Plans, StepSets DEF PlanOf, Precedes, Steps
  <2>5. CASE op.kind = "detach"
    BY <1>1, <1>3, <1>4, <2>5, Plans, StepSets DEF PlanOf, Precedes, Steps
  <2>6. CASE op.kind = "remount"
    BY <1>1, <1>3, <1>4, <2>6, Plans, StepSets DEF PlanOf, Precedes, Steps
  <2>7. CASE op.kind = "destroy"
    BY <1>1, <1>3, <1>4, <2>7, Plans, StepSets DEF PlanOf, Precedes, Steps
  <2>8. CASE op.kind = "move"
    BY <1>1, <1>3, <1>4, <2>8, Plans, StepSets DEF PlanOf, Precedes, Steps
  <2> QED  BY <2>1, <2>2, <2>3, <2>4, <2>5, <2>6, <2>7, <2>8, Plans
<1>5. ASSUME Moved \/ i = Len(PlanOf)
      PROVE  Final
  <2>1. CASE op.kind = "deploy"
    BY <1>1, <1>3, <1>5, <2>1, Plans, StepSets DEF PlanOf, Final, LastStep
  <2>2. CASE op.kind = "redeploy"
    BY <1>1, <1>3, <1>5, <2>2, Plans, StepSets DEF PlanOf, Final, LastStep
  <2>3. CASE op.kind = "attach"
    BY <1>1, <1>3, <1>5, <2>3, Plans, StepSets DEF PlanOf, Final, LastStep
  <2>4. CASE op.kind = "adopt"
    BY <1>1, <1>3, <1>5, <2>4, Plans, StepSets DEF PlanOf, Final, LastStep
  <2>5. CASE op.kind = "detach"
    BY <1>1, <1>3, <1>5, <2>5, Plans, StepSets DEF PlanOf, Final, LastStep
  <2>6. CASE op.kind = "remount"
    BY <1>1, <1>3, <1>5, <2>6, Plans, StepSets DEF PlanOf, Final, LastStep
  <2>7. CASE op.kind = "destroy"
    BY <1>1, <1>3, <1>5, <2>7, Plans, StepSets DEF PlanOf, Final, LastStep
  <2>8. CASE op.kind = "move"
    BY <1>1, <1>3, <1>5, <2>8, Plans, StepSets DEF PlanOf, Final, LastStep
  <2> QED  BY <2>1, <2>2, <2>3, <2>4, <2>5, <2>6, <2>7, <2>8, Plans
<1> QED
  <2>1. CASE Moved \/ i = Len(PlanOf)
    BY <1>2, <1>5, <2>1
  <2>2. CASE ~(Moved \/ i = Len(PlanOf))
    <3>1. t \in Steps /\ Precedes(t)
      BY <1>4, <2>2
    <3>2. Forward(o) = [o EXCEPT !.step = t]
      BY <1>2, <2>2
    <3> QED  BY <3>1, <3>2
  <2> QED  BY <2>1, <2>2

\* The operation goes on with the same work and the same history.
Carried == op'.kind = op.kind /\ op'.vol = op.vol /\ op'.from = op.from /\ op'.served = op.served

\* A walk forward carries what was noted.
LEMMA ForwardIs ==
  ASSUME Ready, NEW o \in OpRow, o.kind = op.kind, o.vol = op.vol, o.from = op.from,
         o.served = op.served, o.dir = "forward", o.step = op.step, op' = Forward(o)
  PROVE  /\ Carried /\ op'.todo = o.todo /\ op'.soft = o.soft
         /\ \/ op'.dir = "done" /\ Final
            \/ op'.dir = "forward" /\ Precedes(op'.step)
<1>1. op.kind \in DOMAIN Plan /\ op.step \in StepsOf(op.kind)
  BY ReadyFacts
<1>2. CASE op' = End(o, "done") /\ Final
  BY <1>2 DEF End, OpRow, Carried
<1>3. ASSUME NEW t \in Steps, Precedes(t), op' = [o EXCEPT !.step = t]
      PROVE  /\ Carried /\ op'.todo = o.todo /\ op'.soft = o.soft
             /\ op'.dir = "forward" /\ op'.step = t
  BY <1>3 DEF OpRow, Carried
<1>4. \/ op' = End(o, "done") /\ Final
      \/ \E t \in Steps : Precedes(t) /\ op' = [o EXCEPT !.step = t]
  BY <1>1, OnwardExactly
<1> QED  BY <1>2, <1>3, <1>4

\* What a completed step notes.
LEMMA NotedIs ==
  ASSUME Ready
  PROVE  /\ Noted \in OpRow /\ Noted.kind = op.kind /\ Noted.vol = op.vol /\ Noted.from = op.from
         /\ Noted.served = op.served /\ Noted.dir = "forward" /\ Noted.step = op.step
         /\ Noted.soft = op.soft /\ Noted.todo = op.todo \union ({op.step} \intersect Compensable)
<1>1. op \in OpRow /\ op.dir = "forward"
  BY TypeParts DEF Ready, OpOK
<1> PICK o : o = Noted
  OBVIOUS
<1> PICK g : g = (op.gone \/ op.step = "stop")
  OBVIOUS
<1> PICK mv : mv = (op.moved \/ op.step = "off")
  OBVIOUS
<1> PICK pl : pl = (op.placed \/ Skips \/ op.step = "on")
  OBVIOUS
<1> PICK m : m = IF op.step = "adopt" THEN disk[Vol].at = Nowhere ELSE op.mine
  OBVIOUS
<1> PICK td : td = op.todo \union ({op.step} \intersect Compensable)
  OBVIOUS
<1>2. o = [op EXCEPT !.gone = g, !.moved = mv, !.placed = pl, !.mine = m, !.todo = td]
  BY DEF Noted
<1>3. g \in BOOLEAN /\ mv \in BOOLEAN /\ pl \in BOOLEAN
  OBVIOUS
<1>4. m \in BOOLEAN
  BY <1>1 DEF OpRow
<1>5. td \in SUBSET Compensable
  BY <1>1 DEF OpRow
<1>6. o \in OpRow
  BY <1>1, <1>2, <1>3, <1>4, <1>5, ZenonT(60) DEF OpRow
<1>7. /\ o.kind = op.kind /\ o.vol = op.vol /\ o.from = op.from /\ o.served = op.served
      /\ o.dir = op.dir /\ o.step = op.step /\ o.soft = op.soft
  BY <1>1, <1>2, ZenonT(60) DEF OpRow
<1>8. o.todo = td
  BY <1>1, <1>2, ZenonT(60) DEF OpRow
<1>9. td = op.todo \union ({op.step} \intersect Compensable)
  OBVIOUS
<1> QED  BY <1>1, <1>6, <1>7, <1>8, <1>9

\* A walk back starts with all that is to be undone.
LEMMA BackwardIs ==
  ASSUME NEW o \in OpRow, o.kind = op.kind, o.vol = op.vol, o.from = op.from,
         o.served = op.served,
         op' \in {Backward(o), [Backward(o) EXCEPT !.soft = TRUE]}
  PROVE  /\ Carried /\ op'.todo = o.todo /\ (op'.soft = o.soft \/ op'.soft)
         /\ op' = [Backward(o) EXCEPT !.soft = TRUE] => op'.soft
         /\ \/ op.kind = "move" /\ op'.dir = "restore"
            \/ op.kind # "move" /\ o.todo = {} /\ op'.dir = "compensated"
            \/ op.kind # "move" /\ o.todo # {} /\ op'.dir = "back"
<1> PICK b : b = Backward(o)
  OBVIOUS
<1>1. /\ b \in OpRow /\ b.kind = o.kind /\ b.vol = o.vol /\ b.from = o.from
      /\ b.served = o.served /\ b.todo = o.todo /\ b.soft = o.soft
      /\ \/ o.kind = "move" /\ b.dir = "restore"
         \/ o.kind # "move" /\ o.todo = {} /\ b.dir = "compensated"
         \/ o.kind # "move" /\ o.todo # {} /\ b.dir = "back"
  <2>1. CASE o.kind = "move"
    <3>1. b = [o EXCEPT !.dir = "restore", !.step = "off"]
      BY <2>1 DEF Backward
    <3> QED  BY <2>1, <3>1 DEF OpRow, Steps
  <2>2. CASE o.kind # "move" /\ o.todo = {}
    <3>1. b = [o EXCEPT !.dir = "compensated", !.live = FALSE]
      BY <2>2 DEF Backward, End
    <3> QED  BY <2>2, <3>1 DEF OpRow, Settled
  <2>3. CASE o.kind # "move" /\ o.todo # {}
    <3> PICK td : td = o.todo
      OBVIOUS
    <3>1. b = [o EXCEPT !.dir = "back", !.left = td]
      BY <2>3 DEF Backward
    <3> QED  BY <2>3, <3>1 DEF OpRow
  <2> QED  BY <2>1, <2>2, <2>3
<1> PICK c : c = [b EXCEPT !.soft = TRUE]
  OBVIOUS
<1>2. /\ c.kind = b.kind /\ c.vol = b.vol /\ c.from = b.from /\ c.served = b.served
      /\ c.todo = b.todo /\ c.soft /\ c.dir = b.dir
  BY <1>1 DEF OpRow
<1>3. op' = b \/ op' = c
  OBVIOUS
<1>4. op' = [Backward(o) EXCEPT !.soft = TRUE] => op' = c
  OBVIOUS
<1> QED  BY <1>1, <1>2, <1>3, <1>4, ZenonT(60) DEF Carried

-----------------------------------------------------------------------------
(* What was created stays known *)

\* A volume that was created is never unknown again.
NoReturn == \A w \in Volume : disk'[w].state = "none" => disk[w].state = "none"
\* Only a volume that was created is listed as retained.
ListsKnown == \A w \in Volume : retired'[w] # "no" => retired[w] # "no" \/ disk[w].state # "none"
\* The row names a volume that it named before or that was created.
NamesKnown == \/ app'.vol \in {NoVol, app.vol}
              \/ app'.vol = op.vol /\ disk[op.vol].state # "none"

\* What a step must keep for the ground to hold.
LEMMA GroundAfter ==
  ASSUME WorldOK, Ground, NoReturn, ListsKnown, NamesKnown, app'.row => app'.on # {},
         app'.vol \in Volume \union {NoVol}
  PROVE  Ground'
<1>1. Blank'
  BY DEF Ground, Blank, NoReturn, ListsKnown
<1>2. Named'
  BY Volumes0 DEF Ground, Named, NoReturn, NamesKnown
<1> QED  BY <1>1, <1>2 DEF Ground, Placeable

\* What a forward step does to the world, all outcomes taken together.
Acts == \/ CanDo /\ ~Moved /\ Do
        \/ CanDo /\ Half
        \/ Moved /\ Placed /\ UNCHANGED <<disk, retired, host>>
        \/ InlineUndo
        \/ UNCHANGED world
        \/ op.step = "on" /\ CanDo /\ Plug(Vol, op.from) /\ UNCHANGED <<app, retired>>

\* Each of them is a step as far as claims and debts go.
LEMMA ActsEffect ==
  ASSUME Ready, Acts
  PROVE  Effect
<1>1. CASE op.step = "on" /\ CanDo /\ Plug(Vol, op.from) /\ UNCHANGED <<app, retired>>
  <2>1. There(op.vol)
    BY <1>1 DEF CanDo, Reachable, Vol
  <2>2. op.kind = "move" /\ op.from \in Server
    BY <1>1, ReadyFacts, KindOfStep
  <2> QED  BY <1>1, <2>1, <2>2, AttachEffect DEF There, Vol
<1> QED  BY <1>1, DoEffect, HalfEffect, PlacedEffect, InlineUndoEffect, NoEffect DEF Acts

\* The volume an operation brings does not become unknown.
LEMMA BringsKnown ==
  ASSUME Ready, Acts, op.kind \in Bringing
  PROVE  /\ disk'[op.vol].state = "none" => disk[op.vol].state = "none"
         /\ op.step = "create" /\ Do => disk'[op.vol].state = "there"
<1>1. /\ WorldOK /\ op.vol \in Volume /\ op.kind \in DOMAIN Plan /\ op.step \in StepsOf(op.kind)
  BY ReadyFacts DEF Bringing
<1>2. op.step \in {"create", "adopt", "take", "insert", "bind", "run", "serve", "record", "recreate"}
  BY <1>1, StepSets DEF Bringing
<1>3. CASE CanDo /\ Do
  <2>1. CASE op.step = "create"
    <3>1. disk' = [disk EXCEPT ![op.vol].state = "there", ![op.vol].at = op.from]
      BY <1>3, <2>1, DoOf DEF Create, Vol, Here
    <3> PICK r : r = [disk[op.vol] EXCEPT !.state = "there", !.at = op.from]
      OBVIOUS
    <3>2. disk' = [disk EXCEPT ![op.vol] = r]
      BY <1>1, <3>1 DEF WorldOK, DiskOK, DiskRow
    <3>3. r.state = "there"
      BY <1>1 DEF WorldOK, DiskOK, DiskRow
    <3> QED  BY <1>1, <3>2, <3>3 DEF WorldOK, DiskOK
  <2>2. CASE op.step \in {"adopt", "take"}
    <3>1. Plug(op.vol, op.from)
      BY <1>3, <2>2, DoOf DEF Take, Vol, Here
    <3> QED  BY <1>1, <2>2, <3>1, PlugIs
  <2>3. CASE op.step = "bind"
    <3>1. Bind(op.vol)
      BY <1>3, <2>3, DoOf DEF Mount, Vol
    <3> QED  BY <1>1, <2>3, <3>1, BindIs
  <2>4. CASE op.step \in {"insert", "run", "serve", "record", "recreate"}
    <3>1. disk' = disk
      BY <1>3, <2>4, DoOf DEF Insert, Run, Serve, Record, Recreate, world
    <3> QED  BY <2>4, <3>1
  <2> QED  BY <1>2, <2>1, <2>2, <2>3, <2>4
<1>4. CASE Half
  <2>1. disk' = disk \/ op.step = "release"
    BY <1>4, HalfOf DEF HalfReleased, HalfRecreated, HalfInserted, HalfStarted, HalfDropped
  <2>2. op.step # "create"
    BY <1>4, HalfOf
  <2> QED  BY <1>2, <2>1, <2>2
<1>5. CASE InlineUndo
  <2>1. CASE Binds
    <3>1. Unbind(op.vol) /\ op.step = "bind"
      BY <1>5, <2>1 DEF InlineUndo, Binds, Vol
    <3> QED  BY <1>1, <3>1, UnbindIs
  <2>2. CASE ~Binds
    <3>1. disk' = disk
      BY <1>5, <2>2 DEF InlineUndo
    <3>2. ~(op.step = "create" /\ Do) \/ disk'[op.vol].state = "there"
      <4>1. ASSUME op.step = "create", Do  PROVE disk'[op.vol].state = "there"
        BY <1>3, <4>1 DEF CanDo
      <4> QED  BY <4>1
    <3> QED  BY <3>1, <3>2
  <2> QED  BY <2>1, <2>2
<1>6. CASE UNCHANGED disk
  <2>1. ASSUME op.step = "create", Do  PROVE disk'[op.vol].state = "there"
    BY <1>3, <2>1 DEF CanDo
  <2> QED  BY <1>6, <2>1
<1> QED  BY <1>2, <1>3, <1>4, <1>5, <1>6 DEF Acts, world

\* No forward step makes a volume unknown.
LEMMA ActsNoReturn ==
  ASSUME Ready, Acts
  PROVE  NoReturn
<1> SUFFICES ASSUME NEW w \in Volume, disk'[w].state = "none"
             PROVE  disk[w].state = "none"
  BY DEF NoReturn
<1>1. Effect
  BY ActsEffect
<1> QED  BY <1>1, BringsKnown DEF Effect, Touched

\* A forward step lists only a volume that was created.
LEMMA ActsList ==
  ASSUME Ready, Acts
  PROVE  ListsKnown
<1>1. /\ WorldOK /\ op.kind \in DOMAIN Plan /\ op.step \in StepsOf(op.kind)
      /\ op.vol \in Volume \union {NoVol}
  BY ReadyFacts
<1>2. CASE UNCHANGED retired
  BY <1>2 DEF ListsKnown
<1>3. CASE Owned
  <2>1. retired' = retired \/ Retire(op.vol, "no")
    BY <1>3 DEF Owned, Retire, Vol
  <2>2. ASSUME Retire(op.vol, "no"), NEW w \in Volume, retired'[w] # "no"
        PROVE  retired[w] # "no"
    BY <1>1, <2>2 DEF Retire, WorldOK, RetiredOK
  <2> QED  BY <2>1, <2>2 DEF ListsKnown
<1>4. CASE op.step = "release" /\ Release /\ op.vol # NoVol /\ CanDo
  <2>1. Retire(op.vol, "user") /\ There(op.vol)
    BY <1>4 DEF Release, CanDo, Vol
  <2> QED  BY <1>1, <1>4, <2>1, RetireOK DEF ListsKnown, There, Classes
<1>5. CASE CanDo /\ Do
  <2>1. \/ UNCHANGED retired
        \/ Owned
        \/ op.step = "release" /\ Release
    BY <1>5 DEF Do, Create, Take, Insert, Mount, Run, Serve, Record, Recreate, RemoveMount, Release, Clear,
         Remount, MarkDeleting, RemoveContainers, DeleteRows, Assert, StopSource, DetachSource,
         AttachTarget, StartTarget, DropSource, world
  <2>2. op.step = "release" /\ Release /\ op.vol = NoVol => UNCHANGED retired
    BY DEF Release, Vol
  <2> QED  BY <1>2, <1>3, <1>4, <1>5, <2>1, <2>2
<1>6. CASE Half
  <2>1. UNCHANGED retired \/ Owned
    BY <1>6 DEF Half, HalfReleased, HalfRecreated, HalfInserted, HalfStarted, HalfDropped
  <2> QED  BY <1>2, <1>3, <2>1
<1> QED  BY <1>2, <1>5, <1>6 DEF Acts, InlineUndo, world

\* A row keeps a replica.
LEMMA ActsPlace ==
  ASSUME Ready, Acts, Placeable
  PROVE  app'.row => app'.on # {}
<1>1. WorldOK /\ Target \in Server /\ op.from \in Server
  BY ReadyFacts
<1>2. CASE UNCHANGED app
  BY <1>2 DEF Placeable
<1>3. CASE app'.on = {Target} \/ app'.on = {op.from}
  BY <1>3
<1>4. CASE app'.on = app.on /\ app'.row = app.row
  BY <1>4 DEF Placeable
<1>5. CASE Insert
  BY <1>3, <1>5 DEF Insert, NoApp, Here
<1>6. CASE Placed \/ HalfDropped
  <2>1. app'.on = {Target}
    BY <1>1, <1>6 DEF Placed, HalfDropped, WorldOK, AppOK, AppRow
  <2> QED  BY <1>3, <2>1
<1>7. CASE Record \/ Clear \/ Remount \/ MarkDeleting
  <2>1. app'.on = app.on /\ app'.row = app.row
    BY <1>1, <1>7 DEF Record, Clear, Remount, MarkDeleting, WorldOK, AppOK, AppRow
  <2> QED  BY <1>4, <2>1
<1>8. CASE DeleteRows
  <2>1. app' = NoApp \/ app' = app
    BY <1>8 DEF DeleteRows, RowsDeleted
  <2> QED  BY <1>2, <2>1 DEF NoApp
<1>9. CASE StartTarget
  <2>1. app' = app \/ app' = [app EXCEPT !.on = app.on \union {Target}]
    BY <1>9 DEF StartTarget
  <2>2. app' = [app EXCEPT !.on = app.on \union {Target}] => app'.on = app.on \union {Target}
    BY <1>1 DEF WorldOK, AppOK, AppRow
  <2> QED  BY <1>2, <2>1, <2>2
<1>10. CASE Do
  <2>1. \/ UNCHANGED app
        \/ Insert \/ Record \/ Clear \/ Remount \/ MarkDeleting \/ DeleteRows \/ StartTarget
        \/ Placed
    BY <1>10 DEF Do, Create, Take, Mount, Run, Serve, Recreate, RemoveMount, Release,
         RemoveContainers, Assert, StopSource, DetachSource, AttachTarget, DropSource, world
  <2> QED  BY <1>2, <1>5, <1>6, <1>7, <1>8, <1>9, <2>1
<1>11. CASE Half
  <2>1. UNCHANGED app \/ HalfDropped
    BY <1>11 DEF Half, HalfReleased, HalfRecreated, HalfInserted, HalfStarted
  <2> QED  BY <1>2, <1>6, <2>1
<1> QED  BY <1>2, <1>6, <1>10, <1>11 DEF Acts, InlineUndo, world

\* A forward step keeps the ground and what is known.
LEMMA ActsGround ==
  ASSUME Ready, Acts, Ground, Known
  PROVE  /\ Ground' /\ NoReturn
         /\ op.vol \in Volume =>
              \/ disk'[op.vol].state # "none"
              \/ op.step = "create" /\ ~Do
<1>1. /\ WorldOK /\ op.kind \in DOMAIN Plan /\ op.step \in StepsOf(op.kind)
      /\ op.vol \in Volume \union {NoVol} /\ op.dir = "forward"
  BY ReadyFacts DEF Ready
<1>2. Effect /\ NoReturn
  BY ActsEffect, ActsNoReturn
<1>3. op.step # "create" /\ op.vol \in Volume => disk[op.vol].state # "none"
  BY <1>1, Volumes0 DEF Known
<1>4. NamesKnown
  <2>1. op.step \in {"insert", "record"} => op.vol \in Volume
    BY <1>1, KindOfStep, ReadyFacts DEF Bringing
  <2>2. NoApp.vol = NoVol
    BY DEF NoApp
  <2> QED  BY <1>2, <1>3, <2>1, <2>2 DEF NamesKnown, Effect, RowMoves
<1>5. app'.vol \in Volume \union {NoVol}
  BY <1>2 DEF Effect, WorldOK, AppOK, AppRow
<1>6. Ground'
  BY <1>1, <1>2, <1>4, <1>5, ActsList, ActsPlace, GroundAfter DEF Ground
<1>7. ASSUME op.vol \in Volume, ~(op.step = "create" /\ ~Do)
      PROVE  disk'[op.vol].state # "none"
  <2>1. CASE op.step # "create"
    BY <1>2, <1>3, <1>7, <2>1 DEF NoReturn
  <2>2. CASE op.step = "create" /\ Do
    <3>1. op.kind \in Bringing
      BY <1>1, <2>2, KindOfStep DEF Bringing
    <3> QED  BY <2>2, <3>1, BringsKnown
  <2> QED  BY <1>7, <2>1, <2>2
<1> QED  BY <1>2, <1>6, <1>7

-----------------------------------------------------------------------------
(* What is untouched, and what is undone *)

\* The steps that leave the hosts alone, and those that leave the row alone.
LEMMA StepsStill ==
  ASSUME Ready, Acts, op.kind \in Bringing \union {"remount"}
  PROVE  /\ op.step \notin {"run", "recreate"} => host' = host
         /\ op.step \notin {"insert", "record", "remount"} => app' = app
<1>1. /\ op.kind \in DOMAIN Plan /\ op.step \in StepsOf(op.kind)
  BY ReadyFacts
<1>2. op.step \in {"create", "adopt", "take", "insert", "bind", "run", "serve", "record",
                   "recreate", "remount"}
  BY <1>1, StepSets DEF Bringing
<1>3. CASE Do
  BY <1>2, <1>3, DoOf DEF Create, Take, Insert, Mount, Run, Serve, Record, Recreate, Remount,
     Plug, world
<1>4. CASE Half
  BY <1>2, <1>4, HalfOf DEF HalfInserted, HalfRecreated
<1>5. CASE InlineUndo
  BY <1>5 DEF InlineUndo
<1>6. ~Moved /\ op.step # "on"
  BY <1>2 DEF Moved
<1> QED  BY <1>3, <1>4, <1>5, <1>6 DEF Acts, world

\* The steps of the kinds that bring a volume or remount one.
LEMMA BringSteps ==
  ASSUME Ready
  PROVE  /\ op.kind \in {"deploy", "redeploy"} =>
              op.step \in {"create", "adopt", "insert", "bind", "run", "serve"}
         /\ op.kind \in {"attach", "adopt", "remount"} =>
              op.step \in {"create", "take", "bind", "record", "recreate", "remount"}
         /\ op.kind = "remount" => op.step \in {"remount", "recreate"}
         /\ op.kind \in {"attach", "adopt"} => op.step # "remount"
BY ReadyFacts, StepSets

\* What a step that succeeds leaves untouched or is to undo.
LEMMA UntouchedNext ==
  ASSUME Ready, Standing, CanDo, ~Moved, Do, Carried, Precedes(op'.step),
         op'.todo = op.todo \union ({op.step} \intersect Compensable)
  PROVE  Untouched'
<1>1. Acts /\ Untouched /\ op.kind \in DOMAIN Plan
  BY ReadyFacts DEF Acts, Standing, Ready
<1>2. CASE op.kind \in {"attach", "adopt", "remount"} /\ op.served
  <2>1. op.kind \in Bringing \union {"remount"}
    BY <1>2 DEF Bringing
  <2>2. CASE op'.step = "bind"
    <3>1. op.step \in {"create", "take"}
      BY <1>2, <2>2, BringSteps DEF Precedes
    <3>2. AsRow /\ host' = host /\ app' = app
      BY <1>1, <1>2, <2>1, <3>1, StepsStill DEF Untouched
    <3> QED  BY <1>2, <2>2, <3>2 DEF Untouched, AsRow, Up, Carried
  <2>3. CASE op'.step = "recreate"
    <3>1. op.step \in {"record", "remount"}
      BY <1>2, <2>3 DEF Precedes
    <3>2. "record" \in op'.todo \/ "remount" \in op'.todo
      BY <3>1 DEF Compensable
    <3> QED  BY <1>2, <2>3, <3>2 DEF Untouched, Carried
  <2>4. op'.step \notin {"create", "take", "remount"}
    BY <1>2, StepSets DEF Precedes
  <2> QED  BY <1>2, <2>2, <2>3, <2>4 DEF Untouched, Carried
<1>3. CASE op.kind \in {"deploy", "redeploy"}
  <2>1. op.kind \in Bringing \union {"remount"}
    BY <1>3 DEF Bringing
  <2>2. op'.step \in {"insert", "bind", "run", "serve"}
    BY <1>3, StepSets DEF Precedes
  <2>3. CASE op'.step = "insert"
    <3>1. op.step \in {"create", "adopt"}
      BY <2>3 DEF Precedes
    <3>2. host' = host /\ (op.served => ~Up)
      BY <1>1, <1>3, <2>1, <3>1, StepsStill DEF Untouched
    <3> QED  BY <1>3, <2>3, <3>2 DEF Untouched, Up, Carried
  <2>4. CASE op'.step = "bind"
    <3>1. op.step = "insert"
      BY <1>3, <2>4 DEF Precedes
    <3>2. host' = host /\ (op.served => ~Up) /\ "insert" \in op'.todo
      BY <1>1, <1>3, <2>1, <3>1, StepsStill DEF Untouched, Compensable
    <3> QED  BY <1>3, <2>4, <3>2 DEF Untouched, Up, Carried
  <2>5. CASE op'.step = "run"
    <3>1. op.step = "bind"
      BY <2>5 DEF Precedes
    <3>2. "insert" \in op'.todo
      BY <1>1, <1>3, <3>1 DEF Untouched
    <3> QED  BY <1>3, <2>5, <3>2 DEF Untouched, Carried
  <2>6. CASE op'.step = "serve"
    <3>1. op.step = "run"
      BY <2>6 DEF Precedes
    <3>2. "insert" \in op'.todo /\ "run" \in op'.todo
      BY <1>1, <1>3, <3>1 DEF Untouched, Compensable
    <3> QED  BY <1>3, <2>6, <3>2 DEF Untouched, Carried
  <2> QED  BY <2>2, <2>3, <2>4, <2>5, <2>6
<1> QED  BY <1>2, <1>3 DEF Untouched, Carried

\* What a step that is cut leaves untouched: it will run again.
LEMMA UntouchedStays ==
  ASSUME Ready, Standing, Acts, Carried, op'.todo = op.todo,
         op'.step = op.step \/ op.kind = "move"
  PROVE  Untouched'
<1>1. Untouched
  BY DEF Standing, Ready
<1>2. CASE op.kind \in {"attach", "adopt", "remount"} /\ op.served
  <2>1. op.kind \in Bringing \union {"remount"} /\ op'.step = op.step
    BY <1>2 DEF Bringing
  <2>2. CASE op.step \in {"create", "take", "bind"}
    <3>1. AsRow /\ host' = host /\ app' = app
      BY <1>1, <1>2, <2>1, <2>2, StepsStill DEF Untouched
    <3> QED  BY <1>2, <2>1, <2>2, <3>1 DEF Untouched, AsRow, Up, Carried
  <2>3. CASE op.step = "remount"
    <3>1. AsRow /\ host' = host
      BY <1>1, <1>2, <2>1, <2>3, StepsStill DEF Untouched
    <3>2. app'.vol = app.vol
      BY <2>3, ActsEffect DEF Effect, RowMoves
    <3> QED  BY <1>2, <2>1, <2>3, <3>1, <3>2 DEF Untouched, AsRow, Up, Carried
  <2>4. CASE op.step \in {"record", "recreate"}
    BY <1>1, <1>2, <2>1, <2>4 DEF Untouched, Carried
  <2> QED  BY <1>2, <2>2, <2>3, <2>4, BringSteps
<1>3. CASE op.kind \in {"deploy", "redeploy"}
  <2>1. op.kind \in Bringing \union {"remount"} /\ op'.step = op.step
    BY <1>3 DEF Bringing
  <2>2. op.step \in {"create", "adopt"} => ~app'.row
    BY <1>1, <1>3, <2>1, StepsStill DEF Untouched
  <2>3. op.served /\ op.step \in {"create", "adopt", "insert", "bind"} => ~host'[op.from].up
    BY <1>1, <1>3, <2>1, StepsStill DEF Untouched, Up
  <2> QED  BY <1>1, <1>3, <2>1, <2>2, <2>3 DEF Untouched, Up, Carried
<1> QED  BY <1>2, <1>3 DEF Untouched, Carried

\* A step that breaks off: refused, failed before, halfway or after its effect, or
\* undone at once by a target that does not take the volume.
Breaks ==
  \/ ~CanDo /\ UNCHANGED world
  \/ op.step \in Remote /\ InlineUndo
  \/ CanDo /\ Half
  \/ CanDo /\ ~Moved /\ op.step \in Remote \ {"serve", "start", "stop"} /\ Do /\ (Inline => op'.soft)
  \/ op.step = "on" /\ CanDo /\ Plug(Vol, op.from) /\ UNCHANGED <<app, retired>>

\* A step that breaks off is a step.
LEMMA BreaksActs == Breaks => Acts
BY DEF Breaks, Acts

\* What a step that breaks off leaves undone.
LEMMA UndoneAfter ==
  ASSUME Ready, Standing, Breaks, Carried, op'.todo = op.todo
  PROVE  /\ Undone'
         /\ op.kind \in {"deploy", "redeploy"} /\ op.served /\ op.todo = {}
              => ~host'[op.from].up
<1>1. Untouched /\ Acts
  BY BreaksActs DEF Standing, Ready
<1>2. CASE op.kind \in {"attach", "adopt", "remount"}
  <2>1. op.kind \in Bringing \union {"remount"}
    BY <1>2 DEF Bringing
  <2>2. op.step \notin {"record", "remount"}
    <3>1. ASSUME op.step \in {"record", "remount"}  PROVE FALSE
      <4>1. CanDo /\ op.step \notin Remote
        BY <3>1 DEF CanDo, Remote
      <4>2. ~Half /\ op.step # "on"
        BY <3>1, HalfOf
      <4> QED  BY <4>1, <4>2 DEF Breaks
    <3> QED  BY <3>1
  <2>3. ASSUME op.served, "record" \notin op.todo, "remount" \notin op.todo
        PROVE  host'[op.from].up /\ host'[op.from].want = app'.vol
    <3>1. op.step \in {"create", "take", "bind"}
      BY <1>1, <1>2, <2>2, <2>3, BringSteps DEF Untouched
    <3>2. AsRow /\ host' = host /\ app' = app
      BY <1>1, <1>2, <2>1, <2>3, <3>1, StepsStill DEF Untouched
    <3> QED  BY <3>2 DEF AsRow, Up
  <2> QED  BY <1>2, <2>3 DEF Undone, AsRow, Up, Carried
<1>3. CASE op.kind \in {"deploy", "redeploy"}
  <2>1. op.kind \in Bringing \union {"remount"}
    BY <1>3 DEF Bringing
  <2>2. ASSUME "insert" \notin op.todo
        PROVE  ~app'.row
    <3>1. op.step \in {"create", "adopt", "insert"}
      BY <1>1, <1>3, <2>2, BringSteps DEF Untouched
    <3>2. CASE op.step = "insert"
      <4>1. CanDo /\ op.step \notin Remote
        BY <3>2 DEF CanDo, Remote
      <4>2. Half
        BY <3>2, <4>1 DEF Breaks
      <4> QED  BY <3>2, <4>2, HalfOf DEF HalfInserted
    <3>3. CASE op.step \in {"create", "adopt"}
      BY <1>1, <1>3, <2>1, <3>3, StepsStill DEF Untouched
    <3> QED  BY <3>1, <3>2, <3>3
  <2>3. ASSUME op.served, "run" \notin op.todo
        PROVE  host'[op.from].up => op'.soft
    <3>1. op.step # "serve"
      BY <1>1, <1>3, <2>3 DEF Untouched
    <3>2. CASE op.step = "run"
      <4>1. CanDo /\ Inline
        BY <3>2 DEF CanDo, Inline
      <4>2. ~Half
        BY <3>2, HalfOf
      <4>3. InlineUndo => ~host'[op.from].up
        <5>1. WorldOK /\ op.from \in Server
          BY ReadyFacts
        <5>2. InlineUndo => Stop({op.from})
          BY <3>2 DEF InlineUndo, Here
        <5> QED  BY <5>1, <5>2, StopIs
      <4> QED  BY <3>2, <4>1, <4>2, <4>3 DEF Breaks
    <3>3. CASE op.step \in {"create", "adopt", "insert", "bind"}
      BY <1>1, <1>3, <2>1, <2>3, <3>3, StepsStill DEF Untouched, Up
    <3> QED  BY <1>3, <3>1, <3>2, <3>3, BringSteps
  <2>4. op.served /\ op.todo = {} => ~host'[op.from].up
    <3>1. op.todo = {} => op.step \in {"create", "adopt", "insert"}
      BY <1>1, <1>3, BringSteps DEF Untouched
    <3> QED  BY <1>1, <1>3, <2>1, <3>1, StepsStill DEF Untouched, Up
  <2> QED  BY <1>3, <2>2, <2>3, <2>4 DEF Undone, Empty, Emptied, Carried
<1> QED  BY <1>2, <1>3 DEF Undone, Carried

-----------------------------------------------------------------------------
(* What an operation has brought *)

\* A step that runs to its end, or is cut on the way.
Runs == \/ CanDo /\ Do
        \/ CanDo /\ Half
        \/ UNCHANGED world

\* What a step does to the volume it brings.
LEMMA BringDisk ==
  ASSUME Ready, op.kind \in Bringing, Runs
  PROVE  /\ op.step \notin {"create", "adopt", "take"} =>
              /\ disk'[op.vol].at = disk[op.vol].at
              /\ disk[op.vol].bound => disk'[op.vol].bound
         /\ op.step # "create" => disk'[op.vol].state = disk[op.vol].state
         /\ op.step \in {"create", "adopt", "take"} /\ Do => disk'[op.vol].at = op.from
         /\ op.step = "bind" /\ Do => disk'[op.vol].bound
<1>1. /\ WorldOK /\ op.vol \in Volume /\ op.kind \in DOMAIN Plan /\ op.step \in StepsOf(op.kind)
  BY ReadyFacts DEF Bringing
<1>2. op.step \in {"create", "adopt", "take", "insert", "bind", "run", "serve", "record", "recreate"}
  BY <1>1, StepSets DEF Bringing
<1>3. ASSUME Do, op.step = "create"
      PROVE  disk'[op.vol].at = op.from
  <2>1. disk' = [disk EXCEPT ![op.vol].state = "there", ![op.vol].at = op.from]
    BY <1>3, DoOf DEF Create, Vol, Here
  <2> PICK r : r = [disk[op.vol] EXCEPT !.state = "there", !.at = op.from]
    OBVIOUS
  <2>2. disk' = [disk EXCEPT ![op.vol] = r]
    BY <1>1, <2>1 DEF WorldOK, DiskOK, DiskRow
  <2>3. r.at = op.from
    BY <1>1 DEF WorldOK, DiskOK, DiskRow
  <2> QED  BY <1>1, <2>2, <2>3 DEF WorldOK, DiskOK
<1>4. ASSUME Do, op.step \in {"adopt", "take"}
      PROVE  disk'[op.vol].at = op.from /\ disk'[op.vol].state = disk[op.vol].state
  <2>1. Plug(op.vol, op.from)
    BY <1>4, DoOf DEF Take, Vol, Here
  <2> QED  BY <1>1, <2>1, PlugIs
<1>5. ASSUME Do, op.step = "bind"
      PROVE  /\ disk'[op.vol].bound /\ disk'[op.vol].at = disk[op.vol].at
             /\ disk'[op.vol].state = disk[op.vol].state
  <2>1. Bind(op.vol)
    BY <1>5, DoOf DEF Mount, Vol
  <2> QED  BY <1>1, <2>1, BindIs
<1>6. ASSUME Do, op.step \in {"insert", "run", "serve", "record", "recreate"}
      PROVE  disk' = disk
  BY <1>6, DoOf DEF Insert, Run, Serve, Record, Recreate, world
<1>7. ASSUME ~Do  PROVE disk' = disk
  <2>1. Half => op.step # "release" /\ disk' = disk
    BY <1>2, HalfOf DEF HalfRecreated, HalfInserted, HalfStarted, HalfDropped
  <2> QED  BY <1>7, <2>1 DEF Runs, world
<1> QED  BY <1>2, <1>3, <1>4, <1>5, <1>6, <1>7

\* What a step does to the entry of its volume among the retained ones.
LEMMA BringList ==
  ASSUME Ready, op.kind \in Bringing, Runs
  PROVE  /\ retired[op.vol] = "no" => retired'[op.vol] = "no"
         /\ Do /\ op.step = "insert" /\ op.kind = "redeploy" => retired'[op.vol] = "no"
         /\ Do /\ op.step = "record" /\ op.kind = "adopt" => retired'[op.vol] = "no"
<1>1. /\ WorldOK /\ op.vol \in Volume /\ op.kind \in DOMAIN Plan /\ op.step \in StepsOf(op.kind)
  BY ReadyFacts DEF Bringing
<1>2. op.step \in {"create", "adopt", "take", "insert", "bind", "run", "serve", "record", "recreate"}
  BY <1>1, StepSets DEF Bringing
<1>3. Owned => /\ retired[op.vol] = "no" => retired'[op.vol] = "no"
               /\ op.kind \in {"redeploy", "adopt"} => retired'[op.vol] = "no"
  BY <1>1 DEF Owned, Vol, WorldOK, RetiredOK
<1>4. Do /\ op.step \in {"insert", "record"} => Owned
  BY DoOf DEF Insert, Record
<1>5. Do => Owned \/ retired' = retired
  BY <1>2, <1>4, DoOf DEF Create, Take, Mount, Run, Serve, Recreate, world
<1>6. Half => Owned \/ retired' = retired
  BY <1>2, HalfOf DEF HalfRecreated, HalfInserted
<1> QED  BY <1>3, <1>4, <1>5, <1>6 DEF Runs, world

\* After the step "run" the container writes to the volume, if it did before or was
\* not running, and the volume is mounted.
LEMMA RunWrites ==
  ASSUME Ready, Do, op.step = "run", Up => host[op.from].on = op.vol,
         disk[op.vol].at = op.from, disk[op.vol].bound
  PROVE  host'[op.from].on = op.vol
<1>1. WorldOK /\ op.from \in Server /\ op.vol \in Volume
  BY ReadyFacts, KindOfStep DEF Bringing
<1>2. IF host[op.from].up THEN UNCHANGED host ELSE Start(op.from, op.vol)
  BY DoOf DEF Run, Here, Vol
<1>3. op.vol # NoVol
  BY <1>1, Volumes0
<1> QED  BY <1>1, <1>2, <1>3, StartIs DEF Up

\* What a step that succeeds has brought.
LEMMA BroughtNext ==
  ASSUME Ready, Standing, op.kind \in Bringing, CanDo, Do, Carried, Precedes(op'.step)
  PROVE  Brought' /\ NotListed'
<1>1. Runs /\ Acts /\ Untouched /\ Brought /\ NotListed
  <2>1. op.step # "stop"
    BY ReadyFacts, StepSets DEF Bringing
  <2> QED  BY <2>1 DEF Standing, Ready, Runs, Acts, Moved
<1>2. op'.step \in StepsOf(op.kind) /\ op.kind \in DOMAIN Plan /\ op.step \in StepsOf(op.kind)
  BY ReadyFacts DEF Precedes
<1>3. op'.step \in {"insert", "bind", "run", "serve", "record", "recreate"}
  BY <1>2, StepSets DEF Bringing, Precedes
<1>4. Gone /\ op.step # "create" => Gone'
  BY <1>1, BringDisk DEF Gone, Carried
<1>5. Brought'
  <2>1. CASE op'.step = "insert"
    <3>1. op.step \in {"create", "adopt"}
      BY <2>1 DEF Precedes
    <3> QED  BY <1>1, <2>1, <3>1, BringDisk DEF Brought, Carried
  <2>2. CASE op'.step = "bind"
    <3>1. op.step \in {"create", "take", "insert"}
      BY <2>2 DEF Precedes
    <3> QED  BY <1>1, <1>4, <2>2, <3>1, BringDisk DEF Brought, Carried
  <2>3. CASE op'.step = "run"
    <3>1. op.step = "bind" /\ op.kind \in {"deploy", "redeploy"}
      BY <1>2, <2>3, KindOfStep, StepSets DEF Precedes, Bringing
    <3>2. op.served => ~host'[op.from].up
      BY <1>1, <3>1, StepsStill DEF Untouched, Up
    <3> QED  BY <1>1, <1>4, <2>3, <3>1, <3>2, BringDisk DEF Brought, Carried, Up
  <2>4. CASE op'.step = "serve"
    <3>1. op.step = "run"
      BY <2>4 DEF Precedes
    <3>2. op.served /\ ~Gone => host'[op.from].on = op.vol
      BY <1>1, <3>1, RunWrites DEF Brought
    <3> QED  BY <1>1, <1>4, <2>4, <3>1, <3>2, BringDisk DEF Brought, Carried
  <2>5. CASE op'.step \in {"record", "recreate"}
    <3>1. op.step \in {"bind", "record"} /\ (op'.step = "record" => op.step = "bind")
          /\ (op'.step = "recreate" => op.step = "record")
      BY <2>5 DEF Precedes, Bringing
    <3> QED  BY <1>1, <1>4, <2>5, <3>1, BringDisk DEF Brought, Carried
  <2> QED  BY <1>3, <2>1, <2>2, <2>3, <2>4, <2>5
<1>6. NotListed'
  <2>1. CASE op.kind \in {"deploy", "attach"}
    BY <1>1, <2>1, BringList DEF NotListed, Carried
  <2>2. CASE op.kind = "redeploy" /\ op'.step \in {"bind", "run", "serve"}
    <3>1. op.step \in {"insert", "bind", "run"}
      BY <2>2 DEF Precedes
    <3>2. retired'[op.vol] = "no"
      BY <1>1, <2>2, <3>1, BringList DEF NotListed
    <3> QED  BY <3>2 DEF NotListed, Carried
  <2>3. CASE op.kind = "adopt" /\ op'.step = "recreate"
    <3>1. op.step = "record"
      BY <2>3 DEF Precedes
    <3>2. retired'[op.vol] = "no"
      BY <1>1, <2>3, <3>1, BringList
    <3> QED  BY <3>2 DEF NotListed, Carried
  <2>4. CASE op.kind = "redeploy" /\ op'.step \notin {"bind", "run", "serve"}
    <3>1. op'.step # "recreate"
      BY <1>2, <2>4, StepSets
    <3> QED  BY <2>4, <3>1 DEF NotListed, Carried
  <2>5. CASE op.kind = "adopt" /\ op'.step # "recreate"
    <3>1. op'.step \notin {"run", "serve"}
      BY <1>2, <2>5, StepSets
    <3> QED  BY <2>5, <3>1 DEF NotListed, Carried
  <2> QED  BY <2>1, <2>2, <2>3, <2>4, <2>5 DEF Bringing
<1> QED  BY <1>5, <1>6

\* What a step that is cut has brought: it will run again.
LEMMA BroughtStays ==
  ASSUME Ready, Standing, op.kind \in Bringing, Runs, Carried, op'.step = op.step
  PROVE  Brought' /\ NotListed'
<1>1. Acts /\ Untouched /\ Brought /\ NotListed
  <2>1. op.step # "stop"
    BY ReadyFacts, StepSets DEF Bringing
  <2> QED  BY <2>1 DEF Standing, Ready, Runs, Acts, Moved
<1>2. Gone /\ op.step # "create" => Gone'
  BY BringDisk DEF Gone, Carried
<1>3. NotListed'
  BY <1>1, BringList DEF NotListed, Carried
<1>4. CASE op.step \in {"create", "adopt", "take"}
  BY <1>3, <1>4 DEF Brought, Carried
<1>5. CASE op.step \in {"insert", "bind", "record", "recreate"}
  BY <1>1, <1>2, <1>3, <1>5, BringDisk DEF Brought, Carried
<1>6. CASE op.step \in {"run", "serve"}
  <2>1. ASSUME op.served, ~Gone, op.step = "serve"
        PROVE  host'[op.from].on = op.vol
    <3>1. host' = host
      BY <1>1, <2>1, StepsStill
    <3> QED  BY <1>1, <2>1, <3>1 DEF Brought
  <2>2. ASSUME op.served, ~Gone, op.step = "run", host'[op.from].up
        PROVE  host'[op.from].on = op.vol
    <3>1. CASE Do
      BY <1>1, <2>2, <3>1, RunWrites DEF Brought
    <3>2. CASE ~Do
      <4>1. host' = host
        BY <2>2, <3>2, HalfOf DEF Runs, world
      <4> QED  BY <1>1, <2>2, <4>1 DEF Brought, Up
    <3> QED  BY <3>1, <3>2
  <2> QED  BY <1>1, <1>2, <1>3, <1>6, <2>1, <2>2, BringDisk DEF Brought, Carried, Up
<1>7. op.step \in {"create", "adopt", "take", "insert", "bind", "run", "serve", "record", "recreate"}
  BY ReadyFacts, StepSets DEF Bringing
<1> QED  BY <1>4, <1>5, <1>6, <1>7

-----------------------------------------------------------------------------
(* What a detachment, a destruction and a move have done *)

\* A step that succeeds, or whose failure is noted while the walk goes on.
Passes == \/ CanDo /\ ~Moved /\ Do /\ op'.soft = op.soft
          \/ Soft /\ Acts /\ op'.soft
          \/ op.step = "unbind" /\ Acts /\ op'.soft = op.soft

\* What a detachment that goes on has done.
LEMMA DetachingNext ==
  ASSUME Ready, Standing, op.kind = "detach", Passes, Carried, Precedes(op'.step)
  PROVE  Detaching'
<1>1. WorldOK /\ op.from \in Server /\ Detaching /\ op'.step \in StepsOf("detach")
  BY ReadyFacts DEF Standing, Ready, Precedes
<1>2. CASE op'.step = "recreate"
  <2>1. op.step = "clear" /\ Do
    <3>1. op.step = "clear"
      BY <1>2 DEF Precedes
    <3> QED  BY <3>1 DEF Passes, Soft
  <2>2. app'.vol = NoVol
    BY <1>1, <2>1, DoOf DEF Clear, WorldOK, AppOK, AppRow
  <2> QED  BY <1>2, <2>2 DEF Detaching
<1>3. CASE op'.step = "assert"
  <2>1. op.step = "recreate"
    BY <1>3 DEF Precedes
  <2>2. app.vol = NoVol
    BY <1>1, <2>1 DEF Detaching
  <2>3. CASE Do
    <3>1. Start(op.from, app.vol) /\ app' = app
      BY <2>1, <2>3, DoOf DEF Recreate, Here
    <3>2. host'[op.from].up /\ host'[op.from].want = NoVol
      BY <1>1, <2>2, <3>1, StartIs
    <3> QED  BY <1>3, <2>2, <3>1, <3>2 DEF Detaching, Up, Carried
  <2>4. CASE ~Do
    <3>1. op'.soft /\ Acts
      BY <2>1, <2>4 DEF Passes
    <3>2. app' = app
      BY <2>1, <2>4, <3>1, HalfOf DEF Acts, HalfRecreated, InlineUndo, Moved, world
    <3> QED  BY <1>3, <2>2, <3>1, <3>2 DEF Detaching
  <2> QED  BY <2>3, <2>4
<1> QED  BY <1>2, <1>3 DEF Detaching

\* A detachment that is cut runs its step again.
LEMMA DetachingStays ==
  ASSUME Ready, Standing, op.kind = "detach", Runs, Carried, op'.step = op.step,
         op'.soft = op.soft
  PROVE  Detaching'
<1>1. WorldOK /\ Detaching
  BY ReadyFacts DEF Standing, Ready
<1>2. CASE op.step = "recreate"
  <2>1. app' = app
    BY <1>2, DoOf, HalfOf DEF Runs, Recreate, HalfRecreated, world
  <2> QED  BY <1>1, <1>2, <2>1 DEF Detaching
<1>3. CASE op.step = "assert"
  <2>1. app' = app /\ host' = host
    BY <1>3, DoOf, HalfOf DEF Runs, Assert, world
  <2> QED  BY <1>1, <1>3, <2>1 DEF Detaching, Up, Carried
<1> QED  BY <1>2, <1>3 DEF Detaching

\* Releasing a volume leaves every container as it is.
LEMMA ReleaseStops ==
  ASSUME Ready, Acts, op.step = "release"
  PROVE  host'[op.from].up = host[op.from].up /\ host'[op.from].stray = host[op.from].stray
<1>1. WorldOK /\ op.from \in Server /\ op.vol \in Volume \union {NoVol}
  BY ReadyFacts
<1>2. host' = host \/ (op.vol # NoVol /\ Unplug(op.vol, "there"))
  BY DoOf, HalfOf DEF Acts, Release, HalfReleased, InlineUndo, Vol, Moved, world
<1> QED  BY <1>1, <1>2, UnplugIs

\* What a destruction that goes on has done.
LEMMA DestroyingNext ==
  ASSUME Ready, Standing, op.kind = "destroy", Passes, Carried, Precedes(op'.step)
  PROVE  Destroying'
<1>1. WorldOK /\ op.from \in Server /\ Destroying /\ op'.step \in StepsOf("destroy")
  BY ReadyFacts DEF Standing, Ready, Precedes
<1>2. CASE op'.step = "remove"
  <2>1. op.step = "mark"
    BY <1>2 DEF Precedes
  <2>2. MarkDeleting
    BY <2>1, DoOf DEF Passes, Soft
  <2>3. app'.on = app.on
    BY <1>1, <2>2 DEF MarkDeleting, WorldOK, AppOK, AppRow
  <2> QED  BY <1>1, <1>2, <2>1, <2>3 DEF Destroying, Carried
<1>3. CASE op'.step = "release"
  <2>1. op.step = "remove" /\ op.from \in app.on
    BY <1>1, <1>3 DEF Precedes, Destroying
  <2>2. op'.soft \/ Stop(app.on)
    BY <2>1, DoOf DEF Passes, RemoveContainers
  <2>3. Stop(app.on) => ~host'[op.from].up
    BY <1>1, <2>1, StopIs
  <2> QED  BY <1>3, <2>2, <2>3 DEF Destroying, Empty, Emptied, Carried
<1>4. CASE op'.step = "rows"
  <2>1. op.step = "release" /\ Acts
    <3>1. op.step = "release"
      BY <1>4 DEF Precedes
    <3> QED  BY <3>1 DEF Passes, Acts
  <2>2. host'[op.from].up = host[op.from].up /\ host'[op.from].stray = host[op.from].stray
    BY <2>1, ReleaseStops
  <2>3. op'.soft = op.soft \/ op'.soft
    BY DEF Passes
  <2> QED  BY <1>1, <1>4, <2>1, <2>2, <2>3 DEF Destroying, Empty, Emptied, Carried
<1>5. CASE op'.step = "assert"
  <2>1. op.step = "rows"
    BY <1>5 DEF Precedes
  <2>2. DeleteRows /\ op'.soft = op.soft
    BY <2>1, DoOf DEF Passes, Soft
  <2>3. host' = host /\ (~op.soft => ~app'.row)
    BY <2>2 DEF DeleteRows, RowsDeleted, NoApp
  <2> QED  BY <1>1, <1>5, <2>1, <2>2, <2>3 DEF Destroying, Empty, Emptied, Carried
<1> QED  BY <1>1, <1>2, <1>3, <1>4, <1>5, StepSets DEF Precedes

\* A destruction that is cut runs its step again.
LEMMA DestroyingStays ==
  ASSUME Ready, Standing, op.kind = "destroy", Runs, Carried, op'.step = op.step,
         op'.soft = op.soft
  PROVE  Destroying'
<1>1. WorldOK /\ op.from \in Server /\ Destroying /\ op.step \in StepsOf("destroy")
  BY ReadyFacts DEF Standing, Ready
<1>2. CASE op.step = "mark"
  <2>1. app'.on = app.on
    BY <1>1, <1>2, DoOf, HalfOf DEF Runs, MarkDeleting, WorldOK, AppOK, AppRow, world
  <2> QED  BY <1>1, <1>2, <2>1 DEF Destroying, Carried
<1>3. CASE op.step = "remove"
  <2>1. app' = app
    BY <1>3, DoOf, HalfOf DEF Runs, RemoveContainers, world
  <2> QED  BY <1>1, <1>3, <2>1 DEF Destroying, Carried
<1>4. CASE op.step = "release"
  <2>1. Acts
    BY <1>4 DEF Runs, Acts, Moved
  <2>2. host'[op.from].up = host[op.from].up /\ host'[op.from].stray = host[op.from].stray
    BY <1>4, <2>1, ReleaseStops
  <2> QED  BY <1>1, <1>4, <2>2 DEF Destroying, Empty, Emptied, Carried
<1>5. CASE op.step = "rows"
  <2>1. host' = host
    BY <1>5, DoOf, HalfOf DEF Runs, DeleteRows, world
  <2> QED  BY <1>1, <1>5, <2>1 DEF Destroying, Empty, Emptied, Carried
<1>6. CASE op.step = "assert"
  <2>1. host' = host /\ app' = app
    BY <1>6, DoOf, HalfOf DEF Runs, Assert, world
  <2> QED  BY <1>1, <1>6, <2>1 DEF Destroying, Empty, Emptied, Carried
<1> QED  BY <1>1, <1>2, <1>3, <1>4, <1>5, <1>6, StepSets

\* A move was misled for good.
LEMMA MisledStays ==
  ASSUME Ready, op.kind = "move", Acts, Carried, lost \subseteq lost', Misled
  PROVE  Misled'
<1>1. Effect /\ op.vol \in Volume
  BY ActsEffect, ReadyFacts
<1>2. disk'[op.vol].state = disk[op.vol].state
  BY <1>1 DEF Effect, Bringing
<1> QED  BY <1>2 DEF Misled, Gone, Carried

\* The two ends of a move.
LEMMA MoveFacts ==
  ASSUME Ready, op.kind = "move"
  PROVE  /\ WorldOK /\ op.vol \in Volume /\ op.vol # NoVol /\ app.row
         /\ op.from \in Server /\ Target \in Server /\ Target # op.from
         /\ \A s \in Server : s = op.from \/ s = Target
         /\ op.step \in {"stop", "off", "on", "mount", "start", "drop"}
         /\ Carried => Target' = Target
<1>1. WorldOK /\ op.vol \in Volume /\ op.vol # NoVol /\ app.row /\ op.from \in Server
  BY ReadyFacts, Volumes0 DEF Claims
<1>2. Target \in Server /\ Target # op.from /\ \A s \in Server : s = op.from \/ s = Target
  BY <1>1 DEF Target, Server
<1>3. Carried => Target' = Target
  BY DEF Target, Carried
<1> QED  BY <1>1, <1>2, <1>3, ReadyFacts, StepSets

\* A step on the way of a move: what it does to the row, the two containers and the
\* volume.
LEMMA MoveStep ==
  ASSUME Ready, op.kind = "move", Do
  PROVE  /\ op.step \in {"stop", "off", "on", "mount"} => app' = app
         /\ op.step = "stop" => ~host'[op.from].up
         /\ op.step # "stop" => /\ host'[op.from].up = host[op.from].up
                                /\ host'[op.from].stray = host[op.from].stray
         /\ op.step \in {"stop", "on", "mount"} => host'[Target] = host[Target]
         /\ op.step = "off" /\ disk[op.vol].at = Target => host' = host /\ disk' = disk
         /\ op.step \in {"stop", "start", "drop"} => disk' = disk
         /\ op.step = "on" => disk'[op.vol].at = Target
         /\ op.step = "mount" => /\ disk'[op.vol].bound /\ disk'[op.vol].at = disk[op.vol].at
                                 /\ disk'[op.vol].state = disk[op.vol].state
         /\ op.step = "start" => /\ app'.on = app.on \union {Target}
                                 /\ Target \in app.on => host' = host
                                 /\ Target \notin app.on /\ disk[op.vol].at = Target
                                      /\ disk[op.vol].bound => host'[Target].on = op.vol
         /\ op.step = "drop" => app'.on = {Target} /\ host' = host
<1>1. /\ WorldOK /\ op.vol \in Volume /\ op.vol # NoVol
      /\ op.from \in Server /\ Target \in Server /\ Target # op.from
      /\ op.step \in {"stop", "off", "on", "mount", "start", "drop"}
  BY MoveFacts
<1>2. CASE op.step = "stop"
  <2>1. Stop({op.from}) /\ UNCHANGED <<app, disk, retired>>
    BY <1>2, DoOf DEF StopSource
  <2> QED  BY <1>1, <1>2, <2>1, StopIs
<1>3. CASE op.step = "off"
  <2>1. /\ UNCHANGED app
        /\ IF disk[op.vol].at = op.from THEN Unplug(op.vol, "there") ELSE UNCHANGED <<disk, host>>
    BY <1>3, DoOf DEF DetachSource, Vol
  <2> QED  BY <1>1, <1>3, <2>1, UnplugIs
<1>4. CASE op.step = "on"
  <2>1. Plug(op.vol, Target) /\ UNCHANGED app
    BY <1>4, DoOf DEF AttachTarget, Vol
  <2> QED  BY <1>1, <1>4, <2>1, PlugIs
<1>5. CASE op.step = "mount"
  <2>1. Bind(op.vol) /\ UNCHANGED <<app, host>>
    BY <1>5, DoOf DEF Mount, Vol
  <2> QED  BY <1>1, <1>5, <2>1, BindIs
<1>6. CASE op.step = "start"
  <2>1. StartTarget
    BY <1>6, DoOf
  <2>2. CASE Target \in app.on
    <3>1. UNCHANGED <<app, host, disk>>
      BY <2>1, <2>2 DEF StartTarget
    <3> QED  BY <1>6, <2>2, <3>1
  <2>3. CASE Target \notin app.on
    <3>1. /\ app' = [app EXCEPT !.on = app.on \union {Target}] /\ Start(Target, op.vol)
          /\ disk' = disk
      BY <2>1, <2>3 DEF StartTarget, Vol
    <3>2. app'.on = app.on \union {Target}
      BY <1>1, <3>1 DEF WorldOK, AppOK, AppRow
    <3> QED  BY <1>1, <1>6, <2>3, <3>1, <3>2, StartIs
  <2> QED  BY <2>2, <2>3
<1>7. CASE op.step = "drop"
  <2>1. Placed /\ UNCHANGED <<disk, retired, host>>
    BY <1>7, DoOf DEF DropSource
  <2>2. app'.on = {Target}
    BY <1>1, <2>1 DEF Placed, WorldOK, AppOK, AppRow
  <2> QED  BY <1>1, <1>7, <2>1, <2>2
<1> QED  BY <1>1, <1>2, <1>3, <1>4, <1>5, <1>6, <1>7

\* What a move that goes on has done.
LEMMA MovingNext ==
  ASSUME Ready, Standing, op.kind = "move", CanDo, ~Moved, Do, Carried, lost \subseteq lost',
         Precedes(op'.step)
  PROVE  Moving'
<1>1. CASE Misled
  BY <1>1, MisledStays DEF Acts, Moving
<1>2. CASE ~Misled
  <2>1. Moving /\ Acts
    BY DEF Standing, Ready, Acts
  <2>2. /\ op.step # "stop" \/ op.from \notin app.on => Empty
        /\ Target \in app.on => Landed /\ op.step # "on"
        /\ op.step \in {"mount", "start"} => disk[op.vol].at = Target
        /\ op.step = "start" => disk[op.vol].bound
    BY <1>2, <2>1 DEF Moving
  <2>3. /\ op.vol \in Volume /\ Target' = Target /\ Target # op.from
        /\ op.step \in {"stop", "off", "on", "mount", "start", "drop"}
        /\ WorldOK
    BY MoveFacts
  <2>4. disk[op.vol].at = Target => disk[op.vol].state = "there"
    BY <2>3, MoveFacts, Volumes0 DEF WorldOK, DiskOK
  <2>5. op'.step \in {"off", "on", "mount", "start", "drop"}
    BY StepSets DEF Precedes
  <2>6. Emptied(host'[op.from])
    BY <2>2, <2>3, MoveStep DEF Empty, Emptied
  <2>7. CASE op'.step = "off"
    <3>1. op.step = "stop"
      BY <2>7 DEF Precedes
    <3> QED  BY <2>2, <2>3, <2>6, <2>7, <3>1, MoveStep DEF Moving, Landed, Mounted, Carried, Empty
  <2>8. CASE op'.step = "on"
    <3>1. op.step = "off" /\ disk[op.vol].at # Target
      BY <2>8 DEF Precedes, Skips, Vol
    <3>2. Target \notin app'.on
      BY <2>2, <3>1, MoveStep DEF Landed, Mounted
    <3> QED  BY <2>3, <2>6, <2>8, <3>2 DEF Moving, Carried, Empty
  <2>9. CASE op'.step = "mount"
    <3>1. CASE op.step = "on"
      <4>1. Target \notin app'.on /\ disk'[op.vol].at = Target
        BY <2>2, <3>1, MoveStep
      <4> QED  BY <2>3, <2>6, <2>9, <4>1 DEF Moving, Carried, Empty
    <3>2. CASE Skips
      <4>1. op.step = "off" /\ disk[op.vol].at = Target
        BY <3>2 DEF Skips, Vol
      <4> QED  BY <2>2, <2>3, <2>6, <2>9, <4>1, MoveStep DEF Moving, Landed, Mounted, Carried, Empty
    <3> QED  BY <2>9, <3>1, <3>2 DEF Precedes
  <2>10. CASE op'.step = "start"
    <3>1. op.step = "mount"
      BY <2>10 DEF Precedes
    <3> QED  BY <2>2, <2>3, <2>6, <2>10, <3>1, MoveStep DEF Moving, Landed, Mounted, Carried, Empty
  <2>11. CASE op'.step = "drop"
    <3>1. op.step = "start"
      BY <2>11 DEF Precedes
    <3> QED  BY <2>2, <2>3, <2>4, <2>6, <2>11, <3>1, MoveStep DEF Moving, Landed, Mounted, Carried, Empty
  <2> QED  BY <2>5, <2>7, <2>8, <2>9, <2>10, <2>11
<1> QED  BY <1>1, <1>2

\* A move that is cut starts over.
LEMMA MovingAgain ==
  ASSUME Ready, Standing, op.kind = "move", Runs, ~Moved \/ UNCHANGED world, Carried,
         lost \subseteq lost', op'.step = "stop"
  PROVE  Moving'
<1>0. Acts
  BY DEF Runs, Acts
<1>1. CASE Misled
  BY <1>0, <1>1, MisledStays DEF Moving
<1>2. CASE ~Misled
  <2>1. Moving
    BY DEF Standing, Ready
  <2>2. /\ op.step # "stop" \/ op.from \notin app.on => Empty
        /\ Target \in app.on => Landed /\ op.step # "on"
        /\ op.step \in {"mount", "start"} => disk[op.vol].at = Target
        /\ op.step = "start" => disk[op.vol].bound
        /\ op.step = "drop" => Target \in app.on
    BY <1>2, <2>1 DEF Moving
  <2>3. /\ op.vol \in Volume /\ Target' = Target /\ Target # op.from /\ op.from \in Server
        /\ op.step \in {"stop", "off", "on", "mount", "start", "drop"} /\ Target \in Server
        /\ WorldOK
    BY MoveFacts
  <2>4. disk[op.vol].at = Target => disk[op.vol].state = "there"
    BY <2>3, MoveFacts, Volumes0 DEF WorldOK, DiskOK
  <2>5. CASE UNCHANGED world
    BY <2>2, <2>3, <2>5 DEF Moving, Landed, Mounted, Carried, Empty, Emptied, world
  <2>6. CASE Do /\ ~Moved
    <3>1. CASE op.step = "stop"
      <4>1. op.from \in app.on
        BY <2>6, <3>1 DEF Moved
      <4> QED  BY <2>2, <2>3, <2>6, <3>1, <4>1, MoveStep DEF Moving, Landed, Mounted, Carried, Empty, Emptied
    <3>2. CASE op.step = "off"
      BY <2>2, <2>3, <2>6, <3>2, MoveStep DEF Moving, Landed, Mounted, Carried, Empty, Emptied
    <3>3. CASE op.step = "on"
      BY <2>2, <2>3, <2>6, <3>3, MoveStep DEF Moving, Landed, Mounted, Carried, Empty, Emptied
    <3>4. CASE op.step = "mount"
      BY <2>2, <2>3, <2>6, <3>4, MoveStep DEF Moving, Landed, Mounted, Carried, Empty, Emptied
    <3>5. CASE op.step = "start"
      BY <2>2, <2>3, <2>4, <2>6, <3>5, MoveStep DEF Moving, Landed, Mounted, Carried, Empty, Emptied
    <3>6. CASE op.step = "drop"
      BY <2>2, <2>3, <2>6, <3>6, MoveStep DEF Moving, Landed, Mounted, Carried, Empty, Emptied
    <3> QED  BY <2>3, <3>1, <3>2, <3>3, <3>4, <3>5, <3>6
  <2>7. CASE Half
    <3>1. \/ op.step = "start" /\ HalfStarted
          \/ op.step = "drop" /\ HalfDropped
      BY <2>3, <2>7, HalfOf
    <3>2. CASE op.step = "start" /\ HalfStarted
      <4>1. Target \notin app.on /\ Start(Target, op.vol) /\ UNCHANGED <<app, disk, retired>>
        BY <3>2 DEF HalfStarted, Vol
      <4>2. host'[op.from] = host[op.from]
        BY <2>3, <4>1, StartIs
      <4> QED  BY <2>2, <2>3, <3>2, <4>1, <4>2 DEF Moving, Carried, Empty, Emptied
    <3>3. CASE op.step = "drop" /\ HalfDropped
      <4>1. app'.on = {Target} /\ UNCHANGED <<disk, retired, host>>
        BY <2>3, <3>3 DEF HalfDropped, WorldOK, AppOK, AppRow
      <4> QED  BY <2>2, <2>3, <3>3, <4>1 DEF Moving, Landed, Mounted, Carried, Empty, Emptied
    <3> QED  BY <3>1, <3>2, <3>3
  <2> QED  BY <2>5, <2>6, <2>7 DEF Runs
<1> QED  BY <1>1, <1>2

-----------------------------------------------------------------------------
(* What a walk that ends has done *)

\* What DoneIsWhole says of a step that ends an operation.
WholeOr ==
  \/ Whole
  \/ op.vol # NoVol /\ disk'[op.vol].state = "gone"
  \/ op.kind \in {"deploy", "redeploy"} /\ ~op.served
  \/ op.kind = "move" /\ (~op.served \/ op.vol \in lost)

\* An operation that brings a volume and ends with its last step has brought it.
LEMMA BroughtWhole ==
  ASSUME Ready, Standing, op.kind \in Bringing, LastStep, CanDo, Do
  PROVE  WholeOr
<1>1. /\ WorldOK /\ op.vol \in Volume /\ op.vol # NoVol /\ op.from \in Server /\ Claims
      /\ op.step \in StepsOf(op.kind) /\ op.from # Nowhere /\ op.dir = "forward"
  BY ReadyFacts, Volumes0 DEF Bringing, Ready
<1>2. Brought /\ NotListed
  BY <1>1 DEF Standing
<1>3. \/ op.kind \in {"deploy", "redeploy"} /\ op.step = "serve"
      \/ op.kind \in {"attach", "adopt"} /\ op.step = "recreate"
  BY DEF LastStep, Bringing
<1>4. app.row /\ app.vol = op.vol
  BY <1>1, <1>3 DEF Claims
<1>5. retired[op.vol] = "no"
  BY <1>2, <1>3 DEF NotListed
<1>6. app' = app /\ disk' = disk /\ retired' = retired
  BY <1>3, DoOf DEF Serve, Recreate, world
<1>7. CASE Gone
  BY <1>6, <1>7 DEF Gone, WholeOr
<1>8. CASE ~Gone
  <2>1. disk[op.vol].at = op.from /\ disk[op.vol].bound
    BY <1>2, <1>3, <1>8 DEF Brought
  <2>2. disk[op.vol].state = "there"
    BY <1>1, <2>1 DEF WorldOK, DiskOK
  <2>3. Mounted(disk'[op.vol], op.from)
    BY <1>6, <2>1, <2>2 DEF Mounted
  <2>4. CASE op.step = "recreate"
    <3>1. Start(op.from, op.vol)
      BY <1>4, <2>4, DoOf DEF Recreate, Here
    <3>2. host'[op.from].on = op.vol
      BY <1>1, <2>1, <3>1, StartIs
    <3> QED  BY <1>4, <1>5, <1>6, <2>3, <3>2 DEF WholeOr, Whole, Bringing
  <2>5. CASE op.step = "serve" /\ op.served
    <3>1. host'[op.from].on = op.vol
      BY <1>2, <1>8, <2>5, DoOf DEF Brought, Serve, world
    <3> QED  BY <1>4, <1>5, <1>6, <2>3, <3>1 DEF WholeOr, Whole, Bringing
  <2> QED  BY <1>3, <2>4, <2>5 DEF WholeOr
<1> QED  BY <1>7, <1>8

\* A detachment, a remount and a destruction that end with their last step.
LEMMA DetachedWhole ==
  ASSUME Ready, Standing, Known, op.kind \in {"detach", "remount", "destroy"}, LastStep,
         CanDo, Do
  PROVE  WholeOr
<1>1. /\ WorldOK /\ op.from \in Server /\ Claims /\ op.dir = "forward"
      /\ op.vol \in Volume \union {NoVol} /\ (op.kind = "detach" => op.vol \in Volume)
      /\ op.vol \in Volume => op.vol # NoVol
  BY ReadyFacts, Volumes0 DEF Ready
<1>2. CASE op.kind = "detach"
  <2>1. op.step = "assert" /\ Detaching
    BY <1>1, <1>2 DEF LastStep, Standing
  <2>2. UNCHANGED world /\ ~op.soft
    BY <2>1, DoOf DEF Assert, CanDo
  <2>3. app.vol = NoVol /\ host[op.from].up /\ host[op.from].want = NoVol
    BY <2>1, <2>2 DEF Detaching, Up
  <2>4. Safe(op.vol)
    BY <1>1, <1>2, <2>1 DEF Claims
  <2>5. disk[op.vol].state \in {"there", "gone"}
    BY <1>1, <1>2, <2>1 DEF Known, WorldOK, DiskOK, DiskRow
  <2>6. retired[op.vol] # "no" \/ disk[op.vol].state = "gone"
    BY <1>1, <1>2, <2>4, <2>5 DEF Safe, There
  <2> QED  BY <1>1, <1>2, <2>2, <2>3, <2>6 DEF WholeOr, Whole, world, Bringing
<1>3. CASE op.kind = "remount"
  <2>1. op.step = "recreate" /\ app.vol = op.vol
    BY <1>1, <1>3 DEF LastStep, Claims
  <2>2. Start(op.from, op.vol) /\ app' = app
    BY <2>1, DoOf DEF Recreate, Here
  <2>3. host'[op.from].up /\ host'[op.from].want = op.vol
    BY <1>1, <2>2, StartIs
  <2> QED  BY <1>3, <2>1, <2>2, <2>3 DEF WholeOr, Whole, Bringing
<1>4. CASE op.kind = "destroy"
  <2>1. op.step = "assert" /\ Destroying
    BY <1>1, <1>4 DEF LastStep, Standing
  <2>2. UNCHANGED world /\ ~op.soft
    BY <2>1, DoOf DEF Assert, CanDo
  <2>3. Emptied(host[op.from]) /\ ~app.row
    BY <2>1, <2>2 DEF Destroying, Empty
  <2> QED  BY <1>4, <2>2, <2>3 DEF WholeOr, Whole, world, Bringing
<1> QED  BY <1>2, <1>3, <1>4

\* A move that ends: its target has the only replica row, the mounted volume and the
\* container.
LEMMA MovedWhole ==
  ASSUME Ready, Standing, Placeable, op.kind = "move",
         \/ Moved /\ Placed /\ UNCHANGED <<disk, retired, host>>
         \/ op.step = "drop" /\ Do
  PROVE  WholeOr
<1>1. /\ WorldOK /\ op.vol \in Volume /\ op.vol # NoVol /\ app.row
      /\ op.from \in Server /\ Target \in Server /\ Target # op.from
      /\ \A s \in Server : s = op.from \/ s = Target
  BY MoveFacts
<1>2. Moving
  BY DEF Standing, Ready
<1>3. app'.on = {Target} /\ disk' = disk /\ host' = host
  <2>1. CASE op.step = "drop" /\ Do
    BY <2>1, MoveStep
  <2>2. CASE Placed /\ UNCHANGED <<disk, retired, host>>
    BY <1>1, <2>2 DEF Placed, WorldOK, AppOK, AppRow
  <2> QED  BY <2>1, <2>2
<1>4. CASE Misled
  BY <1>1, <1>3, <1>4 DEF Misled, Gone, WholeOr
<1>5. CASE ~Misled
  <2>1. Target \in app.on /\ Empty
    <3>1. CASE Moved
      <4>1. app.on \subseteq Server /\ app.on # {} /\ op.from \notin app.on
        BY <1>1, <3>1 DEF Placeable, Moved, WorldOK, AppOK, AppRow
      <4>2. Target \in app.on
        BY <1>1, <4>1
      <4> QED  BY <1>2, <1>5, <4>1, <4>2 DEF Moving
    <3>2. CASE op.step = "drop"
      BY <1>2, <1>5, <3>2 DEF Moving
    <3> QED  BY <3>1, <3>2
  <2>2. Landed
    BY <1>2, <1>5, <2>1 DEF Moving
  <2>3. Mounted(disk'[op.vol], Target) /\ host'[Target].on = op.vol /\ Emptied(host'[op.from])
    BY <1>3, <2>1, <2>2 DEF Landed, Empty
  <2>4. Target = 3 - op.from
    BY DEF Target
  <2> QED  BY <1>3, <2>3, <2>4 DEF WholeOr, Whole, Bringing
<1> QED  BY <1>4, <1>5

\* An operation that reports done has done what it promised.
LEMMA EndsWhole ==
  ASSUME Ready, Standing, Known, Placeable, CanDo, Final,
         IF Moved THEN Placed /\ UNCHANGED <<disk, retired, host>> ELSE Do
  PROVE  WholeOr
<1>1. op.kind \in DOMAIN Plan
  BY ReadyFacts
<1>2. CASE op.kind = "move"
  BY <1>2, MovedWhole DEF Final
<1>3. CASE op.kind # "move"
  <2>1. ~Moved
    BY <1>3, ReadyFacts, KindOfStep DEF Moved
  <2> QED  BY <1>1, <1>3, <2>1, Plans, BroughtWhole, DetachedWhole DEF Final, Bringing
<1> QED  BY <1>2, <1>3

-----------------------------------------------------------------------------
(* The walk forward keeps what stands *)

\* What RollbackServes says of a step that ends an operation.
RolledOr ==
  CASE op.kind \in {"attach", "adopt", "remount"} ->
         app'.row /\ host'[op.from].up /\ host'[op.from].want = app'.vol
    [] op.kind \in {"deploy", "redeploy"} -> ~app'.row /\ (Emptied(host'[op.from]) \/ op.soft)
    [] OTHER -> TRUE

\* A step keeps the promises of the operation it ends.
Promised == /\ Ends("done") => WholeOr
            /\ Ends("compensated") /\ op.served => RolledOr

\* What stands when an operation is about to take a forward step.
LEMMA FirmFacts ==
  ASSUME Inv, Firm, op.live, op.dir = "forward"
  PROVE  /\ Ready /\ Standing /\ Known /\ Ground /\ Active /\ Placeable
         /\ op.kind \in DOMAIN Plan /\ op.step \in StepsOf(op.kind)
<1>1. Ready
  BY ReadyInv
<1>2. Active
  BY <1>1, ReadyFacts
<1> QED  BY <1>1, <1>2, ReadyFacts DEF Firm, Ground

\* What stands after a step that goes on.
LEMMA OnwardFirm ==
  ASSUME Ready, Ground, Known, Acts, Carried, op'.dir = "forward", Precedes(op'.step),
         op.step = "create" => Do, Untouched',
         op.kind \in Bringing => Brought' /\ NotListed',
         op.kind = "detach" => Detaching',
         op.kind = "destroy" => Destroying',
         op.kind = "move" => Moving'
  PROVE  Firm'
<1>1. Ground'
  BY ActsGround
<1>2. Known'
  <2>1. op.vol \in Volume \union {NoVol}
    BY ReadyFacts
  <2> QED  BY <2>1, ActsGround DEF Known, Carried
<1>3. Standing'
  BY DEF Standing, Carried
<1> QED  BY <1>1, <1>2, <1>3 DEF Firm

\* A step that succeeds.
LEMMA StepOkFirm ==
  ASSUME Inv, Firm, StepOk
  PROVE  Firm' /\ Promised
<1>1. /\ op.live /\ op.dir = "forward" /\ CanDo /\ Keep /\ op' = Forward(Noted)
      /\ IF Moved THEN Placed /\ UNCHANGED <<disk, retired, host>> ELSE Do
  BY DEF StepOk
<1>2. /\ Ready /\ Standing /\ Known /\ Ground /\ Active /\ Placeable
      /\ op.kind \in DOMAIN Plan /\ op.step \in StepsOf(op.kind)
  BY <1>1, FirmFacts
<1>3. Acts
  BY <1>1 DEF Acts
<1> PICK o : o = Noted
  OBVIOUS
<1>4. /\ o \in OpRow /\ o.kind = op.kind /\ o.vol = op.vol /\ o.from = op.from
      /\ o.served = op.served /\ o.dir = "forward" /\ o.step = op.step
      /\ o.soft = op.soft /\ o.todo = op.todo \union ({op.step} \intersect Compensable)
  BY <1>2, NotedIs
<1>5. op' = Forward(o)
  BY <1>1
<1>6. /\ Carried /\ op'.todo = o.todo /\ op'.soft = o.soft
      /\ \/ op'.dir = "done" /\ Final
         \/ op'.dir = "forward" /\ Precedes(op'.step)
  BY <1>2, <1>4, <1>5, ForwardIs
<1>7. CASE op'.dir = "done" /\ Final
  <2>1. Ground'
    BY <1>2, <1>3, ActsGround
  <2>2. ~Active'
    BY <1>7 DEF Active, Settled
  <2>3. WholeOr
    BY <1>1, <1>2, <1>7, EndsWhole
  <2> QED  BY <1>7, <2>1, <2>2, <2>3 DEF Firm, Promised, Ends
<1>8. CASE op'.dir = "forward" /\ Precedes(op'.step)
  <2>1. ~Moved
    BY <1>2, <1>8, KindOfStep, StepSets DEF Precedes, Moved, Skips
  <2>2. Do
    BY <1>1, <2>1
  <2>3. op'.todo = op.todo \union ({op.step} \intersect Compensable) /\ op'.soft = op.soft
    BY <1>4, <1>6
  <2>4. Passes /\ lost \subseteq lost'
    BY <1>1, <2>1, <2>2, <2>3 DEF Passes, Keep
  <2>5. Untouched'
    BY <1>1, <1>2, <1>6, <1>8, <2>1, <2>2, <2>3, UntouchedNext
  <2>6. op.kind \in Bringing => Brought' /\ NotListed'
    BY <1>1, <1>2, <1>6, <1>8, <2>2, BroughtNext
  <2>7. op.kind = "detach" => Detaching'
    BY <1>2, <1>6, <1>8, <2>4, DetachingNext
  <2>8. op.kind = "destroy" => Destroying'
    BY <1>2, <1>6, <1>8, <2>4, DestroyingNext
  <2>9. op.kind = "move" => Moving'
    BY <1>1, <1>2, <1>6, <1>8, <2>1, <2>2, <2>4, MovingNext
  <2>10. Firm'
    BY <1>2, <1>3, <1>6, <1>8, <2>2, <2>5, <2>6, <2>7, <2>8, <2>9, OnwardFirm
  <2> QED  BY <1>8, <2>10 DEF Promised, Ends
<1> QED  BY <1>6, <1>7, <1>8

\* A best-effort step that fails: the walk goes on.
LEMMA SoftFirm ==
  ASSUME Inv, Firm, op.live, op.dir = "forward", Acts,
         \/ Soft /\ op' = Forward([op EXCEPT !.soft = TRUE])
         \/ op.step = "unbind" /\ op' = Forward(op)
  PROVE  Firm' /\ Promised
<1>1. /\ Ready /\ Standing /\ Known /\ Ground /\ Active /\ Placeable
      /\ op.kind \in DOMAIN Plan /\ op.step \in StepsOf(op.kind)
  BY FirmFacts
<1>2. op \in OpRow
  BY ReadyInv
<1>3. /\ op.kind \in {"detach", "destroy"} /\ ~LastStep
      /\ op.step # "create"
  BY <1>1, KindOfStep DEF Soft, LastStep
<1> PICK o : o = IF Soft /\ op' = Forward([op EXCEPT !.soft = TRUE]) THEN [op EXCEPT !.soft = TRUE] ELSE op
  OBVIOUS
<1>4. /\ o \in OpRow /\ o.kind = op.kind /\ o.vol = op.vol /\ o.from = op.from
      /\ o.served = op.served /\ o.dir = "forward" /\ o.step = op.step /\ op' = Forward(o)
      /\ (Soft /\ o.soft) \/ (op.step = "unbind" /\ o.soft = op.soft)
  BY <1>2 DEF OpRow
<1>5. /\ Carried /\ op'.soft = o.soft
      /\ \/ op'.dir = "done" /\ Final
         \/ op'.dir = "forward" /\ Precedes(op'.step)
  BY <1>1, <1>4, ForwardIs
<1>6. op'.dir = "forward" /\ Precedes(op'.step)
  BY <1>3, <1>5 DEF Final
<1>7. Passes
  BY <1>4, <1>5 DEF Passes
<1>8. op.kind = "detach" => Detaching'
  BY <1>1, <1>5, <1>6, <1>7, DetachingNext
<1>9. op.kind = "destroy" => Destroying'
  BY <1>1, <1>5, <1>6, <1>7, DestroyingNext
<1>10. Untouched' /\ op.kind \notin Bringing
  BY <1>3, <1>5 DEF Untouched, Carried, Bringing
<1>11. Firm'
  BY <1>1, <1>3, <1>5, <1>6, <1>8, <1>9, <1>10, OnwardFirm
<1> QED  BY <1>6, <1>11 DEF Promised, Ends

\* A step that breaks off: the operation turns back, a move undoes itself.
LEMMA BreaksFirm ==
  ASSUME Inv, Firm, op.live, op.dir = "forward", Breaks, Keep,
         NEW o \in OpRow, o.kind = op.kind, o.vol = op.vol, o.from = op.from,
         o.served = op.served, o.todo = op.todo,
         op' \in {Backward(o), [Backward(o) EXCEPT !.soft = TRUE]}
  PROVE  Firm' /\ Promised
<1>1. /\ Ready /\ Standing /\ Known /\ Ground /\ Active /\ Placeable
      /\ op.kind \in DOMAIN Plan /\ op.step \in StepsOf(op.kind)
  BY FirmFacts
<1>2. /\ Carried /\ op'.todo = op.todo
      /\ \/ op.kind = "move" /\ op'.dir = "restore"
         \/ op.kind # "move" /\ op.todo = {} /\ op'.dir = "compensated"
         \/ op.kind # "move" /\ op.todo # {} /\ op'.dir = "back"
  BY BackwardIs
<1>3. Acts /\ Effect
  BY <1>1, BreaksActs, ActsEffect
<1>4. /\ Ground'
      /\ op.vol \in Volume => disk'[op.vol].state # "none" \/ op.step = "create"
  BY <1>1, <1>3, ActsGround
<1>5. /\ Undone'
      /\ op.kind \in {"deploy", "redeploy"} /\ op.served /\ op.todo = {} => ~host'[op.from].up
  BY <1>1, <1>2, UndoneAfter
<1>6. op.kind \in {"attach", "adopt", "detach", "remount", "move"} => app'.row
  BY <1>1, <1>2, <1>3, EffectClaims DEF SameWork, Carried
<1>7. op.vol \in Volume \union {NoVol} /\ (op.step = "create" => op.todo = {} /\ op.kind # "move")
  BY <1>1, ReadyFacts, KindOfStep DEF Undoing, Ready
<1>8. CASE op.kind = "move" /\ op'.dir = "restore"
  <2>1. Known'
    BY <1>2, <1>4, <1>7, <1>8 DEF Known, Carried
  <2>2. lost' = lost \union Abandoned /\ op.vol \in Volume /\ op.vol # NoVol
    BY <1>1, <1>8, MoveFacts DEF Keep
  <2>3. CASE Target \in app'.on
    <3>1. op.vol \in lost'
      BY <1>8, <2>2, <2>3 DEF Abandoned
    <3>2. Misled'
      BY <1>2, <3>1 DEF Misled, Carried
    <3> QED  BY <1>4, <1>8, <2>1, <3>2 DEF Firm, Standing, Promised, Ends
  <2>4. CASE Target \notin app'.on
    <3>1. app'.on \subseteq Server /\ app'.on # {}
      BY <1>3, <1>4, <1>6, <1>8 DEF Effect, WorldOK, AppOK, AppRow, Ground, Placeable
    <3>2. app'.on = {op.from}
      BY <1>1, <1>8, <2>4, <3>1, MoveFacts
    <3> QED  BY <1>2, <1>4, <1>8, <2>1, <3>2 DEF Firm, Standing, Promised, Ends, Carried
  <2> QED  BY <2>3, <2>4
<1>9. CASE op.kind # "move" /\ op.todo # {} /\ op'.dir = "back"
  <2>1. Known'
    BY <1>2, <1>4, <1>7, <1>9 DEF Known, Carried
  <2> QED  BY <1>4, <1>5, <1>9, <2>1 DEF Firm, Standing, Promised, Ends
<1>10. CASE op.kind # "move" /\ op.todo = {} /\ op'.dir = "compensated"
  <2>1. ~Active'
    BY <1>10 DEF Active, Settled
  <2>2. op.served => RolledOr
    <3>1. CASE op.kind \in {"attach", "adopt", "remount"} /\ op.served
      <4>1. host'[op.from].up /\ host'[op.from].want = app'.vol
        BY <1>2, <1>5, <1>10, <3>1 DEF Undone, AsRow, Up, Carried
      <4> QED  BY <1>6, <3>1, <4>1 DEF RolledOr
    <3>2. CASE op.kind \in {"deploy", "redeploy"} /\ op.served
      <4>1. ~app'.row /\ Emptied(host'[op.from])
        BY <1>2, <1>5, <1>10, <3>2 DEF Undone, Carried, Emptied
      <4> QED  BY <3>2, <4>1 DEF RolledOr
    <3> QED  BY <3>1, <3>2 DEF RolledOr
  <2> QED  BY <1>4, <1>10, <2>1, <2>2 DEF Firm, Promised, Ends
<1> QED  BY <1>2, <1>8, <1>9, <1>10

\* A step that fails one way or the other: refused, before its effect, halfway or after.
LEMMA FailedFirm ==
  ASSUME Inv, Firm, op.live, op.dir = "forward", Keep, op' \in {Failed, Thrown}, Acts, ~Soft => Breaks
  PROVE  Firm' /\ Promised
<1>1. Ready /\ op \in OpRow
  BY FirmFacts, ReadyInv
<1>2. CASE Soft /\ op' = Forward([op EXCEPT !.soft = TRUE])
  BY <1>2, SoftFirm
<1>3. CASE op.step = "unbind" /\ op' = Forward(op)
  BY <1>3, SoftFirm
<1>4. CASE ~Soft /\ op' = Backward(op)
  <2>1. op' \in {Backward(op), [Backward(op) EXCEPT !.soft = TRUE]}
    BY <1>4
  <2> QED  BY <1>1, <1>4, <2>1, BreaksFirm
<1> QED  BY <1>2, <1>3, <1>4 DEF Thrown, Failed

\* The state refuses the step.
LEMMA StepRefusedFirm ==
  ASSUME Inv, Firm, StepRefused
  PROVE  Firm' /\ Promised
<1>1. op.live /\ op.dir = "forward" /\ op' = Failed /\ ~CanDo /\ UNCHANGED world /\ Keep
  BY DEF StepRefused
<1> QED  BY <1>1, FailedFirm DEF Acts, Breaks

\* A call fails before its effect.
LEMMA FailsBeforeFirm ==
  ASSUME Inv, Firm, FailsBefore
  PROVE  Firm' /\ Promised
<1>1. op.live /\ op.dir = "forward" /\ op' = Thrown /\ op.step \in Remote /\ InlineUndo /\ Keep
  BY DEF FailsBefore
<1> QED  BY <1>1, FailedFirm DEF Acts, Breaks

\* A step is left between two calls.
LEMMA FailsHalfwayFirm ==
  ASSUME Inv, Firm, FailsHalfway
  PROVE  Firm' /\ Promised
<1>1. op.live /\ op.dir = "forward" /\ op' = Failed /\ CanDo /\ Half /\ Keep
  BY DEF FailsHalfway
<1> QED  BY <1>1, FailedFirm DEF Acts, Breaks

\* A call fails after its effect.
LEMMA FailsAfterFirm ==
  ASSUME Inv, Firm, FailsAfter
  PROVE  Firm' /\ Promised
<1>1. /\ op.live /\ op.dir = "forward" /\ CanDo /\ op.step \in Remote \ {"serve", "start", "stop"}
      /\ ~Moved /\ Do /\ Keep
      /\ op' = IF Inline THEN [Failed EXCEPT !.soft = TRUE] ELSE Thrown
  BY DEF FailsAfter
<1>2. CASE ~Inline
  BY <1>1, <1>2, FailedFirm DEF Acts, Breaks
<1>3. CASE Inline
  <2>1. ~Soft
    BY <1>3 DEF Inline, Binds, Soft
  <2>2. op' = [Backward(op) EXCEPT !.soft = TRUE]
    BY <1>1, <1>3, <2>1 DEF Failed
  <2>3. op' \in {Backward(op), [Backward(op) EXCEPT !.soft = TRUE]}
    BY <2>2
  <2>4. op \in OpRow
    BY <1>1, ReadyInv
  <2>5. op'.soft
    BY <2>2, <2>3, <2>4, BackwardIs
  <2>6. Breaks
    BY <1>1, <2>5 DEF Breaks
  <2> QED  BY <1>1, <2>3, <2>4, <2>6, BreaksFirm
<1> QED  BY <1>2, <1>3

\* A removal fails and nobody notices: the container counts as removed.
LEMMA UnheededFirm ==
  ASSUME Inv, Firm, Unheeded
  PROVE  Firm' /\ Promised
<1>1. /\ op.live /\ op.dir = "forward" /\ ~Moved /\ op.step \in {"stop", "remove"}
      /\ op' = Forward(Noted) /\ Keep /\ Stay(Taken) /\ UNCHANGED <<app, disk, retired>>
  BY DEF Unheeded
<1>2. /\ Ready /\ Standing /\ Known /\ Ground
      /\ op.kind \in DOMAIN Plan /\ op.step \in StepsOf(op.kind)
  BY <1>1, FirmFacts
<1>3. WorldOK /\ op.from \in Server /\ op.vol \in Volume \union {NoVol}
  BY <1>2, ReadyFacts
<1> PICK o : o = Noted
  OBVIOUS
<1>4. /\ o \in OpRow /\ o.kind = op.kind /\ o.vol = op.vol /\ o.from = op.from
      /\ o.served = op.served /\ o.dir = "forward" /\ o.step = op.step
      /\ o.soft = op.soft /\ o.todo = op.todo \union ({op.step} \intersect Compensable)
  BY <1>2, NotedIs
<1>5. op' = Forward(o)
  BY <1>1
<1>6. /\ Carried /\ op'.todo = o.todo /\ op'.soft = o.soft
      /\ \/ op'.dir = "done" /\ Final
         \/ op'.dir = "forward" /\ Precedes(op'.step)
  BY <1>2, <1>4, <1>5, ForwardIs
<1>7. /\ op.step = "stop" => op.kind = "move"
      /\ op.step = "remove" => op.kind = "destroy"
  BY <1>2, KindOfStep
<1>8. op'.dir = "forward" /\ Precedes(op'.step)
  BY <1>1, <1>6, <1>7 DEF Final, LastStep
<1>9. Ground' /\ Known'
  BY <1>1, <1>2, <1>6 DEF Ground, Blank, Named, Placeable, Known, Carried
<1>10. \A s \in Server : IF s \in Taken THEN Emptied(host'[s]) ELSE host'[s] = host[s]
  BY <1>1, <1>2, <1>3, TakenServers, StayIs
<1>11. Untouched'
  BY <1>1, <1>6, <1>7 DEF Untouched, Carried
<1>12. CASE op.step = "stop"
  <2>1. op'.step = "off" /\ op.from \in app.on /\ op.kind = "move"
    <3>1. op.kind = "move" /\ op'.step \in StepsOf("move")
      BY <1>7, <1>8, <1>12 DEF Precedes
    <3>2. op.from \in app.on
      BY <1>1, <1>12 DEF Moved
    <3>3. op'.step = "off"
      BY <1>8, <1>12, <3>1, StepSets DEF Precedes, Skips
    <3> QED  BY <3>1, <3>2, <3>3
  <2>2. Target \in Server /\ Target # op.from /\ Target' = Target /\ op.vol \in Volume
    BY <1>2, <1>6, <2>1, MoveFacts
  <2>3. Emptied(host'[op.from]) /\ host'[Target] = host[Target]
    BY <1>3, <1>10, <1>12, <2>2 DEF Taken
  <2>4. Moving
    BY <1>2, <2>1 DEF Standing, Ready
  <2>5. Moving'
    <3>1. CASE Misled
      BY <1>1, <1>6, <3>1 DEF Moving, Misled, Gone, Carried, Keep
    <3>2. CASE ~Misled
      BY <1>1, <1>6, <2>1, <2>2, <2>3, <2>4, <3>2 DEF Moving, Landed, Mounted, Carried, Empty
    <3> QED  BY <3>1, <3>2
  <2>6. Standing'
    BY <1>6, <1>8, <1>11, <2>1, <2>5 DEF Standing, Carried, Bringing
  <2> QED  BY <1>8, <1>9, <2>6 DEF Firm, Promised, Ends
<1>13. CASE op.step = "remove"
  <2>1. op'.step = "release" /\ op.kind = "destroy"
    <3>1. op.kind = "destroy" /\ op'.step \in StepsOf("destroy")
      BY <1>7, <1>8, <1>13 DEF Precedes
    <3> QED  BY <1>8, <1>13, <3>1, StepSets DEF Precedes
  <2>2. op.from \in app.on
    BY <1>2, <1>13, <2>1 DEF Standing, Ready, Destroying
  <2>3. Emptied(host'[op.from])
    BY <1>3, <1>10, <1>13, <2>2 DEF Taken
  <2>4. Destroying'
    BY <1>6, <2>1, <2>3 DEF Destroying, Empty, Carried
  <2>5. Standing'
    BY <1>6, <1>8, <1>11, <2>1, <2>4 DEF Standing, Carried, Bringing
  <2> QED  BY <1>8, <1>9, <2>5 DEF Firm, Promised, Ends
<1> QED  BY <1>1, <1>12, <1>13

\* The target of a move does not take the volume.
LEMMA TargetRefusesFirm ==
  ASSUME Inv, Firm, TargetRefuses
  PROVE  Firm' /\ Promised
<1>1. /\ op.live /\ op.dir = "forward" /\ op.step = "on" /\ CanDo /\ Keep
      /\ Plug(Vol, op.from) /\ UNCHANGED <<app, retired>>
      /\ op' = Backward([op EXCEPT !.moved = FALSE])
  BY DEF TargetRefuses
<1>2. op \in OpRow
  BY <1>1, ReadyInv
<1> PICK o : o = [op EXCEPT !.moved = FALSE]
  OBVIOUS
<1>3. /\ o \in OpRow /\ o.kind = op.kind /\ o.vol = op.vol /\ o.from = op.from
      /\ o.served = op.served /\ o.todo = op.todo
  BY <1>2 DEF OpRow
<1>4. op' \in {Backward(o), [Backward(o) EXCEPT !.soft = TRUE]}
  BY <1>1
<1>5. Breaks
  BY <1>1 DEF Breaks
<1> QED  BY <1>1, <1>3, <1>4, <1>5, BreaksFirm

-----------------------------------------------------------------------------
(* The walks back keep what stands *)

\* The inline rollback of a move.
LEMMA RollbackMoveFirm ==
  ASSUME Inv, Firm, RollbackMove
  PROVE  Firm' /\ Promised
<1>1. op.live /\ op.dir = "restore" /\ Keep
  BY DEF RollbackMove, RestoreCall
<1>2. Active /\ OnPlan /\ Known /\ Standing /\ Ground /\ OpOK
  BY <1>1, TypeParts DEF Active, Settled, Inv, Course, Firm
<1>3. op.kind = "move" /\ op.vol \in Volume /\ op.vol # NoVol
  BY <1>1, <1>2, Volumes0 DEF OnPlan
<1>4. /\ SameWork /\ op'.served = op.served
      /\ op'.dir = "restore" \/ op'.dir = "compensated"
  BY RestoreIs
<1>5. app' = app /\ retired' = retired /\ \A w \in Volume : disk'[w].state = disk[w].state
  BY RestoreWorld
<1>6. Ground'
  <2>1. WorldOK
    BY TypeParts DEF Inv
  <2>2. app.vol \in Volume \union {NoVol}
    BY <2>1 DEF WorldOK, AppOK, AppRow
  <2> QED  BY <1>2, <1>5, <2>1, <2>2, GroundAfter DEF Ground, Placeable, NoReturn, ListsKnown,
           NamesKnown
<1>7. CASE op'.dir = "restore"
  <2>1. Known'
    BY <1>1, <1>2, <1>3, <1>4, <1>5 DEF Known, SameWork
  <2>2. Misled \/ app.on = {op.from}
    BY <1>1, <1>2 DEF Standing
  <2>3. Misled => Misled'
    BY <1>1, <1>3, <1>4, <1>5 DEF Misled, Gone, SameWork, Keep
  <2>4. app.on = {op.from} => app'.on = {op'.from}
    BY <1>4, <1>5 DEF SameWork
  <2>5. Standing'
    BY <1>7, <2>2, <2>3, <2>4 DEF Standing
  <2> QED  BY <1>6, <1>7, <2>1, <2>5 DEF Firm, Promised, Ends
<1>8. CASE op'.dir = "compensated"
  <2>1. ~Active'
    BY <1>8 DEF Active, Settled
  <2>2. RolledOr
    BY <1>3 DEF RolledOr
  <2> QED  BY <1>6, <1>8, <2>1, <2>2 DEF Firm, Promised, Ends
<1> QED  BY <1>4, <1>7, <1>8

\* What stands when an operation walks back.
LEMMA BackStands ==
  ASSUME Inv, Firm, op.live, op.dir = "back"
  PROVE  /\ Undone /\ Known /\ Ground /\ Active /\ OpOK /\ Claims /\ WorldOK
         /\ op.vol \in Volume \union {NoVol} /\ op.from \in Server
<1>1. Active /\ OpOK /\ WorldOK
  BY TypeParts DEF Active, Settled, Inv
<1> QED  BY <1>1 DEF Firm, Standing, Inv, Course, OpOK, OpRow

\* A volume that is detached leaves its containers running as they were.
LEMMA DetachedStops ==
  ASSUME WorldOK, NEW v \in Volume, NEW s \in Server, Detached(v)
  PROVE  /\ host'[s].up = host[s].up /\ host'[s].want = host[s].want
         /\ host'[s].stray = host[s].stray
BY UnplugIs DEF Detached

\* What a call of the walk back leaves to be undone.
LEMMA UndoneNext ==
  ASSUME BackReady, Undone, Carried, op'.soft = op.soft,
         \/ Undoable /\ Undo /\ op.todo \ {Latest} \subseteq op'.todo
         \/ /\ HalfUndone \/ UNCHANGED world
            /\ op'.todo = op.todo \/ op'.todo = op.todo \ {"bind"}
  PROVE  Undone'
<1>1. /\ WorldOK /\ op.vol \in Volume /\ op.from \in Server /\ Latest \in op.todo
      /\ op.kind \in Bringing \union {"remount"}
  BY BackFacts DEF OpOK
<1>2. ASSUME app' = app, host'[op.from].up = host[op.from].up,
             host'[op.from].want = host[op.from].want, host'[op.from].stray = host[op.from].stray,
             \A s \in {"insert", "run", "record", "remount"} : s \in op.todo => s \in op'.todo
      PROVE  Undone'
  BY <1>2 DEF Undone, AsRow, Up, Empty, Emptied, Carried
<1>3. CASE Undoable /\ Undo /\ op.todo \ {Latest} \subseteq op'.todo
  <2>1. CASE Latest \in {"create", "adopt", "take", "bind"}
    <3>1. app' = app /\ (Detached(op.vol) \/ UNCHANGED host)
      BY <1>3, <2>1 DEF Undo, UndoCreate, UndoAdopt, UndoTake, UndoMount, UndoInsert, UndoRun,
         UndoRecord, UndoRemount, Vol
    <3>2. /\ host'[op.from].up = host[op.from].up /\ host'[op.from].want = host[op.from].want
          /\ host'[op.from].stray = host[op.from].stray
      BY <1>1, <3>1, DetachedStops
    <3> QED  BY <1>2, <1>3, <2>1, <3>1, <3>2
  <2>2. CASE Latest = "insert"
    <3>1. op.kind \in {"deploy", "redeploy"}
      BY <2>2, KindOfUndo
    <3>2. app' = NoApp /\ host' = host
      BY <1>3, <2>2 DEF Undo, UndoCreate, UndoAdopt, UndoTake, UndoMount, UndoInsert, UndoRun,
         UndoRecord, UndoRemount
    <3> QED  BY <1>3, <2>2, <3>1, <3>2 DEF Undone, Empty, Carried, NoApp
  <2>3. CASE Latest = "run"
    <3>1. op.kind \in {"deploy", "redeploy"}
      BY <2>3, KindOfUndo
    <3>2. app' = app /\ Stop({op.from})
      BY <1>3, <2>3 DEF Undo, UndoCreate, UndoAdopt, UndoTake, UndoMount, UndoInsert, UndoRun,
         UndoRecord, UndoRemount, Here
    <3>3. ~host'[op.from].up
      BY <1>1, <3>2, StopIs
    <3> QED  BY <1>3, <2>3, <3>1, <3>2, <3>3 DEF Undone, Empty, Emptied, Carried
  <2>4. CASE Latest = "record"
    <3>1. op.kind \in {"attach", "adopt"}
      BY <2>4, KindOfUndo
    <3>2. app' = WithoutVolume /\ Start(op.from, NoVol)
      BY <1>3, <2>4 DEF Undo, UndoCreate, UndoAdopt, UndoTake, UndoMount, UndoInsert, UndoRun,
         UndoRecord, UndoRemount, Here, Bare
    <3>3. host'[op.from].up /\ host'[op.from].want = NoVol
      BY <1>1, <3>2, StartIs
    <3>4. app'.vol = NoVol
      BY <1>1, <3>2 DEF WithoutVolume, WorldOK, AppOK, AppRow
    <3> QED  BY <3>1, <3>3, <3>4 DEF Undone, AsRow, Up, Carried
  <2>5. CASE Latest = "remount"
    <3>1. op.kind = "remount"
      BY <2>5, KindOfUndo
    <3>2. app' = [app EXCEPT !.driver = FALSE] /\ Start(op.from, app.vol)
      BY <1>3, <2>5 DEF Undo, UndoCreate, UndoAdopt, UndoTake, UndoMount, UndoInsert, UndoRun,
         UndoRecord, UndoRemount, Here
    <3>3. host'[op.from].up /\ host'[op.from].want = app.vol
      BY <1>1, <3>2, StartIs
    <3>4. app'.vol = app.vol
      BY <1>1, <3>2 DEF WorldOK, AppOK, AppRow
    <3> QED  BY <3>1, <3>3, <3>4 DEF Undone, AsRow, Up, Carried
  <2> QED  BY <2>1, <2>2, <2>3, <2>4, <2>5, BackFacts DEF Compensable
<1>4. CASE HalfUndone /\ op'.todo \in {op.todo, op.todo \ {"bind"}}
  <2>1. CASE Latest = "create" /\ Detached(op.vol) /\ UNCHANGED <<app, retired>>
    BY <1>1, <1>2, <1>4, <2>1, DetachedStops
  <2>2. CASE Latest = "record"
    <3>1. op.kind \in {"attach", "adopt"} /\ "record" \in op'.todo
      BY <1>1, <1>4, <2>2, KindOfUndo
    <3> QED  BY <3>1 DEF Undone, Carried
  <2> QED  BY <1>4, <2>1, <2>2 DEF HalfUndone, Vol
<1>5. CASE UNCHANGED world /\ op'.todo \in {op.todo, op.todo \ {"bind"}}
  BY <1>2, <1>5 DEF world
<1> QED  BY <1>3, <1>4, <1>5

\* A call of the walk back keeps the ground.
LEMMA BackGround ==
  ASSUME BackReady, Ground, Known, (Undoable /\ Undo) \/ HalfUndone \/ UNCHANGED world
  PROVE  Ground' /\ disk'[op.vol].state # "none"
<1>1. /\ WorldOK /\ op.vol \in Volume /\ op.vol # NoVol /\ op.from \in Server
      /\ op.dir = "back" /\ app.vol \in Volume \union {NoVol}
  BY BackFacts, Volumes0 DEF BackReady
<1>2. disk[op.vol].state # "none"
  BY <1>1 DEF Known
<1>3. NoReturn
  <2>1. Detached(op.vol) => NoReturn
    BY <1>1, DetachedOK DEF NoReturn
  <2>2. Unbind(op.vol) => NoReturn
    BY <1>1, UnbindOK DEF NoReturn
  <2>3. UNCHANGED disk => NoReturn
    BY DEF NoReturn
  <2> QED  BY <2>1, <2>2, <2>3 DEF Undo, UndoCreate, UndoAdopt, UndoTake, UndoMount, UndoInsert,
           UndoRun, UndoRecord, UndoRemount, HalfUndone, Vol, world
<1>4. ListsKnown
  <2>1. ASSUME NEW c \in Classes, Retire(op.vol, c)  PROVE ListsKnown
    BY <1>1, <1>2, <2>1, RetireOK DEF ListsKnown
  <2>2. UNCHANGED retired => ListsKnown
    BY DEF ListsKnown
  <2> QED  BY <2>1, <2>2 DEF Undo, UndoCreate, UndoAdopt, UndoTake, UndoMount, UndoInsert,
           UndoRun, UndoRecord, UndoRemount, HalfUndone, Vol, Classes, world
<1>5. \/ app'.row = FALSE /\ app'.vol = NoVol
      \/ app'.on = app.on /\ app'.row = app.row /\ app'.vol \in {NoVol, app.vol}
  <2>1. \/ app' = app \/ app' = NoApp \/ app' = WithoutVolume
        \/ app' = [app EXCEPT !.driver = FALSE]
    BY DEF Undo, UndoCreate, UndoAdopt, UndoTake, UndoMount, UndoInsert,
           UndoRun, UndoRecord, UndoRemount, HalfUndone, world
  <2>2. app \in AppRow
    BY <1>1 DEF WorldOK, AppOK
  <2>3. app' = NoApp => app'.row = FALSE /\ app'.vol = NoVol
    BY DEF NoApp
  <2>4. app' = WithoutVolume => app'.on = app.on /\ app'.row = app.row /\ app'.vol = NoVol
    BY <2>2 DEF WithoutVolume, AppRow
  <2>5. app' = [app EXCEPT !.driver = FALSE]
          => app'.on = app.on /\ app'.row = app.row /\ app'.vol = app.vol
    BY <2>2 DEF AppRow
  <2> QED  BY <2>1, <2>3, <2>4, <2>5
<1>6. Ground'
  BY <1>1, <1>3, <1>4, <1>5, GroundAfter DEF Ground, Placeable, NamesKnown
<1> QED  BY <1>1, <1>2, <1>3, <1>6 DEF NoReturn

\* A step is undone.
LEMMA UndoOkFirm ==
  ASSUME Inv, Firm, UndoOk
  PROVE  Firm' /\ Promised
<1>1. /\ BackReady /\ Undoable /\ Undo
      /\ op.live /\ op.dir = "back"
      /\ op' = [op EXCEPT !.left = op.left \ {Latest}, !.todo = op.todo \ {Latest}]
  BY DEF UndoOk, BackReady, Inv
<1>2. Undone /\ Known /\ Ground /\ Active /\ OpOK
  BY <1>1, BackStands
<1>3. /\ Carried /\ op'.soft = op.soft /\ op'.dir = "back" /\ op'.todo = op.todo \ {Latest}
  BY <1>1, <1>2 DEF OpOK, OpRow, Carried
<1>4. Undone'
  BY <1>1, <1>2, <1>3, UndoneNext
<1>5. Ground' /\ disk'[op.vol].state # "none"
  BY <1>1, <1>2, BackGround
<1> QED  BY <1>3, <1>4, <1>5 DEF Firm, Known, Standing, Carried, Promised, Ends

\* A container that could not be removed counts as removed.
LEMMA UndoUnheededFirm ==
  ASSUME Inv, Firm, UndoUnheeded
  PROVE  Firm' /\ Promised
<1>1. /\ BackReady /\ Latest = "run" /\ op.live /\ op.dir = "back"
      /\ Stay({op.from}) /\ UNCHANGED <<app, disk, retired>>
      /\ op' = [op EXCEPT !.left = op.left \ {"run"}, !.todo = op.todo \ {"run"}]
  BY DEF UndoUnheeded, BackReady, Inv, Here
<1>2. Undone /\ Known /\ Ground /\ Active /\ OpOK /\ WorldOK /\ op.from \in Server
  BY <1>1, BackStands
<1>3. /\ Carried /\ op'.soft = op.soft /\ op'.dir = "back" /\ op'.todo = op.todo \ {"run"}
  BY <1>1, <1>2 DEF OpOK, OpRow, Carried
<1>4. op.kind \in {"deploy", "redeploy"}
  BY <1>1, KindOfUndo
<1>5. Emptied(host'[op.from])
  BY <1>1, <1>2, StayIs
<1>6. Undone'
  BY <1>1, <1>2, <1>3, <1>4, <1>5 DEF Undone, Empty, Carried
<1>7. Ground' /\ Known'
  BY <1>1, <1>2, <1>3 DEF Ground, Blank, Named, Placeable, Known, Carried
<1> QED  BY <1>3, <1>6, <1>7 DEF Firm, Standing, Promised, Ends

\* A step is not undone, or half of it.
LEMMA UndoFailsFirm ==
  ASSUME Inv, Firm, UndoFails
  PROVE  Firm' /\ Promised
<1> PICK td : td = IF Latest = "bind" THEN op.todo \ {"bind"} ELSE op.todo
  OBVIOUS
<1>1. /\ BackReady /\ (UNCHANGED world \/ HalfUndone)
      /\ op.live /\ op.dir = "back"
      /\ op' = [op EXCEPT !.left = op.left \ {Latest}, !.todo = td]
  BY DEF UndoFails, BackReady, Inv
<1>2. Undone /\ Known /\ Ground /\ Active /\ OpOK
  BY <1>1, BackStands
<1>3. Carried /\ op'.soft = op.soft /\ op'.dir = "back" /\ op'.todo = td
  BY <1>1, <1>2 DEF OpOK, OpRow, Carried
<1>4. Undone'
  BY <1>1, <1>2, <1>3, UndoneNext
<1>5. Ground' /\ disk'[op.vol].state # "none"
  BY <1>1, <1>2, BackGround
<1> QED  BY <1>3, <1>4, <1>5 DEF Firm, Known, Standing, Carried, Promised, Ends

\* What stands when only the operation's place on its walk changes.
LEMMA GroundStays ==
  ASSUME Ground, UNCHANGED world
  PROVE  Ground'
BY DEF Ground, Blank, Named, Placeable, world

\* A pass of the walk back is over.
LEMMA EndPassFirm ==
  ASSUME Inv, Firm, EndPass
  PROVE  Firm' /\ Promised
<1>1. /\ op.live /\ op.dir = "back" /\ UNCHANGED world
      /\ \/ op.todo = {} /\ op' = End(op, "compensated")
         \/ op' = End(op, "failed")
         \/ op' = [op EXCEPT !.left = op.todo]
  BY DEF EndPass
<1>2. Undone /\ Known /\ Ground /\ Active /\ OpOK /\ Claims
  BY <1>1, BackStands
<1>3. Ground'
  BY <1>1, <1>2, GroundStays
<1>4. CASE op' = [op EXCEPT !.left = op.todo]
  <2>1. /\ Carried /\ op'.soft = op.soft /\ op'.dir = "back" /\ op'.todo = op.todo
    BY <1>1, <1>2, <1>4 DEF OpOK, OpRow, Carried
  <2>2. Undone' /\ Known'
    BY <1>1, <1>2, <2>1 DEF Undone, AsRow, Up, Empty, Known, Carried, world
  <2> QED  BY <1>3, <2>1, <2>2 DEF Firm, Standing, Promised, Ends
<1>5. CASE op' = End(op, "failed")
  <2>1. op'.dir = "failed"
    BY <1>2, <1>5 DEF End, OpOK, OpRow
  <2> QED  BY <1>3, <2>1 DEF Firm, Active, Settled, Promised, Ends
<1>6. CASE op.todo = {} /\ op' = End(op, "compensated")
  <2>1. op'.dir = "compensated"
    BY <1>2, <1>6 DEF End, OpOK, OpRow
  <2>2. app' = app /\ host' = host
    BY <1>1 DEF world
  <2>3. op.served => RolledOr
    <3>1. CASE op.kind \in {"attach", "adopt", "remount"} /\ op.served
      <4>1. app.row /\ host[op.from].up /\ host[op.from].want = app.vol
        BY <1>2, <1>6, <3>1 DEF Undone, AsRow, Up, Claims
      <4> QED  BY <2>2, <3>1, <4>1 DEF RolledOr
    <3>2. CASE op.kind \in {"deploy", "redeploy"} /\ op.served
      <4>1. ~app.row /\ (Emptied(host[op.from]) \/ op.soft)
        BY <1>2, <1>6, <3>2 DEF Undone, Empty
      <4> QED  BY <2>2, <3>2, <4>1 DEF RolledOr
    <3> QED  BY <3>1, <3>2 DEF RolledOr
  <2> QED  BY <1>3, <2>1, <2>3 DEF Firm, Active, Settled, Promised, Ends
<1> QED  BY <1>1, <1>4, <1>5, <1>6

-----------------------------------------------------------------------------
(* A crash keeps what stands *)

\* A walk that is interrupted between two calls.
LEMMA PausedFirm ==
  ASSUME Inv, Firm, Active, UNCHANGED world, op' = Resumed, lost' = lost
  PROVE  Firm'
<1>1. /\ Known /\ Standing /\ Ground /\ OnPlan /\ OpOK
  BY TypeParts DEF Firm, Inv, Course
<1>2. /\ Carried /\ op'.todo = op.todo /\ op'.soft = op.soft
      /\ op.kind # "move" => op'.dir = op.dir /\ op'.step = op.step
      /\ op.kind = "move" => op'.step = "stop" /\ op'.dir # "restore"
  BY ResumedOp DEF SameWork, Carried
<1>3. app' = app /\ disk' = disk /\ retired' = retired /\ host' = host
  BY DEF world
<1>4. Ground'
  BY <1>1, GroundStays
<1>5. CASE op.kind # "move"
  <2>1. Known'
    BY <1>1, <1>2, <1>3, <1>5 DEF Known, Carried
  <2>2. op'.dir = "forward" =>
          /\ Untouched'
          /\ op.kind \in Bringing => Brought' /\ NotListed'
          /\ op.kind = "detach" => Detaching'
          /\ op.kind = "destroy" => Destroying'
    BY <1>1, <1>2, <1>3, <1>5 DEF Standing, Untouched, Brought, NotListed, Detaching, Destroying,
       Gone, AsRow, Up, Empty, Carried
  <2>3. op'.dir = "back" => Undone'
    BY <1>1, <1>2, <1>3, <1>5 DEF Standing, Undone, AsRow, Up, Empty, Carried
  <2>4. op'.dir # "restore"
    BY <1>1, <1>2, <1>5 DEF OnPlan
  <2>5. Standing'
    BY <1>2, <1>5, <2>2, <2>3, <2>4 DEF Standing, Carried
  <2> QED  BY <1>4, <2>1, <2>5 DEF Firm
<1>6. CASE op.kind = "move"
  <2>1. op.from \in Server /\ Target # op.from /\ Target' = Target
    BY <1>1, <1>2 DEF OpOK, OpRow, Target, Server, Carried
  <2>2. op.step \in StepsOf("move") \/ op.dir # "forward"
    BY <1>1, <1>6 DEF OnPlan
  <2>3. Known'
    <3>1. op.step = "create" => op.dir # "forward"
      BY <2>2, StepSets
    <3> QED  BY <1>1, <1>2, <1>3, <3>1 DEF Known, Carried
  <2>4. Undone' /\ Untouched'
    BY <1>2, <1>6 DEF Undone, Untouched, Carried
  <2>5. op'.dir = "forward" => Moving'
    <3>1. CASE Misled
      BY <1>2, <1>3, <3>1 DEF Moving, Misled, Gone, Carried
    <3>2. CASE ~Misled /\ op.dir = "forward"
      BY <1>1, <1>2, <1>3, <1>6, <2>1, <3>2 DEF Standing, Moving, Landed, Mounted, Empty, Carried
    <3>3. CASE ~Misled /\ op.dir = "restore"
      BY <1>1, <1>2, <1>3, <1>6, <2>1, <3>3 DEF Standing, Moving, Empty, Carried
    <3>4. op'.dir = "forward" => op.dir \in {"forward", "restore"}
      <4>1. op.dir = "back" => op'.dir = "back"
        BY <1>1, <1>6 DEF Resumed, OpOK, OpRow
      <4> QED  BY <1>1, <4>1 DEF Active, OpOK, OpRow
    <3> QED  BY <3>1, <3>2, <3>3, <3>4
  <2>6. Standing'
    BY <1>2, <1>6, <2>4, <2>5 DEF Standing, Carried, Bringing
  <2> QED  BY <1>4, <2>3, <2>6 DEF Firm
<1> QED  BY <1>5, <1>6

\* A walk forward that is cut in a call.
LEMMA CutForwardFirm ==
  ASSUME Inv, Firm, op.live, op.dir = "forward", ~Moved, CanDo, Do \/ Half, op' = Resumed,
         lost' = lost
  PROVE  Firm'
<1>1. /\ Ready /\ Standing /\ Known /\ Ground /\ Active
      /\ op.kind \in DOMAIN Plan /\ op.step \in StepsOf(op.kind)
  BY FirmFacts
<1>2. /\ Carried /\ op'.todo = op.todo /\ op'.soft = op.soft
      /\ op.kind # "move" => op'.dir = op.dir /\ op'.step = op.step
      /\ op.kind = "move" => op'.step = "stop" /\ op'.dir = "forward"
  <2>1. op.kind = "move" => op'.dir = "forward"
    <3>1. op \in OpRow
      BY ReadyInv
    <3> QED  BY <1>1, <3>1 DEF Resumed, OpRow
  <2> QED  BY <1>1, <2>1, ResumedOp DEF SameWork, Carried
<1>3. Runs /\ Acts
  BY DEF Runs, Acts
<1>4. /\ Ground'
      /\ op.vol \in Volume => disk'[op.vol].state # "none" \/ op.step = "create"
  BY <1>1, <1>3, ActsGround
<1>5. Known'
  <2>1. op.vol \in Volume \union {NoVol} /\ (op.step = "create" => op.kind # "move")
    BY <1>1, ReadyFacts, KindOfStep
  <2> QED  BY <1>2, <1>4, <2>1 DEF Known, Carried
<1>6. Untouched'
  BY <1>1, <1>2, <1>3, UntouchedStays
<1>7. op.kind \in Bringing => Brought' /\ NotListed'
  BY <1>1, <1>2, <1>3, BroughtStays DEF Bringing
<1>8. op.kind = "detach" => Detaching'
  BY <1>1, <1>2, <1>3, DetachingStays
<1>9. op.kind = "destroy" => Destroying'
  BY <1>1, <1>2, <1>3, DestroyingStays
<1>10. op.kind = "move" => Moving'
  BY <1>1, <1>2, <1>3, MovingAgain
<1>11. op'.dir = "forward"
  BY <1>2
<1>12. Standing'
  BY <1>2, <1>6, <1>7, <1>8, <1>9, <1>10, <1>11 DEF Standing, Carried
<1> QED  BY <1>4, <1>5, <1>12 DEF Firm

\* A walk back that is cut in a call.
LEMMA CutBackFirm ==
  ASSUME Inv, Firm, op.live, op.dir = "back", op.left # {}, (Undoable /\ Undo) \/ HalfUndone,
         op' = Resumed
  PROVE  Firm'
<1>1. BackReady
  BY DEF BackReady, Inv
<1>2. Undone /\ Known /\ Ground /\ Active /\ OpOK
  BY BackStands
<1>3. Carried /\ op'.todo = op.todo /\ op'.soft = op.soft /\ op'.dir = "back"
  <2>1. op.kind # "move"
    BY <1>1, BackFacts DEF Bringing
  <2> QED  BY <1>2, <2>1, ResumedOp DEF SameWork, Carried
<1>4. op.todo \ {Latest} \subseteq op'.todo
  BY <1>3
<1>5. Undone'
  BY <1>1, <1>2, <1>3, <1>4, UndoneNext
<1>6. Ground' /\ disk'[op.vol].state # "none"
  BY <1>1, <1>2, BackGround
<1> QED  BY <1>3, <1>5, <1>6 DEF Firm, Known, Standing, Carried

\* The controller crashes and starts again.
LEMMA CrashFirm ==
  ASSUME Inv, Firm, Crash
  PROVE  Firm' /\ Promised
<1>1. /\ lost' = lost
      /\ UNCHANGED world \/ (op.live /\ Cut)
      /\ op' = IF Active THEN Resumed ELSE op
  BY DEF Crash
<1>2. CASE ~Active
  <2>1. UNCHANGED world /\ op' = op
    BY <1>1, <1>2, TypeParts DEF Inv, OpOK
  <2>2. ~Active'
    BY <1>2, <2>1 DEF Active
  <2> QED  BY <1>2, <2>1, <2>2, GroundStays DEF Firm, Promised, Ends
<1>3. CASE Active
  <2>1. Active' /\ op' = Resumed
    BY <1>1, <1>3, ResumedOp
  <2>2. Firm'
    <3>1. CASE UNCHANGED world
      BY <1>1, <1>3, <2>1, <3>1, PausedFirm
    <3>2. CASE op.live /\ Cut /\ op.dir = "forward"
      BY <1>1, <2>1, <3>2, CutForwardFirm DEF Cut
    <3>3. CASE op.live /\ Cut /\ op.dir = "back"
      BY <2>1, <3>3, CutBackFirm DEF Cut
    <3>4. Cut => op.dir \in {"forward", "back"}
      BY DEF Cut
    <3> QED  BY <1>1, <3>1, <3>2, <3>3, <3>4
  <2> QED  BY <2>1, <2>2 DEF Promised, Ends, Active, Settled
<1> QED  BY <1>2, <1>3

-----------------------------------------------------------------------------
(* The actors beside the operation keep what stands *)

\* They leave the row, the walk and the containers alone; a volume that is not deleted
\* keeps its place, its mount and its writers; none is listed as retained.
Aloof ==
  /\ WorldOK' /\ app' = app /\ lost' = lost /\ Carried
  /\ op'.todo = op.todo /\ op'.soft = op.soft /\ op'.dir = op.dir /\ op'.step = op.step
  /\ \A s \in Server : /\ host'[s].up = host[s].up /\ host'[s].want = host[s].want
                       /\ host'[s].stray = host[s].stray
  /\ \A v \in Volume : retired[v] = "no" => retired'[v] = "no"
  /\ \A v \in Volume :
       \/ disk'[v].state = "gone"
       \/ /\ disk'[v].state = disk[v].state
          /\ disk[v].at # Nowhere => disk'[v].at = disk[v].at
          /\ disk[v].bound => disk'[v].bound
          /\ \A s \in Server : host[s].on = v => host'[s].on = v

\* What an operation has done so far stands while others act.
LEMMA AloofFirm ==
  ASSUME Inv, Firm, Aloof
  PROVE  Firm' /\ Promised
<1>1. /\ Ground /\ WorldOK /\ OpOK /\ app.vol \in Volume \union {NoVol}
      /\ op.vol \in Volume \union {NoVol} /\ op.from \in Server /\ op.from # Nowhere
  BY TypeParts, Volumes0 DEF Firm, Inv, OpOK, OpRow, WorldOK, AppOK, AppRow
<1>2. Ground'
  <2>1. Blank'
    BY <1>1 DEF Aloof, Ground, Blank
  <2>2. Named'
    BY <1>1, Volumes0 DEF Aloof, Ground, Named
  <2> QED  BY <1>1, <2>1, <2>2 DEF Aloof, Ground, Placeable
<1>3. Active' <=> Active
  BY DEF Aloof, Active
<1>4. ASSUME Active  PROVE Known' /\ Standing'
  <2>1. Known /\ Standing /\ OnPlan
    BY <1>4 DEF Firm, Inv, Course
  <2>2. Known'
    BY <1>1, <2>1 DEF Known, Aloof, Carried
  <2>3. Undone \/ op.dir # "back"
    BY <2>1 DEF Standing
  <2>4. op.dir = "back" => Undone'
    BY <1>1, <2>3 DEF Undone, AsRow, Up, Empty, Emptied, Aloof, Carried
  <2>5. op.dir = "forward" => Untouched'
    BY <1>1, <2>1 DEF Standing, Untouched, AsRow, Up, Aloof, Carried
  <2>6. op.dir = "forward" /\ op.kind \in Bringing => Brought' /\ NotListed'
    <3> SUFFICES ASSUME op.dir = "forward", op.kind \in Bringing  PROVE Brought' /\ NotListed'
      OBVIOUS
    <3>1. op.vol \in Volume /\ op.vol # NoVol /\ Brought /\ NotListed
      BY <2>1, Volumes0 DEF OnPlan, Standing, Bringing
    <3>2. NotListed'
      BY <3>1 DEF NotListed, Aloof, Carried
    <3>3. CASE disk'[op.vol].state = "gone"
      BY <3>1, <3>2, <3>3 DEF Brought, Gone, Aloof, Carried
    <3>4. CASE disk'[op.vol].state # "gone"
      <4>1. ~Gone
        BY <3>1, <3>4 DEF Gone, Aloof
      <4> QED  BY <1>1, <3>1, <3>2, <3>4, <4>1 DEF Brought, Up, Aloof, Carried
    <3> QED  BY <3>3, <3>4
  <2>7. op.dir = "forward" /\ op.kind = "detach" => Detaching'
    BY <1>1, <2>1 DEF Standing, Detaching, Up, Aloof, Carried
  <2>8. op.dir = "forward" /\ op.kind = "destroy" => Destroying'
    BY <1>1, <2>1 DEF Standing, Destroying, Empty, Emptied, Aloof, Carried
  <2>9. op.kind = "move" /\ Misled => Misled'
    <3> SUFFICES ASSUME op.kind = "move", Gone  PROVE Gone'
      BY DEF Misled, Aloof, Carried
    <3> QED  BY <1>1, <2>1 DEF OnPlan, Gone, Aloof, Carried
  <2>10. op.dir = "forward" /\ op.kind = "move" => Moving'
    <3> SUFFICES ASSUME op.dir = "forward", op.kind = "move", ~Misled'  PROVE Moving'
      BY DEF Moving
    <3>1. op.vol \in Volume /\ op.vol # NoVol /\ Moving /\ ~Misled
      BY <2>1, <2>9, Volumes0 DEF OnPlan, Standing
    <3>2. disk'[op.vol].state # "gone"
      BY <3>1 DEF Misled, Gone, Aloof, Carried
    <3>3. Target \in Server /\ Target # Nowhere /\ Target' = Target
      BY <1>1 DEF Target, Server, Nowhere, Aloof, Carried
    <3>4. Landed => Landed'
      BY <3>1, <3>2, <3>3 DEF Landed, Mounted, Aloof, Carried
    <3> QED  BY <1>1, <3>1, <3>2, <3>3, <3>4 DEF Moving, Empty, Emptied, Aloof, Carried
  <2>11. op.dir = "restore" => Misled' \/ app'.on = {op'.from}
    BY <2>1, <2>9 DEF Standing, OnPlan, Aloof, Carried
  <2> QED  BY <2>2, <2>4, <2>5, <2>6, <2>7, <2>8, <2>10, <2>11 DEF Standing, Aloof, Carried
<1>5. Promised
  BY DEF Promised, Ends, Active, Settled, Aloof
<1> QED  BY <1>2, <1>3, <1>4, <1>5 DEF Firm

\* Nothing that the volume depends on changes.
LEMMA QuietFirm ==
  ASSUME Inv, Firm, UNCHANGED <<world, op, lost>>
  PROVE  Firm' /\ Promised
<1>1. WorldOK
  BY TypeParts DEF Inv
<1>2. Aloof
  BY <1>1 DEF world, Aloof, Carried, WorldOK, AppOK, DiskOK, RetiredOK, HostOK
<1> QED  BY <1>2, AloofFirm

\* The world has its type after a step, too.
LEMMA WorldNext == Inv' => WorldOK'
<1>1. Inv => WorldOK
  BY TypeParts DEF Inv
<1> QED  BY <1>1, PTL

\* The reconciler of active volumes attaches only what is detached, and mounts.
LEMMA FixFirm ==
  ASSUME VolumesAssumption, Inv, Firm, FixStep
  PROVE  Firm' /\ Promised
<1>1. WorldOK /\ Inv' /\ WorldOK' /\ OthersOK
  BY FixKeeps, TypeWhole, WorldNext DEF Inv
<1>2. UNCHANGED <<op, lost>>
  BY DEF FixStep, FixLook, FixLock, FixAttach, FixMount, Others
<1>3. CASE UNCHANGED world
  BY <1>2, <1>3, QuietFirm
<1>4. CASE FixAttach /\ ~UNCHANGED world
  <2>1. /\ UNCHANGED <<app, retired>> /\ disk[fix.vol].at = Nowhere
        /\ Plug(fix.vol, fix.server) /\ fix.vol \in Volume
    BY <1>4 DEF FixAttach, world, Inv, FixOK
  <2>2. /\ host' = host /\ disk'[fix.vol].state = disk[fix.vol].state
        /\ disk'[fix.vol].bound = disk[fix.vol].bound
        /\ \A w \in Volume : w # fix.vol => disk'[w] = disk[w]
    BY <1>1, <2>1, PlugIs
  <2>3. Aloof
    BY <1>1, <1>2, <2>1, <2>2 DEF Aloof, Carried
  <2> QED  BY <2>3, AloofFirm
<1>5. CASE FixMount /\ ~UNCHANGED world
  <2>1. UNCHANGED <<app, retired, host>> /\ Bind(fix.vol) /\ fix.vol \in Volume
    BY <1>5 DEF FixMount, world, Inv, FixOK
  <2>2. /\ disk'[fix.vol].bound /\ disk'[fix.vol].at = disk[fix.vol].at
        /\ disk'[fix.vol].state = disk[fix.vol].state
        /\ \A w \in Volume : w # fix.vol => disk'[w] = disk[w]
    BY <1>1, <2>1, BindIs
  <2>3. Aloof
    BY <1>1, <1>2, <2>1, <2>2 DEF Aloof, Carried
  <2> QED  BY <2>3, AloofFirm
<1> QED  BY <1>3, <1>4, <1>5 DEF FixStep, FixLook, FixLock

\* An operation that takes its lock.
LEMMA BeginFirm ==
  ASSUME Inv, Firm, Begin
  PROVE  Firm' /\ Promised
<1>1. op' = [op EXCEPT !.live = TRUE] /\ UNCHANGED <<world, lost>>
  BY DEF Begin
<1>2. OpOK /\ WorldOK
  BY TypeParts DEF Inv
<1>3. /\ Carried /\ op'.todo = op.todo /\ op'.soft = op.soft /\ op'.dir = op.dir
      /\ op'.step = op.step
  BY <1>1, <1>2 DEF OpOK, OpRow, Carried
<1>4. Aloof
  BY <1>1, <1>2, <1>3 DEF world, Aloof, WorldOK, AppOK, DiskOK, RetiredOK, HostOK
<1> QED  BY <1>4, AloofFirm

\* The end of the seven days changes only a volume that is listed.
LEMMA ExpireFirm ==
  ASSUME Inv, Firm, NEW v \in Volume, Expire(v)
  PROVE  Firm' /\ Promised
<1>1. /\ UNCHANGED <<app, disk, host, op, lost>> /\ retired[v] = "provisional"
      /\ retired' = [retired EXCEPT ![v] = "expired"]
  BY DEF Expire
<1>2. WorldOK /\ Inv' /\ WorldOK'
  BY ExpireKeeps, TypeParts, WorldNext DEF Inv
<1>3. \A w \in Volume : retired[w] = "no" => retired'[w] = "no"
  BY <1>1, <1>2 DEF WorldOK, RetiredOK
<1>4. Aloof
  BY <1>1, <1>2, <1>3 DEF Aloof, Carried
<1> QED  BY <1>4, AloofFirm

\* The deletion changes only the volume it deletes.
LEMMA EraseFirm ==
  ASSUME VolumesAssumption, Inv, Firm, Erase
  PROVE  Firm' /\ Promised
<1>1. UNCHANGED <<app, op, lost>> /\ eraser.vol \in Volume
  BY DEF Erase, Inv, Guarded
<1>2. WorldOK /\ Inv' /\ WorldOK'
  BY EraseKeeps, TypeParts, WorldNext DEF Inv
<1>3. CASE UNCHANGED <<disk, host, retired>>
  BY <1>1, <1>3, QuietFirm DEF world
<1>4. CASE Unplug(eraser.vol, "gone") /\ (Retire(eraser.vol, "no") \/ UNCHANGED retired)
  <2>1. /\ disk'[eraser.vol].state = "gone"
        /\ \A w \in Volume : w # eraser.vol => disk'[w] = disk[w]
        /\ \A s \in Server : /\ host'[s].up = host[s].up /\ host'[s].want = host[s].want
                             /\ host'[s].stray = host[s].stray
                             /\ host[s].on # eraser.vol => host'[s].on = host[s].on
    BY <1>1, <1>2, <1>4, UnplugIs
  <2>2. \A w \in Volume : retired[w] = "no" => retired'[w] = "no"
    BY <1>1, <1>2, <1>4 DEF Retire, WorldOK, RetiredOK
  <2>3. Aloof
    BY <1>1, <1>2, <2>1, <2>2 DEF Aloof, Carried
  <2> QED  BY <2>3, AloofFirm
<1> QED  BY <1>3, <1>4 DEF Erase

-----------------------------------------------------------------------------
(* What an operation that is submitted finds *)

\* An operation is issued where its promises can still be kept: served tells what it
\* found.
LEMMA IssueFirm ==
  ASSUME Inv, Firm, ~Active, NEW kind \in DOMAIN Plan, NEW v \in Volume \union {NoVol},
         NEW s \in Server, Issue(kind, v, s), UNCHANGED world, lost' = lost,
         kind # "destroy" => v \in Volume,
         app.vol \in {NoVol, v},
         kind \notin {"deploy", "redeploy"} <=> app.row,
         kind \in {"remount", "move", "detach", "destroy"} => app.vol = v,
         kind \in {"deploy", "attach"} => disk[v].state = "none",
         kind \in {"redeploy", "adopt"} => disk[v].state # "none",
         kind = "destroy" => s \in app.on
  PROVE  Firm' /\ Promised
<1>1. /\ op'.kind = kind /\ op'.vol = v /\ op'.from = s /\ op'.dir = "forward"
      /\ op'.step = Plan[kind][1]
      /\ op'.served = IF kind = "move" THEN app.on = {s} ELSE Ran(s)
  BY IssueCourse
<1>2. /\ kind \in {"deploy", "attach"} => op'.step = "create"
      /\ kind = "redeploy" => op'.step = "adopt"
      /\ kind = "adopt" => op'.step = "take"
      /\ kind = "detach" => op'.step = "unbind"
      /\ kind = "remount" => op'.step = "remount"
      /\ kind = "destroy" => op'.step = "mark"
      /\ kind = "move" => op'.step = "stop"
      /\ kind \in {"deploy", "attach", "redeploy", "adopt", "detach", "remount", "destroy", "move"}
  BY <1>1, Plans
<1>3. app' = app /\ disk' = disk /\ retired' = retired /\ host' = host
  BY DEF world
<1>4. Ground /\ Ground'
  BY GroundStays DEF Firm
<1>5. Known'
  BY <1>1, <1>2, <1>3, <1>4 DEF Known, Ground, Named
<1>6. Untouched'
  <2>1. /\ kind \in {"attach", "adopt", "remount"} /\ op'.served =>
             host[s].up /\ host[s].want = app.vol
        /\ kind \in {"deploy", "redeploy"} => ~app.row /\ (op'.served => ~host[s].up)
    BY <1>1 DEF Ran
  <2> QED  BY <1>1, <1>2, <1>3, <2>1 DEF Untouched, AsRow, Up
<1>7. kind \in Bringing => Brought' /\ NotListed'
  <2>1. kind \in {"deploy", "attach"} => retired[v] = "no"
    BY <1>2, <1>4 DEF Ground, Blank
  <2> QED  BY <1>1, <1>2, <1>3, <2>1 DEF Brought, NotListed, Bringing
<1>8. kind = "detach" => Detaching'
  BY <1>1, <1>2 DEF Detaching
<1>9. kind = "destroy" => Destroying'
  BY <1>1, <1>2, <1>3 DEF Destroying
<1>10. kind = "move" => Moving'
  <2> SUFFICES ASSUME kind = "move", op'.served  PROVE Moving'
    BY <1>1 DEF Moving, Misled
  <2>1. app'.on = {op'.from}
    BY <1>1, <1>3
  <2>2. Target' # op'.from
    BY <1>1 DEF Target, Server
  <2> QED  BY <1>2, <2>1, <2>2 DEF Moving
<1>11. Standing'
  BY <1>1, <1>6, <1>7, <1>8, <1>9, <1>10 DEF Standing
<1> QED  BY <1>4, <1>5, <1>11 DEF Firm, Promised, Ends

\* The oldest replica row is one of the app's.
LEMMA FirstPlaced ==
  ASSUME Inv, Firm, app.row
  PROVE  First \in app.on
<1>1. app.on \subseteq Server /\ app.home \in Server
  BY TypeParts DEF Inv, WorldOK, AppOK, AppRow
<1>2. app.on # {}
  BY DEF Firm, Ground, Placeable
<1>3. \A s \in Server : s # app.home => s = 3 - app.home
  BY <1>1 DEF Server
<1> QED  BY <1>1, <1>2, <1>3 DEF First

\* A submission.
LEMMA SubmitFirm ==
  ASSUME VolumesAssumption, Inv, Firm, NEW kind \in Kinds, Submit(kind)
  PROVE  Firm' /\ Promised
<1>1. ~Active /\ UNCHANGED world /\ lost' = lost
  BY DEF Submit
<1>2. PICK v \in Subject(kind) :
        \E s \in (IF ~app.row THEN Server ELSE IF kind = "move" THEN {app.home} ELSE {First}) :
          Issue(kind, v, s)
  BY DEF Submit
<1>3. PICK s \in Server : Issue(kind, v, s) /\ (app.row /\ kind # "move" => s = First)
  BY <1>2, FirstServer
<1>4. kind \in DOMAIN Plan
  BY DEF VolumesAssumption
<1>5. /\ v \in Volume \union {NoVol} /\ (kind # "destroy" => v \in Volume)
      /\ app.vol \in {NoVol, v}
      /\ kind \notin {"deploy", "redeploy"} <=> app.row
      /\ kind \in {"remount", "move", "detach", "destroy"} => app.vol = v
      /\ kind \in {"deploy", "attach"} => disk[v].state = "none"
      /\ kind \in {"redeploy", "adopt"} => disk[v].state # "none"
  BY <1>2, <1>4, SubjectIs
<1>6. kind = "destroy" => s \in app.on
  BY <1>3, <1>5, FirstPlaced
<1> QED  BY <1>1, <1>3, <1>4, <1>5, <1>6, IssueFirm

\* The finalizer submits the destruction of a marked app again.
LEMMA FinalizerFirm ==
  ASSUME VolumesAssumption, Inv, Firm, Finalizer
  PROVE  Firm' /\ Promised
<1>1. ~Active /\ app.row /\ Issue("destroy", app.vol, First) /\ UNCHANGED world /\ lost' = lost
  BY DEF Finalizer
<1>2. app.vol \in Volume \union {NoVol} /\ First \in Server /\ First \in app.on
  BY <1>1, TypeParts, FirstServer, FirstPlaced DEF Inv, WorldOK, AppOK, AppRow
<1>3. "destroy" \in DOMAIN Plan
  BY Plans
<1> QED  BY <1>1, <1>2, <1>3, IssueFirm

\* It stands at first: no operation is under way.
LEMMA InitFirm ==
  ASSUME VolumesAssumption, Init
  PROVE  Firm
<1>1. PICK vol \in {NoVol, 1}, row \in BOOLEAN :
        /\ app = IF row THEN [NoApp EXCEPT !.row = TRUE, !.vol = vol, !.on = {1}] ELSE NoApp
        /\ disk = [v \in Volume |-> IF v # vol THEN NoDisk
                     ELSE [state |-> "there", at |-> IF row THEN 1 ELSE Nowhere, bound |-> row]]
        /\ retired = [v \in Volume |-> IF v = vol /\ ~row THEN "user" ELSE "no"]
  BY ZenonT(60) DEF Init
<1>2. ~Active
  BY DEF Init, NoOp, Active, Settled
<1> PICK at : at = IF row THEN 1 ELSE Nowhere
  OBVIOUS
<1>3. disk = [v \in Volume |-> IF v # vol THEN NoDisk
                ELSE [state |-> "there", at |-> at, bound |-> row]]
  BY <1>1
<1>4. \A v \in Volume : v = vol => disk[v].state = "there"
  BY <1>3
<1>5. Blank
  BY <1>1, <1>4 DEF Blank
<1>6. app.vol \in {NoVol, vol} /\ (app.row => app.on = {1})
  BY <1>1 DEF NoApp
<1>7. Named
  <2>1. vol # NoVol => vol \in Volume
    BY DEF Volume, VolumesAssumption
  <2> QED  BY <1>4, <1>6, <2>1 DEF Named
<1>8. Placeable
  BY <1>6 DEF Placeable
<1> QED  BY <1>2, <1>5, <1>7, <1>8 DEF Firm, Ground

\* Every step keeps what stands, and the promises of the operation it ends.
LEMMA NextFirm ==
  ASSUME VolumesAssumption, Inv, Firm, [Next]_vars
  PROVE  Firm' /\ Promised
<1>1. CASE OpStep
  BY <1>1, StepOkFirm, StepRefusedFirm, FailsBeforeFirm, FailsHalfwayFirm, FailsAfterFirm,
     UnheededFirm, TargetRefusesFirm, RollbackMoveFirm, UndoOkFirm, UndoFailsFirm,
     UndoUnheededFirm, EndPassFirm
     DEF OpStep
<1>2. ASSUME NEW kind \in Kinds, Submit(kind)  PROVE Firm' /\ Promised
  BY <1>2, SubmitFirm
<1>3. CASE Finalizer \/ Begin \/ Crash
  BY <1>3, FinalizerFirm, BeginFirm, CrashFirm
<1>4. CASE FixStep
  BY <1>4, FixFirm
<1>5. ASSUME NEW v \in Volume, Expire(v)  PROVE Firm' /\ Promised
  BY <1>5, ExpireFirm
<1>6. CASE (\E v \in Volume : SweepList(v) \/ UserAsks(v)) \/ SweepLook \/ EraserInspect
  <2>1. EraserOnly
    BY <1>6 DEF SweepList, UserAsks, SweepLook, EraserInspect
  <2> QED  BY <2>1, QuietFirm DEF EraserOnly
<1>7. CASE Erase
  BY <1>7, EraseFirm
<1>8. CASE UNCHANGED vars
  BY <1>8, QuietFirm DEF vars
<1> QED  BY <1>1, <1>2, <1>3, <1>4, <1>5, <1>6, <1>7, <1>8 DEF Next

\* What an operation under way has done, and what it must still do or undo, is where
\* its place on its plan says, at every moment.
THEOREM WorkStands == Spec => [](Inv /\ Firm)
<1>1. Init => Inv /\ Firm
  BY InitInv, InitFirm, VolumesAssumption
<1>2. Inv /\ Firm /\ [Next]_vars => (Inv /\ Firm)'
  BY NextInv, NextFirm, VolumesAssumption
<1> QED  BY <1>1, <1>2, PTL DEF Spec

\* An operation that reports done left the row, the provider, the mount and the
\* container in agreement, however its steps failed or ran again.
THEOREM DoneMeansWhole == Spec => DoneIsWhole
<1>1. Inv /\ Firm /\ [Next]_vars => Promised
  BY NextFirm, VolumesAssumption
<1>2. Inv /\ Firm /\ [Next]_vars =>
        [ (Ends("done") /\ op.kind # "none") =>
            \/ Whole
            \/ op.vol # NoVol /\ disk'[op.vol].state = "gone"
            \/ op.kind \in {"deploy", "redeploy"} /\ ~op.served
            \/ op.kind = "move" /\ (~op.served \/ op.vol \in lost) ]_vars
  BY <1>1 DEF Promised, WholeOr
<1> QED  BY <1>2, WorkStands, PTL DEF Spec, DoneIsWhole

\* An operation that reports compensated left a live app's container running as its
\* row says, and a deploy neither row nor container but one that docker rm left behind.
THEOREM CompensatedMeansRestored == Spec => RollbackServes
<1>1. Inv /\ Firm /\ [Next]_vars => Promised
  BY NextFirm, VolumesAssumption
<1>2. Inv /\ Firm /\ [Next]_vars =>
        [ (Ends("compensated") /\ op.served) =>
            CASE op.kind \in {"attach", "adopt", "remount"} ->
                   app'.row /\ host'[op.from].up /\ host'[op.from].want = app'.vol
              [] op.kind \in {"deploy", "redeploy"} -> ~app'.row /\ (Emptied(host'[op.from]) \/ op.soft)
              [] OTHER -> TRUE ]_vars
  BY <1>1 DEF Promised, RolledOr
<1> QED  BY <1>2, WorkStands, PTL DEF Spec, RollbackServes
=============================================================================
