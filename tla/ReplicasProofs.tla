--------------------------- MODULE ReplicasProofs ---------------------------
(***************************************************************************)
(* The replicas of an app, for any number of servers, any placements and   *)
(* any number of operations, failing calls and crashes.  Everything rests  *)
(* on one invariant, Inv.  World says that the tables and the servers are  *)
(* well formed.  Work says, for whoever holds the lock of the app, that he *)
(* is where his operation has brought him and that what he knows still     *)
(* holds: the replicas he is about to remove or replace are there, a       *)
(* convergence keeps a running replica for each one it removes, a move     *)
(* that has started a replica runs it on its target, the roll of a         *)
(* redeploy has another running replica when it takes one out, and what    *)
(* the last health check of a redeploy has passed is as it found it.  What *)
(* goes on beside him (the checks of the workload tick, the reconciler of  *)
(* the ingress, a new operation) takes none of that away, a crash all of   *)
(* it.                                                                     *)
(***************************************************************************)
EXTENDS Replicas, FiniteSetTheorems, SequenceTheorems, WellFoundedInduction, TLAPS

-----------------------------------------------------------------------------
(* The invariant *)

Live == {"running", "unhealthy", "deploying"}
RowStatus == {"running", "unhealthy", "attesting", "draining", "divergent"}
AppRow == [status : Live, placement : Placement, image : 0..MaxOps, ref : 0..MaxOps, current : BOOLEAN]
ReplicaRow == [server : Server, n : Positive, port : Positive, ticks : 0..2, err : BOOLEAN,
               status : RowStatus]
ContainerRow == [port : Positive, image : 0..MaxOps, healthy : BOOLEAN, healed : BOOLEAN,
                 left : BOOLEAN]
CheckRow == [pc : {"probing", "probed", "restarting", "recreating", "over"},
             spot : Server \X Positive, port : Positive, healthy : BOOLEAN]
SnapRow == [image : 0..MaxOps, n : Positive, port : Positive]
OpRow == [kind : {"none", "move", "redeploy", "reload"},
          step : {"none", "move", "confirm", "reload", "prepare", "primary", "roll", "commit",
                  "sync", "verify", "undo"},
          from : Nat, to : Nat, image : 0..MaxOps, placement : Placement, prior : Live,
          snap : SUBSET SnapRow, again : BOOLEAN, attempt : 0..MaxAttempts]
AddPc == {"start", "insert", "attest", "admit", "cleanup"}
RemovePc == {"drain", "remove"}
RollPc == {"out", "swap", "ready", "in"}
JobRow == [by : {"none", "converge", "attest", "move", "redeploy", "reload"},
           pc : AddPc \union RemovePc \union RollPc \union
                {"none", "rollback", "confirm", "prepare", "commit", "record", "sync", "verify", "inspect",
                 "undo", "restored", "audit"},
           adds : [Server -> Nat], ids : SUBSET Positive, late : SUBSET Positive,
           id : Nat, spot : Nat \X Nat, port : Nat, before : SUBSET Positive, bad : BOOLEAN]

\* The database.
AppOK == app \in AppRow
RowsOK ==
  /\ nextId \in Positive
  /\ DOMAIN rows \subseteq 1..(nextId - 1) /\ DOMAIN rows # {}
  /\ \A i \in DOMAIN rows : rows[i] \in ReplicaRow
  /\ \A i, j \in DOMAIN rows : i # j => Named(i, j) /\ Bound(i, j)
OpOK ==
  /\ op \in OpRow
  /\ op.snap = {} \/ \E v \in SnapRow : op.snap = {v}
  /\ op.kind = "none" => op = NoOp
  /\ op.kind = "move" => /\ op.from \in Server /\ op.to \in Server /\ op.from # op.to
                         /\ op.step \in {"move", "confirm"}
                         /\ op.step = "move" => app.placement[op.from] > 0
  /\ op.kind = "redeploy" =>
       op.step \in {"prepare", "primary", "roll", "commit", "sync", "verify", "undo"}
  /\ op.kind = "reload" => op.step = "reload"
\* The servers.
HostsOK ==
  /\ DOMAIN containers \subseteq Server \X Positive
  /\ \A c \in DOMAIN containers : containers[c] \in ContainerRow
  /\ pool \subseteq Server \X Positive
ChecksOK ==
  /\ tick \in {"idle", "checking"}
  /\ tick = "idle" => checks = <<>>
  /\ \A i \in DOMAIN checks : checks[i] \in CheckRow
BoundsOK == opsDone \in 0..MaxOps /\ faults \in Nat /\ crashes \in Nat

\* Who holds the lock, and where he is.
Held ==
  /\ job \in JobRow
  /\ job.by \in {"none", "converge", "attest", op.kind}
  /\ job.by = "none" => job = NoJob
  /\ job.by = "converge" => job.pc \in AddPc \union RemovePc \union {"rollback"}
  /\ job.by = "attest" => job.pc = "audit"
  /\ job.by = "reload" => job.pc \in RollPc
  /\ job.by = "move" => IF op.step = "move" THEN job.pc \in AddPc \union RemovePc
                        ELSE job.pc = "confirm"
  /\ job.by = "redeploy" => CASE op.step \in {"primary", "roll"} -> job.pc \in RollPc
                              [] op.step = "verify" -> job.pc \in {"verify", "inspect"}
                              [] op.step = "commit" -> job.pc \in {"commit", "record"}
                              [] op.step = "undo" -> job.pc \in {"undo", "restored"}
                              [] OTHER -> job.pc = op.step
\* What is to be removed or replaced is there.
Listed ==
  /\ job.pc \notin {"cleanup", "rollback"} =>
       job.ids \subseteq DOMAIN rows /\ job.late \subseteq DOMAIN rows
  /\ job.ids \intersect job.late = {}
  /\ job.pc \in {"remove", "swap", "ready", "in", "inspect"} => job.ids # {}
\* A replica in the making.
Adding ==
  /\ job.pc \in AddPc /\ job.pc # "cleanup" => \E s \in Server : job.adds[s] > 0
  /\ job.pc \in {"insert", "attest", "admit"} => job.adds[job.spot[1]] > 0
  /\ job.pc \in {"insert", "attest", "admit", "cleanup"} => job.spot \in Server \X Positive
  /\ job.pc = "insert" => /\ job.port \in Positive
                          /\ \A i \in DOMAIN rows : /\ rows[i].n # job.spot[2]
                                                    /\ rows[i].server = job.spot[1] => rows[i].port # job.port
  /\ job.pc \in {"attest", "admit"} => job.id \in DOMAIN rows /\ rows[job.id].server = job.spot[1]
  /\ job.pc = "admit" => Running(job.id)
  /\ job.pc \in {"attest", "admit", "cleanup"} => DOMAIN rows \ {job.id} # {}
\* A convergence keeps a replica for each that it removes.
Sparing == job.by = "converge" =>
  /\ job.pc \in AddPc \union {"rollback"} => job.before \subseteq DOMAIN rows /\ job.before # {}
  /\ job.pc \in {"attest", "admit", "cleanup"} => job.id \notin job.before
  /\ \A i \in job.late \intersect DOMAIN rows : app.placement[rows[i].server] = 0
  /\ job.pc \in AddPc => job.ids \subseteq job.before
  /\ job.pc \in AddPc => \A i \in job.ids :
       \E m \in job.before \ job.ids : Running(i) => Running(m)
  /\ job.pc \in RemovePc => \A i \in job.ids :
       \E m \in DOMAIN rows \ job.ids : Running(i) => Running(m)
\* A move removes what runs on the source when its own replica runs on the target.
Moves == job.by = "move" =>
  /\ job.late = {}
  /\ \A s \in Server : job.adds[s] > 0 => s = op.to
  /\ job.pc \in {"start", "insert"} \union RemovePc /\ job.id # 0 =>
       job.id \in DOMAIN rows /\ Running(job.id) /\ rows[job.id].server = op.to
  /\ job.pc \in RemovePc =>
       /\ \A i \in job.ids : rows[i].server = op.from
       /\ \E m \in DOMAIN rows : rows[m].server = op.to
\* A redeploy takes the next one out when another is there.
Others(i) == \E k \in DOMAIN rows \ {i} : Running(k)
Rolls == job.by = "redeploy" /\ job.pc \in RollPc /\ Redundant =>
  /\ Primary => /\ job.ids \subseteq {First}
                /\ job.pc # "out" \/ job.ids = {} => Others(First)
  /\ ~Primary /\ op.attempt = 1 =>
       /\ job.pc = "out" /\ job.ids # {} => Others(NextOne)
       /\ job.pc = "in" => Running(NextOne)
\* What the last health check has been through.
Verified == job.by = "redeploy" /\ job.pc \in {"verify", "inspect"} =>
  \A i \in DOMAIN rows \ job.ids :
    /\ Running(i) /\ ~rows[i].err
    /\ LET spot == Spot(rows[i]) IN
       spot \in DOMAIN containers /\ ~containers[spot].healed => containers[spot].image = op.image
\* A redeploy that is past its first step has begun; the next time is not the first.
Resumes == op.kind = "redeploy" /\ (op.step # "prepare" \/ job.by = "redeploy") => op.attempt >= 1

World == AppOK /\ RowsOK /\ OpOK /\ HostsOK /\ ChecksOK /\ BoundsOK
Work == Held /\ Listed /\ Adding /\ Sparing /\ Moves /\ Rolls /\ Verified /\ Resumes
Inv == World /\ Work

-----------------------------------------------------------------------------
(* Least elements *)

\* A finite set has an element before which there is none in a strict order.
LEMMA Minimal ==
  ASSUME NEW S, IsFiniteSet(S), S # {}, NEW R,
         \A x \in S : <<x, x>> \notin R,
         \A x, y, z \in S : <<x, y>> \in R /\ <<y, z>> \in R => <<x, z>> \in R
  PROVE  \E x \in S : \A y \in S : <<y, x>> \notin R
<1> DEFINE below == [x \in S |-> {y \in S : <<y, x>> \in R}]
           F == {below[x] : x \in S}
           O == StrictSubsetOrdering(S)
<1>1. IsWellFoundedOn(O, FiniteSubsetsOf(S))
  BY FS_StrictSubsetOrderingWellFounded
<1>2. F \subseteq FiniteSubsetsOf(S) /\ F # {}
  <2>1. F \subseteq SUBSET S /\ F # {}
    <3>1. \A x \in S : below[x] \in SUBSET S
      OBVIOUS
    <3> HIDE DEF below, O
    <3> QED  BY <3>1
  <2> QED  BY <2>1, FS_FiniteSubsetsOfFinite
<1>3. \E T \in F : \A U \in F : <<U, T>> \notin O
  <2> HIDE DEF F, O
  <2> QED  BY <1>1, <1>2, WFMin, Zenon
<1>4. PICK x \in S : \A y \in S : <<below[y], below[x]>> \notin O
  <2> HIDE DEF below, O
  <2> QED  BY <1>3
<1>5. SUFFICES ASSUME NEW y \in S, <<y, x>> \in R  PROVE FALSE
  OBVIOUS
<1>6. below[y] \subseteq below[x] /\ below[y] # below[x]
  BY <1>5
<1>7. below[y] \in SUBSET S /\ below[x] \in SUBSET S
  OBVIOUS
<1>8. <<below[y], below[x]>> \in O
  <2> HIDE DEF below
  <2> QED  BY <1>6, <1>7 DEF StrictSubsetOrdering
<1> QED  BY <1>4, <1>5, <1>8

\* The largest of a finite set of numbers.
LEMMA MaxIs ==
  ASSUME NEW S \in SUBSET Int, IsFiniteSet(S), S # {}
  PROVE  Max(S) \in S /\ \A x \in S : x <= Max(S)
<1> DEFINE R == {p \in S \X S : p[1] > p[2]}
<1>1. PICK x \in S : \A y \in S : <<y, x>> \notin R
  <2>1. \A x \in S : <<x, x>> \notin R
    OBVIOUS
  <2>2. \A x, y, z \in S : <<x, y>> \in R /\ <<y, z>> \in R => <<x, z>> \in R
    OBVIOUS
  <2> HIDE DEF R
  <2> QED  BY <2>1, <2>2, Minimal
<1>2. ASSUME NEW y \in S  PROVE x >= y
  <2>1. <<y, x>> \in S \X S /\ <<y, x>> \notin R
    BY <1>1
  <2>2. ~(y > x)
    BY <2>1
  <2> QED  BY <2>2
<1>3. Max(S) \in S /\ \A y \in S : Max(S) >= y
  BY <1>2 DEF Max
<1> QED  BY <1>3

\* The smallest of a finite set of numbers.
LEMMA MinIs ==
  ASSUME NEW S \in SUBSET Int, IsFiniteSet(S), S # {}
  PROVE  Min(S) \in S /\ \A x \in S : Min(S) <= x
<1> DEFINE R == {p \in S \X S : p[1] < p[2]}
<1>1. PICK x \in S : \A y \in S : <<y, x>> \notin R
  <2>1. \A x \in S : <<x, x>> \notin R
    OBVIOUS
  <2>2. \A x, y, z \in S : <<x, y>> \in R /\ <<y, z>> \in R => <<x, z>> \in R
    OBVIOUS
  <2> HIDE DEF R
  <2> QED  BY <2>1, <2>2, Minimal
<1>2. ASSUME NEW y \in S  PROVE x =< y
  <2>1. <<y, x>> \in S \X S /\ <<y, x>> \notin R
    BY <1>1
  <2>2. ~(y < x)
    BY <2>1
  <2> QED  BY <2>2
<1>3. Min(S) \in S /\ \A y \in S : Min(S) =< y
  BY <1>2 DEF Min
<1> QED  BY <1>3

\* The table is finite, and its oldest row is one of it.
LEMMA TableFinite ==
  ASSUME RowsOK
  PROVE  /\ IsFiniteSet(DOMAIN rows) /\ DOMAIN rows \subseteq Positive
         /\ First \in DOMAIN rows /\ \A i \in DOMAIN rows : First <= i
<1>1. IsFiniteSet(1..(nextId - 1))
  BY FS_Interval DEF RowsOK, Positive
<1>2. IsFiniteSet(DOMAIN rows) /\ DOMAIN rows \subseteq Positive /\ DOMAIN rows # {}
  BY <1>1, FS_Subset DEF RowsOK, Positive
<1> QED  BY <1>2, MinIs DEF First, Positive

-----------------------------------------------------------------------------
(* What the model's operators pick *)

\* The part of the rows that is on a server is finite.
LEMMA PartFinite ==
  ASSUME RowsOK, NEW S \in SUBSET DOMAIN rows
  PROVE  IsFiniteSet(S) /\ S \subseteq Int /\ Cardinality(S) \in Nat
BY TableFinite, FS_Subset, FS_CardinalityType DEF Positive

\* addReplicas finds a number that no replica of the app has.
LEMMA NextNumberIs ==
  ASSUME RowsOK
  PROVE  NextNumber \in Positive /\ \A i \in DOMAIN rows : rows[i].n # NextNumber
<1> DEFINE used == {rows[i].n : i \in DOMAIN rows}
           f == [i \in DOMAIN rows |-> rows[i].n]
           c == Cardinality(DOMAIN rows)
           room == (c + 1)..(2 * c + 1)
           free == {n \in room : n \notin used}
<1>1. IsFiniteSet(DOMAIN rows) /\ c \in Nat
  BY TableFinite, FS_CardinalityType
<1>2. IsFiniteSet(used) /\ Cardinality(used) <= c
  <2>1. f \in Surjection(DOMAIN rows, used)
    BY DEF Surjection
  <2> HIDE DEF f, used
  <2> QED  BY <1>1, <2>1, FS_Surjection
<1>3. IsFiniteSet(room) /\ Cardinality(room) = c + 1
  <2> HIDE DEF c
  <2> QED  BY <1>1, FS_Interval
<1>4. ~(room \subseteq used)
  <2> HIDE DEF room, used, c
  <2>1. SUFFICES ASSUME room \in SUBSET used  PROVE FALSE
    OBVIOUS
  <2>2. Cardinality(room) <= Cardinality(used)
    BY <1>2, <2>1, FS_Subset
  <2>3. Cardinality(used) \in Nat
    BY <1>2, FS_CardinalityType
  <2> QED  BY <1>1, <1>2, <1>3, <2>2, <2>3
<1>5. IsFiniteSet(free) /\ free # {}
  <2>1. free \in SUBSET room /\ free # {}
    BY <1>4
  <2> HIDE DEF free, room
  <2> QED  BY <1>3, <2>1, FS_Subset
<1>6. free \in SUBSET Int
  <2> HIDE DEF c
  <2> QED  BY <1>1
<1>7. Min(free) \in free
  <2> HIDE DEF free
  <2> QED  BY <1>5, <1>6, MinIs
<1>8. NextNumber = Min(free)
  BY Zenon DEF NextNumber
<1>9. NextNumber \in room /\ NextNumber \notin used
  BY <1>7, <1>8
<1>10. NextNumber \in Positive
  <2> HIDE DEF c
  <2> QED  BY <1>1, <1>9 DEF Positive
<1> QED  BY <1>9, <1>10

\* The port of a new replica is not the one of another replica on its server.
LEMMA NextPortIs ==
  ASSUME RowsOK, NEW s \in Server
  PROVE  NextPort(s) \in Positive
         /\ \A i \in DOMAIN rows : rows[i].server = s => rows[i].port # NextPort(s)
<1> DEFINE taken == {rows[i].port : i \in On(s)}
           first == rows[First].port
<1>1. \A i \in DOMAIN rows : rows[i].port \in Positive
  BY DEF RowsOK, ReplicaRow
<1>2. taken \in SUBSET Int /\ \A x \in taken : x > 0
  BY <1>1 DEF On, Positive
<1>3. \A i \in DOMAIN rows : rows[i].server = s => rows[i].port \in taken
  BY DEF On
<1>4. first \in Positive
  BY <1>1, TableFinite
<1>5. IsFiniteSet(taken)
  <2> DEFINE f == [i \in On(s) |-> rows[i].port]
  <2>1. f \in Surjection(On(s), taken)
    BY DEF Surjection
  <2>2. IsFiniteSet(On(s))
    BY PartFinite DEF On
  <2> HIDE DEF f, taken
  <2> QED  BY <2>1, <2>2, FS_Surjection
<1>6. NextPort(s) = IF DOMAIN rows # {} /\ first \notin taken THEN first
                    ELSE IF taken = {} THEN 1 ELSE Max(taken) + 1
  BY Zenon DEF NextPort
<1>7. taken # {} => Max(taken) + 1 \in Positive /\ Max(taken) + 1 \notin taken
  <2> HIDE DEF taken
  <2> SUFFICES ASSUME taken # {}
               PROVE  Max(taken) + 1 \in Positive /\ Max(taken) + 1 \notin taken
    OBVIOUS
  <2>1. Max(taken) \in taken /\ \A x \in taken : x <= Max(taken)
    BY <1>2, <1>5, MaxIs
  <2> PICK top : top = Max(taken)
    OBVIOUS
  <2>2. top \in Int /\ top > 0 /\ \A x \in taken : x <= top
    BY <1>2, <2>1
  <2>3. top + 1 \in Positive /\ top + 1 \notin taken
    BY <2>2 DEF Positive
  <2> QED  BY <2>3
<1>8. NextPort(s) \in Positive /\ NextPort(s) \notin taken
  <2> HIDE DEF taken, first
  <2>1. 1 \in Positive
    BY DEF Positive
  <2> QED  BY <1>4, <1>6, <1>7, <2>1
<1> QED  BY <1>3, <1>8

\* Of the replicas on a server the one that is removed last stays, and it runs if
\* any of them does.
LEMMA SurplusLeaves ==
  ASSUME RowsOK, AppOK, NEW i \in Surplus
  PROVE  \E m \in DOMAIN rows \ Surplus : Running(i) => Running(m)
<1> DEFINE s == rows[i].server
           R == {p \in On(s) \X On(s) : Sooner(p[2], p[1])}
<1>1. i \in On(s) /\ s \in Server /\ app.placement[s] \in Nat /\ app.placement[s] > 0
  BY DEF Surplus, TooMany, On, RowsOK, ReplicaRow, AppOK, AppRow, Placement
<1>2. IsFiniteSet(On(s)) /\ On(s) \subseteq Int
  BY PartFinite DEF On
<1>3. PICK m \in On(s) : \A j \in On(s) : <<j, m>> \notin R
  <2>1. \A x \in On(s) : <<x, x>> \notin R
    BY <1>2 DEF Sooner
  <2>2. \A x, y, z \in On(s) : <<x, y>> \in R /\ <<y, z>> \in R => <<x, z>> \in R
    BY <1>2 DEF Sooner
  <2> HIDE DEF R
  <2> QED  BY <1>1, <1>2, <2>1, <2>2, Minimal
<1>4. ASSUME NEW j \in On(s)  PROVE ~Sooner(m, j)
  <2>1. <<j, m>> \in On(s) \X On(s) /\ <<j, m>> \notin R
    BY <1>3
  <2> QED  BY <2>1
<1>5. {j \in On(s) : Sooner(j, m)} = On(s) \ {m}
  <2>1. \A j \in On(s) \ {m} : Sooner(j, m)
    BY <1>2, <1>4 DEF Sooner
  <2>2. ~Sooner(m, m)
    BY <1>4
  <2> QED  BY <2>1, <2>2
<1>6. Cardinality(On(s) \ {m}) = Cardinality(On(s)) - 1 /\ Cardinality(On(s)) \in Nat
  BY <1>2, FS_RemoveElement, FS_CardinalityType
<1>7. rows[m].server = s /\ m \in DOMAIN rows
  BY DEF On
<1>8. ~TooMany(m)
  <2> HIDE DEF s
  <2>1. TooMany(m) <=> app.placement[s] > 0 /\
          Cardinality(On(s) \ {m}) + app.placement[s] < Cardinality(On(s))
    BY <1>5, <1>7, Zenon DEF TooMany
  <2> QED  BY <1>1, <1>6, <2>1
<1>9. Running(i) => Running(m)
  BY <1>1, <1>4 DEF Sooner
<1> QED  BY <1>7, <1>8, <1>9 DEF Surplus

\* Where the placement is satisfied, a replica runs on a server of the placement.
LEMMA SatisfiedRuns ==
  ASSUME RowsOK, AppOK, PlacementSatisfied
  PROVE  \E m \in DOMAIN rows : Running(m) /\ app.placement[rows[m].server] > 0
<1>1. PICK s \in Server : app.placement[s] > 0 /\ app.placement[s] \in Nat
  BY DEF AppOK, AppRow, Placement
<1> DEFINE S == {i \in On(s) : Running(i)}
<1>2. Cardinality(S) >= app.placement[s]
  BY DEF PlacementSatisfied
<1>3. S # {}
  <2> SUFFICES ASSUME S = {}  PROVE FALSE
    OBVIOUS
  <2> HIDE DEF S
  <2> QED  BY <1>1, <1>2, FS_EmptySet
<1> QED  BY <1>1, <1>3 DEF On

\* A convergence has an order in which it removes, and everything else goes by age.
LEMMA BeforeOrders ==
  ASSUME RowsOK, AppOK, NEW S \in SUBSET DOMAIN rows
  PROVE  /\ \A x \in S : ~Before(x, x)
         /\ \A x, y, z \in S : Before(x, y) /\ Before(y, z) => Before(x, z)
         /\ \A x, y \in S : x # y => Before(x, y) \/ Before(y, x)
<1>1. \A x \in S : x \in Int /\ rows[x].server \in Int /\ app.placement[rows[x].server] \in Nat
  <2>1. \A x \in S : x \in Int
    BY PartFinite
  <2>2. \A x \in S : rows[x].server \in Server
    BY DEF RowsOK, ReplicaRow
  <2>3. \A t \in Server : t \in Int /\ app.placement[t] \in Nat
    BY ReplicasAssumption DEF AppOK, AppRow, Placement, Server, Positive
  <2> QED  BY <2>1, <2>2, <2>3
<1>2. \A x \in S : ~Before(x, x)
  BY <1>1 DEF Before, Sooner
<1>3. \A x, y \in S : x # y => Before(x, y) \/ Before(y, x)
  BY <1>1 DEF Before, Sooner
<1>4. ASSUME NEW x \in S, NEW y \in S, NEW z \in S, Before(x, y), Before(y, z)
      PROVE  Before(x, z)
  BY <1>1, <1>4 DEF Before, Sooner
<1> QED  BY <1>2, <1>3, <1>4

LEMMA NextOneIs ==
  ASSUME RowsOK, AppOK, job.ids \subseteq DOMAIN rows, job.ids # {}
  PROVE  /\ NextOne \in job.ids
         /\ job.by # "converge" => \A j \in job.ids : NextOne <= j
<1> DEFINE S == job.ids
           R == {p \in S \X S : Before(p[1], p[2])}
<1>1. /\ \A x \in S : ~Before(x, x)
      /\ \A x, y, z \in S : Before(x, y) /\ Before(y, z) => Before(x, z)
      /\ \A x, y \in S : x # y => Before(x, y) \/ Before(y, x)
  BY BeforeOrders
<1>2. IsFiniteSet(S)
  BY PartFinite
<1>3. PICK i \in S : \A j \in S : <<j, i>> \notin R
  <2>1. \A x \in S : <<x, x>> \notin R
    BY <1>1
  <2>2. \A x, y, z \in S : <<x, y>> \in R /\ <<y, z>> \in R => <<x, z>> \in R
    BY <1>1
  <2> HIDE DEF R, S
  <2> QED  BY <1>2, <2>1, <2>2, Minimal, SMTT(30) DEF S
<1>4. ASSUME NEW j \in S \ {i}  PROVE Before(i, j)
  <2>1. <<j, i>> \in S \X S /\ <<j, i>> \notin R
    BY <1>3
  <2>2. ~Before(j, i)
    BY <2>1
  <2> QED  BY <1>1, <2>2
<1>5. NextOne \in job.ids /\ \A j \in job.ids \ {NextOne} : Before(NextOne, j)
  BY <1>4 DEF NextOne
<1>6. ASSUME job.by # "converge", NEW j \in job.ids  PROVE NextOne <= j
  <2>1. NextOne \in Int /\ j \in Int
    BY <1>5, PartFinite
  <2>2. j # NextOne => NextOne < j
    BY <1>5, <1>6 DEF Before
  <2> QED  BY <2>1, <2>2
<1> QED  BY <1>5, <1>6

-----------------------------------------------------------------------------
(* The rows and the servers after a step *)

SameTable ==
  /\ DOMAIN rows' = DOMAIN rows /\ nextId' = nextId
  /\ \A k \in DOMAIN rows : /\ rows'[k].server = rows[k].server
                            /\ rows'[k].n = rows[k].n /\ rows'[k].port = rows[k].port
Touches(i) == SameTable /\ \A k \in DOMAIN rows \ {i} : rows'[k] = rows[k]

\* What changes no name, server or port keeps the table in order.
LEMMA SameTableKeeps ==
  ASSUME RowsOK, SameTable, \A k \in DOMAIN rows : rows'[k] \in ReplicaRow
  PROVE  RowsOK'
BY DEF RowsOK, SameTable, Named, Bound

LEMMA SameRowsKeep ==
  ASSUME RowsOK, UNCHANGED <<rows, nextId>>
  PROVE  RowsOK' /\ SameTable
BY DEF RowsOK, SameTable, Named, Bound

LEMMA SetStatusIs ==
  ASSUME RowsOK, NEW i, NEW st \in RowStatus, rows' = SetStatus(i, st), nextId' = nextId
  PROVE  RowsOK' /\ Touches(i) /\ (i \in DOMAIN rows => rows'[i].status = st /\ rows'[i].err = rows[i].err)
<1>1. ASSUME i \notin DOMAIN rows
      PROVE  RowsOK' /\ Touches(i)
  BY <1>1, SameRowsKeep DEF SetStatus, Touches
<1>2. ASSUME i \in DOMAIN rows
      PROVE  RowsOK' /\ Touches(i) /\ rows'[i].status = st /\ rows'[i].err = rows[i].err
  <2> PICK r : r = [rows[i] EXCEPT !.status = st]
    OBVIOUS
  <2>1. rows' = [rows EXCEPT ![i] = r]
    BY <1>2 DEF SetStatus
  <2>2. rows[i] \in ReplicaRow
    BY <1>2 DEF RowsOK
  <2>3. /\ r \in ReplicaRow /\ r.server = rows[i].server /\ r.n = rows[i].n
        /\ r.port = rows[i].port /\ r.status = st /\ r.err = rows[i].err
    BY <2>2 DEF ReplicaRow
  <2>4. Touches(i) /\ rows'[i] = r
    BY <1>2, <2>1, <2>3 DEF Touches, SameTable
  <2>5. \A k \in DOMAIN rows : rows'[k] \in ReplicaRow
    BY <2>3, <2>4 DEF Touches, RowsOK
  <2> QED  BY <2>3, <2>4, <2>5, SameTableKeeps DEF Touches
<1> QED  BY <1>1, <1>2

LEMMA AttestedIs ==
  ASSUME RowsOK, NEW i \in DOMAIN rows, NEW ok \in BOOLEAN, rows' = Attested(i, ok), nextId' = nextId
  PROVE  /\ RowsOK' /\ Touches(i)
         /\ rows'[i].status = IF ok THEN "running" ELSE "divergent"
         /\ rows'[i].err = ~ok
<1> PICK st : st = IF ok THEN "running" ELSE "divergent"
  OBVIOUS
<1> PICK e : e = ~ok
  OBVIOUS
<1> PICK r : r = [rows[i] EXCEPT !.status = st, !.err = e]
  OBVIOUS
<1>1. rows' = [rows EXCEPT ![i] = r]
  BY DEF Attested
<1>2. rows[i] \in ReplicaRow
  BY DEF RowsOK
<1>3. e \in BOOLEAN
  OBVIOUS
<1>4. /\ r \in ReplicaRow /\ r.server = rows[i].server /\ r.n = rows[i].n
      /\ r.port = rows[i].port /\ r.status = st /\ r.err = e
  BY <1>2, <1>3 DEF ReplicaRow, RowStatus
<1>5. Touches(i) /\ rows'[i] = r
  BY <1>1, <1>4 DEF Touches, SameTable
<1>6. \A k \in DOMAIN rows : rows'[k] \in ReplicaRow
  BY <1>4, <1>5 DEF Touches, RowsOK
<1>7. RowsOK'
  BY <1>5, <1>6, SameTableKeeps DEF Touches
<1> QED  BY <1>4, <1>5, <1>7

\* A row that goes leaves the others, if there are others.
LEMMA WithoutRow ==
  ASSUME RowsOK, NEW i, rows' = Without(rows, i), nextId' = nextId, DOMAIN rows \ {i} # {}
  PROVE  /\ RowsOK' /\ DOMAIN rows' = DOMAIN rows \ {i}
         /\ \A k \in DOMAIN rows' : rows'[k] = rows[k]
<1>1. DOMAIN rows' = DOMAIN rows \ {i} /\ \A k \in DOMAIN rows' : rows'[k] = rows[k]
  BY DEF Without
<1> QED  BY <1>1 DEF RowsOK, Named, Bound

LEMMA PoolKeeps ==
  ASSUME RowsOK
  PROVE  Upstreams(rows) \subseteq Server \X Positive
BY DEF Upstreams, RowsOK, ReplicaRow

\* What a step writes to the pool is well formed.
LEMMA PoolWritten ==
  ASSUME HostsOK, RowsOK', pool' = pool \/ pool' = Upstreams(rows')
  PROVE  pool' \subseteq Server \X Positive
<1>1. Upstreams(rows') \subseteq Server \X Positive
  BY DEF Upstreams, RowsOK, ReplicaRow
<1> QED  BY <1>1 DEF HostsOK

ContainersOK == /\ DOMAIN containers \subseteq Server \X Positive
                /\ \A c \in DOMAIN containers : containers[c] \in ContainerRow

LEMMA WithoutContainer ==
  ASSUME ContainersOK, NEW c, containers' = containers \/ containers' = Without(containers, c)
  PROVE  ContainersOK' /\ DOMAIN containers' \subseteq DOMAIN containers
         /\ \A x \in DOMAIN containers' : containers'[x] = containers[x]
<1>1. CASE containers' = containers
  BY <1>1 DEF ContainersOK
<1>2. CASE containers' = Without(containers, c)
  <2>1. /\ DOMAIN containers' = DOMAIN containers \ {c}
        /\ \A x \in DOMAIN containers' : containers'[x] = containers[x]
    BY <1>2 DEF Without
  <2> QED  BY <2>1 DEF ContainersOK
<1> QED  BY <1>1, <1>2

\* One that is left behind, or that a removal leaves without noticing, is only marked.
LEMMA MarkedContainer ==
  ASSUME ContainersOK, NEW spot \in DOMAIN containers,
         containers' = [containers EXCEPT ![spot].left = TRUE]
  PROVE  ContainersOK'
<1> PICK r : r = [containers[spot] EXCEPT !.left = TRUE]
  OBVIOUS
<1>1. containers' = [containers EXCEPT ![spot] = r]
  OBVIOUS
<1>2. containers[spot] \in ContainerRow
  BY DEF ContainersOK
<1>3. r \in ContainerRow
  BY <1>2 DEF ContainerRow
<1> QED  BY <1>1, <1>3 DEF ContainersOK

LEMMA OrphanedKeeps ==
  ASSUME ContainersOK, NEW spot, containers' = Orphaned(spot)
  PROVE  ContainersOK'
<1>1. CASE containers' = containers
  BY <1>1 DEF ContainersOK
<1>2. CASE spot \in DOMAIN containers /\ containers' = [containers EXCEPT ![spot].left = TRUE]
  BY <1>2, MarkedContainer
<1> QED  BY <1>1, <1>2 DEF Orphaned

LEMMA RemovedKeeps ==
  ASSUME ContainersOK, faults \in Nat, NEW spot, Removed(spot)
  PROVE  ContainersOK' /\ faults' \in Nat
<1>1. faults' \in Nat
  BY DEF Removed, Faulty
<1>2. CASE containers' = Without(containers, spot)
  BY <1>1, <1>2, WithoutContainer
<1>3. CASE spot \in DOMAIN containers /\ containers' = [containers EXCEPT ![spot].left = TRUE]
  BY <1>1, <1>3, MarkedContainer
<1> QED  BY <1>2, <1>3 DEF Removed

\* A container that is started, well or ill, by an operation or a health check.
LEMMA WithContainer ==
  ASSUME ContainersOK, NEW spot \in Server \X Positive, NEW r \in ContainerRow,
         containers' = containers \/ containers' = With(containers, spot, r)
  PROVE  /\ ContainersOK'
         /\ \A x \in DOMAIN containers' :
              \/ x \in DOMAIN containers /\ containers'[x] = containers[x]
              \/ x = spot /\ containers'[x] = r
<1>1. CASE containers' = containers
  BY <1>1 DEF ContainersOK
<1>2. CASE containers' = With(containers, spot, r)
  <2>1. DOMAIN containers' = DOMAIN containers \union {spot}
    BY <1>2 DEF With
  <2>2. \A x \in DOMAIN containers' : containers'[x] = IF x = spot THEN r ELSE containers[x]
    BY <1>2 DEF With
  <2> QED  BY <2>1, <2>2 DEF ContainersOK
<1> QED  BY <1>1, <1>2

LEMMA StartKeeps ==
  ASSUME ContainersOK, BoundsOK, NEW spot \in Server \X Positive, NEW port \in Positive,
         NEW image \in 0..MaxOps,
         \/ Starts(spot, port, image) \/ StartsIll(spot, port, image) \/ StartFails(spot, port, image)
  PROVE  ContainersOK' /\ faults' \in Nat
<1>1. faults' \in Nat
  BY DEF Starts, StartsIll, StartFails, Faulty, BoundsOK
<1> PICK r : r = Fresh(port, image)
  OBVIOUS
<1> PICK q : q = [r EXCEPT !.healthy = FALSE]
  OBVIOUS
<1>2. r \in ContainerRow /\ q \in ContainerRow
  BY DEF Fresh, ContainerRow
<1>3. CASE Starts(spot, port, image)
  <2>1. containers' = containers \/ containers' = With(containers, spot, r)
    BY <1>3 DEF Starts
  <2> QED  BY <1>1, <1>2, <2>1, WithContainer
<1>4. CASE StartsIll(spot, port, image)
  <2>1. containers' = With(containers, spot, q)
    BY <1>4 DEF StartsIll
  <2> QED  BY <1>1, <1>2, <2>1, WithContainer
<1>5. CASE StartFails(spot, port, image)
  <2>1. containers' = containers \/ containers' = Without(containers, spot)
    BY <1>5 DEF StartFails
  <2> QED  BY <1>1, <2>1, WithoutContainer
<1> QED  BY <1>3, <1>4, <1>5

\* A health check leaves a container of an operation alone, or marks what it makes.
LEMMA HealKeeps ==
  ASSUME ContainersOK, BoundsOK, NEW spot \in Server \X Positive, NEW port \in Positive,
         NEW image \in 0..MaxOps,
         Heals(spot, port, image) \/ StartFails(spot, port, image)
  PROVE  /\ ContainersOK' /\ faults' \in Nat
         /\ \A x \in DOMAIN containers' :
              \/ containers'[x].healed
              \/ x \in DOMAIN containers /\ containers'[x] = containers[x]
<1>1. faults' \in Nat
  BY DEF Heals, StartFails, Faulty, BoundsOK
<1> PICK f : f = Fresh(port, image)
  OBVIOUS
<1> PICK r : r = [f EXCEPT !.healed = TRUE]
  OBVIOUS
<1>2. r \in ContainerRow /\ r.healed
  BY DEF Fresh, ContainerRow
<1>3. CASE Heals(spot, port, image)
  <2>1. containers' = containers \/ containers' = With(containers, spot, r)
    BY <1>3 DEF Heals
  <2> QED  BY <1>1, <1>2, <2>1, WithContainer
<1>4. CASE StartFails(spot, port, image)
  <2>1. containers' = containers \/ containers' = Without(containers, spot)
    BY <1>4 DEF StartFails
  <2> QED  BY <1>1, <2>1, WithoutContainer
<1> QED  BY <1>3, <1>4

-----------------------------------------------------------------------------
(* The first state *)

\* The sequence of a finite set lists its elements, each once.
LEMMA AsSequence ==
  ASSUME NEW S, IsFiniteSet(S)
  PROVE  /\ Cardinality(S) \in Nat /\ DOMAIN SetToSeq(S) = 1..Cardinality(S)
         /\ Len(SetToSeq(S)) = Cardinality(S)
         /\ \A k \in 1..Cardinality(S) : SetToSeq(S)[k] \in S
         /\ \A j, k \in 1..Cardinality(S) : SetToSeq(S)[j] = SetToSeq(S)[k] => j = k
<1> DEFINE n == Cardinality(S)
           f == SetToSeq(S)
<1>1. n \in Nat /\ ExistsBijection(1..n, S)
  BY FS_CardinalityType
<1>2. \E g \in [1..n -> S] : IsInjective(g)
  BY <1>1 DEF ExistsBijection, Bijection, Injection
<1>3. f \in [1..n -> S] /\ IsInjective(f)
  BY <1>2 DEF SetToSeq
<1>4. f \in Seq(S)
  BY <1>1, <1>3, SeqDef
<1>5. Len(f) = n
  <2>1. DOMAIN f = 1..Len(f) /\ Len(f) \in Nat
    BY <1>4, LenProperties
  <2> HIDE DEF f, n
  <2> QED  BY <1>1, <1>3, <2>1
<1> QED  BY <1>1, <1>3, <1>5 DEF IsInjective

LEMMA ServersAre ==
  Server \subseteq Nat /\ NumServers \in Nat /\ NumServers >= 1
<1>1. NumServers \in Nat /\ NumServers >= 1
  BY ReplicasAssumption DEF Positive
<1> QED  BY <1>1 DEF Server

LEMMA FirstRowsAre ==
  \E c \in Positive :
    /\ DOMAIN FirstRows = 1..c /\ Len(FirstRows) = c
    /\ \A k \in 1..c : FirstRows[k] \in Server \X Positive
    /\ \A j, k \in 1..c : j # k => FirstRows[j] # FirstRows[k]
<1> DEFINE counts == {Declared[s] : s \in Server}
           d == [s \in Server |-> Declared[s]]
           S == {x \in Server \X (1..Max(counts)) : x[2] <= Declared[x[1]]}
           c == Cardinality(S)
<1>1. Declared \in [Server -> Nat] /\ \E s \in Server : Declared[s] > 0
  BY ReplicasAssumption DEF Placement
<1>2. IsFiniteSet(Server) /\ Server # {} /\ Server \subseteq Int
  <2>1. NumServers \in Nat /\ NumServers >= 1
    BY ServersAre
  <2>2. IsFiniteSet(1..NumServers)
    BY <2>1, FS_Interval
  <2> QED  BY <2>1, <2>2 DEF Server
<1>3. counts \in SUBSET Int /\ IsFiniteSet(counts) /\ counts # {}
  <2>1. d \in Surjection(Server, counts)
    BY DEF Surjection
  <2>2. IsFiniteSet(counts)
    <3> HIDE DEF d, counts
    <3> QED  BY <1>2, <2>1, FS_Surjection
  <2> QED  BY <1>1, <1>2, <2>2
<1>4. Max(counts) \in counts /\ \A x \in counts : x <= Max(counts)
  <2> HIDE DEF counts
  <2> QED  BY <1>3, MaxIs
<1>5. Max(counts) \in Int /\ \A s \in Server : Declared[s] <= Max(counts)
  BY <1>3, <1>4
<1>6. IsFiniteSet(S)
  <2>1. IsFiniteSet(1..Max(counts))
    <3> HIDE DEF counts
    <3> QED  BY <1>5, FS_Interval
  <2>2. IsFiniteSet(Server \X (1..Max(counts)))
    <3> HIDE DEF counts
    <3> QED  BY <1>2, <2>1, FS_Product
  <2>3. S \subseteq Server \X (1..Max(counts))
    OBVIOUS
  <2> HIDE DEF S, counts
  <2> QED  BY <2>2, <2>3, FS_Subset
<1>7. S # {}
  <2>1. PICK s \in Server : Declared[s] > 0
    BY <1>1
  <2>2. 1 \in 1..Max(counts) /\ 1 <= Declared[s]
    <3>1. Declared[s] \in Nat /\ Declared[s] <= Max(counts) /\ Max(counts) \in Int
      BY <1>1, <1>5
    <3> HIDE DEF counts
    <3> QED  BY <2>1, <3>1
  <2>3. <<s, 1>> \in S
    <3> HIDE DEF counts
    <3> QED  BY <2>1, <2>2
  <2> QED  BY <2>3
<1>8. S \subseteq Server \X Positive
  <2>1. 1..Max(counts) \subseteq Positive
    <3> HIDE DEF counts
    <3> QED  BY <1>5 DEF Positive
  <2> QED  BY <2>1
<1>9. FirstRows = SetToSeq(S)
  BY DEF FirstRows
<1>10. /\ c \in Nat /\ DOMAIN FirstRows = 1..c /\ Len(FirstRows) = c
       /\ \A k \in 1..c : FirstRows[k] \in S
       /\ \A j, k \in 1..c : FirstRows[j] = FirstRows[k] => j = k
  <2> HIDE DEF S
  <2> QED  BY <1>6, <1>9, AsSequence
<1>11. c \in Positive
  <2>1. c # 0
    <3> HIDE DEF S
    <3> QED  BY <1>6, <1>7, FS_EmptySet
  <2> HIDE DEF S
  <2> QED  BY <1>10, <2>1 DEF Positive
<1> HIDE DEF S
<1> QED  BY <1>8, <1>10, <1>11

LEMMA InitRows == Init => RowsOK
<1> SUFFICES ASSUME Init  PROVE RowsOK
  OBVIOUS
<1>1. PICK c \in Positive :
        /\ DOMAIN FirstRows = 1..c /\ Len(FirstRows) = c
        /\ \A k \in 1..c : FirstRows[k] \in Server \X Positive
        /\ \A j, k \in 1..c : j # k => FirstRows[j] # FirstRows[k]
  BY FirstRowsAre
<1>2. nextId = c + 1 /\ DOMAIN rows = 1..c
  BY <1>1 DEF Init
<1>3. nextId \in Positive /\ DOMAIN rows \subseteq 1..(nextId - 1) /\ DOMAIN rows # {}
  <2>1. c \in Nat /\ c >= 1 /\ (c + 1) - 1 = c /\ 1 \in 1..c
    BY DEF Positive
  <2> QED  BY <1>2, <2>1 DEF Positive
<1>4. \A i \in 1..c : FirstRows[i][1] \in Server /\ FirstRows[i][2] \in Positive /\ i \in Positive
  BY <1>1 DEF Positive
<1>5. \A i \in DOMAIN rows : rows[i] = [server |-> FirstRows[i][1], n |-> i,
        port |-> FirstRows[i][2], status |-> "running", ticks |-> 0, err |-> FALSE]
  BY DEF Init
<1>6. ASSUME NEW i \in DOMAIN rows  PROVE rows[i] \in ReplicaRow
  <2> PICK s \in Server, n \in Positive, p \in Positive : rows[i] =
        [server |-> s, n |-> n, port |-> p, status |-> "running", ticks |-> 0, err |-> FALSE]
    BY <1>2, <1>4, <1>5
  <2> QED  BY DEF ReplicaRow, RowStatus
<1>7. ASSUME NEW i \in DOMAIN rows, NEW j \in DOMAIN rows, i # j
      PROVE  Named(i, j) /\ Bound(i, j)
  <2>1. Named(i, j)
    BY <1>5, <1>7 DEF Named
  <2>2. FirstRows[i] # FirstRows[j] /\ FirstRows[i] \in Server \X Positive /\ FirstRows[j] \in Server \X Positive
    BY <1>1, <1>2, <1>7
  <2>3. FirstRows[i][1] # FirstRows[j][1] \/ FirstRows[i][2] # FirstRows[j][2]
    BY <2>2
  <2> QED  BY <1>5, <2>1, <2>3 DEF Bound
<1> QED  BY <1>3, <1>6, <1>7 DEF RowsOK

LEMMA NoJobIs ==
  NoJob \in JobRow
<1>1. Nothing \in [Server -> Nat]
  BY DEF Nothing
<1>2. NoSpot \in Nat \X Nat
  BY DEF NoSpot
<1> QED  BY <1>1, <1>2 DEF NoJob, JobRow

LEMMA NoOpIs ==
  NoOp \in OpRow /\ NoOp.kind = "none" /\ NoOp.snap = {} /\ NoOp.step = "none"
<1>1. 0 \in 0..MaxOps /\ 0 \in 0..MaxAttempts
  <2>1. MaxOps \in Nat /\ MaxAttempts \in Nat
    BY ReplicasAssumption DEF Positive
  <2> QED  BY <2>1
<1>2. Declared \in Placement
  BY ReplicasAssumption
<1> QED  BY <1>1, <1>2 DEF NoOp, OpRow, Live

LEMMA Initial == Init => Inv
<1> SUFFICES ASSUME Init  PROVE Inv
  OBVIOUS
<1>1. RowsOK
  BY InitRows
<1>2. MaxOps \in Nat /\ 0 \in 0..MaxOps /\ Declared \in Placement
  BY ReplicasAssumption
<1>3. AppOK
  BY <1>2 DEF Init, AppOK, AppRow, Live
<1>4. OpOK
  BY NoOpIs DEF Init, OpOK
<1>5. HostsOK
  <2>1. \A i \in DOMAIN rows : Spot(rows[i]) \in Server \X Positive /\ rows[i].port \in Positive
    BY <1>1 DEF RowsOK, ReplicaRow, Spot
  <2>2. DOMAIN containers = {Spot(rows[i]) : i \in DOMAIN rows}
    BY DEF Init
  <2>3. ASSUME NEW x \in DOMAIN containers  PROVE containers[x] \in ContainerRow
    <3> DEFINE i == CHOOSE i \in DOMAIN rows : Spot(rows[i]) = x
    <3>1. i \in DOMAIN rows
      BY <2>2
    <3>2. containers[x] = Fresh(rows[i].port, 0)
      BY <2>2 DEF Init
    <3> HIDE DEF i
    <3> QED  BY <1>2, <2>1, <3>1, <3>2 DEF Fresh, ContainerRow
  <2>4. pool \subseteq Server \X Positive
    <3>1. pool = Upstreams(rows)
      BY DEF Init
    <3> QED  BY <1>1, <3>1, PoolKeeps
  <2> QED  BY <2>1, <2>2, <2>3, <2>4 DEF HostsOK
<1>6. ChecksOK
  <2>1. tick = "idle" /\ checks = <<>> /\ DOMAIN checks = {}
    BY DEF Init
  <2> QED  BY <2>1 DEF ChecksOK
<1>7. BoundsOK
  BY <1>2 DEF Init, BoundsOK
<1>8. job = NoJob /\ op = NoOp /\ job \in JobRow /\ job.by = "none" /\ job.pc = "none" /\ job.ids = {} /\ job.late = {}
  BY NoJobIs DEF Init, NoJob
<1>9. Work
  BY <1>8, NoOpIs DEF Work, Held, Listed, Adding, Sparing, Moves, Rolls, Verified, Resumes,
     AddPc, RemovePc, RollPc
<1> QED  BY <1>1, <1>3, <1>4, <1>5, <1>6, <1>7, <1>9 DEF Inv, World

-----------------------------------------------------------------------------
(* What a step leaves of the work of the lock's holder *)

LEMMA NextOneLeast ==
  RowsOK /\ AppOK /\ job.ids \subseteq DOMAIN rows /\ job.ids # {} /\ job.by # "converge" =>
    NextOne \in job.ids /\ \A j \in job.ids : NextOne <= j
BY NextOneIs
LEMMA NextOneLeastNext ==
  (RowsOK /\ AppOK /\ job.ids \subseteq DOMAIN rows /\ job.ids # {} /\ job.by # "converge" =>
    NextOne \in job.ids /\ \A j \in job.ids : NextOne <= j)'
BY NextOneLeast, PTL

\* A roll that does not move on has the same replica before it.
LEMMA SameNext ==
  ASSUME Inv, RowsOK', AppOK', DOMAIN rows' = DOMAIN rows, job'.ids = job.ids, job'.by = job.by,
         job.by # "converge", job.ids \subseteq DOMAIN rows, job.ids # {}
  PROVE  NextOne' = NextOne /\ NextOne \in job.ids
<1>1. NextOne \in job.ids /\ \A j \in job.ids : NextOne <= j
  BY NextOneLeast DEF Inv, World
<1>2. NextOne' \in job.ids /\ \A j \in job.ids : NextOne' <= j
  BY NextOneLeastNext
<1>3. job.ids \subseteq Int
  BY TableFinite DEF Inv, World, Positive
<1> QED  BY <1>1, <1>2, <1>3

\* A container is the one that was there, or made by a health check.
Minded == \A x \in DOMAIN containers' :
  \/ containers'[x].healed
  \/ /\ x \in DOMAIN containers
     /\ containers'[x].image = containers[x].image /\ containers'[x].healed = containers[x].healed
\* Nobody who holds the lock has the status of a row changed.
Aside == job.by # "none" =>
  \A k \in DOMAIN rows : rows'[k].status = rows[k].status /\ rows'[k].err = rows[k].err

\* A step beside the holder of the lock.
LEMMA Beside ==
  ASSUME Inv, RowsOK', SameTable, AppOK', app'.placement = app.placement,
         UNCHANGED <<op, job>>, Aside, Minded
  PROVE  Work'
<1> USE DEF Inv, World, Work
<1>1. /\ DOMAIN rows' = DOMAIN rows
      /\ \A k \in DOMAIN rows : Spot(rows'[k]) = Spot(rows[k]) /\ rows'[k].server = rows[k].server
                                /\ rows'[k].n = rows[k].n /\ rows'[k].port = rows[k].port
  BY DEF SameTable, Spot
<1>2. job.by # "none" => \A k \in DOMAIN rows : (Running(k)' <=> Running(k)) /\ rows'[k].err = rows[k].err
  BY <1>1 DEF Aside, Running
<1>3. AppOK'
  OBVIOUS
<1>4. Held'
  BY DEF Held
<1>5. Listed'
  BY <1>1 DEF Listed
<1>6. Adding'
  <2>1. job.pc = "admit" => job.by # "none"
    BY DEF Held, NoJob
  <2> QED  BY <1>1, <1>2, <2>1 DEF Adding
<1>7. Sparing'
  <2> SUFFICES ASSUME job.by = "converge"  PROVE Sparing'
    BY DEF Sparing
  <2>1. \A k \in DOMAIN rows : Running(k)' <=> Running(k)
    BY <1>2
  <2>2. job.pc \in RemovePc => job.ids \subseteq DOMAIN rows
    BY DEF Listed, RemovePc
  <2>3. job.pc \in AddPc => job.ids \subseteq DOMAIN rows /\ job.before \subseteq DOMAIN rows
    BY DEF Sparing
  <2>4. \A i \in job.late \intersect DOMAIN rows' : app'.placement[rows'[i].server] = 0
    BY <1>1 DEF Sparing
  <2>5. job'.pc \in AddPc => \A i \in job'.ids :
          \E m \in job'.before \ job'.ids : Running(i)' => Running(m)'
    BY <2>1, <2>3 DEF Sparing
  <2>6. job'.pc \in RemovePc => \A i \in job'.ids :
          \E m \in DOMAIN rows' \ job'.ids : Running(i)' => Running(m)'
    BY <1>1, <2>1, <2>2 DEF Sparing
  <2> QED  BY <1>1, <2>4, <2>5, <2>6 DEF Sparing
<1>8. Moves'
  <2> SUFFICES ASSUME job.by = "move"  PROVE Moves'
    BY DEF Moves
  <2>1. \A k \in DOMAIN rows : Running(k)' <=> Running(k)
    BY <1>2
  <2>2. job.pc \in RemovePc => job.ids \subseteq DOMAIN rows
    BY DEF Listed, RemovePc
  <2> QED  BY <1>1, <2>1, <2>2 DEF Moves
<1>9. Rolls'
  <2> SUFFICES ASSUME job.by = "redeploy", job.pc \in RollPc, Redundant'
               PROVE  Rolls'
    BY DEF Rolls
  <2>1. Redundant
    BY <1>1 DEF Redundant
  <2>2. First' = First
    BY <1>1 DEF First
  <2>3. \A i : Others(i)' <=> Others(i)
    BY <1>1, <1>2 DEF Others
  <2>4. job.ids \subseteq DOMAIN rows
    BY DEF Listed, RollPc
  <2>5. job.ids # {} => NextOne' = NextOne /\ NextOne \in DOMAIN rows
    BY <1>1, <1>3, <2>4, SameNext
  <2>6. job.pc = "in" => job.ids # {}
    BY DEF Listed
  <2> QED  BY <1>1, <1>2, <2>1, <2>2, <2>3, <2>5, <2>6 DEF Rolls, Primary
<1>10. Verified'
  BY <1>1, <1>2 DEF Verified, Minded
<1>11. Resumes'
  BY DEF Resumes
<1> QED  BY <1>4, <1>5, <1>6, <1>7, <1>8, <1>9, <1>10, <1>11

\* The lock is free.
LEMMA Freed ==
  ASSUME job' = NoJob, Resumes'
  PROVE  Work'
BY NoJobIs DEF Work, Held, Listed, Adding, Sparing, Moves, Rolls, Verified, NoJob,
   AddPc, RemovePc, RollPc

LEMMA Settled ==
  ASSUME Settle
  PROVE  Work' /\ OpOK'
<1>1. Resumes'
  BY NoOpIs DEF Settle, Resumes
<1>2. Work'
  BY <1>1, Freed DEF Settle, Release
<1> QED  BY <1>2, NoOpIs DEF Settle, OpOK

LEMMA Failed ==
  ASSUME Inv, Fail, app'.placement = app.placement \/ job.by = "redeploy"
  PROVE  Work' /\ OpOK'
<1>1. CASE job.by = "converge"
  <2>1. job' = NoJob /\ op' = op
    BY <1>1 DEF Fail, Release
  <2>2. Resumes'
    BY <1>1, <2>1 DEF Inv, Work, Resumes, NoJob
  <2> QED  BY <1>1, <2>1, <2>2, Freed DEF Inv, World, OpOK
<1>2. CASE job.by = "redeploy"
  <2>1. /\ job' = [NoJob EXCEPT !.by = "redeploy", !.pc = "undo"]
        /\ op' = [op EXCEPT !.step = "undo"]
    BY <1>2 DEF Fail
  <2>2. op.kind = "redeploy" /\ op \in OpRow
    BY <1>2 DEF Inv, World, Work, Held, OpOK
  <2>3. /\ op' \in OpRow /\ op'.kind = "redeploy" /\ op'.step = "undo" /\ op'.snap = op.snap
        /\ op'.attempt = op.attempt /\ op.attempt >= 1
    BY <1>2, <2>1, <2>2 DEF OpRow, Inv, Work, Resumes
  <2>4. /\ job' \in JobRow /\ job'.by = "redeploy" /\ job'.pc = "undo"
        /\ job'.ids = {} /\ job'.late = {}
    BY <2>1, NoJobIs DEF NoJob, JobRow
  <2>5. OpOK'
    BY <2>3 DEF Inv, World, OpOK
  <2>6. Work'
    BY <2>3, <2>4 DEF Work, Held, Listed, Adding, Sparing, Moves, Rolls, Verified, Resumes,
       AddPc, RemovePc, RollPc
  <2> QED  BY <2>5, <2>6
<1>3. CASE job.by # "converge" /\ job.by # "redeploy"
  BY <1>3, Settled DEF Fail
<1> QED  BY <1>1, <1>2, <1>3

-----------------------------------------------------------------------------
(* The steps of the tick, and of the reconciler of the ingress *)

LEMMA CheckTo ==
  ASSUME ChecksOK, NEW i \in DOMAIN checks, tick' = tick,
         NEW p \in {"probing", "probed", "restarting", "recreating", "over"},
         checks' = [checks EXCEPT ![i].pc = p]
  PROVE  ChecksOK'
<1> PICK c : c = [checks[i] EXCEPT !.pc = p]
  OBVIOUS
<1>1. checks' = [checks EXCEPT ![i] = c]
  OBVIOUS
<1>2. c \in CheckRow
  BY DEF ChecksOK, CheckRow
<1>3. tick # "idle"
  BY DEF ChecksOK
<1> QED  BY <1>1, <1>2, <1>3 DEF ChecksOK

\* A health check writes the ticks of its replica, and its status.
LEMMA TicksAre ==
  ASSUME RowsOK, NEW i \in DOMAIN rows, NEW t \in 0..2, NEW st \in RowStatus, nextId' = nextId,
         NEW r, r = [rows[i] EXCEPT !.ticks = t, !.status = st], rows' = [rows EXCEPT ![i] = r]
  PROVE  RowsOK' /\ SameTable /\ (st = rows[i].status => Aside)
<1>1. rows' = [rows EXCEPT ![i] = r]
  OBVIOUS
<1>2. rows[i] \in ReplicaRow
  BY DEF RowsOK
<1>3. /\ r \in ReplicaRow /\ r.server = rows[i].server /\ r.n = rows[i].n
      /\ r.port = rows[i].port /\ r.status = st /\ r.err = rows[i].err
  BY <1>2 DEF ReplicaRow
<1>4. SameTable
  BY <1>1, <1>3 DEF SameTable
<1>5. \A k \in DOMAIN rows : rows'[k] \in ReplicaRow
  BY <1>1, <1>3 DEF RowsOK
<1>6. RowsOK'
  BY <1>4, <1>5, SameTableKeeps
<1> QED  BY <1>1, <1>3, <1>4, <1>6 DEF Aside

LEMMA ResetTicksKeeps ==
  ASSUME RowsOK, NEW i, ResetTicks(i), nextId' = nextId
  PROVE  RowsOK' /\ SameTable /\ Aside
<1>1. CASE i \notin DOMAIN rows
  BY <1>1, SameRowsKeep DEF ResetTicks, Aside
<1>2. CASE i \in DOMAIN rows
  <2> PICK st : st = rows[i].status
    OBVIOUS
  <2>1. st \in RowStatus /\ rows[i] \in ReplicaRow
    BY <1>2 DEF RowsOK, ReplicaRow
  <2> PICK r : r = [rows[i] EXCEPT !.ticks = 0]
    OBVIOUS
  <2>2. r = [rows[i] EXCEPT !.ticks = 0, !.status = st]
    BY <2>1 DEF ReplicaRow
  <2>3. rows' = [rows EXCEPT ![i] = r]
    BY <1>2 DEF ResetTicks
  <2>4. 0 \in 0..2
    OBVIOUS
  <2> QED  BY <1>2, <2>1, <2>2, <2>3, <2>4, TicksAre
<1> QED  BY <1>1, <1>2

LEMMA TickBegins == Inv /\ TickBegin => Inv'
<1> SUFFICES ASSUME Inv, TickBegin  PROVE Inv'
  OBVIOUS
<1> USE DEF Inv, World, TickBegin
<1>1. RowsOK' /\ SameTable
  BY SameRowsKeep DEF durable
<1>2. Work'
  BY <1>1, Beside DEF durable, Aside, Minded, AppOK
<1>3. ChecksOK'
  <2>1. \A i \in DOMAIN rows : Spot(rows[i]) \in Server \X Positive /\ rows[i].port \in Positive
    BY DEF RowsOK, ReplicaRow, Spot
  <2> QED  BY <2>1 DEF ChecksOK, CheckRow
<1> QED  BY <1>1, <1>2, <1>3 DEF durable, bounds, AppOK, OpOK, HostsOK, BoundsOK

LEMMA Probes == \A i \in DOMAIN checks : Inv /\ Probe(i) => Inv'
<1> SUFFICES ASSUME NEW i \in DOMAIN checks, Inv, Probe(i)  PROVE Inv'
  OBVIOUS
<1> USE DEF Inv, World, Probe
<1>1. RowsOK' /\ SameTable
  BY SameRowsKeep DEF durable
<1>2. Work'
  BY <1>1, Beside DEF durable, Aside, Minded, AppOK
<1>3. ChecksOK'
  <2>1. CASE Over(i)
    BY <2>1, CheckTo DEF Over
  <2>2. CASE checks' = [checks EXCEPT ![i].pc = "probed", ![i].healthy = Healthy(checks[i].spot)]
    <3> PICK h : h = Healthy(checks[i].spot)
      OBVIOUS
    <3> PICK c : c = [checks[i] EXCEPT !.pc = "probed", !.healthy = h]
      OBVIOUS
    <3>1. checks' = [checks EXCEPT ![i] = c]
      BY <2>2
    <3>2. h \in BOOLEAN
      BY DEF Healthy, HostsOK, ContainerRow
    <3>3. checks[i] \in CheckRow /\ tick # "idle"
      BY DEF ChecksOK
    <3>4. c \in CheckRow
      BY <3>2, <3>3 DEF CheckRow
    <3> QED  BY <3>1, <3>3, <3>4 DEF ChecksOK
  <2> QED  BY <2>1, <2>2
<1>4. faults' \in Nat
  BY DEF Faulty, BoundsOK
<1> QED  BY <1>1, <1>2, <1>3, <1>4 DEF durable, AppOK, OpOK, HostsOK, BoundsOK

LEMMA Decides == \A i \in DOMAIN checks : Inv /\ Decide(i) => Inv'
<1> SUFFICES ASSUME NEW i \in DOMAIN checks, Inv, Decide(i)  PROVE Inv'
  OBVIOUS
<1> USE DEF Inv, World, Decide
<1>1. ChecksOK'
  BY CheckTo DEF Over
<1>2. RowsOK' /\ SameTable /\ Aside
  <2>1. CASE i \notin DOMAIN rows \/ job.by # "none"
    BY <2>1, SameRowsKeep DEF Aside
  <2>2. CASE ~(i \notin DOMAIN rows \/ job.by # "none")
    <3> PICK old : old = rows[i].status
      OBVIOUS
    <3> PICK t : t = IF rows[i].ticks = 2 THEN 2 ELSE rows[i].ticks + 1
      OBVIOUS
    <3> PICK st : st = IF rows[i].err THEN old ELSE "running"
      OBVIOUS
    <3>1. rows[i].ticks \in 0..2 /\ old \in RowStatus /\ i \in DOMAIN rows
      BY <2>2 DEF RowsOK, ReplicaRow
    <3>2. t \in 0..2 /\ st \in RowStatus
      BY <3>1 DEF RowStatus
    <3> PICK r : r = [rows[i] EXCEPT !.ticks = 0, !.status = st]
      OBVIOUS
    <3> PICK q : q = [rows[i] EXCEPT !.ticks = t, !.status = "unhealthy"]
      OBVIOUS
    <3>3. rows' = [rows EXCEPT ![i] = r] \/ rows' = [rows EXCEPT ![i] = q]
      <4>1. \/ rows' = [rows EXCEPT ![i].ticks = 0, ![i].status = st]
            \/ rows' = [rows EXCEPT ![i].ticks = t, ![i].status = "unhealthy"]
        BY <2>2
      <4> HIDE DEF Inv, World, Decide
      <4>2. [rows EXCEPT ![i].ticks = 0, ![i].status = st] = [rows EXCEPT ![i] = r]
        BY <3>1
      <4>3. [rows EXCEPT ![i].ticks = t, ![i].status = "unhealthy"] = [rows EXCEPT ![i] = q]
        BY <3>1
      <4> QED  BY <4>1, <4>2, <4>3
    <3>4. 0 \in 0..2 /\ "unhealthy" \in RowStatus
      BY DEF RowStatus
    <3>5. RowsOK' /\ SameTable
      <4>1. RowsOK /\ nextId' = nextId
        OBVIOUS
      <4> HIDE DEF Inv, World, Decide
      <4>2. CASE rows' = [rows EXCEPT ![i] = r]
        BY <3>1, <3>2, <3>4, <4>1, <4>2, TicksAre
      <4>3. CASE rows' = [rows EXCEPT ![i] = q]
        BY <3>1, <3>2, <3>4, <4>1, <4>3, TicksAre
      <4> QED  BY <3>3, <4>2, <4>3
    <3> QED  BY <2>2, <3>5 DEF Aside
  <2> QED  BY <2>1, <2>2
<1>3. Work'
  BY <1>2, Beside DEF Minded, AppOK
<1> QED  BY <1>1, <1>2, <1>3 DEF bounds, AppOK, OpOK, HostsOK, BoundsOK

LEMMA Restarts == \A i \in DOMAIN checks : Inv /\ Restart(i) => Inv'
<1> SUFFICES ASSUME NEW i \in DOMAIN checks, Inv, Restart(i)  PROVE Inv'
  OBVIOUS
<1> USE DEF Inv, World, Restart
<1> PICK spot : spot = checks[i].spot
  OBVIOUS
<1>1. ChecksOK'
  BY CheckTo DEF Over
<1>2. RowsOK' /\ SameTable /\ Aside
  BY ResetTicksKeeps, SameRowsKeep DEF Aside
<1>3. HostsOK' /\ Minded
  <2>1. CASE containers' = containers
    BY <2>1 DEF HostsOK, Minded
  <2>2. CASE spot \in DOMAIN containers /\ containers' = [containers EXCEPT ![spot].healthy = TRUE]
    <3> PICK c : c = [containers[spot] EXCEPT !.healthy = TRUE]
      OBVIOUS
    <3>1. containers' = [containers EXCEPT ![spot] = c]
      BY <2>2
    <3>2. containers[spot] \in ContainerRow
      BY <2>2 DEF HostsOK
    <3>3. c \in ContainerRow /\ c.image = containers[spot].image /\ c.healed = containers[spot].healed
      BY <3>2 DEF ContainerRow
    <3> QED  BY <2>2, <3>1, <3>3 DEF HostsOK, Minded
  <2> QED  BY <2>1, <2>2
<1>4. Work'
  BY <1>2, <1>3, Beside DEF AppOK
<1>5. faults' \in Nat
  BY DEF Faulty, BoundsOK
<1> QED  BY <1>1, <1>2, <1>3, <1>4, <1>5 DEF AppOK, OpOK, BoundsOK

LEMMA Recreates == \A i \in DOMAIN checks : Inv /\ Recreate(i) => Inv'
<1> SUFFICES ASSUME NEW i \in DOMAIN checks, Inv, Recreate(i)  PROVE Inv'
  OBVIOUS
<1> USE DEF Inv, World, Recreate
<1>1. ChecksOK'
  BY CheckTo DEF Over
<1>2. RowsOK' /\ SameTable /\ Aside
  BY ResetTicksKeeps, SameRowsKeep DEF Aside
<1>3. checks[i].spot \in Server \X Positive /\ checks[i].port \in Positive /\ app.image \in 0..MaxOps
  BY DEF ChecksOK, CheckRow, AppOK, AppRow
<1>4. ContainersOK
  BY DEF HostsOK, ContainersOK
<1>5. /\ ContainersOK' /\ faults' \in Nat
      /\ \A x \in DOMAIN containers' :
           \/ containers'[x].healed
           \/ x \in DOMAIN containers /\ containers'[x] = containers[x]
  BY <1>3, <1>4, HealKeeps
<1>6. HostsOK' /\ Minded
  BY <1>5 DEF HostsOK, ContainersOK, Minded
<1>7. Work'
  BY <1>2, <1>6, Beside DEF AppOK
<1> QED  BY <1>1, <1>2, <1>5, <1>6, <1>7 DEF AppOK, OpOK, BoundsOK

LEMMA Reconciles == Inv /\ ReconcileTraefik => Inv'
<1> SUFFICES ASSUME Inv, ReconcileTraefik  PROVE Inv'
  OBVIOUS
<1> USE DEF Inv, World, ReconcileTraefik
<1>1. RowsOK' /\ SameTable
  BY SameRowsKeep DEF durable
<1>2. Work'
  BY <1>1, Beside DEF durable, Aside, Minded, AppOK
<1>3. HostsOK'
  BY PoolKeeps DEF HostsOK
<1> QED  BY <1>1, <1>2, <1>3 DEF durable, bounds, AppOK, OpOK, BoundsOK, ChecksOK

-----------------------------------------------------------------------------
(* Who takes the lock, and who loses it *)

\* The holder of the lock is known by what he awaits.
LEMMA Whose ==
  ASSUME OpOK, Held
  PROVE  /\ job.pc \in AddPc \union RemovePc =>
              \/ job.by = "converge"
              \/ job.by = "move" /\ op.step = "move"
         /\ job.pc = "rollback" => job.by = "converge"
         /\ job.pc \in RollPc =>
              \/ job.by = "reload"
              \/ job.by = "redeploy" /\ op.step \in {"primary", "roll"}
         /\ job.pc = "confirm" => job.by = "move"
         /\ job.pc \in {"prepare", "commit", "sync", "undo"} => job.by = "redeploy" /\ op.step = job.pc
         /\ job.pc = "record" => job.by = "redeploy" /\ op.step = "commit"
         /\ job.pc = "restored" => job.by = "redeploy" /\ op.step = "undo"
         /\ job.pc \in {"verify", "inspect"} => job.by = "redeploy" /\ op.step = "verify"
         /\ job.pc = "audit" => job.by = "attest"
         /\ job.by \in {"move", "redeploy", "reload"} => op.kind = job.by
<1>1. job.by = "none" => job.pc = "none"
  BY DEF Held, NoJob
<1>2. job.by \in {"none", "converge", "attest", "move", "redeploy", "reload"}
  BY DEF Held, JobRow
<1>3. job.by = "redeploy" =>
        op.step \in {"prepare", "primary", "roll", "commit", "sync", "verify", "undo"}
  BY DEF Held, OpOK
<1> QED  BY <1>1, <1>2, <1>3 DEF Held, AddPc, RemovePc, RollPc

LEMMA MissingIs ==
  ASSUME RowsOK, AppOK
  PROVE  Missing \in [Server -> Nat] /\ (Missing # Nothing => \E s \in Server : Missing[s] > 0)
<1>1. \A s \in Server : Cardinality(On(s)) \in Nat /\ app.placement[s] \in Nat
  BY PartFinite DEF On, AppOK, AppRow, Placement
<1> HIDE DEF On
<1>2. Missing \in [Server -> Nat]
  BY <1>1 DEF Missing
<1> HIDE DEF Missing
<1>3. (\A s \in Server : Missing[s] = 0) => Missing = Nothing
  BY <1>2 DEF Nothing
<1>4. \A s \in Server : Missing[s] \in Nat
  BY <1>2
<1> QED  BY <1>2, <1>3, <1>4

\* A convergence begins: what is too many is removed, others stay.
LEMMA Converge ==
  ASSUME Inv, UNCHANGED <<rows, op>>, app'.placement = app.placement, job.by = "none",
         job' = Converging
  PROVE  Work'
<1> USE DEF Inv, World
<1>1. Missing \in [Server -> Nat] /\ (Missing # Nothing => \E s \in Server : Missing[s] > 0)
  BY MissingIs
<1>2. DOMAIN rows \in SUBSET Positive /\ DOMAIN rows # {}
  BY TableFinite DEF RowsOK
<1>3. /\ Surplus \subseteq DOMAIN rows /\ Unplaced \subseteq DOMAIN rows
      /\ Surplus \intersect Unplaced = {}
      /\ \A i \in Unplaced : app.placement[rows[i].server] = 0
  <2>1. \A i \in Surplus : app.placement[rows[i].server] > 0 /\ rows[i].server \in Server
    BY DEF Surplus, TooMany, RowsOK, ReplicaRow
  <2>2. \A s \in Server : app.placement[s] \in Nat
    BY DEF AppOK, AppRow, Placement
  <2> QED  BY <2>1, <2>2 DEF Surplus, Unplaced
<1>4. \A i \in Surplus : \E m \in DOMAIN rows \ Surplus : Running(i) => Running(m)
  BY SurplusLeaves
<1>5. \A k : Running(k)' <=> Running(k)
  BY DEF Running
<1> HIDE DEF Surplus, Unplaced, Missing
<1>6. /\ job' \in JobRow /\ job'.by = "converge" /\ job'.before = DOMAIN rows
      /\ job'.adds = Missing /\ job'.ids = Surplus /\ job'.late = Unplaced
      /\ job'.pc = IF Missing # Nothing THEN "start" ELSE "drain"
  <2> PICK p : p = IF Missing # Nothing THEN "start" ELSE "drain"
    OBVIOUS
  <2>1. job' = [NoJob EXCEPT !.by = "converge", !.before = DOMAIN rows, !.adds = Missing,
                             !.ids = Surplus, !.late = Unplaced, !.pc = p]
    BY DEF Converging
  <2>2. p \in AddPc \union RemovePc
    BY DEF AddPc, RemovePc
  <2>3. Surplus \in SUBSET Positive /\ Unplaced \in SUBSET Positive
    BY <1>2, <1>3
  <2>4. NoJob \in JobRow
    BY NoJobIs
  <2> HIDE DEF Inv, World
  <2> QED  BY <1>1, <1>2, <2>1, <2>2, <2>3, <2>4, ZenonT(60) DEF JobRow
<1>7. job'.pc \in {"start", "drain"}
  BY <1>6
<1>8. Held'
  BY <1>6, <1>7 DEF Held, AddPc, RemovePc
<1>9. Listed'
  BY <1>3, <1>6, <1>7 DEF Listed
<1>10. Adding'
  BY <1>1, <1>6, <1>7 DEF Adding, AddPc
<1>11. Sparing'
  BY <1>2, <1>3, <1>4, <1>5, <1>6, <1>7 DEF Sparing
<1>12. Moves' /\ Rolls' /\ Verified'
  BY <1>6 DEF Moves, Rolls, Verified
<1>13. Resumes'
  BY <1>6 DEF Work, Resumes
<1> QED  BY <1>8, <1>9, <1>10, <1>11, <1>12, <1>13 DEF Work

LEMMA Propagates == Inv /\ Propagate => Inv'
<1> SUFFICES ASSUME Inv, Propagate  PROVE Inv'
  OBVIOUS
<1> USE DEF Inv, World, Propagate
<1>1. RowsOK' /\ SameTable
  BY SameRowsKeep
<1>2. AppOK' /\ app'.placement = app.placement
  <2> PICK st : st = IF AllHealthy THEN "running" ELSE "unhealthy"
    OBVIOUS
  <2>1. app' = app \/ app' = [app EXCEPT !.status = st]
    OBVIOUS
  <2>2. st \in Live
    BY DEF Live
  <2> HIDE DEF Propagate
  <2> QED  BY <2>1, <2>2 DEF AppOK, AppRow
<1>3. Work'
  <2>1. CASE job' = job
    BY <1>1, <1>2, <2>1, Beside DEF Aside, Minded
  <2>2. CASE job.by = "none" /\ job' = Converging
    BY <1>2, <2>2, Converge
  <2> QED  BY <2>1, <2>2
<1>4. OpOK'
  BY <1>2 DEF OpOK
<1>5. ChecksOK'
  BY DEF ChecksOK
<1> QED  BY <1>1, <1>2, <1>3, <1>4, <1>5 DEF bounds, HostsOK, BoundsOK

LEMMA Submits == Inv /\ Submit => Inv'
<1> SUFFICES ASSUME Inv, Submit  PROVE Inv'
  OBVIOUS
<1> USE DEF Inv, World, Submit
<1>1. RowsOK' /\ SameTable
  BY SameRowsKeep
<1>2. opsDone' \in 0..MaxOps /\ opsDone' \in Nat
  <2>1. MaxOps \in Nat
    BY ReplicasAssumption
  <2>2. opsDone \in 0..MaxOps /\ opsDone < MaxOps /\ opsDone' = opsDone + 1
    BY DEF BoundsOK
  <2> HIDE DEF Inv, World, Submit
  <2> QED  BY <2>1, <2>2
<1>3. NoOp \in OpRow /\ NoOp.snap = {} /\ NoOp.kind = "none"
  BY NoOpIs
<1>4. OpOK' /\ op'.kind \in {"move", "redeploy", "reload"}
      /\ (op'.kind = "redeploy" => op'.step = "prepare")
  <2>1. CASE \E a \in Server, b \in Server :
               /\ app.placement[a] > 0 /\ a # b
               /\ op' = [NoOp EXCEPT !.kind = "move", !.step = "move", !.from = a, !.to = b]
    <3> PICK a \in Server, b \in Server :
               /\ app.placement[a] > 0 /\ a # b
               /\ op' = [NoOp EXCEPT !.kind = "move", !.step = "move", !.from = a, !.to = b]
      BY <2>1
    <3>1. a \in Nat /\ b \in Nat
      BY ServersAre
    <3>2. /\ op' \in OpRow /\ op'.kind = "move" /\ op'.step = "move"
          /\ op'.from = a /\ op'.to = b /\ op'.snap = {}
      BY <1>3, <3>1 DEF OpRow
    <3> QED  BY <3>2 DEF OpOK
  <2>2. CASE \E declared \in Placements : op' = [NoOp EXCEPT !.kind = "redeploy",
               !.step = "prepare", !.image = opsDone', !.placement = declared]
    <3> PICK declared \in Placements : op' = [NoOp EXCEPT !.kind = "redeploy",
               !.step = "prepare", !.image = opsDone', !.placement = declared]
      BY <2>2
    <3>1. declared \in Placement
      BY ReplicasAssumption
    <3>2. op' \in OpRow /\ op'.kind = "redeploy" /\ op'.step = "prepare" /\ op'.snap = {}
      BY <1>2, <1>3, <3>1 DEF OpRow
    <3> QED  BY <3>2 DEF OpOK
  <2>3. CASE op' = [NoOp EXCEPT !.kind = "reload", !.step = "reload"]
    <3>1. op' \in OpRow /\ op'.kind = "reload" /\ op'.step = "reload" /\ op'.snap = {}
      BY <1>3, <2>3 DEF OpRow
    <3> QED  BY <3>1 DEF OpOK
  <2> QED  BY <2>1, <2>2, <2>3
<1>5. job.by \in {"none", "converge", "attest"}
  BY <1>3 DEF Work, Held
<1>6. Held'
  BY <1>4, <1>5 DEF Work, Held
<1>7. Listed' /\ Adding' /\ Sparing'
  <2>1. \A k : Running(k)' <=> Running(k)
    BY DEF Running
  <2> QED  BY <2>1, ZenonT(60) DEF Work, Listed, Adding, Sparing
<1>8. Moves' /\ Rolls' /\ Verified' /\ Resumes'
  BY <1>4, <1>5 DEF Moves, Rolls, Verified, Resumes
<1>9. BoundsOK'
  BY <1>2 DEF BoundsOK
<1> QED  BY <1>1, <1>4, <1>6, <1>7, <1>8, <1>9 DEF Work, AppOK, HostsOK, ChecksOK

LEMMA Crashes == Inv /\ Crash => Inv'
<1> SUFFICES ASSUME Inv, Crash  PROVE Inv'
  OBVIOUS
<1> USE DEF Inv, World, Crash
<1>1. RowsOK'
  BY SameRowsKeep DEF durable
<1>2. OpOK' /\ Resumes' /\ AppOK'
  BY DEF durable, AppOK, OpOK, Resumes, Work, NoJob
<1>3. Work'
  BY <1>2, Freed
<1>4. ContainersOK'
  <2>1. ContainersOK
    BY DEF HostsOK, ContainersOK
  <2> QED  BY <2>1, OrphanedKeeps
<1> QED  BY <1>1, <1>2, <1>3, <1>4 DEF HostsOK, ContainersOK, ChecksOK, BoundsOK

-----------------------------------------------------------------------------
(* The steps of an operation begin *)

InPlace == {"primary", "roll", "reload"}
Steps == InPlace \union {"verify", "confirm", "prepare", "commit", "sync", "undo"}

\* The replicas that a step takes, one after the other.
Takes(step) == CASE step = "primary" -> {First}
                 [] step = "roll" -> (IF Redundant THEN DOMAIN rows ELSE {})
                 [] step \in {"reload", "verify"} -> DOMAIN rows
                 [] OTHER -> {}
Awaits(step) == IF step \in InPlace THEN "out" ELSE step

LEMMA StepJobIs ==
  ASSUME OpOK, RowsOK, op.kind # "none", NEW step \in Steps, NEW j, j = StepJob(step)
  PROVE  /\ j \in JobRow /\ j.by = op.kind /\ j.late = {} /\ j.id = 0 /\ j.adds = Nothing
         /\ j.ids = Takes(step) /\ j.pc = Awaits(step)
<1> PICK k : k = [NoJob EXCEPT !.by = op.kind]
  OBVIOUS
<1>1. op.kind \in {"move", "redeploy", "reload"}
  BY DEF OpOK, OpRow
<1>2. k \in JobRow /\ k.by = op.kind /\ k.late = {} /\ k.id = 0 /\ k.ids = {} /\ k.adds = Nothing
  BY <1>1, NoJobIs DEF JobRow, NoJob
<1>3. DOMAIN rows \in SUBSET Positive /\ {First} \in SUBSET Positive
  BY TableFinite
<1>4. CASE step = "primary"
  <2>1. j = [k EXCEPT !.pc = "out", !.ids = {First}]
    BY <1>4 DEF StepJob
  <2> QED  BY <1>2, <1>3, <1>4, <2>1, ZenonT(60) DEF JobRow, RollPc, InPlace, Takes, Awaits
<1>5. CASE step = "roll"
  <2> PICK I : I = IF Redundant THEN DOMAIN rows ELSE {}
    OBVIOUS
  <2>1. j = [k EXCEPT !.pc = "out", !.ids = I]
    BY <1>5 DEF StepJob
  <2>2. I \in SUBSET Positive
    BY <1>3
  <2> QED  BY <1>2, <1>5, <2>1, <2>2, ZenonT(60) DEF JobRow, RollPc, InPlace, Takes, Awaits
<1>6. CASE step = "reload"
  <2>1. j = [k EXCEPT !.pc = "out", !.ids = DOMAIN rows]
    BY <1>6 DEF StepJob
  <2> QED  BY <1>2, <1>3, <1>6, <2>1, ZenonT(60) DEF JobRow, RollPc, InPlace, Takes, Awaits
<1>7. CASE step = "verify"
  <2>1. j = [k EXCEPT !.pc = "verify", !.ids = DOMAIN rows]
    BY <1>7 DEF StepJob
  <2> QED  BY <1>2, <1>3, <1>7, <2>1, ZenonT(60) DEF JobRow, InPlace, Takes, Awaits
<1>8. CASE step \in {"confirm", "prepare", "commit", "sync", "undo"}
  <2>1. j = [k EXCEPT !.pc = step]
    BY <1>8 DEF StepJob
  <2> QED  BY <1>2, <1>8, <2>1, ZenonT(60) DEF JobRow, InPlace, Takes, Awaits
<1> QED  BY <1>4, <1>5, <1>6, <1>7, <1>8 DEF Steps, InPlace

\* A step other than the first of a move; the roll begins next to a replica that runs.
LEMMA StepBegins ==
  ASSUME RowsOK, OpOK, OpOK', UNCHANGED rows, nextId' = nextId, op.kind # "none", op'.kind = op.kind,
         NEW step \in Steps, op'.step = step, job' = StepJob(step),
         step = "roll" /\ Redundant => op'.attempt # 1 \/ Others(First),
         op.kind = "redeploy" => op'.attempt >= 1, AppOK'
  PROVE  Work'
<1>1. /\ job' \in JobRow /\ job'.by = op.kind /\ job'.late = {} /\ job'.id = 0 /\ job'.adds = Nothing
      /\ job'.ids = Takes(step) /\ job'.pc = Awaits(step)
  <2> PICK j : j = StepJob(step)
    OBVIOUS
  <2>1. /\ j \in JobRow /\ j.by = op.kind /\ j.late = {} /\ j.id = 0 /\ j.adds = Nothing
        /\ j.ids = Takes(step) /\ j.pc = Awaits(step)
    BY StepJobIs
  <2>2. job' = j
    OBVIOUS
  <2> QED  BY <2>1, <2>2
<1>2. /\ op.kind \in {"move", "redeploy", "reload"}
      /\ op.kind = "move" => step = "confirm"
      /\ op.kind = "redeploy" =>
           step \in {"prepare", "primary", "roll", "commit", "sync", "verify", "undo"}
      /\ op.kind = "reload" => step = "reload"
  BY DEF OpOK, OpRow, Steps, InPlace
<1>3. First \in DOMAIN rows /\ DOMAIN rows # {} /\ \A i \in DOMAIN rows : First <= i
  BY TableFinite DEF RowsOK
<1>4. job'.ids \subseteq DOMAIN rows'
  BY <1>1, <1>3 DEF Takes
<1>5. Held'
  BY <1>1, <1>2 DEF Held, RollPc, InPlace, Awaits
<1>6. Listed'
  BY <1>1, <1>4 DEF Listed, Steps, InPlace, Awaits
<1>7. Adding'
  BY <1>1 DEF Adding, AddPc, Steps, InPlace, Awaits
<1>8. Sparing' /\ Resumes'
  <2>1. Sparing'
    BY <1>1, <1>2 DEF Sparing
  <2>2. Resumes'
    BY <1>1 DEF Resumes
  <2> QED  BY <2>1, <2>2
<1>9. Moves'
  <2>1. \A s \in Server : job'.adds[s] = 0
    BY <1>1 DEF Nothing
  <2> QED  BY <1>1, <1>2, <2>1 DEF Moves, RemovePc, InPlace, Awaits
<1>10. Verified'
  <2>1. job'.pc \in {"verify", "inspect"} => job'.ids = DOMAIN rows'
    BY <1>1 DEF Steps, InPlace, Takes, Awaits
  <2> QED  BY <2>1 DEF Verified
<1>11. Rolls'
  <2> SUFFICES ASSUME job'.by = "redeploy", job'.pc \in RollPc, Redundant'
               PROVE  Rolls'
    BY DEF Rolls
  <2>1. op'.step \in {"primary", "roll"} /\ job'.pc = "out" /\ Redundant
    BY <1>1, <1>2 DEF RollPc, InPlace, Redundant, Awaits
  <2>2. CASE op'.step = "primary"
    <3>1. job'.ids = {First} /\ First' = First
      BY <1>1, <2>2 DEF First, Takes
    <3> QED  BY <2>1, <2>2, <3>1 DEF Rolls, Primary
  <2>3. CASE op'.step = "roll"
    <3>1. job'.ids = DOMAIN rows' /\ job'.by # "converge"
      BY <1>1, <2>1, <2>3 DEF Takes
    <3>2. RowsOK'
      BY SameRowsKeep
    <3>3. NextOne' \in DOMAIN rows /\ \A j \in DOMAIN rows : NextOne' <= j
      BY <1>3, <3>1, <3>2, NextOneLeastNext
    <3>4. NextOne' = First
      BY <1>3, <3>3, TableFinite DEF Positive
    <3>5. Others(First) => Others(First)'
      BY DEF Others, Running, First
    <3>6. First' = First
      BY DEF First
    <3>7. op'.attempt = 1 => Others(NextOne)'
      BY <2>1, <2>3, <3>4, <3>5, <3>6
    <3> QED  BY <2>1, <2>3, <3>7 DEF Rolls, Primary
  <2> QED  BY <2>1, <2>2, <2>3
<1> QED  BY <1>5, <1>6, <1>7, <1>8, <1>9, <1>10, <1>11 DEF Work

\* The move of all that an app declares for a server, to another one.
LEMMA MovedIs ==
  ASSUME AppOK, OpOK, op.kind = "move"
  PROVE  /\ Moved \in Placement
         /\ op.step = "move" => Moved[op.to] > 0
<1>1. op.from \in Server /\ op.to \in Server /\ op.from # op.to
  BY DEF OpOK
<1>2. app.placement \in [Server -> Nat] /\ \E s \in Server : app.placement[s] > 0
  BY DEF AppOK, AppRow, Placement
<1>3. Moved = [s \in Server |-> CASE s = op.to -> app.placement[s] + app.placement[op.from]
                                 [] s = op.from -> 0
                                 [] OTHER -> app.placement[s]]
  BY <1>1, <1>2 DEF Moved
<1>4. \A s \in Server : app.placement[s] \in Nat
  BY <1>2
<1>5. /\ Moved[op.to] = app.placement[op.to] + app.placement[op.from]
      /\ \A s \in Server \ {op.to, op.from} : Moved[s] = app.placement[s]
      /\ Moved[op.from] = 0 /\ DOMAIN Moved = Server
  BY <1>1, <1>3
<1>6. Moved \in [Server -> Nat]
  BY <1>1, <1>3, <1>4
<1> HIDE DEF Moved
<1>7. PICK s \in Server : app.placement[s] > 0
  BY <1>2
<1>8. \E t \in Server : Moved[t] > 0
  BY <1>1, <1>4, <1>5, <1>7
<1>9. op.step = "move" => Moved[op.to] > 0
  BY <1>1, <1>4, <1>5 DEF OpOK
<1> QED  BY <1>6, <1>8, <1>9 DEF Placement

\* Removal begins: a move takes what is on the source, a convergence has its plan.
LEMMA MoveBegins ==
  ASSUME RowsOK, AppOK, OpOK, UNCHANGED rows, op.kind = "move", op.step = "move",
         op'.kind = "move", op'.step = "move", op'.from = op.from, op'.to = op.to,
         job' = StepJob("move")
  PROVE  Work'
<1> PICK k : k = [NoJob EXCEPT !.by = op.kind]
  OBVIOUS
<1>1. /\ k \in JobRow /\ k.by = "move" /\ k.late = {} /\ k.id = 0 /\ k.ids = {} /\ k.adds = Nothing
  BY NoJobIs DEF JobRow, NoJob
<1> PICK lacking : lacking = Moved[op.to] - Cardinality(On(op.to))
  OBVIOUS
<1>2. op.from \in Server /\ op.to \in Server /\ op.from # op.to
  BY DEF OpOK
<1>3. Moved[op.to] \in Nat /\ Moved[op.to] > 0
  <2> HIDE DEF Moved
  <2> QED  BY <1>2, MovedIs DEF Placement
<1>4. On(op.to) \in SUBSET DOMAIN rows /\ On(op.from) \in SUBSET DOMAIN rows
  BY DEF On
<1>5. Cardinality(On(op.to)) \in Nat /\ IsFiniteSet(On(op.to)) /\ DOMAIN rows \subseteq Positive
  <2> HIDE DEF On
  <2> QED  BY <1>4, PartFinite, TableFinite
<1>6. CASE lacking > 0
  <2> PICK a : a = [Nothing EXCEPT ![op.to] = lacking]
    OBVIOUS
  <2>1. job' = [k EXCEPT !.pc = "start", !.adds = a]
    BY <1>1, <1>6 DEF StepJob
  <2>2. lacking \in Nat
    <3> HIDE DEF On, Moved
    <3> QED  BY <1>3, <1>5, <1>6
  <2>3. a \in [Server -> Nat] /\ a[op.to] = lacking /\ \A s \in Server \ {op.to} : a[s] = 0
    BY <1>2, <2>2 DEF Nothing
  <2>4. /\ job' \in JobRow /\ job'.by = "move" /\ job'.pc = "start" /\ job'.late = {}
        /\ job'.id = 0 /\ job'.ids = {} /\ job'.adds = a
    BY <1>1, <2>1, <2>3, ZenonT(60) DEF JobRow, AddPc
  <2> HIDE DEF On, Moved
  <2>5. Held' /\ Listed'
    BY <2>4 DEF Held, Listed, AddPc
  <2>6. Adding'
    <3>1. \E s \in Server : job'.adds[s] > 0
      <4>1. a[op.to] > 0
        BY <1>6, <2>3
      <4> QED  BY <1>2, <2>4, <4>1
    <3> QED  BY <2>4, <3>1 DEF Adding, AddPc
  <2>7. Moves'
    <3>1. \A s \in Server : job'.adds[s] > 0 => s = op'.to
      <4>1. \A s \in Server \ {op.to} : ~(a[s] > 0)
        BY <2>3
      <4>2. job'.adds = a /\ op'.to = op.to
        BY <2>4
      <4> QED  BY <4>1, <4>2
    <3> QED  BY <2>4, <3>1 DEF Moves, RemovePc
  <2>8. Sparing' /\ Rolls' /\ Verified' /\ Resumes'
    BY <2>4 DEF Sparing, Rolls, Verified, Resumes
  <2> QED  BY <2>5, <2>6, <2>7, <2>8 DEF Work
<1>7. CASE ~(lacking > 0)
  <2>1. job' = [k EXCEPT !.pc = "drain", !.adds = Nothing, !.ids = On(op.from)]
    BY <1>1, <1>7 DEF StepJob, Removing
  <2>2. \A i \in On(op.from) : i \in DOMAIN rows /\ rows[i].server = op.from
    BY DEF On
  <2>3. On(op.to) # {}
    <3> HIDE DEF On, Moved
    <3> SUFFICES ASSUME On(op.to) = {}  PROVE FALSE
      OBVIOUS
    <3>1. Cardinality(On(op.to)) = 0
      BY FS_EmptySet
    <3> QED  BY <1>3, <1>7, <3>1
  <2>4. \E m \in DOMAIN rows : rows[m].server = op.to
    BY <2>3 DEF On
  <2> HIDE DEF On, Moved
  <2>5. On(op.from) \in SUBSET Positive /\ Nothing \in [Server -> Nat]
    BY <1>4, <1>5 DEF Nothing
  <2>6. /\ job' \in JobRow /\ job'.by = "move" /\ job'.pc = "drain" /\ job'.late = {}
        /\ job'.id = 0 /\ job'.ids = On(op.from) /\ job'.adds = Nothing
    BY <1>1, <2>1, <2>5, ZenonT(60) DEF JobRow, RemovePc
  <2>7. Held' /\ Listed'
    BY <2>2, <2>6 DEF Held, Listed, RemovePc
  <2>8. Adding'
    BY <2>6 DEF Adding, AddPc
  <2>9. Moves'
    <3>1. \A s \in Server : Nothing[s] = 0
      BY DEF Nothing
    <3> QED  BY <2>2, <2>4, <2>6, <3>1 DEF Moves
  <2>10. Sparing' /\ Rolls' /\ Verified' /\ Resumes'
    BY <2>6 DEF Sparing, Rolls, Verified, Resumes
  <2> QED  BY <2>7, <2>8, <2>9, <2>10 DEF Work
<1> QED  BY <1>6, <1>7

LEMMA Begins == Inv /\ Begin => Inv'
<1> SUFFICES ASSUME Inv, Begin  PROVE Inv'
  OBVIOUS
<1> PICK n : n = IF op.attempt < MaxAttempts THEN op.attempt + 1 ELSE op.attempt
  OBVIOUS
<1>1. /\ op # NoOp /\ job = NoJob
      /\ \/ op' = NoOp /\ UNCHANGED job
         \/ op' = [op EXCEPT !.attempt = n] /\ job' = StepJob(op.step)
      /\ UNCHANGED <<app, rows, nextId, containers, pool, checks, tick, opsDone, faults, crashes>>
  BY DEF Begin, bounds
<1>2. RowsOK /\ AppOK /\ OpOK /\ HostsOK /\ ChecksOK /\ BoundsOK /\ Resumes
  BY DEF Inv, World, Work
<1>3. RowsOK' /\ AppOK' /\ HostsOK' /\ ChecksOK' /\ BoundsOK'
  BY <1>1, <1>2, SameRowsKeep DEF AppOK, HostsOK, ChecksOK, BoundsOK
<1>4. CASE op' = NoOp /\ UNCHANGED job
  <2>1. Settle
    BY <1>1, <1>4 DEF Settle, Release
  <2> QED  BY <1>3, <2>1, Settled DEF Inv, World
<1>5. CASE op' = [op EXCEPT !.attempt = n] /\ job' = StepJob(op.step)
  <2>1. op.kind # "none" /\ op \in OpRow
    BY <1>1, <1>2 DEF OpOK
  <2>2. n \in 0..MaxAttempts /\ n >= 1 /\ (op.attempt >= 1 => n # 1)
    <3>1. op.attempt \in 0..MaxAttempts /\ MaxAttempts \in Nat /\ MaxAttempts > 1
      BY <2>1, ReplicasAssumption DEF OpRow, Positive
    <3> QED  BY <3>1
  <2>3. /\ op' \in OpRow /\ op'.kind = op.kind /\ op'.step = op.step /\ op'.from = op.from
        /\ op'.to = op.to /\ op'.snap = op.snap /\ op'.attempt = n
    BY <1>5, <2>1, <2>2 DEF OpRow
  <2>4. OpOK'
    BY <1>1, <1>2, <2>1, <2>3 DEF OpOK
  <2>5. CASE op.step = "move"
    <3>1. op.kind = "move"
      BY <1>2, <2>1, <2>5 DEF OpOK, OpRow
    <3>2. Work'
      BY <1>1, <1>2, <1>5, <2>3, <2>5, <3>1, MoveBegins
    <3> QED  BY <1>3, <2>4, <3>2 DEF Inv, World
  <2>6. CASE op.step # "move"
    <3> PICK step : step = op.step
      OBVIOUS
    <3>1. step \in Steps
      BY <1>2, <2>1, <2>6 DEF OpOK, OpRow, Steps, InPlace
    <3>2. step = "roll" => n # 1
      BY <1>2, <2>1, <2>2 DEF Resumes, OpOK, OpRow
    <3>3. Work'
      BY <1>1, <1>2, <1>3, <1>5, <2>1, <2>2, <2>3, <2>4, <3>1, <3>2, StepBegins
    <3> QED  BY <1>3, <2>4, <3>3 DEF Inv, World
  <2> QED  BY <2>5, <2>6
<1> QED  BY <1>1, <1>4, <1>5

-----------------------------------------------------------------------------
(* A convergence or a move adds replicas *)

\* Who adds or removes replicas is no redeploy, and the operation stays as it is.
LEMMA Elsewhere ==
  ASSUME Inv, job.pc \in AddPc \union RemovePc \union {"rollback"}, op' = op, job'.by = job.by
  PROVE  Rolls' /\ Verified' /\ Resumes'
<1>1. job.by # "redeploy"
  BY Whose DEF Inv, World, Work
<1> QED  BY <1>1 DEF Inv, Work, Rolls, Verified, Resumes

LEMMA StartsOne == Inv /\ StartReplica => Inv'
<1> SUFFICES ASSUME Inv, StartReplica  PROVE Inv'
  OBVIOUS
<1> DEFINE wanting == {t \in Server : job.adds[t] > 0}
<1> PICK s : s = Min(wanting)
  OBVIOUS
<1> PICK number : number = NextNumber
  OBVIOUS
<1> PICK port : port = NextPort(s)
  OBVIOUS
<1> PICK spot : spot = <<s, number>>
  OBVIOUS
<1>1. /\ job.pc = "start" /\ UNCHANGED <<app, rows, nextId, op, pool, checks, tick, opsDone, crashes>>
      /\ \/ /\ Starts(spot, port, app.image) \/ StartsIll(spot, port, app.image)
            /\ job' = [job EXCEPT !.pc = "insert", !.spot = spot, !.port = port]
         \/ /\ StartFails(spot, port, app.image)
            /\ job' = [job EXCEPT !.pc = "cleanup", !.spot = spot, !.id = 0]
  BY DEF StartReplica, durable
<1>2. RowsOK /\ AppOK /\ OpOK /\ HostsOK /\ ChecksOK /\ BoundsOK /\ Held /\ Listed /\ Adding
      /\ Sparing /\ Moves
  BY DEF Inv, World, Work
<1>3. RowsOK' /\ SameTable
  BY <1>1, <1>2, SameRowsKeep
<1>4. s \in Server /\ job.adds[s] > 0
  <2>1. wanting # {}
    BY <1>1, <1>2 DEF Adding, AddPc
  <2>2. IsFiniteSet(Server)
    BY ServersAre, FS_Interval DEF Server
  <2>3. wanting \in SUBSET Server /\ IsFiniteSet(wanting)
    <3>1. wanting \in SUBSET Server
      OBVIOUS
    <3> HIDE DEF wanting
    <3> QED  BY <2>2, <3>1, FS_Subset
  <2>4. s \in wanting
    <3> HIDE DEF wanting
    <3> QED  BY <2>1, <2>3, ServersAre, MinIs
  <2> QED  BY <2>4
<1> HIDE DEF wanting
<1>5. number \in Positive /\ \A i \in DOMAIN rows : rows[i].n # number
  BY <1>2, NextNumberIs
<1>6. port \in Positive /\ \A i \in DOMAIN rows : rows[i].server = s => rows[i].port # port
  BY <1>2, <1>4, NextPortIs
<1>7. spot \in Server \X Positive /\ spot \in Nat \X Nat /\ spot[1] = s /\ spot[2] = number /\ port \in Nat
  BY <1>4, <1>5, <1>6, ServersAre DEF Positive
<1>8. ContainersOK' /\ faults' \in Nat
  <2>1. app.image \in 0..MaxOps
    BY <1>2 DEF AppOK, AppRow
  <2>2. ContainersOK
    BY <1>2 DEF HostsOK, ContainersOK
  <2> QED  BY <1>1, <1>2, <1>6, <1>7, <2>1, <2>2, StartKeeps
<1>9. World'
  BY <1>1, <1>2, <1>3, <1>8
     DEF World, AppOK, OpOK, HostsOK, ContainersOK, ChecksOK, BoundsOK
<1>10. \A k : Running(k)' <=> Running(k)
  BY <1>1 DEF Running
<1>11. job.by \in {"converge", "move"} /\ (job.by = "move" => op.step = "move")
  BY <1>1, <1>2, Whose DEF AddPc
<1>12. CASE job' = [job EXCEPT !.pc = "insert", !.spot = spot, !.port = port]
  <2>1. /\ job' \in JobRow /\ job'.by = job.by /\ job'.pc = "insert" /\ job'.spot = spot
        /\ job'.port = port /\ job'.ids = job.ids /\ job'.late = job.late /\ job'.id = job.id
        /\ job'.adds = job.adds /\ job'.before = job.before
    BY <1>2, <1>7, <1>12, ZenonT(60) DEF Held, JobRow, AddPc
  <2>2. Held'
    BY <1>1, <1>2, <1>11, <2>1 DEF Held, AddPc
  <2>3. Listed'
    BY <1>1, <1>2, <2>1 DEF Listed
  <2>4. Adding'
    BY <1>1, <1>2, <1>4, <1>5, <1>6, <1>7, <2>1 DEF Adding, AddPc
  <2>5. Sparing'
    BY <1>1, <1>2, <1>10, <2>1 DEF Sparing, AddPc, RemovePc
  <2>6. Moves'
    BY <1>1, <1>2, <1>10, <2>1 DEF Moves, AddPc, RemovePc
  <2> QED  BY <1>1, <1>9, <2>1, <2>2, <2>3, <2>4, <2>5, <2>6, Elsewhere DEF Inv, Work, AddPc
<1>13. CASE job' = [job EXCEPT !.pc = "cleanup", !.spot = spot, !.id = 0]
  <2>1. /\ job' \in JobRow /\ job'.by = job.by /\ job'.pc = "cleanup" /\ job'.spot = spot
        /\ job'.ids = job.ids /\ job'.late = job.late /\ job'.id = 0
        /\ job'.adds = job.adds /\ job'.before = job.before
    BY <1>2, <1>7, <1>13 DEF Held, JobRow, AddPc
  <2>2. Held'
    BY <1>1, <1>2, <1>11, <2>1 DEF Held, AddPc
  <2>3. Listed'
    BY <1>1, <1>2, <2>1 DEF Listed
  <2>4. DOMAIN rows # {} /\ DOMAIN rows \subseteq Positive
    BY <1>2, TableFinite DEF RowsOK
  <2>5. Adding'
    BY <1>1, <1>7, <2>1, <2>4 DEF Adding, AddPc, Positive
  <2>6. Sparing'
    BY <1>1, <1>2, <1>10, <2>1, <2>4 DEF Sparing, AddPc, RemovePc, Positive
  <2>7. Moves'
    BY <1>1, <1>2, <2>1 DEF Moves, AddPc, RemovePc
  <2> QED  BY <1>1, <1>9, <2>1, <2>2, <2>3, <2>5, <2>6, <2>7, Elsewhere DEF Inv, Work, AddPc
<1> QED  BY <1>1, <1>12, <1>13

LEMMA InsertsOne == Inv /\ InsertReplica => Inv'
<1> SUFFICES ASSUME Inv, InsertReplica  PROVE Inv'
  OBVIOUS
<1> PICK r : r = [server |-> job.spot[1], n |-> job.spot[2], port |-> job.port,
       ticks |-> 0, err |-> FALSE, status |-> IF Healthy(job.spot) THEN "attesting" ELSE "unhealthy"]
  OBVIOUS
<1> PICK p : p = IF Healthy(job.spot) THEN "attest" ELSE "cleanup"
  OBVIOUS
<1>1. /\ job.pc = "insert" /\ UNCHANGED <<app, op, containers, pool, checks, tick, opsDone, faults, crashes>>
      /\ rows' = With(rows, nextId, r) /\ nextId' = nextId + 1
      /\ job' = [job EXCEPT !.id = nextId, !.pc = p]
  BY DEF InsertReplica, bounds
<1>2. RowsOK /\ AppOK /\ OpOK /\ HostsOK /\ ChecksOK /\ BoundsOK /\ Held /\ Listed /\ Adding
      /\ Sparing /\ Moves
  BY DEF Inv, World, Work
<1>3. /\ job.spot \in Server \X Positive /\ job.port \in Positive /\ job.adds[job.spot[1]] > 0
      /\ \A i \in DOMAIN rows : /\ rows[i].n # job.spot[2]
                                /\ rows[i].server = job.spot[1] => rows[i].port # job.port
  BY <1>1, <1>2 DEF Adding
<1>4. r \in ReplicaRow /\ r.server = job.spot[1] /\ r.n = job.spot[2] /\ r.port = job.port
  BY <1>3 DEF ReplicaRow, RowStatus
<1>5. p \in {"attest", "cleanup"}
  OBVIOUS
<1>6. nextId \in Positive /\ nextId \notin DOMAIN rows /\ DOMAIN rows # {} /\ DOMAIN rows \subseteq Positive
  <2>1. nextId \in Positive /\ DOMAIN rows \subseteq 1..(nextId - 1) /\ DOMAIN rows # {}
    BY <1>2 DEF RowsOK
  <2>2. nextId \notin DOMAIN rows
    BY <2>1 DEF Positive
  <2> QED  BY <1>2, <2>1, <2>2, TableFinite
<1>7. DOMAIN rows' = DOMAIN rows \union {nextId} /\ rows'[nextId] = r
      /\ \A i \in DOMAIN rows : rows'[i] = rows[i]
  BY <1>1, <1>6 DEF With
<1>8. RowsOK'
  <2>1. nextId' \in Positive /\ DOMAIN rows' \subseteq 1..(nextId' - 1)
    <3>1. nextId \in Nat /\ nextId >= 1 /\ nextId' = nextId + 1 /\ DOMAIN rows \subseteq 1..(nextId - 1)
      BY <1>1, <1>2, <1>6 DEF RowsOK, Positive
    <3> QED  BY <1>7, <3>1 DEF Positive
  <2>2. \A i \in DOMAIN rows' : rows'[i] \in ReplicaRow
    BY <1>2, <1>4, <1>7 DEF RowsOK
  <2>3. ASSUME NEW i \in DOMAIN rows', NEW j \in DOMAIN rows', i # j
        PROVE  Named(i, j)' /\ Bound(i, j)'
    <3>1. CASE i \in DOMAIN rows /\ j \in DOMAIN rows
      BY <1>2, <1>7, <2>3, <3>1 DEF RowsOK, Named, Bound
    <3>2. CASE i = nextId
      BY <1>3, <1>4, <1>7, <2>3, <3>2 DEF Named, Bound
    <3>3. CASE j = nextId
      BY <1>3, <1>4, <1>7, <2>3, <3>3 DEF Named, Bound
    <3> QED  BY <1>7, <3>1, <3>2, <3>3
  <2> QED  BY <1>6, <1>7, <2>1, <2>2, <2>3 DEF RowsOK
<1>9. World'
  BY <1>1, <1>2, <1>8 DEF World, AppOK, OpOK, HostsOK, ChecksOK, BoundsOK
<1>10. \A k \in DOMAIN rows : Running(k)' <=> Running(k)
  BY <1>7 DEF Running
<1>11. job.by \in {"converge", "move"} /\ (job.by = "move" => op.step = "move")
  BY <1>1, <1>2, Whose DEF AddPc
<1>12. /\ job' \in JobRow /\ job'.by = job.by /\ job'.pc = p /\ job'.spot = job.spot
       /\ job'.ids = job.ids /\ job'.late = job.late /\ job'.id = nextId
       /\ job'.adds = job.adds /\ job'.before = job.before
  BY <1>1, <1>2, <1>5, <1>6 DEF Held, JobRow, AddPc, Positive
<1>13. Held'
  BY <1>1, <1>2, <1>5, <1>11, <1>12 DEF Held, AddPc
<1>14. Listed'
  BY <1>1, <1>2, <1>5, <1>7, <1>12 DEF Listed
<1>15. Adding'
  <2>1. DOMAIN rows' \ {nextId} # {}
    BY <1>6, <1>7
  <2> QED  BY <1>1, <1>2, <1>3, <1>4, <1>5, <1>7, <1>12, <2>1, ZenonT(60) DEF Adding, AddPc
<1>16. Sparing'
  <2> SUFFICES ASSUME job.by = "converge"  PROVE Sparing'
    BY <1>12 DEF Sparing
  <2>1. job.before \subseteq DOMAIN rows /\ job.before # {} /\ job.ids \subseteq job.before
        /\ job.late \subseteq DOMAIN rows
    BY <1>1, <1>2 DEF Sparing, AddPc, Listed
  <2>2. \A i \in job.late : app.placement[rows[i].server] = 0
    BY <1>2, <2>1 DEF Sparing
  <2>3. \A i \in job.ids : \E m \in job.before \ job.ids : Running(i) => Running(m)
    BY <1>1, <1>2 DEF Sparing, AddPc
  <2>4. \A i \in job.ids : \E m \in job.before \ job.ids : Running(i)' => Running(m)'
    BY <1>10, <2>1, <2>3
  <2>5. \A i \in job.late : app'.placement[rows'[i].server] = 0
    BY <1>1, <1>7, <2>1, <2>2
  <2> QED  BY <1>5, <1>6, <1>7, <1>12, <2>1, <2>4, <2>5 DEF Sparing, AddPc, RemovePc
<1>17. Moves'
  BY <1>1, <1>2, <1>5, <1>12 DEF Moves, AddPc, RemovePc
<1> QED  BY <1>1, <1>9, <1>12, <1>13, <1>14, <1>15, <1>16, <1>17, Elsewhere DEF Inv, Work, AddPc

\* Who adds replicas adds them for a convergence or for the first step of a move.
LEMMA Adder ==
  ASSUME OpOK, Held, job.pc \in AddPc \union RemovePc
  PROVE  job.by \in {"converge", "move"} /\ (job.by = "move" => op.step = "move")
BY Whose

LEMMA AttestsOne == Inv /\ AttestReplica => Inv'
<1> SUFFICES ASSUME Inv, AttestReplica  PROVE Inv'
  OBVIOUS
<1>1. /\ job.pc = "attest" /\ UNCHANGED <<app, nextId, op, containers, pool, checks, tick, opsDone, crashes>>
      /\ faults' = faults \/ Faulty
      /\ \/ rows' = Attested(job.id, TRUE) /\ job' = [job EXCEPT !.pc = "admit"]
         \/ rows' = Attested(job.id, FALSE) /\ job' = [job EXCEPT !.pc = "cleanup"]
  BY DEF AttestReplica
<1>2. RowsOK /\ AppOK /\ OpOK /\ HostsOK /\ ChecksOK /\ BoundsOK /\ Held /\ Listed /\ Adding
      /\ Sparing /\ Moves
  BY DEF Inv, World, Work
<1>3. /\ job.id \in DOMAIN rows /\ rows[job.id].server = job.spot[1] /\ DOMAIN rows \ {job.id} # {}
      /\ job.spot \in Server \X Positive /\ job.adds[job.spot[1]] > 0
  BY <1>1, <1>2 DEF Adding
<1> PICK p : p = job'.pc
  OBVIOUS
<1>4. /\ RowsOK' /\ Touches(job.id) /\ p \in {"admit", "cleanup"}
      /\ job' = [job EXCEPT !.pc = p] /\ (p = "admit" => rows'[job.id].status = "running")
  <2>1. CASE rows' = Attested(job.id, TRUE) /\ job' = [job EXCEPT !.pc = "admit"]
    <3>1. RowsOK' /\ Touches(job.id) /\ rows'[job.id].status = "running"
      BY <1>1, <1>2, <1>3, <2>1, AttestedIs
    <3>2. p = "admit"
      BY <1>2, <2>1 DEF Held, JobRow
    <3> QED  BY <2>1, <3>1, <3>2
  <2>2. CASE rows' = Attested(job.id, FALSE) /\ job' = [job EXCEPT !.pc = "cleanup"]
    <3>1. RowsOK' /\ Touches(job.id)
      BY <1>1, <1>2, <1>3, <2>2, AttestedIs
    <3>2. p = "cleanup"
      BY <1>2, <2>2 DEF Held, JobRow
    <3> QED  BY <2>2, <3>1, <3>2
  <2> QED  BY <1>1, <2>1, <2>2
<1>5. /\ DOMAIN rows' = DOMAIN rows /\ \A k \in DOMAIN rows : rows'[k].server = rows[k].server
      /\ \A k \in DOMAIN rows \ {job.id} : Running(k)' <=> Running(k)
  BY <1>4 DEF Touches, SameTable, Running
<1>6. faults' \in Nat
  BY <1>1, <1>2 DEF Faulty, BoundsOK
<1>7. World'
  BY <1>1, <1>2, <1>4, <1>6 DEF World, AppOK, OpOK, HostsOK, ChecksOK, BoundsOK
<1>8. /\ job' \in JobRow /\ job'.by = job.by /\ job'.pc = p /\ job'.spot = job.spot
      /\ job'.ids = job.ids /\ job'.late = job.late /\ job'.id = job.id
      /\ job'.adds = job.adds /\ job'.before = job.before
  BY <1>2, <1>4 DEF Held, JobRow, AddPc
<1>9. job.by \in {"converge", "move"} /\ (job.by = "move" => op.step = "move")
  BY <1>1, <1>2, Adder DEF AddPc
<1>10. Held'
  BY <1>1, <1>2, <1>4, <1>8, <1>9 DEF Held, AddPc
<1>11. Listed'
  BY <1>1, <1>2, <1>4, <1>5, <1>8 DEF Listed
<1>12. Adding'
  BY <1>1, <1>2, <1>3, <1>4, <1>5, <1>8 DEF Adding, AddPc, Running
<1>13. Sparing'
  <2> SUFFICES ASSUME job.by = "converge"  PROVE Sparing'
    BY <1>8 DEF Sparing
  <2>1. job.before \subseteq DOMAIN rows /\ job.before # {} /\ job.ids \subseteq job.before
        /\ job.id \notin job.before
    BY <1>1, <1>2 DEF Sparing, AddPc
  <2>2. \A i \in job.late \intersect DOMAIN rows' : app'.placement[rows'[i].server] = 0
    BY <1>1, <1>2, <1>5 DEF Sparing
  <2>3. \A i \in job.ids : \E m \in job.before \ job.ids : Running(i) => Running(m)
    BY <1>1, <1>2 DEF Sparing, AddPc
  <2>4. \A i \in job.ids : \E m \in job.before \ job.ids : Running(i)' => Running(m)'
    BY <1>5, <2>1, <2>3
  <2> QED  BY <1>4, <1>5, <1>8, <2>1, <2>2, <2>4 DEF Sparing, AddPc, RemovePc
<1>14. Moves'
  BY <1>1, <1>2, <1>4, <1>8 DEF Moves, AddPc, RemovePc
<1> QED  BY <1>1, <1>7, <1>8, <1>10, <1>11, <1>12, <1>13, <1>14, Elsewhere DEF Inv, Work, AddPc

LEMMA AdmitsOne == Inv /\ AdmitReplica => Inv'
<1> SUFFICES ASSUME Inv, AdmitReplica  PROVE Inv'
  OBVIOUS
<1>1. /\ job.pc = "admit" /\ UNCHANGED <<rows, app, nextId, op, containers, checks, tick, opsDone, crashes>>
      /\ pool' = pool \/ pool' = Upstreams(rows')
      /\ faults' = faults \/ Faulty
      /\ \/ StillToStart # Nothing /\ job' = [job EXCEPT !.pc = "start", !.adds = StillToStart]
         \/ job' = Removing(job)
         \/ job' = [job EXCEPT !.pc = "cleanup"]
  BY DEF AdmitReplica, Synced, Unsynced
<1>2. RowsOK /\ AppOK /\ OpOK /\ HostsOK /\ ChecksOK /\ BoundsOK /\ Held /\ Listed /\ Adding
      /\ Sparing /\ Moves
  BY DEF Inv, World, Work
<1>3. /\ job.id \in DOMAIN rows /\ rows[job.id].server = job.spot[1] /\ DOMAIN rows \ {job.id} # {}
      /\ Running(job.id)
      /\ job.spot \in Server \X Positive /\ job.adds[job.spot[1]] > 0
  BY <1>1, <1>2 DEF Adding
<1>4. RowsOK'
  BY <1>1, <1>2, SameRowsKeep
<1>5. pool' \subseteq Server \X Positive
  BY <1>1, <1>2, <1>4, PoolWritten
<1>6. World'
  BY <1>1, <1>2, <1>4, <1>5 DEF World, AppOK, OpOK, HostsOK, ChecksOK, BoundsOK, Faulty
<1>7. \A k : Running(k)' <=> Running(k)
  BY <1>1 DEF Running
<1>8. job.by \in {"converge", "move"} /\ (job.by = "move" => op.step = "move")
  BY <1>1, <1>2, Adder DEF AddPc
<1>9. job.by = "move" => rows[job.id].server = op.to
  BY <1>2, <1>3 DEF Moves
<1>10. CASE StillToStart # Nothing /\ job' = [job EXCEPT !.pc = "start", !.adds = StillToStart]
  <2>1. job.adds \in [Server -> Nat] /\ job.spot[1] \in Server
    BY <1>2, <1>3 DEF Held, JobRow
  <2>2. /\ StillToStart \in [Server -> Nat]
        /\ \A s \in Server : StillToStart[s] > 0 => job.adds[s] > 0
    BY <1>3, <2>1 DEF StillToStart
  <2> HIDE DEF StillToStart
  <2>3. \E s \in Server : StillToStart[s] > 0
    <3>1. (\A s \in Server : StillToStart[s] = 0) => StillToStart = Nothing
      BY <2>2 DEF Nothing
    <3>2. \A s \in Server : StillToStart[s] \in Nat
      BY <2>2
    <3> QED  BY <1>10, <3>1, <3>2
  <2>4. /\ job' \in JobRow /\ job'.by = job.by /\ job'.pc = "start"
        /\ job'.ids = job.ids /\ job'.late = job.late /\ job'.id = job.id
        /\ job'.adds = StillToStart /\ job'.before = job.before
    BY <1>2, <1>10, <2>2 DEF Held, JobRow, AddPc
  <2>5. Held'
    BY <1>1, <1>2, <1>8, <2>4 DEF Held, AddPc
  <2>6. Listed'
    BY <1>1, <1>2, <2>4 DEF Listed
  <2>7. Adding'
    BY <1>1, <1>2, <2>3, <2>4 DEF Adding, AddPc
  <2>8. Sparing'
    BY <1>1, <1>2, <1>7, <2>4 DEF Sparing, AddPc, RemovePc
  <2>9. Moves'
    BY <1>1, <1>2, <1>3, <1>7, <1>9, <2>2, <2>4 DEF Moves, AddPc, RemovePc
  <2> QED  BY <1>1, <1>6, <2>4, <2>5, <2>6, <2>7, <2>8, <2>9, Elsewhere DEF Inv, Work, AddPc
<1>11. CASE job' = Removing(job)
  <2> PICK I : I = IF job.by = "move" THEN On(op.from) ELSE job.ids
    OBVIOUS
  <2>1. job' = [job EXCEPT !.pc = "drain", !.adds = Nothing, !.ids = I]
    BY <1>11 DEF Removing
  <2>2. /\ I \subseteq DOMAIN rows /\ (job.by = "converge" => I = job.ids)
        /\ job.by = "move" => \A i \in I : rows[i].server = op.from
    BY <1>1, <1>2, <1>8 DEF On, Listed
  <2>3. DOMAIN rows \subseteq Positive /\ Nothing \in [Server -> Nat]
    BY <1>2, TableFinite DEF Nothing
  <2>4. /\ job' \in JobRow /\ job'.by = job.by /\ job'.pc = "drain" /\ job'.ids = I
        /\ job'.late = job.late /\ job'.id = job.id /\ job'.adds = Nothing
    BY <1>2, <2>1, <2>2, <2>3, ZenonT(60) DEF Held, JobRow, RemovePc
  <2>5. Held'
    BY <1>1, <1>2, <1>8, <2>4 DEF Held, RemovePc
  <2>6. Listed'
    <3>1. job.late \subseteq DOMAIN rows /\ (job.by = "move" => job.late = {})
      BY <1>1, <1>2 DEF Listed, Moves
    <3>2. I \intersect job.late = {}
      BY <1>2, <1>8, <2>2, <3>1 DEF Listed
    <3> QED  BY <1>1, <2>2, <2>4, <3>1, <3>2 DEF Listed
  <2>7. Adding'
    BY <2>4 DEF Adding, AddPc
  <2>8. Sparing'
    <3> SUFFICES ASSUME job.by = "converge"  PROVE Sparing'
      BY <2>4 DEF Sparing
    <3>1. job.before \subseteq DOMAIN rows
      BY <1>1, <1>2 DEF Sparing, AddPc
    <3>2. \A i \in job.ids : \E m \in job.before \ job.ids : Running(i) => Running(m)
      BY <1>1, <1>2 DEF Sparing, AddPc
    <3>3. \A i \in job.ids : \E m \in DOMAIN rows' \ job.ids : Running(i)' => Running(m)'
      BY <1>1, <1>7, <3>1, <3>2
    <3>4. \A i \in job.late \intersect DOMAIN rows' : app'.placement[rows'[i].server] = 0
      BY <1>1, <1>2 DEF Sparing
    <3> QED  BY <2>2, <2>4, <3>3, <3>4 DEF Sparing, AddPc
  <2>9. Moves'
    <3>1. \A s \in Server : Nothing[s] = 0
      BY DEF Nothing
    <3>2. job.by = "move" => job.late = {}
      BY <1>2 DEF Moves
    <3> QED  BY <1>1, <1>3, <1>7, <1>9, <2>2, <2>4, <3>1, <3>2 DEF Moves, RemovePc
  <2> QED  BY <1>1, <1>6, <2>4, <2>5, <2>6, <2>7, <2>8, <2>9, Elsewhere DEF Inv, Work, AddPc
<1>12. CASE job' = [job EXCEPT !.pc = "cleanup"]
  <2>1. /\ job' \in JobRow /\ job'.by = job.by /\ job'.pc = "cleanup" /\ job'.spot = job.spot
        /\ job'.ids = job.ids /\ job'.late = job.late /\ job'.id = job.id
        /\ job'.adds = job.adds /\ job'.before = job.before
    BY <1>2, <1>12 DEF Held, JobRow, AddPc
  <2>2. Held'
    BY <1>1, <1>2, <1>8, <2>1 DEF Held, AddPc
  <2>3. Listed'
    BY <1>1, <1>2, <2>1 DEF Listed
  <2>4. Adding'
    BY <1>1, <1>3, <2>1 DEF Adding, AddPc
  <2>5. Sparing'
    BY <1>1, <1>2, <1>7, <2>1 DEF Sparing, AddPc, RemovePc
  <2>6. Moves'
    BY <1>1, <1>2, <2>1 DEF Moves, AddPc, RemovePc
  <2> QED  BY <1>1, <1>6, <2>1, <2>2, <2>3, <2>4, <2>5, <2>6, Elsewhere DEF Inv, Work, AddPc
<1> QED  BY <1>1, <1>10, <1>11, <1>12

LEMMA CleansUp == Inv /\ CleanUp => Inv'
<1> SUFFICES ASSUME Inv, CleanUp  PROVE Inv'
  OBVIOUS
<1>1. /\ job.pc = "cleanup" /\ UNCHANGED <<app, nextId, checks, tick, opsDone, crashes>>
      /\ Removed(job.spot)
      /\ rows' = Without(rows, job.id) /\ pool' = Upstreams(rows')
      /\ \/ job.by = "converge" /\ job' = [job EXCEPT !.pc = "rollback"] /\ UNCHANGED op
         \/ job.by # "converge" /\ Fail
  BY DEF CleanUp
<1>2. RowsOK /\ AppOK /\ OpOK /\ HostsOK /\ ChecksOK /\ BoundsOK /\ Held /\ Listed /\ Adding
      /\ Sparing /\ Moves
  BY DEF Inv, World, Work
<1>3. DOMAIN rows \ {job.id} # {}
  BY <1>1, <1>2 DEF Adding
<1>4. /\ RowsOK' /\ DOMAIN rows' = DOMAIN rows \ {job.id}
      /\ \A k \in DOMAIN rows' : rows'[k] = rows[k]
  BY <1>1, <1>2, <1>3, WithoutRow
<1>5. pool' \subseteq Server \X Positive
  BY <1>1, <1>2, <1>4, PoolWritten
<1>6. ContainersOK' /\ faults' \in Nat
  <2>1. ContainersOK /\ faults \in Nat
    BY <1>2 DEF HostsOK, ContainersOK, BoundsOK
  <2> QED  BY <1>1, <2>1, RemovedKeeps
<1>7. AppOK' /\ RowsOK' /\ HostsOK' /\ ChecksOK' /\ BoundsOK'
  BY <1>1, <1>2, <1>4, <1>5, <1>6 DEF AppOK, HostsOK, ContainersOK, ChecksOK, BoundsOK
<1>8. CASE job.by = "converge" /\ job' = [job EXCEPT !.pc = "rollback"] /\ UNCHANGED op
  <2>1. /\ job' \in JobRow /\ job'.by = "converge" /\ job'.pc = "rollback"
        /\ job'.ids = job.ids /\ job'.late = job.late /\ job'.before = job.before
    BY <1>2, <1>8 DEF Held, JobRow
  <2>2. OpOK'
    BY <1>1, <1>2, <1>8 DEF OpOK
  <2>3. Held'
    BY <1>8, <2>1 DEF Held
  <2>4. Listed'
    BY <1>2, <2>1 DEF Listed
  <2>5. Adding' /\ Moves'
    BY <2>1 DEF Adding, Moves, AddPc
  <2>6. Sparing'
    <3>1. job.before \subseteq DOMAIN rows /\ job.before # {} /\ job.id \notin job.before
      BY <1>1, <1>2, <1>8 DEF Sparing, AddPc
    <3>2. \A i \in job.late \intersect DOMAIN rows' : app'.placement[rows'[i].server] = 0
      BY <1>1, <1>2, <1>4, <1>8 DEF Sparing
    <3> QED  BY <1>4, <2>1, <3>1, <3>2 DEF Sparing, AddPc, RemovePc
  <2> QED  BY <1>1, <1>7, <1>8, <2>1, <2>2, <2>3, <2>4, <2>5, <2>6, Elsewhere DEF Inv, World, Work, AddPc
<1>9. CASE job.by # "converge" /\ Fail
  BY <1>1, <1>7, <1>9, Failed DEF Inv, World
<1> QED  BY <1>1, <1>8, <1>9

LEMMA RollsBack == Inv /\ RollbackScaleUp => Inv'
<1> SUFFICES ASSUME Inv, RollbackScaleUp  PROVE Inv'
  OBVIOUS
<1> DEFINE added == DOMAIN rows \ job.before
<1>1. /\ job.pc = "rollback" /\ UNCHANGED <<app, nextId, op, checks, tick, opsDone, crashes>>
      /\ \/ Release /\ pool' = Upstreams(rows) /\ UNCHANGED <<rows, containers, faults>>
         \/ /\ added # {} /\ UNCHANGED <<job, pool>> /\ rows' = Without(rows, Min(added))
            /\ Removed(Spot(rows[Min(added)]))
  BY DEF RollbackScaleUp
<1>2. RowsOK /\ AppOK /\ OpOK /\ HostsOK /\ ChecksOK /\ BoundsOK /\ Held /\ Listed /\ Adding
      /\ Sparing /\ Moves
  BY DEF Inv, World, Work
<1>3. job.by = "converge"
  BY <1>1, <1>2, Whose
<1>4. job.before \subseteq DOMAIN rows /\ job.before # {}
  BY <1>1, <1>2, <1>3 DEF Sparing
<1>5. AppOK' /\ OpOK' /\ ChecksOK'
  BY <1>1, <1>2 DEF AppOK, OpOK, ChecksOK
<1>6. CASE Release /\ pool' = Upstreams(rows) /\ UNCHANGED <<rows, containers, faults>>
  <2>1. RowsOK' /\ HostsOK' /\ BoundsOK'
    BY <1>1, <1>2, <1>6, SameRowsKeep, PoolKeeps DEF HostsOK, BoundsOK
  <2>2. Resumes'
    BY <1>1, <1>3, <1>6 DEF Inv, Work, Resumes, Release, NoJob
  <2>3. Work'
    BY <1>6, <2>2, Freed DEF Release
  <2> QED  BY <1>5, <2>1, <2>3 DEF Inv, World
<1>7. CASE /\ added # {} /\ UNCHANGED <<job, pool>> /\ rows' = Without(rows, Min(added))
           /\ Removed(Spot(rows[Min(added)]))
  <2> PICK i : i = Min(added)
    OBVIOUS
  <2>1. i \in DOMAIN rows /\ i \notin job.before
    <3>1. added \in SUBSET DOMAIN rows
      OBVIOUS
    <3>2. i \in added
      <4> HIDE DEF added
      <4>1. IsFiniteSet(added) /\ added \in SUBSET Int
        BY <1>2, <3>1, PartFinite
      <4> QED  BY <1>7, <4>1, MinIs
    <3> QED  BY <3>2
  <2>2. DOMAIN rows \ {i} # {}
    BY <1>4, <2>1
  <2>3. /\ RowsOK' /\ DOMAIN rows' = DOMAIN rows \ {i}
        /\ \A k \in DOMAIN rows' : rows'[k] = rows[k]
    BY <1>1, <1>2, <1>7, <2>2, WithoutRow
  <2>4. ContainersOK' /\ faults' \in Nat
    <3>1. ContainersOK /\ faults \in Nat
      BY <1>2 DEF HostsOK, ContainersOK, BoundsOK
    <3> QED  BY <1>7, <3>1, RemovedKeeps
  <2>5. HostsOK' /\ BoundsOK'
    BY <1>1, <1>2, <1>7, <2>4 DEF HostsOK, ContainersOK, BoundsOK
  <2>6. job' = job
    BY <1>7
  <2>7. Held' /\ Listed'
    BY <1>1, <1>2, <2>6 DEF Held, Listed
  <2>8. Adding' /\ Moves'
    BY <1>1, <1>3, <2>6 DEF Adding, Moves, AddPc
  <2>9. Sparing'
    <3>1. \A j \in job.late \intersect DOMAIN rows' : app'.placement[rows'[j].server] = 0
      BY <1>1, <1>2, <1>3, <2>3 DEF Sparing
    <3> QED  BY <1>1, <1>4, <2>1, <2>3, <2>6, <3>1 DEF Sparing, AddPc, RemovePc
  <2> QED  BY <1>1, <1>5, <2>3, <2>5, <2>6, <2>7, <2>8, <2>9, Elsewhere DEF Inv, World, Work
<1> QED  BY <1>1, <1>6, <1>7

-----------------------------------------------------------------------------
(* A convergence or a move removes replicas *)

LEMMA DrainsOne == Inv /\ DrainReplica => Inv'
<1> SUFFICES ASSUME Inv, DrainReplica  PROVE Inv'
  OBVIOUS
<1> PICK i : i = NextOne
  OBVIOUS
<1>1. /\ job.pc = "drain" /\ job.ids # {} /\ UNCHANGED <<app, nextId, op, containers, checks, tick, opsDone, crashes>>
      /\ rows' = SetStatus(i, "draining") /\ job' = [job EXCEPT !.pc = "remove"]
      /\ pool' = pool \/ pool' = Upstreams(rows')
      /\ faults' = faults \/ Faulty
  BY DEF DrainReplica, Sync, Synced, Unsynced
<1>2. RowsOK /\ AppOK /\ OpOK /\ HostsOK /\ ChecksOK /\ BoundsOK /\ Held /\ Listed /\ Adding
      /\ Sparing /\ Moves
  BY DEF Inv, World, Work
<1>3. job.ids \subseteq DOMAIN rows /\ i \in job.ids
  BY <1>1, <1>2, NextOneIs DEF Listed
<1>4. RowsOK' /\ Touches(i) /\ rows'[i].status = "draining"
  BY <1>1, <1>2, <1>3, SetStatusIs DEF RowStatus
<1>5. /\ DOMAIN rows' = DOMAIN rows /\ \A k \in DOMAIN rows : rows'[k].server = rows[k].server
      /\ \A k \in DOMAIN rows \ {i} : Running(k)' <=> Running(k)
      /\ ~Running(i)'
  BY <1>4 DEF Touches, SameTable, Running
<1>6. World'
  <2>1. pool' \subseteq Server \X Positive
    BY <1>1, <1>2, <1>4, PoolWritten
  <2> QED  BY <1>1, <1>2, <1>4, <2>1 DEF World, AppOK, OpOK, HostsOK, ChecksOK, BoundsOK, Faulty
<1>7. job.by \in {"converge", "move"} /\ (job.by = "move" => op.step = "move")
  BY <1>1, <1>2, Adder DEF RemovePc
<1>8. /\ job' \in JobRow /\ job'.by = job.by /\ job'.pc = "remove" /\ job'.ids = job.ids
      /\ job'.late = job.late /\ job'.id = job.id /\ job'.adds = job.adds
  BY <1>1, <1>2 DEF Held, JobRow, RemovePc
<1>9. Held'
  BY <1>1, <1>2, <1>7, <1>8 DEF Held, RemovePc
<1>10. Listed'
  BY <1>1, <1>2, <1>5, <1>8 DEF Listed
<1>11. Adding'
  BY <1>8 DEF Adding, AddPc
<1>12. Sparing'
  <2> SUFFICES ASSUME job.by = "converge"  PROVE Sparing'
    BY <1>8 DEF Sparing
  <2>1. \A j \in job.late \intersect DOMAIN rows' : app'.placement[rows'[j].server] = 0
    BY <1>1, <1>2, <1>5 DEF Sparing
  <2>2. \A j \in job.ids : \E m \in DOMAIN rows \ job.ids : Running(j) => Running(m)
    BY <1>1, <1>2 DEF Sparing, RemovePc
  <2>3. \A j \in job.ids : \E m \in DOMAIN rows \ job.ids : Running(j)' => Running(m)'
    BY <1>3, <1>5, <2>2
  <2> QED  BY <1>5, <1>8, <2>1, <2>3 DEF Sparing, AddPc
<1>13. Moves'
  <2> SUFFICES ASSUME job.by = "move"  PROVE Moves'
    BY <1>8 DEF Moves
  <2>1. /\ \A s \in Server : job.adds[s] > 0 => s = op.to
        /\ job.id # 0 => job.id \in DOMAIN rows /\ Running(job.id) /\ rows[job.id].server = op.to
        /\ \A j \in job.ids : rows[j].server = op.from
        /\ \E m \in DOMAIN rows : rows[m].server = op.to
        /\ job.late = {}
    BY <1>1, <1>2 DEF Moves, RemovePc
  <2>2. op.from # op.to
    BY <1>2, <1>7 DEF OpOK, Held
  <2>3. job.id # 0 => Running(job.id)' \/ job.id = i
    BY <1>5, <2>1, <1>8
  <2>4. job.id # 0 => job.id # i
    BY <1>3, <2>1, <2>2
  <2> QED  BY <1>1, <1>3, <1>5, <1>8, <2>1, <2>3, <2>4 DEF Moves
<1> QED  BY <1>1, <1>6, <1>8, <1>9, <1>10, <1>11, <1>12, <1>13, Elsewhere DEF Inv, Work, RemovePc

LEMMA RemovesOne == Inv /\ RemoveReplica => Inv'
<1> SUFFICES ASSUME Inv, RemoveReplica  PROVE Inv'
  OBVIOUS
<1> PICK i : i = NextOne
  OBVIOUS
<1>1. /\ job.pc = "remove" /\ UNCHANGED <<app, nextId, op, pool, checks, tick, opsDone, crashes>>
      /\ Removed(Spot(rows[i])) /\ rows' = Without(rows, i)
      /\ job' = [job EXCEPT !.pc = "drain", !.ids = job.ids \ {i}]
  BY DEF RemoveReplica
<1>2. RowsOK /\ AppOK /\ OpOK /\ HostsOK /\ ChecksOK /\ BoundsOK /\ Held /\ Listed /\ Adding
      /\ Sparing /\ Moves
  BY DEF Inv, World, Work
<1>3. job.ids \subseteq DOMAIN rows /\ job.late \subseteq DOMAIN rows /\ i \in job.ids
  BY <1>1, <1>2, NextOneIs DEF Listed
<1>4. AppOK' /\ ChecksOK'
  BY <1>1, <1>2 DEF AppOK, ChecksOK
<1>5. job.by \in {"converge", "move"} /\ (job.by = "move" => op.step = "move")
  BY <1>1, <1>2, Adder DEF RemovePc
<1>6. job.by = "converge" =>
        /\ \A j \in job.ids : \E m \in DOMAIN rows \ job.ids : Running(j) => Running(m)
        /\ \A j \in job.late \intersect DOMAIN rows : app.placement[rows[j].server] = 0
  BY <1>1, <1>2 DEF Sparing, RemovePc
<1>7. job.by = "move" =>
        /\ job.late = {} /\ \A s \in Server : job.adds[s] > 0 => s = op.to
        /\ job.id # 0 => job.id \in DOMAIN rows /\ Running(job.id) /\ rows[job.id].server = op.to
        /\ \A j \in job.ids : rows[j].server = op.from
        /\ \E m \in DOMAIN rows : rows[m].server = op.to
  BY <1>1, <1>2 DEF Moves, RemovePc
<1>8. job.by = "move" => op.from # op.to
  BY <1>2, <1>5 DEF OpOK, Held
<1>9. DOMAIN rows \ {i} # {}
  BY <1>3, <1>5, <1>6, <1>7, <1>8
<1>10. /\ RowsOK' /\ DOMAIN rows' = DOMAIN rows \ {i}
      /\ \A k \in DOMAIN rows' : rows'[k] = rows[k]
  BY <1>1, <1>2, <1>9, WithoutRow
<1>11. \A k \in DOMAIN rows' : Running(k)' <=> Running(k)
  BY <1>10 DEF Running
<1>12. ContainersOK' /\ faults' \in Nat
  <2>1. ContainersOK /\ faults \in Nat
    BY <1>2 DEF HostsOK, ContainersOK, BoundsOK
  <2> QED  BY <1>1, <2>1, RemovedKeeps
<1>13. World'
  BY <1>1, <1>2, <1>4, <1>10, <1>12 DEF World, OpOK, HostsOK, ContainersOK, BoundsOK
<1>14. /\ job' \in JobRow /\ job'.by = job.by /\ job'.pc = "drain" /\ job'.ids = job.ids \ {i}
      /\ job'.late = job.late /\ job'.id = job.id /\ job'.adds = job.adds
  BY <1>1, <1>2 DEF Held, JobRow, RemovePc
<1>15. Held'
  BY <1>1, <1>2, <1>5, <1>14 DEF Held, RemovePc
<1>16. Listed'
  <2>1. job.ids \intersect job.late = {}
    BY <1>2 DEF Listed
  <2> QED  BY <1>3, <1>10, <1>14, <2>1 DEF Listed
<1>17. Adding'
  BY <1>14 DEF Adding, AddPc
<1>18. Sparing'
  <2> SUFFICES ASSUME job.by = "converge"  PROVE Sparing'
    BY <1>14 DEF Sparing
  <2>1. \A j \in job.ids \ {i} : \E m \in DOMAIN rows' \ (job.ids \ {i}) : Running(j)' => Running(m)'
    BY <1>3, <1>6, <1>10, <1>11
  <2>2. \A j \in job.late \intersect DOMAIN rows' : app'.placement[rows'[j].server] = 0
    BY <1>1, <1>6, <1>10
  <2> QED  BY <1>14, <2>1, <2>2 DEF Sparing, AddPc
<1>19. Moves'
  <2> SUFFICES ASSUME job.by = "move"  PROVE Moves'
    BY <1>14 DEF Moves
  <2>1. job.id # 0 => job.id \in DOMAIN rows'
    BY <1>3, <1>7, <1>8, <1>10
  <2>2. job.id # 0 => Running(job.id)' /\ rows'[job.id].server = op.to
    BY <1>7, <1>10, <1>11, <1>14, <2>1
  <2>3. \E m \in DOMAIN rows' : rows'[m].server = op.to
    BY <1>3, <1>7, <1>8, <1>10
  <2>4. \A j \in job.ids \ {i} : rows'[j].server = op.from
    BY <1>3, <1>7, <1>10
  <2> QED  BY <1>1, <1>7, <1>14, <2>1, <2>2, <2>3, <2>4 DEF Moves
<1> QED  BY <1>1, <1>13, <1>14, <1>15, <1>16, <1>17, <1>18, <1>19, Elsewhere DEF Inv, Work, RemovePc

LEMMA RemovalEnds == Inv /\ RemovalOver => Inv'
<1> SUFFICES ASSUME Inv, RemovalOver  PROVE Inv'
  OBVIOUS
<1>1. /\ job.pc = "drain" /\ job.ids = {} /\ UNCHANGED <<rows, nextId, containers, checks, tick, opsDone, crashes>>
      /\ pool' = pool \/ pool' = Upstreams(rows')
      /\ faults' = faults \/ Faulty
      /\ \/ /\ job.by = "move" /\ app' = [app EXCEPT !.placement = Moved, !.current = FALSE]
            /\ op' = [op EXCEPT !.step = "confirm"] /\ job' = [job EXCEPT !.pc = "confirm"]
         \/ /\ job.by = "converge" /\ PlacementSatisfied
            /\ job' = [job EXCEPT !.ids = job.late, !.late = {}] /\ UNCHANGED <<app, op>>
         \/ job.by = "converge" /\ Release /\ UNCHANGED <<app, op>>
  BY DEF RemovalOver, Sync, Synced, Unsynced
<1>2. RowsOK /\ AppOK /\ OpOK /\ HostsOK /\ ChecksOK /\ BoundsOK /\ Held /\ Listed /\ Adding
      /\ Sparing /\ Moves
  BY DEF Inv, World, Work
<1>3. RowsOK' /\ HostsOK' /\ ChecksOK' /\ BoundsOK'
  <2>1. RowsOK'
    BY <1>1, <1>2, SameRowsKeep
  <2>2. pool' \subseteq Server \X Positive
    BY <1>1, <1>2, <2>1, PoolWritten
  <2> QED  BY <1>1, <1>2, <2>1, <2>2 DEF HostsOK, ChecksOK, BoundsOK, Faulty
<1>4. CASE /\ job.by = "move" /\ app' = [app EXCEPT !.placement = Moved, !.current = FALSE]
           /\ op' = [op EXCEPT !.step = "confirm"] /\ job' = [job EXCEPT !.pc = "confirm"]
  <2>1. op.kind = "move" /\ op \in OpRow /\ app \in AppRow
    BY <1>2, <1>4 DEF Held, OpOK, AppOK
  <2>2. Moved \in Placement
    BY <1>2, <2>1, MovedIs
  <2>3. AppOK'
    <3> HIDE DEF Moved
    <3> QED  BY <1>4, <2>1, <2>2 DEF AppOK, AppRow
  <2>4. /\ op' \in OpRow /\ op'.kind = "move" /\ op'.step = "confirm" /\ op'.to = op.to
        /\ op'.from = op.from /\ op'.snap = op.snap
    BY <1>4, <2>1 DEF OpRow
  <2>5. OpOK'
    BY <1>2, <2>1, <2>4 DEF OpOK
  <2>6. /\ job' \in JobRow /\ job'.by = "move" /\ job'.pc = "confirm" /\ job'.ids = {}
        /\ job'.late = job.late /\ job'.adds = job.adds
    BY <1>1, <1>2, <1>4 DEF Held, JobRow
  <2>7. job.late = {} /\ \A s \in Server : job.adds[s] > 0 => s = op.to
    BY <1>2, <1>4 DEF Moves
  <2>8. Held' /\ Listed' /\ Adding' /\ Sparing' /\ Rolls' /\ Verified' /\ Resumes'
    BY <2>4, <2>6, <2>7 DEF Held, Listed, Adding, Sparing, Rolls, Verified, Resumes, AddPc
  <2>9. Moves'
    BY <2>4, <2>6, <2>7 DEF Moves, RemovePc
  <2> QED  BY <1>3, <2>3, <2>5, <2>8, <2>9 DEF Inv, World, Work
<1>5. CASE /\ job.by = "converge" /\ PlacementSatisfied
           /\ job' = [job EXCEPT !.ids = job.late, !.late = {}] /\ UNCHANGED <<app, op>>
  <2>1. job.late \subseteq DOMAIN rows /\ \A j \in job.late : app.placement[rows[j].server] = 0
    BY <1>1, <1>2, <1>5 DEF Listed, Sparing
  <2>2. PICK m \in DOMAIN rows : Running(m) /\ app.placement[rows[m].server] > 0
    BY <1>2, <1>5, SatisfiedRuns
  <2>3. m \notin job.late
    BY <2>1, <2>2
  <2>4. /\ job' \in JobRow /\ job'.by = "converge" /\ job'.pc = "drain" /\ job'.ids = job.late
        /\ job'.late = {}
    BY <1>1, <1>2, <1>5 DEF Held, JobRow
  <2>5. AppOK' /\ OpOK'
    BY <1>2, <1>5 DEF AppOK, OpOK
  <2>6. Held' /\ Listed' /\ Adding'
    BY <1>1, <2>1, <2>4 DEF Held, Listed, Adding, AddPc, RemovePc
  <2>7. Running(m)'
    BY <1>1, <2>2 DEF Running
  <2>8. Sparing'
    BY <1>1, <2>3, <2>4, <2>7 DEF Sparing, AddPc
  <2>9. Moves'
    BY <2>4 DEF Moves
  <2> QED  BY <1>1, <1>3, <1>5, <2>4, <2>5, <2>6, <2>8, <2>9, Elsewhere DEF Inv, World, Work, RemovePc
<1>6. CASE job.by = "converge" /\ Release /\ UNCHANGED <<app, op>>
  <2>1. AppOK' /\ OpOK'
    BY <1>2, <1>6 DEF AppOK, OpOK
  <2>2. Resumes'
    BY <1>6 DEF Inv, Work, Resumes, Release, NoJob
  <2>3. Work'
    BY <1>6, <2>2, Freed DEF Release
  <2> QED  BY <1>3, <2>1, <2>3 DEF Inv, World
<1> QED  BY <1>1, <1>4, <1>5, <1>6

LEMMA Confirms == Inv /\ ConfirmMove => Inv'
<1> SUFFICES ASSUME Inv, ConfirmMove  PROVE Inv'
  OBVIOUS
<1>1. /\ Settle /\ UNCHANGED <<rows, app, nextId, containers, checks, tick, opsDone, crashes>>
      /\ pool' = pool \/ pool' = Upstreams(rows')
      /\ faults' = faults \/ Faulty
  BY DEF ConfirmMove, Sync, Synced, Unsynced
<1>2. RowsOK /\ AppOK /\ HostsOK /\ ChecksOK /\ BoundsOK
  BY DEF Inv, World
<1>3. RowsOK'
  BY <1>1, <1>2, SameRowsKeep
<1>4. pool' \subseteq Server \X Positive
  BY <1>1, <1>2, <1>3, PoolWritten
<1> QED  BY <1>1, <1>2, <1>3, <1>4, Settled DEF Inv, World, AppOK, HostsOK, ChecksOK, BoundsOK, Faulty

-----------------------------------------------------------------------------
(* Replicas are replaced in place *)

\* Who replaces them is a reload, or one of the two steps of a redeploy.
LEMMA Roller ==
  ASSUME Inv, job.pc \in RollPc
  PROVE  /\ job.by \in {"reload", "redeploy"} /\ op.kind = job.by
         /\ job.by = "redeploy" => op.step \in {"primary", "roll"}
         /\ job.by = "reload" => op.step = "reload"
         /\ job.ids \subseteq DOMAIN rows /\ job.late \subseteq DOMAIN rows
BY Whose DEF Inv, World, Work, OpOK, Listed, RollPc

LEMMA RollsOn ==
  ASSUME Inv, job.pc \in RollPc, op' = op, job' \in JobRow, job'.by = job.by, job'.pc \in RollPc
  PROVE  Held' /\ Adding' /\ Sparing' /\ Moves' /\ Verified' /\ Resumes'
<1>1. /\ job.by \in {"reload", "redeploy"} /\ op.kind = job.by
      /\ job.by = "redeploy" => op.step \in {"primary", "roll"}
  BY Roller
<1>2. Held'
  BY <1>1 DEF Held
<1>3. Adding' /\ Sparing' /\ Moves' /\ Verified'
  BY <1>1 DEF Adding, Sparing, Moves, Verified, AddPc, RollPc
<1>4. Resumes'
  BY <1>1 DEF Inv, Work, Resumes
<1> QED  BY <1>2, <1>3, <1>4

LEMMA GoesTo ==
  ASSUME Inv, job.by = "redeploy", op.kind = "redeploy",
         NEW step \in {"roll", "commit", "sync", "verify"}, GoTo(step),
         UNCHANGED <<rows, nextId>>, AppOK',
         step = "roll" /\ Redundant => Others(First)
  PROVE  OpOK' /\ Work'
<1>1. RowsOK /\ OpOK /\ op \in OpRow
  BY DEF Inv, World, OpOK
<1>2. op' = [op EXCEPT !.step = step] /\ job' = StepJob(step)
  BY DEF GoTo
<1>3. op' \in OpRow /\ op'.kind = "redeploy" /\ op'.step = step /\ op'.snap = op.snap
      /\ op'.attempt = op.attempt /\ op.attempt >= 1
  BY <1>1, <1>2 DEF OpRow, Inv, Work, Resumes
<1>4. OpOK'
  BY <1>1, <1>3 DEF OpOK
<1>5. step \in Steps
  BY DEF Steps, InPlace
<1> QED  BY <1>1, <1>2, <1>3, <1>4, <1>5, StepBegins

LEMMA TakesOut == Inv /\ TakeOut => Inv'
<1> SUFFICES ASSUME Inv, TakeOut  PROVE Inv'
  OBVIOUS
<1> PICK i : i = NextOne
  OBVIOUS
<1>1. /\ job.pc = "out" /\ job.ids # {} /\ UNCHANGED <<app, nextId, containers, checks, tick, opsDone, crashes>>
      /\ faults' = faults \/ Faulty
      /\ pool' = pool \/ pool' = Upstreams(rows')
      /\ \/ ~Redundant /\ job' = [job EXCEPT !.pc = "swap"] /\ UNCHANGED <<rows, op>>
         \/ Fail /\ UNCHANGED rows
         \/ /\ Redundant /\ (Primary => ServingSibling(i)) /\ rows' = SetStatus(i, "draining")
            /\ job' = [job EXCEPT !.pc = "swap"] /\ UNCHANGED op
         \/ rows' = SetStatus(i, "draining") /\ Fail
  BY DEF TakeOut, Synced, Unsynced
<1>2. RowsOK /\ AppOK /\ OpOK /\ HostsOK /\ ChecksOK /\ BoundsOK /\ Held /\ Listed /\ Rolls
  BY DEF Inv, World, Work
<1>3. job.ids \subseteq DOMAIN rows /\ i \in job.ids /\ job.late \subseteq DOMAIN rows
  BY <1>1, <1>2, NextOneIs DEF Listed
<1>4. /\ RowsOK' /\ DOMAIN rows' = DOMAIN rows
      /\ \A k \in DOMAIN rows \ {i} : Running(k)' <=> Running(k)
  <2>1. CASE UNCHANGED rows
    BY <1>1, <1>2, <2>1, SameRowsKeep DEF Running
  <2>2. CASE rows' = SetStatus(i, "draining")
    <3>1. RowsOK' /\ Touches(i)
      BY <1>1, <1>2, <2>2, SetStatusIs DEF RowStatus
    <3> QED  BY <3>1 DEF Touches, SameTable, Running
  <2> QED  BY <1>1, <2>1, <2>2
<1>5. AppOK' /\ HostsOK' /\ ChecksOK' /\ BoundsOK' /\ app'.placement = app.placement
  <2>1. pool' \subseteq Server \X Positive
    BY <1>1, <1>2, <1>4, PoolWritten
  <2> QED  BY <1>1, <1>2, <2>1 DEF AppOK, HostsOK, ChecksOK, BoundsOK, Faulty
<1>6. CASE Fail
  BY <1>4, <1>5, <1>6, Failed DEF Inv, World
<1>7. CASE /\ job' = [job EXCEPT !.pc = "swap"] /\ UNCHANGED op
           /\ ~Redundant \/ (Redundant /\ (Primary => ServingSibling(i)))
  <2>1. /\ job' \in JobRow /\ job'.by = job.by /\ job'.pc = "swap" /\ job'.ids = job.ids
        /\ job'.late = job.late
    BY <1>2, <1>7 DEF Held, JobRow, RollPc
  <2>2. OpOK'
    BY <1>1, <1>2, <1>7 DEF OpOK
  <2>3. Held' /\ Adding' /\ Sparing' /\ Moves' /\ Verified' /\ Resumes'
    BY <1>1, <1>7, <2>1, RollsOn DEF RollPc
  <2>4. Listed'
    BY <1>1, <1>2, <1>3, <1>4, <2>1 DEF Listed
  <2>5. Rolls'
    <3> SUFFICES ASSUME job.by = "redeploy", Redundant'  PROVE Rolls'
      BY <2>1 DEF Rolls
    <3>1. Redundant
      BY <1>4 DEF Redundant
    <3>2. Primary => job.ids \subseteq {First} /\ i = First
      BY <1>1, <1>2, <1>3, <3>1 DEF Rolls, RollPc
    <3>3. First' = First
      BY <1>4 DEF First
    <3>4. Primary => Others(First)'
      BY <1>4, <1>7, <3>1, <3>2, <3>3 DEF Others, ServingSibling
    <3> QED  BY <1>7, <2>1, <3>2, <3>3, <3>4 DEF Rolls, Primary
  <2> QED  BY <1>4, <1>5, <2>2, <2>3, <2>4, <2>5 DEF Inv, World, Work
<1> QED  BY <1>1, <1>6, <1>7

LEMMA Swaps == Inv /\ Swap => Inv'
<1> SUFFICES ASSUME Inv, Swap  PROVE Inv'
  OBVIOUS
<1> PICK i : i = NextOne
  OBVIOUS
<1> PICK spot : spot = Spot(rows[i])
  OBVIOUS
<1> PICK port : port = rows[i].port
  OBVIOUS
<1>1. /\ job.pc = "swap" /\ UNCHANGED <<app, rows, nextId, pool, checks, tick, opsDone, crashes>>
      /\ Starts(spot, port, Expected) \/ StartsIll(spot, port, Expected) \/ StartFails(spot, port, Expected)
      /\ \/ ~Redundant /\ job' = [job EXCEPT !.pc = "out", !.ids = {}] /\ UNCHANGED op
         \/ job' = [job EXCEPT !.pc = "ready"] /\ UNCHANGED op
         \/ Fail
  BY DEF Swap
<1>2. RowsOK /\ AppOK /\ OpOK /\ HostsOK /\ ChecksOK /\ BoundsOK /\ Held /\ Listed /\ Rolls
  BY DEF Inv, World, Work
<1>3. job.ids \subseteq DOMAIN rows /\ i \in job.ids /\ job.late \subseteq DOMAIN rows /\ job.ids # {}
  BY <1>1, <1>2, NextOneIs DEF Listed
<1>4. RowsOK' /\ DOMAIN rows' = DOMAIN rows /\ \A k : Running(k)' <=> Running(k)
  BY <1>1, <1>2, SameRowsKeep DEF Running
<1>5. spot \in Server \X Positive /\ port \in Positive /\ Expected \in 0..MaxOps
  <2>1. rows[i] \in ReplicaRow
    BY <1>2, <1>3 DEF RowsOK
  <2>2. app.image \in 0..MaxOps /\ op.image \in 0..MaxOps
    BY <1>2 DEF AppOK, AppRow, OpOK, OpRow
  <2> QED  BY <2>1, <2>2 DEF ReplicaRow, Spot, Expected
<1>6. ContainersOK' /\ faults' \in Nat
  <2>1. ContainersOK
    BY <1>2 DEF HostsOK, ContainersOK
  <2> HIDE DEF Expected
  <2> QED  BY <1>1, <1>2, <1>5, <2>1, StartKeeps
<1>7. AppOK' /\ HostsOK' /\ ChecksOK' /\ BoundsOK' /\ app'.placement = app.placement
  BY <1>1, <1>2, <1>6 DEF AppOK, HostsOK, ContainersOK, ChecksOK, BoundsOK
<1>8. CASE Fail
  BY <1>4, <1>7, <1>8, Failed DEF Inv, World
<1>9. ASSUME NEW p \in RollPc, NEW I \in SUBSET job.ids, UNCHANGED op,
             job' = [job EXCEPT !.pc = p, !.ids = I],
             \/ ~Redundant /\ p = "out"
             \/ p = "ready" /\ I = job.ids
      PROVE  Inv'
  <2>1. /\ job' \in JobRow /\ job'.by = job.by /\ job'.pc = p /\ job'.ids = I
        /\ job'.late = job.late
    BY <1>2, <1>9 DEF Held, JobRow
  <2>2. OpOK'
    BY <1>1, <1>2, <1>9 DEF OpOK
  <2>3. Held' /\ Adding' /\ Sparing' /\ Moves' /\ Verified' /\ Resumes'
    BY <1>1, <1>9, <2>1, RollsOn DEF RollPc
  <2>4. Listed'
    BY <1>2, <1>3, <1>4, <1>9, <2>1 DEF Listed
  <2>5. Rolls'
    <3> SUFFICES ASSUME job.by = "redeploy", Redundant'  PROVE Rolls'
      BY <2>1 DEF Rolls
    <3>1. Redundant /\ p = "ready" /\ I = job.ids
      BY <1>4, <1>9 DEF Redundant
    <3>2. Primary => job.ids \subseteq {First} /\ Others(First)
      BY <1>1, <1>2, <3>1 DEF Rolls, RollPc
    <3>3. First' = First
      BY <1>4 DEF First
    <3>4. Others(First) => Others(First)'
      BY <1>4, <3>3 DEF Others
    <3> QED  BY <1>9, <2>1, <3>1, <3>2, <3>3, <3>4 DEF Rolls, Primary
  <2> QED  BY <1>4, <1>7, <2>2, <2>3, <2>4, <2>5 DEF Inv, World, Work
<1>10. CASE ~Redundant /\ job' = [job EXCEPT !.pc = "out", !.ids = {}] /\ UNCHANGED op
  <2> PICK I \in SUBSET job.ids : I = {}
    OBVIOUS
  <2> PICK p \in RollPc : p = "out"
    BY DEF RollPc
  <2>1. job' = [job EXCEPT !.pc = p, !.ids = I]
    BY <1>10
  <2> QED  BY <1>9, <1>10, <2>1
<1>11. CASE job' = [job EXCEPT !.pc = "ready"] /\ UNCHANGED op
  <2>1. job' = [job EXCEPT !.pc = "ready", !.ids = job.ids]
    BY <1>2, <1>11 DEF Held, JobRow
  <2> QED  BY <1>9, <1>11, <2>1 DEF RollPc
<1> QED  BY <1>1, <1>8, <1>10, <1>11

\* A reload goes on to the next one, whatever became of this one.
LEMMA ReloadsOn ==
  ASSUME Inv, job.pc \in RollPc, Reload, op' = op, DOMAIN rows' = DOMAIN rows, NEW i,
         NEW b \in BOOLEAN, job' = [job EXCEPT !.pc = "out", !.ids = job.ids \ {i}, !.bad = b]
  PROVE  Work'
<1>1. Held /\ Listed /\ job.by = "reload"
  BY DEF Inv, Work, Reload
<1>2. job.ids \subseteq DOMAIN rows /\ job.late \subseteq DOMAIN rows
  BY Roller
<1>3. /\ job' \in JobRow /\ job'.by = job.by /\ job'.pc = "out" /\ job'.ids = job.ids \ {i}
      /\ job'.late = job.late
  BY <1>1 DEF Held, JobRow, RollPc
<1>4. Held' /\ Adding' /\ Sparing' /\ Moves' /\ Verified' /\ Resumes'
  BY <1>3, RollsOn DEF RollPc
<1>5. Listed' /\ Rolls'
  BY <1>1, <1>2, <1>3 DEF Listed, Rolls
<1> QED  BY <1>4, <1>5 DEF Work

LEMMA VerifiesReady == Inv /\ VerifyReady => Inv'
<1> SUFFICES ASSUME Inv, VerifyReady  PROVE Inv'
  OBVIOUS
<1> PICK i : i = NextOne
  OBVIOUS
<1>1. /\ job.pc = "ready" /\ UNCHANGED <<app, nextId, containers, pool, checks, tick, opsDone, crashes>>
      /\ faults' = faults \/ Faulty
      /\ \/ rows' = Attested(i, TRUE) /\ job' = [job EXCEPT !.pc = "in"] /\ UNCHANGED op
         \/ /\ rows' = rows \/ rows' = Attested(i, FALSE) \/ rows' = SetStatus(i, "unhealthy")
            /\ \/ /\ Reload /\ UNCHANGED op
                  /\ job' = [job EXCEPT !.pc = "out", !.ids = job.ids \ {i}, !.bad = TRUE]
               \/ Fail
  BY DEF VerifyReady, NotReady
<1>2. RowsOK /\ AppOK /\ OpOK /\ HostsOK /\ ChecksOK /\ BoundsOK /\ Held /\ Listed /\ Rolls
  BY DEF Inv, World, Work
<1>3. job.ids \subseteq DOMAIN rows /\ i \in job.ids /\ job.late \subseteq DOMAIN rows /\ job.ids # {}
  BY <1>1, <1>2, NextOneIs DEF Listed
<1>4. /\ RowsOK' /\ DOMAIN rows' = DOMAIN rows
      /\ \A k \in DOMAIN rows \ {i} : rows'[k] = rows[k]
      /\ rows' = Attested(i, TRUE) => rows'[i].status = "running"
  <2>1. CASE rows' = rows
    <3>1. RowsOK' /\ SameTable
      BY <1>1, <1>2, <2>1, SameRowsKeep
    <3>2. rows' = Attested(i, TRUE) => rows'[i].status = "running"
      BY <1>1, <1>2, <1>3, AttestedIs
    <3> QED  BY <2>1, <3>1, <3>2
  <2>2. CASE rows' = Attested(i, TRUE)
    <3>1. RowsOK' /\ Touches(i) /\ rows'[i].status = "running"
      BY <1>1, <1>2, <1>3, <2>2, AttestedIs
    <3> QED  BY <3>1 DEF Touches, SameTable
  <2>3. CASE rows' = Attested(i, FALSE)
    <3>1. RowsOK' /\ Touches(i)
      BY <1>1, <1>2, <1>3, <2>3, AttestedIs
    <3>2. rows' = Attested(i, TRUE) => rows'[i].status = "running"
      BY <1>1, <1>2, <1>3, AttestedIs
    <3> QED  BY <3>1, <3>2 DEF Touches, SameTable
  <2>4. CASE rows' = SetStatus(i, "unhealthy")
    <3>1. RowsOK' /\ Touches(i)
      BY <1>1, <1>2, <2>4, SetStatusIs DEF RowStatus
    <3>2. rows' = Attested(i, TRUE) => rows'[i].status = "running"
      BY <1>1, <1>2, <1>3, AttestedIs
    <3> QED  BY <3>1, <3>2 DEF Touches, SameTable
  <2> QED  BY <1>1, <2>1, <2>2, <2>3, <2>4
<1>5. AppOK' /\ HostsOK' /\ ChecksOK' /\ BoundsOK' /\ app'.placement = app.placement
  BY <1>1, <1>2 DEF AppOK, HostsOK, ChecksOK, BoundsOK, Faulty
<1>6. CASE Fail
  BY <1>4, <1>5, <1>6, Failed DEF Inv, World
<1>7. CASE Reload /\ UNCHANGED op /\ job' = [job EXCEPT !.pc = "out", !.ids = job.ids \ {i}, !.bad = TRUE]
  <2>1. OpOK'
    BY <1>2, <1>5, <1>7 DEF OpOK
  <2>2. Work'
    BY <1>1, <1>4, <1>7, ReloadsOn DEF RollPc
  <2> QED  BY <1>4, <1>5, <2>1, <2>2 DEF Inv, World
<1>8. CASE rows' = Attested(i, TRUE) /\ job' = [job EXCEPT !.pc = "in"] /\ UNCHANGED op
  <2>1. /\ job' \in JobRow /\ job'.by = job.by /\ job'.pc = "in" /\ job'.ids = job.ids
        /\ job'.late = job.late
    BY <1>2, <1>8 DEF Held, JobRow, RollPc
  <2>2. OpOK'
    BY <1>2, <1>5, <1>8 DEF OpOK
  <2>3. Held' /\ Adding' /\ Sparing' /\ Moves' /\ Verified' /\ Resumes'
    BY <1>1, <1>8, <2>1, RollsOn DEF RollPc
  <2>4. Listed'
    BY <1>2, <1>3, <1>4, <2>1 DEF Listed
  <2>5. Rolls'
    <3> SUFFICES ASSUME job.by = "redeploy", Redundant'  PROVE Rolls'
      BY <2>1 DEF Rolls
    <3>1. Redundant
      BY <1>4 DEF Redundant
    <3>2. Primary => job.ids \subseteq {First} /\ i = First /\ Others(First)
      BY <1>1, <1>2, <1>3, <3>1 DEF Rolls, RollPc
    <3>3. First' = First
      BY <1>4 DEF First
    <3>4. Primary => Others(First)'
      BY <1>4, <3>2, <3>3 DEF Others, Running
    <3>5. NextOne' = i
      BY <1>3, <1>4, <1>5, <2>1, SameNext
    <3>6. Running(NextOne)'
      BY <1>4, <1>8, <3>5 DEF Running
    <3> QED  BY <1>8, <2>1, <3>2, <3>3, <3>4, <3>6 DEF Rolls, Primary
  <2> QED  BY <1>4, <1>5, <2>2, <2>3, <2>4, <2>5 DEF Inv, World, Work
<1> QED  BY <1>1, <1>6, <1>7, <1>8

LEMMA Readmits == Inv /\ Readmit => Inv'
<1> SUFFICES ASSUME Inv, Readmit  PROVE Inv'
  OBVIOUS
<1> PICK i : i = NextOne
  OBVIOUS
<1>1. /\ job.pc = "in" /\ UNCHANGED <<rows, app, nextId, containers, checks, tick, opsDone, crashes>>
      /\ faults' = faults \/ Faulty
      /\ pool' = pool \/ pool' = Upstreams(rows')
      /\ \/ job' = [job EXCEPT !.pc = "out", !.ids = job.ids \ {i}] /\ UNCHANGED op
         \/ Fail
  BY DEF Readmit, NextReplica, Synced, Unsynced
<1>2. RowsOK /\ AppOK /\ OpOK /\ HostsOK /\ ChecksOK /\ BoundsOK /\ Held /\ Listed /\ Rolls
  BY DEF Inv, World, Work
<1>3. job.ids \subseteq DOMAIN rows /\ i \in job.ids /\ job.late \subseteq DOMAIN rows /\ job.ids # {}
  BY <1>1, <1>2, NextOneIs DEF Listed
<1>4. RowsOK' /\ DOMAIN rows' = DOMAIN rows /\ \A k : Running(k)' <=> Running(k)
  BY <1>1, <1>2, SameRowsKeep DEF Running
<1>5. AppOK' /\ HostsOK' /\ ChecksOK' /\ BoundsOK' /\ app'.placement = app.placement
  <2>1. pool' \subseteq Server \X Positive
    BY <1>1, <1>2, <1>4, PoolWritten
  <2> QED  BY <1>1, <1>2, <2>1 DEF AppOK, HostsOK, ChecksOK, BoundsOK, Faulty
<1>6. CASE Fail
  BY <1>4, <1>5, <1>6, Failed DEF Inv, World
<1>7. CASE job' = [job EXCEPT !.pc = "out", !.ids = job.ids \ {i}] /\ UNCHANGED op
  <2>1. /\ job' \in JobRow /\ job'.by = job.by /\ job'.pc = "out" /\ job'.ids = job.ids \ {i}
        /\ job'.late = job.late
    BY <1>2, <1>7 DEF Held, JobRow, RollPc
  <2>2. OpOK'
    BY <1>2, <1>5, <1>7 DEF OpOK
  <2>3. Held' /\ Adding' /\ Sparing' /\ Moves' /\ Verified' /\ Resumes'
    BY <1>1, <1>7, <2>1, RollsOn DEF RollPc
  <2>4. Listed'
    BY <1>2, <1>3, <1>4, <2>1 DEF Listed
  <2>5. Rolls'
    <3> SUFFICES ASSUME job.by = "redeploy", Redundant'  PROVE Rolls'
      BY <2>1 DEF Rolls
    <3>1. Redundant
      BY <1>4 DEF Redundant
    <3>2. Primary => job.ids \subseteq {First} /\ Others(First)
      BY <1>1, <1>2, <3>1 DEF Rolls, RollPc
    <3>3. First' = First
      BY <1>4 DEF First
    <3>4. Primary => Others(First)'
      BY <1>4, <3>2, <3>3 DEF Others
    <3>5. ASSUME ~Primary, op.attempt = 1, job'.ids # {}  PROVE Others(NextOne)'
      <4>1. Running(i)
        BY <1>1, <1>2, <3>1, <3>5 DEF Rolls, RollPc
      <4>2. NextOne' \in job.ids \ {i}
        BY <1>3, <1>4, <1>5, <2>1, <3>5, NextOneLeastNext
      <4>3. i \in DOMAIN rows' \ {NextOne'} /\ Running(i)'
        BY <1>3, <1>4, <4>1, <4>2
      <4> QED  BY <4>3 DEF Others
    <3> QED  BY <1>7, <2>1, <3>2, <3>3, <3>4, <3>5 DEF Rolls, Primary
  <2> QED  BY <1>4, <1>5, <2>2, <2>3, <2>4, <2>5 DEF Inv, World, Work
<1> QED  BY <1>1, <1>6, <1>7

LEMMA Validates == Inv /\ ValidateCandidate => Inv'
<1> SUFFICES ASSUME Inv, ValidateCandidate  PROVE Inv'
  OBVIOUS
<1>1. /\ job.pc = "out" /\ job.ids = {} /\ Primary /\ (GoTo("roll") \/ Fail)
      /\ UNCHANGED <<app, rows, nextId, containers, pool, checks, tick, opsDone, faults, crashes>>
  BY DEF ValidateCandidate, bounds
<1>2. RowsOK /\ AppOK /\ HostsOK /\ ChecksOK /\ BoundsOK /\ Rolls
  BY DEF Inv, World, Work
<1>3. AppOK' /\ RowsOK' /\ HostsOK' /\ ChecksOK' /\ BoundsOK' /\ app'.placement = app.placement
  BY <1>1, <1>2, SameRowsKeep DEF AppOK, HostsOK, ChecksOK, BoundsOK
<1>4. CASE Fail
  BY <1>3, <1>4, Failed DEF Inv, World
<1>5. CASE GoTo("roll")
  <2>1. job.by = "redeploy" /\ op.kind = "redeploy"
    BY <1>1, Roller DEF RollPc, Primary
  <2>2. Redundant => Others(First)
    BY <1>1, <1>2, <2>1 DEF Rolls, RollPc
  <2> QED  BY <1>1, <1>3, <1>5, <2>1, <2>2, GoesTo DEF Inv, World
<1> QED  BY <1>1, <1>4, <1>5

LEMMA RollEnds == Inv /\ RollOver => Inv'
<1> SUFFICES ASSUME Inv, RollOver  PROVE Inv'
  OBVIOUS
<1> PICK st : st = IF job.bad THEN "unhealthy" ELSE "running"
  OBVIOUS
<1>1. /\ job.pc = "out" /\ UNCHANGED <<rows, nextId, containers, pool, checks, tick, opsDone, faults, crashes>>
      /\ \/ op.step = "roll" /\ GoTo("commit") /\ UNCHANGED app
         \/ Settle /\ app' = [app EXCEPT !.status = st]
  BY DEF RollOver, bounds
<1>2. RowsOK /\ AppOK /\ HostsOK /\ ChecksOK /\ BoundsOK
  BY DEF Inv, World, Work
<1>3. RowsOK' /\ HostsOK' /\ ChecksOK' /\ BoundsOK'
  BY <1>1, <1>2, SameRowsKeep DEF HostsOK, ChecksOK, BoundsOK
<1>4. CASE op.step = "roll" /\ GoTo("commit") /\ UNCHANGED app
  <2>1. AppOK' /\ job.by = "redeploy" /\ op.kind = "redeploy"
    BY <1>1, <1>2, <1>4, Roller DEF AppOK, RollPc
  <2> QED  BY <1>1, <1>3, <1>4, <2>1, GoesTo DEF Inv, World
<1>5. CASE Settle /\ app' = [app EXCEPT !.status = st]
  <2>1. AppOK'
    BY <1>2, <1>5 DEF AppOK, AppRow, Live
  <2> QED  BY <1>3, <1>5, <2>1, Settled DEF Inv, World
<1> QED  BY <1>1, <1>4, <1>5

-----------------------------------------------------------------------------
(* The rest of a redeploy *)

\* A step of a redeploy that is no step of a roll.
LEMMA Redeployer ==
  ASSUME Inv,
         job.pc \in {"prepare", "commit", "record", "sync", "undo", "restored", "verify", "inspect"}
  PROVE  /\ job.by = "redeploy" /\ op.kind = "redeploy" /\ op.attempt >= 1
         /\ job.pc \in {"prepare", "commit", "sync", "undo"} => op.step = job.pc
         /\ job.pc = "record" => op.step = "commit"
         /\ job.pc = "restored" => op.step = "undo"
         /\ job.pc \in {"verify", "inspect"} => op.step = "verify"
         /\ job.ids \subseteq DOMAIN rows /\ job.late \subseteq DOMAIN rows
BY Whose DEF Inv, World, Work, Listed, Resumes

LEMMA Prepares ==
  ASSUME Inv, job.pc = "prepare", NEW step \in {"primary", "undo"}, Prepared(step),
         UNCHANGED <<rows, nextId>>, AppOK'
  PROVE  OpOK' /\ Work'
<1>1. RowsOK /\ OpOK /\ op \in OpRow /\ app \in AppRow /\ op.kind = "redeploy" /\ op.attempt >= 1
  BY Redeployer DEF Inv, World, OpOK, AppOK
<1> PICK snap : snap = RestorePoint
  OBVIOUS
<1> PICK prior : prior = app.status
  OBVIOUS
<1>2. op' = [op EXCEPT !.step = step, !.prior = prior, !.snap = snap] /\ job' = StepJob(step)
  BY DEF Prepared
<1>3. prior \in Live /\ snap \in SUBSET SnapRow /\ (snap = {} \/ \E v \in SnapRow : snap = {v})
  <2> PICK r : r = rows[First]
    OBVIOUS
  <2> PICK v : v = [image |-> app.ref, n |-> r.n, port |-> r.port]
    OBVIOUS
  <2>1. r \in ReplicaRow
    BY <1>1, TableFinite DEF RowsOK
  <2>2. v \in SnapRow
    BY <1>1, <2>1 DEF SnapRow, ReplicaRow, AppRow
  <2>3. snap = {} \/ snap = {v}
    BY DEF RestorePoint
  <2> QED  BY <1>1, <2>2, <2>3 DEF AppRow
<1>4. op' \in OpRow /\ op'.kind = "redeploy" /\ op'.step = step /\ op'.snap = snap
      /\ op'.attempt = op.attempt
  BY <1>1, <1>2, <1>3 DEF OpRow
<1>5. OpOK'
  BY <1>3, <1>4 DEF OpOK
<1>6. step \in Steps /\ step # "roll"
  BY DEF Steps, InPlace
<1> QED  BY <1>1, <1>2, <1>4, <1>5, <1>6, StepBegins

LEMMA PreparesRedeploy == Inv /\ PrepareRedeploy => Inv'
<1> SUFFICES ASSUME Inv, PrepareRedeploy  PROVE Inv'
  OBVIOUS
<1>1. /\ job.pc = "prepare" /\ UNCHANGED <<rows, nextId, containers, pool, checks, tick, opsDone, crashes>>
      /\ faults' = faults \/ Faulty
      /\ app' = app \/ app' = [app EXCEPT !.status = "deploying"]
      /\ Prepared("primary") \/ Prepared("undo") \/ Settle
  BY DEF PrepareRedeploy
<1>2. RowsOK /\ AppOK /\ HostsOK /\ ChecksOK /\ BoundsOK
  BY DEF Inv, World
<1>3. RowsOK' /\ HostsOK' /\ ChecksOK' /\ BoundsOK'
  BY <1>1, <1>2, SameRowsKeep DEF HostsOK, ChecksOK, BoundsOK, Faulty
<1>4. AppOK'
  BY <1>1, <1>2 DEF AppOK, AppRow, Live
<1>5. OpOK' /\ Work'
  BY <1>1, <1>4, Prepares, Settled
<1> QED  BY <1>3, <1>4, <1>5 DEF Inv, World

LEMMA Commits == Inv /\ CommitConfig => Inv'
<1> SUFFICES ASSUME Inv, CommitConfig  PROVE Inv'
  OBVIOUS
<1> PICK again \in BOOLEAN : again = (app.ref = op.image)
  OBVIOUS
<1>1. /\ job.pc = "commit" /\ job' = [job EXCEPT !.pc = "record"]
      /\ app' = [app EXCEPT !.placement = op.placement, !.ref = op.image, !.current = FALSE]
      /\ op' = [op EXCEPT !.again = again]
      /\ UNCHANGED <<rows, nextId, containers, pool, checks, tick, opsDone, faults, crashes>>
  BY DEF CommitConfig, bounds
<1>2. RowsOK /\ AppOK /\ OpOK /\ HostsOK /\ ChecksOK /\ BoundsOK /\ Held /\ Listed
  BY DEF Inv, World, Work
<1>3. RowsOK' /\ HostsOK' /\ ChecksOK' /\ BoundsOK'
  BY <1>1, <1>2, SameRowsKeep DEF HostsOK, ChecksOK, BoundsOK
<1>4. AppOK'
  <2>1. op.placement \in Placement /\ op.image \in 0..MaxOps
    BY <1>2 DEF OpOK, OpRow
  <2> QED  BY <1>1, <1>2, <2>1 DEF AppOK, AppRow
<1>5. job.by = "redeploy" /\ op.kind = "redeploy" /\ op.attempt >= 1 /\ op.step = "commit"
  BY <1>1, Redeployer
<1>6. /\ op' \in OpRow /\ op'.kind = "redeploy" /\ op'.step = "commit" /\ op'.snap = op.snap
      /\ op'.attempt = op.attempt
  BY <1>1, <1>2, <1>5 DEF OpOK, OpRow
<1>7. OpOK'
  BY <1>2, <1>6 DEF OpOK
<1>8. /\ job' \in JobRow /\ job'.by = "redeploy" /\ job'.pc = "record" /\ job'.ids = job.ids
      /\ job'.late = job.late
  BY <1>1, <1>2, <1>5 DEF Held, JobRow
<1>9. Listed'
  BY <1>1, <1>2, <1>8 DEF Listed
<1>10. Held' /\ Adding' /\ Sparing' /\ Moves' /\ Rolls' /\ Verified' /\ Resumes'
  BY <1>5, <1>6, <1>8 DEF Held, Adding, Sparing, Moves, Rolls, Verified, Resumes, AddPc, RollPc
<1> QED  BY <1>3, <1>4, <1>7, <1>9, <1>10 DEF Inv, World, Work

LEMMA RecordsCommit == Inv /\ RecordCommit => Inv'
<1> SUFFICES ASSUME Inv, RecordCommit  PROVE Inv'
  OBVIOUS
<1>1. /\ job.pc = "record" /\ GoTo("sync")
      /\ UNCHANGED <<app, rows, nextId, containers, pool, checks, tick, opsDone, faults, crashes>>
  BY DEF RecordCommit, bounds
<1>2. RowsOK /\ AppOK /\ HostsOK /\ ChecksOK /\ BoundsOK
  BY DEF Inv, World
<1>3. RowsOK' /\ AppOK' /\ HostsOK' /\ ChecksOK' /\ BoundsOK'
  BY <1>1, <1>2, SameRowsKeep DEF AppOK, HostsOK, ChecksOK, BoundsOK
<1>4. OpOK' /\ Work'
  BY <1>1, <1>3, Redeployer, GoesTo
<1> QED  BY <1>3, <1>4 DEF Inv, World

LEMMA SyncsIngress == Inv /\ SyncIngress => Inv'
<1> SUFFICES ASSUME Inv, SyncIngress  PROVE Inv'
  OBVIOUS
<1>1. /\ job.pc = "sync" /\ UNCHANGED <<app, rows, nextId, containers, checks, tick, opsDone, crashes>>
      /\ faults' = faults \/ Faulty
      /\ pool' = pool \/ pool' = Upstreams(rows')
      /\ GoTo("verify") \/ Fail
  BY DEF SyncIngress, Synced, Unsynced
<1>2. RowsOK /\ AppOK /\ HostsOK /\ ChecksOK /\ BoundsOK
  BY DEF Inv, World
<1>3. RowsOK' /\ AppOK' /\ HostsOK' /\ ChecksOK' /\ BoundsOK'
  <2>1. RowsOK'
    BY <1>1, <1>2, SameRowsKeep
  <2>2. pool' \subseteq Server \X Positive
    BY <1>1, <1>2, <2>1, PoolWritten
  <2> QED  BY <1>1, <1>2, <2>1, <2>2 DEF AppOK, HostsOK, ChecksOK, BoundsOK, Faulty
<1>4. OpOK' /\ Work'
  BY <1>1, <1>3, Redeployer, GoesTo, Failed
<1> QED  BY <1>3, <1>4 DEF Inv, World

\* The last health check goes on.
LEMMA ChecksOn ==
  ASSUME Inv, job.pc \in {"verify", "inspect"}, UNCHANGED <<op, containers>>, DOMAIN rows' = DOMAIN rows,
         NEW i \in job.ids, \A k \in DOMAIN rows \ {i} : rows'[k] = rows[k],
         NEW p \in {"verify", "inspect"}, NEW I \in {job.ids, job.ids \ {i}},
         job' = [job EXCEPT !.pc = p, !.ids = I],
         p = "inspect" => I = job.ids,
         I # job.ids => rows'[i].status = "running" /\ ~rows'[i].err
                        /\ Exact(Spot(rows'[i]), op.image)
  PROVE  Work'
<1>1. Held /\ Listed /\ Verified /\ job.by = "redeploy" /\ op.kind = "redeploy" /\ op.step = "verify"
      /\ job.ids \subseteq DOMAIN rows /\ job.late \subseteq DOMAIN rows
  BY Redeployer DEF Inv, Work
<1>2. I \subseteq job.ids /\ (p = "inspect" => I # {})
  OBVIOUS
<1>3. /\ job' \in JobRow /\ job'.by = "redeploy" /\ job'.pc = p /\ job'.ids = I
      /\ job'.late = job.late
  BY <1>1, <1>2 DEF Held, JobRow
<1>4. Held'
  BY <1>1, <1>3 DEF Held
<1>5. Listed'
  BY <1>1, <1>2, <1>3 DEF Listed
<1>6. Adding' /\ Sparing' /\ Moves' /\ Rolls' /\ Resumes'
  BY <1>1, <1>3 DEF Inv, Work, Adding, Sparing, Moves, Rolls, Resumes, AddPc, RollPc
<1>7. Verified'
  <2> SUFFICES ASSUME NEW k \in DOMAIN rows, k \notin I
               PROVE  /\ rows'[k].status = "running" /\ ~rows'[k].err
                      /\ LET spot == Spot(rows'[k]) IN
                         spot \in DOMAIN containers' /\ ~containers'[spot].healed
                           => containers'[spot].image = op'.image
    BY <1>3 DEF Verified, Running
  <2>1. CASE k = i
    BY <2>1 DEF Exact
  <2>2. CASE k # i
    <3>1. k \notin job.ids /\ rows'[k] = rows[k]
      BY <2>2
    <3>2. /\ rows[k].status = "running" /\ ~rows[k].err
          /\ LET spot == Spot(rows[k]) IN
             spot \in DOMAIN containers /\ ~containers[spot].healed => containers[spot].image = op.image
      BY <1>1, <3>1 DEF Verified, Running
    <3> QED  BY <3>1, <3>2
  <2> QED  BY <2>1, <2>2
<1> QED  BY <1>4, <1>5, <1>6, <1>7 DEF Work

LEMMA VerifiesOne == Inv /\ VerifyReplica => Inv'
<1> SUFFICES ASSUME Inv, VerifyReplica  PROVE Inv'
  OBVIOUS
<1> PICK i : i = NextOne
  OBVIOUS
<1>1. /\ job.pc = "verify" /\ job.ids # {}
      /\ UNCHANGED <<app, nextId, containers, pool, checks, tick, opsDone, faults, crashes>>
      /\ \/ rows' = SetStatus(i, "attesting") /\ job' = [job EXCEPT !.pc = "inspect"] /\ UNCHANGED op
         \/ rows' = SetStatus(i, "unhealthy") /\ Fail
  BY DEF VerifyReplica, bounds
<1>2. RowsOK /\ AppOK /\ OpOK /\ HostsOK /\ ChecksOK /\ BoundsOK /\ Held /\ Listed
  BY DEF Inv, World, Work
<1>3. i \in job.ids /\ job.ids \subseteq DOMAIN rows
  BY <1>1, <1>2, NextOneIs DEF Listed
<1>4. RowsOK' /\ Touches(i)
  BY <1>1, <1>2, SetStatusIs DEF RowStatus
<1>5. AppOK' /\ HostsOK' /\ ChecksOK' /\ BoundsOK' /\ app'.placement = app.placement
  BY <1>1, <1>2 DEF AppOK, HostsOK, ChecksOK, BoundsOK
<1>6. CASE Fail
  BY <1>4, <1>5, <1>6, Failed DEF Inv, World
<1>7. CASE job' = [job EXCEPT !.pc = "inspect"] /\ UNCHANGED op
  <2>1. OpOK'
    BY <1>2, <1>5, <1>7 DEF OpOK
  <2>2. job' = [job EXCEPT !.pc = "inspect", !.ids = job.ids]
    BY <1>2, <1>7 DEF Held, JobRow
  <2>3. Work'
    <3> PICK p \in {"verify", "inspect"} : p = "inspect"
      OBVIOUS
    <3> PICK I \in {job.ids, job.ids \ {i}} : I = job.ids
      OBVIOUS
    <3>1. job' = [job EXCEPT !.pc = p, !.ids = I]
      BY <2>2
    <3>2. DOMAIN rows' = DOMAIN rows /\ \A k \in DOMAIN rows \ {i} : rows'[k] = rows[k]
      BY <1>4 DEF Touches, SameTable
    <3> QED  BY <1>1, <1>3, <1>7, <3>1, <3>2, ChecksOn
  <2> QED  BY <1>4, <1>5, <2>1, <2>3 DEF Inv, World
<1> QED  BY <1>1, <1>6, <1>7

LEMMA InspectsOne == Inv /\ InspectReplica => Inv'
<1> SUFFICES ASSUME Inv, InspectReplica  PROVE Inv'
  OBVIOUS
<1> PICK i : i = NextOne
  OBVIOUS
<1>1. /\ job.pc = "inspect"
      /\ UNCHANGED <<app, nextId, containers, pool, checks, tick, opsDone, crashes>>
      /\ faults' = faults \/ Faulty
      /\ \/ /\ Exact(Spot(rows[i]), op.image) /\ rows' = Attested(i, TRUE) /\ UNCHANGED op
            /\ job' = [job EXCEPT !.pc = "verify", !.ids = job.ids \ {i}]
         \/ rows' = Attested(i, FALSE) /\ Fail
  BY DEF InspectReplica
<1>2. RowsOK /\ AppOK /\ OpOK /\ HostsOK /\ ChecksOK /\ BoundsOK /\ Held /\ Listed
  BY DEF Inv, World, Work
<1>3. i \in job.ids /\ job.ids \subseteq DOMAIN rows
  BY <1>1, <1>2, NextOneIs DEF Listed
<1>4. AppOK' /\ HostsOK' /\ ChecksOK' /\ BoundsOK' /\ app'.placement = app.placement
  BY <1>1, <1>2 DEF AppOK, HostsOK, ChecksOK, BoundsOK, Faulty
<1>5. CASE rows' = Attested(i, FALSE) /\ Fail
  <2>1. RowsOK'
    BY <1>1, <1>2, <1>3, <1>5, AttestedIs
  <2> QED  BY <1>4, <1>5, <2>1, Failed DEF Inv, World
<1>6. CASE /\ Exact(Spot(rows[i]), op.image) /\ rows' = Attested(i, TRUE) /\ UNCHANGED op
           /\ job' = [job EXCEPT !.pc = "verify", !.ids = job.ids \ {i}]
  <2>1. OpOK'
    BY <1>2, <1>4, <1>6 DEF OpOK
  <2>2. RowsOK' /\ Touches(i) /\ rows'[i].status = "running" /\ ~rows'[i].err
    BY <1>1, <1>2, <1>3, <1>6, AttestedIs
  <2>3. /\ DOMAIN rows' = DOMAIN rows /\ \A k \in DOMAIN rows \ {i} : rows'[k] = rows[k]
        /\ Spot(rows'[i]) = Spot(rows[i])
    BY <1>3, <2>2 DEF Touches, SameTable, Spot
  <2>4. Work'
    <3> PICK p \in {"verify", "inspect"} : p = "verify"
      OBVIOUS
    <3> PICK I \in {job.ids, job.ids \ {i}} : I = job.ids \ {i}
      OBVIOUS
    <3>1. job' = [job EXCEPT !.pc = p, !.ids = I]
      BY <1>6
    <3>2. Exact(Spot(rows'[i]), op.image)
      BY <1>6, <2>3
    <3> QED  BY <1>1, <1>3, <1>6, <2>2, <2>3, <3>1, <3>2, ChecksOn
  <2> QED  BY <1>4, <2>1, <2>2, <2>4 DEF Inv, World
<1> QED  BY <1>1, <1>5, <1>6

LEMMA Records == Inv /\ RecordDeployment => Inv'
<1> SUFFICES ASSUME Inv, RecordDeployment  PROVE Inv'
  OBVIOUS
<1>1. /\ Settle /\ UNCHANGED <<rows, nextId, containers, pool, checks, tick, opsDone, faults, crashes>>
      /\ app' = [app EXCEPT !.status = "running", !.image = op.image, !.current = TRUE]
  BY DEF RecordDeployment, bounds
<1>2. RowsOK /\ AppOK /\ OpOK /\ HostsOK /\ ChecksOK /\ BoundsOK
  BY DEF Inv, World
<1>3. AppOK'
  <2>1. op.image \in 0..MaxOps
    BY <1>2 DEF OpOK, OpRow
  <2> QED  BY <1>1, <1>2, <2>1 DEF AppOK, AppRow, Live
<1> QED  BY <1>1, <1>2, <1>3, SameRowsKeep, Settled DEF Inv, World, HostsOK, ChecksOK, BoundsOK

\* A pass over the compensations that fails.
LEMMA Incompletes ==
  ASSUME Inv, job.by = "redeploy", op.kind = "redeploy", op.attempt >= 1, Incomplete
  PROVE  OpOK' /\ Work'
<1>1. job' = NoJob /\ (op' = NoOp \/ op' = op)
  BY DEF Incomplete, Release
<1>2. OpOK' /\ Resumes'
  BY <1>1, NoOpIs DEF Inv, World, OpOK, Resumes
<1> QED  BY <1>1, <1>2, Freed

LEMMA Restores == Inv /\ RestorePrimary => Inv'
<1> SUFFICES ASSUME Inv, RestorePrimary  PROVE Inv'
  OBVIOUS
<1> PICK st : st = IF app.status = "deploying" THEN op.prior ELSE app.status
  OBVIOUS
<1> PICK server : server = rows[First].server
  OBVIOUS
<1>1. /\ job.pc = "undo" /\ UNCHANGED <<rows, nextId, pool, checks, tick, opsDone, crashes>>
      /\ app' = [app EXCEPT !.status = st]
      /\ \/ Settle /\ UNCHANGED <<containers, faults>>
         \/ \E snap \in op.snap :
              \/ /\ Starts(<<server, snap.n>>, snap.port, snap.image)
                    \/ StartsIll(<<server, snap.n>>, snap.port, snap.image)
                 /\ job' = [job EXCEPT !.pc = "restored", !.spot = <<server, snap.n>>]
                 /\ UNCHANGED op
              \/ StartFails(<<server, snap.n>>, snap.port, snap.image) /\ Incomplete
  BY DEF RestorePrimary
<1>2. RowsOK /\ AppOK /\ OpOK /\ HostsOK /\ ChecksOK /\ BoundsOK /\ Held /\ Listed
  BY DEF Inv, World, Work
<1>3. job.by = "redeploy" /\ op.kind = "redeploy" /\ op.attempt >= 1 /\ op.step = "undo"
  BY <1>1, Redeployer
<1>4. AppOK' /\ RowsOK' /\ ChecksOK'
  <2>1. st \in Live
    BY <1>2 DEF OpOK, OpRow, AppOK, AppRow
  <2> QED  BY <1>1, <1>2, <2>1, SameRowsKeep DEF AppOK, AppRow, ChecksOK
<1>5. CASE Settle /\ UNCHANGED <<containers, faults>>
  <2>1. HostsOK' /\ BoundsOK'
    BY <1>1, <1>2, <1>5 DEF HostsOK, BoundsOK
  <2> QED  BY <1>4, <1>5, <2>1, Settled DEF Inv, World
<1>6. CASE \E snap \in op.snap :
              \/ /\ Starts(<<server, snap.n>>, snap.port, snap.image)
                    \/ StartsIll(<<server, snap.n>>, snap.port, snap.image)
                 /\ job' = [job EXCEPT !.pc = "restored", !.spot = <<server, snap.n>>]
                 /\ UNCHANGED op
              \/ StartFails(<<server, snap.n>>, snap.port, snap.image) /\ Incomplete
  <2> PICK snap \in op.snap :
              \/ /\ Starts(<<server, snap.n>>, snap.port, snap.image)
                    \/ StartsIll(<<server, snap.n>>, snap.port, snap.image)
                 /\ job' = [job EXCEPT !.pc = "restored", !.spot = <<server, snap.n>>]
                 /\ UNCHANGED op
              \/ StartFails(<<server, snap.n>>, snap.port, snap.image) /\ Incomplete
    BY <1>6
  <2> PICK spot : spot = <<server, snap.n>>
    OBVIOUS
  <2>1. snap.n \in Positive /\ snap.port \in Positive /\ snap.image \in 0..MaxOps
    BY <1>2 DEF OpOK, OpRow, SnapRow
  <2>2. spot \in Server \X Positive /\ spot \in Nat \X Nat
    <3>1. rows[First] \in ReplicaRow
      BY <1>2, TableFinite DEF RowsOK
    <3>2. server \in Server
      BY <3>1 DEF ReplicaRow
    <3>3. server \in Nat /\ snap.n \in Nat
      BY <2>1, <3>2, ServersAre DEF Positive
    <3> QED  BY <2>1, <3>2, <3>3
  <2>3. ContainersOK' /\ faults' \in Nat
    <3>1. ContainersOK
      BY <1>2 DEF HostsOK, ContainersOK
    <3>2. \/ Starts(spot, snap.port, snap.image) \/ StartsIll(spot, snap.port, snap.image)
          \/ StartFails(spot, snap.port, snap.image)
      OBVIOUS
    <3> QED  BY <1>2, <2>1, <2>2, <3>1, <3>2, StartKeeps
  <2>4. HostsOK' /\ BoundsOK'
    BY <1>1, <1>2, <2>3 DEF HostsOK, ContainersOK, BoundsOK
  <2>5. CASE Incomplete
    BY <1>3, <1>4, <2>4, <2>5, Incompletes DEF Inv, World
  <2>6. CASE job' = [job EXCEPT !.pc = "restored", !.spot = spot] /\ UNCHANGED op
    <3>1. /\ job' \in JobRow /\ job'.by = "redeploy" /\ job'.pc = "restored" /\ job'.ids = job.ids
          /\ job'.late = job.late
      BY <1>2, <1>3, <2>2, <2>6 DEF Held, JobRow
    <3>2. OpOK'
      BY <1>2, <1>3, <2>6 DEF OpOK
    <3>3. Listed'
      BY <1>1, <1>2, <3>1 DEF Listed
    <3>4. Held' /\ Adding' /\ Sparing' /\ Moves' /\ Rolls' /\ Verified' /\ Resumes'
      BY <1>3, <2>6, <3>1 DEF Held, Adding, Sparing, Moves, Rolls, Verified, Resumes, AddPc, RollPc
    <3> QED  BY <1>4, <2>4, <3>2, <3>3, <3>4 DEF Inv, World, Work
  <2> QED  BY <2>5, <2>6
<1> QED  BY <1>1, <1>5, <1>6

LEMMA Probed == Inv /\ ProbeRestored => Inv'
<1> SUFFICES ASSUME Inv, ProbeRestored  PROVE Inv'
  OBVIOUS
<1>1. PICK s \in {"running", "unhealthy"} :
      /\ job.pc = "restored" /\ rows' = SetStatus(First, s) /\ app' = [app EXCEPT !.status = s]
      /\ faults' = faults \/ Faulty
      /\ pool' = pool \/ pool' = Upstreams(rows')
      /\ Settle \/ Incomplete
      /\ containers' = Orphaned(job.spot)
      /\ UNCHANGED <<nextId, checks, tick, opsDone, crashes>>
  BY DEF ProbeRestored, Synced, Unsynced
<1>2. RowsOK /\ AppOK /\ OpOK /\ HostsOK /\ ChecksOK /\ BoundsOK
  BY DEF Inv, World
<1>3. job.by = "redeploy" /\ op.kind = "redeploy" /\ op.attempt >= 1
  BY <1>1, Redeployer
<1>4. AppOK' /\ ChecksOK' /\ BoundsOK'
  BY <1>1, <1>2 DEF AppOK, AppRow, Live, ChecksOK, BoundsOK, Faulty
<1>5. RowsOK'
  BY <1>1, <1>2, SetStatusIs DEF RowStatus
<1>6. HostsOK'
  <2>1. pool' \subseteq Server \X Positive
    BY <1>1, <1>2, <1>5, PoolWritten
  <2>2. ContainersOK'
    <3>1. ContainersOK
      BY <1>2 DEF HostsOK, ContainersOK
    <3> QED  BY <1>1, <3>1, OrphanedKeeps
  <2> QED  BY <2>1, <2>2 DEF HostsOK, ContainersOK
<1>7. OpOK' /\ Work'
  BY <1>1, <1>3, Settled, Incompletes
<1> QED  BY <1>4, <1>5, <1>6, <1>7 DEF Inv, World

-----------------------------------------------------------------------------
(* The runtime reconciler *)

LEMMA Attests == Inv /\ ReconcileAppRuntime => Inv'
<1> SUFFICES ASSUME Inv, ReconcileAppRuntime  PROVE Inv'
  OBVIOUS
<1>1. /\ job = NoJob /\ UNCHANGED <<app, nextId, op, containers, pool, checks, tick, opsDone, crashes>>
      /\ faults' = faults \/ Faulty
      /\ \/ /\ job' = [NoJob EXCEPT !.by = "attest", !.pc = "audit", !.ids = DOMAIN rows]
            /\ UNCHANGED rows
         \/ (\E i \in DOMAIN rows : rows' = Attested(i, FALSE)) /\ UNCHANGED job
  BY DEF ReconcileAppRuntime
<1>2. RowsOK /\ AppOK /\ OpOK /\ HostsOK /\ ChecksOK /\ BoundsOK
  BY DEF Inv, World
<1>3. AppOK' /\ OpOK' /\ HostsOK' /\ ChecksOK' /\ BoundsOK'
  BY <1>1, <1>2 DEF AppOK, OpOK, HostsOK, ChecksOK, BoundsOK, Faulty
<1>4. CASE /\ job' = [NoJob EXCEPT !.by = "attest", !.pc = "audit", !.ids = DOMAIN rows]
           /\ UNCHANGED rows
  <2>1. DOMAIN rows \in SUBSET Positive
    BY <1>2, TableFinite
  <2>2. /\ job' \in JobRow /\ job'.by = "attest" /\ job'.pc = "audit" /\ job'.ids = DOMAIN rows
        /\ job'.late = {}
    BY <1>4, <2>1, NoJobIs DEF NoJob, JobRow
  <2>3. RowsOK'
    BY <1>1, <1>2, <1>4, SameRowsKeep
  <2>4. Resumes'
    <3>1. job.by = "none"
      BY <1>1 DEF NoJob
    <3> QED  BY <1>1, <2>2, <3>1 DEF Inv, Work, Resumes
  <2>5. Held' /\ Listed' /\ Adding' /\ Sparing' /\ Moves' /\ Rolls' /\ Verified'
    BY <1>4, <2>2 DEF Held, Listed, Adding, Sparing, Moves, Rolls, Verified, AddPc
  <2> QED  BY <1>3, <2>3, <2>4, <2>5 DEF Inv, World, Work
<1>5. CASE (\E i \in DOMAIN rows : rows' = Attested(i, FALSE)) /\ UNCHANGED job
  <2>1. PICK i \in DOMAIN rows : rows' = Attested(i, FALSE)
    BY <1>5
  <2>2. RowsOK' /\ SameTable
    BY <1>1, <1>2, <2>1, AttestedIs DEF Touches
  <2>3. Work'
    BY <1>1, <1>3, <1>5, <2>2, Beside DEF Aside, Minded, NoJob
  <2> QED  BY <1>3, <2>2, <2>3 DEF Inv, World
<1> QED  BY <1>1, <1>4, <1>5

LEMMA Audits == Inv /\ AuditReplica => Inv'
<1> SUFFICES ASSUME Inv, AuditReplica  PROVE Inv'
  OBVIOUS
<1> PICK i : i = NextOne
  OBVIOUS
<1> PICK bad : bad = (job.bad \/ rows[i].status = "divergent")
  OBVIOUS
<1>1. /\ job.pc = "audit" /\ job.ids # {}
      /\ UNCHANGED <<app, nextId, op, containers, pool, checks, tick, opsDone, crashes>>
      /\ faults' = faults \/ Faulty
      /\ rows' = Attested(i, TRUE) \/ rows' = Attested(i, FALSE)
      /\ \/ job' = [job EXCEPT !.ids = job.ids \ {i}]
         \/ job' = [job EXCEPT !.ids = job.ids \ {i}, !.bad = bad]
  BY DEF AuditReplica
<1>2. RowsOK /\ AppOK /\ OpOK /\ HostsOK /\ ChecksOK /\ BoundsOK /\ Held /\ Listed
  BY DEF Inv, World, Work
<1>3. job.by = "attest" /\ job.ids \subseteq DOMAIN rows /\ i \in job.ids /\ job.late \subseteq DOMAIN rows
  BY <1>1, <1>2, Whose, NextOneIs DEF Listed
<1>4. RowsOK' /\ DOMAIN rows' = DOMAIN rows
  <2>1. RowsOK' /\ Touches(i)
    BY <1>1, <1>2, <1>3, AttestedIs
  <2> QED  BY <2>1 DEF Touches, SameTable
<1>5. AppOK' /\ OpOK' /\ HostsOK' /\ ChecksOK' /\ BoundsOK'
  BY <1>1, <1>2 DEF AppOK, OpOK, HostsOK, ChecksOK, BoundsOK, Faulty
<1>6. /\ job' \in JobRow /\ job'.by = "attest" /\ job'.pc = "audit" /\ job'.ids = job.ids \ {i}
      /\ job'.late = job.late
  <2>1. bad \in BOOLEAN /\ job \in JobRow
    BY <1>2 DEF Held, JobRow
  <2>2. CASE job' = [job EXCEPT !.ids = job.ids \ {i}]
    BY <1>1, <1>3, <2>1, <2>2 DEF JobRow
  <2>3. CASE job' = [job EXCEPT !.ids = job.ids \ {i}, !.bad = bad]
    BY <1>1, <1>3, <2>1, <2>3 DEF JobRow
  <2> QED  BY <1>1, <2>2, <2>3
<1>7. Resumes'
  BY <1>1, <1>3, <1>6 DEF Inv, Work, Resumes
<1>8. Held' /\ Listed' /\ Adding' /\ Sparing' /\ Moves' /\ Rolls' /\ Verified'
  BY <1>2, <1>3, <1>4, <1>6 DEF Held, Listed, Adding, Sparing, Moves, Rolls, Verified, AddPc
<1> QED  BY <1>4, <1>5, <1>7, <1>8 DEF Inv, World, Work

LEMMA AuditEnds == Inv /\ AuditOver => Inv'
<1> SUFFICES ASSUME Inv, AuditOver  PROVE Inv'
  OBVIOUS
<1>1. /\ job.pc = "audit" /\ Release /\ UNCHANGED <<app, rows, nextId, containers, pool, checks, tick, opsDone, faults, crashes>>
      /\ op' = op \/ op' = [NoOp EXCEPT !.kind = "reload", !.step = "reload"]
  BY DEF AuditOver, bounds
<1>2. RowsOK /\ AppOK /\ OpOK /\ HostsOK /\ ChecksOK /\ BoundsOK /\ Held
  BY DEF Inv, World, Work
<1>3. AppOK' /\ RowsOK' /\ HostsOK' /\ ChecksOK' /\ BoundsOK'
  BY <1>1, <1>2, SameRowsKeep DEF AppOK, HostsOK, ChecksOK, BoundsOK
<1>4. OpOK' /\ Resumes'
  <2>1. CASE op' = op
    <3>1. job.by = "attest"
      BY <1>1, <1>2, Whose
    <3> QED  BY <1>1, <1>2, <2>1, <3>1 DEF OpOK, Inv, Work, Resumes, Release, NoJob
  <2>2. CASE op' = [NoOp EXCEPT !.kind = "reload", !.step = "reload"]
    <3>1. op' \in OpRow /\ op'.kind = "reload" /\ op'.step = "reload" /\ op'.snap = {}
      BY <2>2, NoOpIs DEF OpRow
    <3> QED  BY <1>1, <3>1 DEF OpOK, Resumes
  <2> QED  BY <1>1, <2>1, <2>2
<1>5. Work'
  BY <1>1, <1>4, Freed DEF Release
<1> QED  BY <1>3, <1>4, <1>5 DEF Inv, World

-----------------------------------------------------------------------------
(* The theorems *)

LEMMA Stutters == Inv /\ UNCHANGED vars => Inv'
<1> SUFFICES ASSUME Inv, UNCHANGED vars  PROVE Inv'
  OBVIOUS
<1> USE DEF Inv, World, vars, durable, bounds
<1>1. RowsOK' /\ SameTable
  BY SameRowsKeep
<1>2. AppOK' /\ OpOK' /\ HostsOK' /\ ChecksOK' /\ BoundsOK'
  BY DEF AppOK, OpOK, HostsOK, ChecksOK, BoundsOK
<1>3. Work'
  BY <1>1, <1>2, Beside DEF Aside, Minded
<1> QED  BY <1>1, <1>2, <1>3

LEMMA NextKeeps == Inv /\ [Next]_vars => Inv'
<1> SUFFICES ASSUME Inv, [Next]_vars  PROVE Inv'
  OBVIOUS
<1>1. CASE TickStep
  BY <1>1, TickBegins, Probes, Decides, Restarts, Recreates, Propagates DEF TickStep, CheckStep
<1>2. CASE AddStep
  BY <1>2, StartsOne, InsertsOne, AttestsOne, AdmitsOne, CleansUp, RollsBack DEF AddStep
<1>3. CASE RemoveStep
  BY <1>3, DrainsOne, RemovesOne, RemovalEnds, Confirms DEF RemoveStep
<1>4. CASE RollStep
  BY <1>4, TakesOut, Swaps, VerifiesReady, Readmits, RollEnds DEF RollStep
<1>5. CASE DeployStep
  BY <1>5, PreparesRedeploy, Validates, Commits, RecordsCommit, SyncsIngress, VerifiesOne,
     InspectsOne, Records, Restores, Probed DEF DeployStep
<1>6. CASE AuditStep
  BY <1>6, Audits, AuditEnds DEF AuditStep
<1>7. CASE ReconcileAppRuntime \/ ReconcileTraefik \/ Submit \/ Begin \/ Crash
  BY <1>7, Attests, Reconciles, Submits, Begins, Crashes
<1>8. CASE UNCHANGED vars
  BY <1>8, Stutters
<1> QED  BY <1>1, <1>2, <1>3, <1>4, <1>5, <1>6, <1>7, <1>8 DEF Next, JobStep

\* Whoever holds app:<id>, the rows, the servers and what he is about to do agree:
\* what he removes or replaces is there, and another replica is as the removal or
\* the roll supposes.
THEOREM Invariance == Spec => []Inv
BY Initial, NextKeeps, PTL DEF Spec

LEMMA InvTypes == Inv => TypeOK
<1> SUFFICES ASSUME Inv  PROVE TypeOK
  OBVIOUS
<1> USE DEF Inv, World, Work
<1>1. app.status \in Live /\ app.placement \in Placement
      /\ {app.image, app.ref} \subseteq 0..MaxOps /\ app.current \in BOOLEAN
  BY DEF AppOK, AppRow
<1>2. op.attempt \in 0..MaxAttempts /\ op.again \in BOOLEAN
  BY DEF OpOK, OpRow
<1>3. nextId \in Positive /\ DOMAIN rows \subseteq 1..(nextId - 1)
  BY DEF RowsOK
<1>4. \A i \in DOMAIN rows :
       /\ rows[i] \in [server : Server, n : Positive, port : Positive, ticks : 0..2, err : BOOLEAN,
                       status : {"running", "unhealthy", "attesting", "draining", "divergent"}]
       /\ \A j \in DOMAIN rows \ {i} : Named(i, j) /\ Bound(i, j)
  BY DEF RowsOK, ReplicaRow, RowStatus
<1>5. /\ DOMAIN containers \subseteq Server \X Positive
      /\ \A c \in DOMAIN containers :
           containers[c] \in [port : Positive, image : 0..MaxOps, healthy : BOOLEAN,
                              healed : BOOLEAN, left : BOOLEAN]
      /\ pool \subseteq Server \X Positive
  BY DEF HostsOK, ContainerRow
<1>6. job.by \in {"none", "converge", "attest", op.kind}
  BY DEF Held
<1>7. tick = "idle" => checks = <<>>
  BY DEF ChecksOK
<1>8. \A i \in DOMAIN checks : checks[i].pc \in {"probing", "probed", "restarting", "recreating", "over"}
  BY DEF ChecksOK, CheckRow
<1>9. op.snap \subseteq SnapRow /\ Cardinality(op.snap) <= 1
  <2>1. op.snap = {} \/ \E v \in SnapRow : op.snap = {v}
    BY DEF OpOK
  <2> HIDE DEF Inv, World, Work
  <2>2. CASE op.snap = {}
    <3>1. Cardinality(op.snap) = 0
      BY <2>2, FS_EmptySet
    <3> QED  BY <2>2, <3>1
  <2>3. CASE \E v \in SnapRow : op.snap = {v}
    <3>1. PICK v \in SnapRow : op.snap = {v}
      BY <2>3
    <3>2. Cardinality(op.snap) = 1
      BY <3>1, FS_Singleton
    <3>3. op.snap \subseteq SnapRow
      BY <3>1
    <3> QED  BY <3>2, <3>3
  <2> QED  BY <2>1, <2>2, <2>3
<1> QED  BY <1>1, <1>2, <1>3, <1>4, <1>5, <1>6, <1>7, <1>8, <1>9 DEF TypeOK, Live, SnapRow

\* Names and ports stay unique, and every row, container and job is well formed,
\* whatever the actors do to each other.
THEOREM TypeCorrectness == Spec => []TypeOK
BY Invariance, InvTypes, PTL

-----------------------------------------------------------------------------
(* A replica is taken out only by a removal or a roll *)

NoneDrained == \A i \in DOMAIN rows : ~TakenOut(i)

LEMMA SetNotDraining ==
  ASSUME NEW i, NEW st, st # "draining", rows' = SetStatus(i, st)
  PROVE  NoneDrained
BY DEF SetStatus, NoneDrained, TakenOut, Running

LEMMA AttestNotDraining ==
  ASSUME NEW i, NEW ok, rows' = Attested(i, ok)
  PROVE  NoneDrained
BY DEF Attested, NoneDrained, TakenOut, Running

LEMMA LessNotDraining ==
  ASSUME NEW i, rows' = Without(rows, i)
  PROVE  NoneDrained
BY DEF Without, NoneDrained, TakenOut, Running

LEMMA SameNotDraining ==
  ASSUME rows' = rows
  PROVE  NoneDrained
BY DEF NoneDrained, TakenOut, Running

LEMMA TickDrainsNone == Inv /\ TickStep => NoneDrained
<1> SUFFICES ASSUME Inv, TickStep  PROVE NoneDrained
  OBVIOUS
<1>1. CASE TickBegin \/ Propagate
  BY <1>1, SameNotDraining DEF TickBegin, Propagate, durable
<1>2. ASSUME NEW i, ResetTicks(i)  PROVE NoneDrained
  BY <1>2 DEF ResetTicks, NoneDrained, TakenOut, Running
<1>3. ASSUME NEW i \in DOMAIN checks, Probe(i) \/ Restart(i) \/ Recreate(i)  PROVE NoneDrained
  BY <1>2, <1>3, SameNotDraining DEF Probe, Restart, Recreate, durable
<1>4. ASSUME NEW i \in DOMAIN checks, Decide(i)  PROVE NoneDrained
  <2>1. CASE i \notin DOMAIN rows \/ job.by # "none"
    BY <1>4, <2>1, SameNotDraining DEF Decide
  <2>2. CASE ~(i \notin DOMAIN rows \/ job.by # "none")
    <3> PICK t : t = IF rows[i].ticks = 2 THEN 2 ELSE rows[i].ticks + 1
      OBVIOUS
    <3> PICK st : st = IF rows[i].err THEN rows[i].status ELSE "running"
      OBVIOUS
    <3>1. \/ rows' = [rows EXCEPT ![i].ticks = 0, ![i].status = st]
          \/ rows' = [rows EXCEPT ![i].ticks = t, ![i].status = "unhealthy"]
      BY <1>4, <2>2 DEF Decide
    <3>2. st \in {rows[i].status, "running"}
      OBVIOUS
    <3>3. DOMAIN rows' = DOMAIN rows /\ \A k \in DOMAIN rows \ {i} : rows'[k] = rows[k]
      BY <3>1
    <3>4. rows'[i].status \in {st, "unhealthy"}
      <4>1. i \in DOMAIN rows /\ rows[i] \in ReplicaRow
        BY <2>2 DEF Inv, World, RowsOK
      <4>2. CASE rows' = [rows EXCEPT ![i].ticks = 0, ![i].status = st]
        BY <4>1, <4>2 DEF ReplicaRow
      <4>3. CASE rows' = [rows EXCEPT ![i].ticks = t, ![i].status = "unhealthy"]
        BY <4>1, <4>3 DEF ReplicaRow
      <4> QED  BY <3>1, <4>2, <4>3
    <3>5. ~TakenOut(i)
      BY <3>2, <3>4 DEF TakenOut, Running
    <3>6. \A k \in DOMAIN rows \ {i} : ~TakenOut(k)
      BY <3>3 DEF TakenOut, Running
    <3> QED  BY <3>5, <3>6 DEF NoneDrained
  <2> QED  BY <2>1, <2>2
<1> QED  BY <1>1, <1>3, <1>4 DEF TickStep, CheckStep

LEMMA AddDrainsNone == Inv /\ AddStep => NoneDrained
<1> SUFFICES ASSUME Inv, AddStep  PROVE NoneDrained
  OBVIOUS
<1>1. CASE StartReplica \/ AdmitReplica
  BY <1>1, SameNotDraining DEF StartReplica, AdmitReplica, durable
<1>2. CASE InsertReplica
  <2>1. nextId \notin DOMAIN rows
    BY DEF Inv, World, RowsOK, Positive
  <2>2. \A i \in DOMAIN rows : rows'[i] = rows[i]
    BY <1>2, <2>1 DEF InsertReplica, With
  <2> QED  BY <2>2 DEF NoneDrained, TakenOut, Running
<1>3. CASE AttestReplica
  BY <1>3, AttestNotDraining DEF AttestReplica
<1>4. CASE CleanUp
  BY <1>4, LessNotDraining DEF CleanUp
<1>5. CASE RollbackScaleUp
  BY <1>5, LessNotDraining, SameNotDraining DEF RollbackScaleUp
<1> QED  BY <1>1, <1>2, <1>3, <1>4, <1>5 DEF AddStep

LEMMA RestDrainsNone ==
  Inv /\ (\/ RemoveReplica \/ RemovalOver \/ ConfirmMove
          \/ Swap \/ VerifyReady \/ Readmit \/ RollOver
          \/ DeployStep \/ AuditStep \/ ReconcileAppRuntime \/ ReconcileTraefik
          \/ Submit \/ Begin \/ Crash \/ UNCHANGED vars) => NoneDrained
<1>1. RemoveReplica => NoneDrained
  BY LessNotDraining, SameNotDraining DEF RemoveReplica
<1>2. RemovalOver \/ ConfirmMove \/ Swap \/ Readmit \/ RollOver => NoneDrained
  BY SameNotDraining DEF RemovalOver, ConfirmMove, Swap, Readmit, RollOver
<1>3. VerifyReady => NoneDrained
  BY AttestNotDraining, SetNotDraining, SameNotDraining DEF VerifyReady
<1>4. PrepareRedeploy \/ ValidateCandidate \/ CommitConfig \/ RecordCommit \/ SyncIngress
      \/ RecordDeployment \/ RestorePrimary => NoneDrained
  BY SameNotDraining DEF PrepareRedeploy, ValidateCandidate, CommitConfig, RecordCommit, SyncIngress,
     RecordDeployment, RestorePrimary
<1>5. VerifyReplica \/ InspectReplica => NoneDrained
  BY AttestNotDraining, SetNotDraining DEF VerifyReplica, InspectReplica
<1>6. ProbeRestored => NoneDrained
  BY SetNotDraining DEF ProbeRestored
<1>7. AuditReplica \/ AuditOver \/ ReconcileAppRuntime => NoneDrained
  BY AttestNotDraining, SameNotDraining DEF AuditReplica, AuditOver, ReconcileAppRuntime
<1>8. ReconcileTraefik \/ Submit \/ Begin \/ Crash \/ UNCHANGED vars => NoneDrained
  BY SameNotDraining DEF ReconcileTraefik, Submit, Begin, Crash, vars, durable
<1> QED  BY <1>1, <1>2, <1>3, <1>4, <1>5, <1>6, <1>7, <1>8 DEF DeployStep, AuditStep

LEMMA DrainHasSibling ==
  ASSUME Inv, DrainReplica, Rolling, NEW i \in DOMAIN rows, TakenOut(i)
  PROVE  \E k \in DOMAIN rows \ {i} : Running(k)
<1>1. /\ job.pc = "drain" /\ job.ids # {} /\ rows' = SetStatus(NextOne, "draining")
      /\ Held /\ Listed /\ Sparing /\ Moves /\ OpOK /\ RowsOK /\ AppOK
  BY DEF DrainReplica, Inv, World, Work
<1>2. i = NextOne
  BY <1>1 DEF SetStatus, TakenOut, Running
<1>3. i \in job.ids /\ Running(i)
  BY <1>1, <1>2, NextOneIs DEF Listed, TakenOut
<1>4. CASE job.by = "converge"
  BY <1>1, <1>3, <1>4 DEF Sparing, RemovePc
<1>5. CASE job.by = "move" /\ job.id # 0
  <2>1. op.from # op.to
    BY <1>1, <1>5 DEF Held, OpOK
  <2>2. job.id \in DOMAIN rows /\ Running(job.id) /\ rows[job.id].server = op.to /\ rows[i].server = op.from
    BY <1>1, <1>3, <1>5 DEF Moves, RemovePc
  <2> QED  BY <2>1, <2>2
<1>6. job.by \in {"converge", "move"}
  BY <1>1, Adder DEF RemovePc
<1> QED  BY <1>4, <1>5, <1>6 DEF Rolling

LEMMA TakeOutHasSibling ==
  ASSUME Inv, TakeOut, Rolling, NEW i \in DOMAIN rows, TakenOut(i)
  PROVE  \E k \in DOMAIN rows \ {i} : Running(k)
<1>1. /\ job.pc = "out" /\ job.ids # {} /\ Rolls
      /\ \/ rows' = rows
         \/ Redundant /\ (Primary => ServingSibling(NextOne)) /\ rows' = SetStatus(NextOne, "draining")
  BY DEF TakeOut, Inv, Work
<1>2. rows' = SetStatus(NextOne, "draining") /\ i = NextOne
  BY <1>1 DEF SetStatus, TakenOut, Running
<1>3. Redundant /\ (Primary => ServingSibling(i))
  BY <1>1, <1>2 DEF TakenOut, Running
<1>4. job.by = "redeploy"
  BY <1>1, Roller DEF RollPc, Rolling
<1>5. CASE Primary
  BY <1>3, <1>5 DEF ServingSibling
<1>6. CASE ~Primary
  BY <1>1, <1>2, <1>3, <1>4, <1>6 DEF Rolling, Rolls, RollPc, Others
<1> QED  BY <1>5, <1>6

\* A convergence, a move that has started a replica, and a redeploy that no crash
\* has interrupted take a replica that runs out only next to another one.
THEOREM SiblingServes == Spec => DrainKeepsSibling
<1>1. ASSUME Inv, [Next]_vars
      PROVE  Rolling => \A i \in DOMAIN rows : TakenOut(i) => \E k \in DOMAIN rows \ {i} : Running(k)
  <2> SUFFICES ASSUME Rolling, NEW i \in DOMAIN rows, TakenOut(i)
               PROVE  \E k \in DOMAIN rows \ {i} : Running(k)
    OBVIOUS
  <2>1. CASE DrainReplica
    BY <1>1, <2>1, DrainHasSibling
  <2>2. CASE TakeOut
    BY <1>1, <2>2, TakeOutHasSibling
  <2>3. CASE ~DrainReplica /\ ~TakeOut
    BY <1>1, <2>3, TickDrainsNone, AddDrainsNone, RestDrainsNone
       DEF Next, JobStep, RemoveStep, RollStep, NoneDrained
  <2> QED  BY <2>1, <2>2, <2>3
<1>2. Inv /\ [Next]_vars =>
        [Rolling => \A i \in DOMAIN rows : TakenOut(i) => \E k \in DOMAIN rows \ {i} : Running(k)]_vars
  BY <1>1
<1> QED  BY <1>2, Invariance, PTL DEF Spec, DrainKeepsSibling

-----------------------------------------------------------------------------
(* A deployment that is recorded *)

LEMMA ImageStays ==
  ASSUME Inv, Next, ~RecordDeployment
  PROVE  app'.image = app.image
<1> USE DEF Inv, World, AppOK, AppRow
<1>1. TickStep => app'.image = app.image
  <2>1. Propagate => app'.image = app.image
    BY DEF Propagate
  <2> QED  BY <2>1 DEF TickStep, CheckStep, TickBegin, Probe, Decide, Restart, Recreate, durable
<1>2. AddStep => app'.image = app.image
  BY DEF AddStep, StartReplica, InsertReplica, AttestReplica, AdmitReplica, CleanUp, RollbackScaleUp, durable
<1>3. RemoveStep => app'.image = app.image
  <2>1. RemovalOver => app'.image = app.image
    BY DEF RemovalOver
  <2> QED  BY <2>1 DEF RemoveStep, DrainReplica, RemoveReplica, ConfirmMove
<1>4. RollStep => app'.image = app.image
  <2>1. RollOver => app'.image = app.image
    BY DEF RollOver
  <2> QED  BY <2>1 DEF RollStep, TakeOut, Swap, VerifyReady, Readmit
<1>5. DeployStep => app'.image = app.image
  <2>1. PrepareRedeploy => app'.image = app.image
    BY DEF PrepareRedeploy
  <2>2. CommitConfig => app'.image = app.image
    BY DEF CommitConfig
  <2>3. RestorePrimary \/ ProbeRestored => app'.image = app.image
    BY DEF RestorePrimary, ProbeRestored
  <2>4. VerifyReplica \/ InspectReplica \/ ValidateCandidate \/ RecordCommit \/ SyncIngress
          => app'.image = app.image
    BY DEF VerifyReplica, InspectReplica, ValidateCandidate, RecordCommit, SyncIngress
  <2> QED  BY <2>1, <2>2, <2>3, <2>4 DEF DeployStep
<1>6. AuditStep => app'.image = app.image
  BY DEF AuditStep, AuditReplica, AuditOver
<1>7. ReconcileAppRuntime \/ ReconcileTraefik \/ Submit \/ Begin \/ Crash => app'.image = app.image
  BY DEF ReconcileAppRuntime, ReconcileTraefik, Submit, Begin, Crash, durable
<1> QED  BY <1>1, <1>2, <1>3, <1>4, <1>5, <1>6, <1>7 DEF Next, JobStep

\* A redeploy is recorded when every replica is attested and no server runs another
\* image under it, but where a health check made the container.
THEOREM RecordedIsWhole == Spec => RedeployWhole
<1> DEFINE Whole == \A i \in DOMAIN rows :
             /\ Running(i) /\ ~rows[i].err
             /\ LET spot == Spot(rows[i]) IN
                spot \in DOMAIN containers /\ ~containers[spot].healed => containers[spot].image = app'.image
<1>1. ASSUME Inv, [Next]_vars  PROVE app'.image # app.image => Whole
  <2>1. CASE RecordDeployment
    <3>1. app'.image = op.image
      BY <1>1, <2>1 DEF RecordDeployment, Inv, World, AppOK, AppRow
    <3>2. job.pc = "verify" /\ job.ids = {} /\ job.by = "redeploy" /\ Verified
      BY <1>1, <2>1, Redeployer DEF RecordDeployment, Inv, Work
    <3> QED  BY <3>1, <3>2 DEF Verified
  <2>2. CASE UNCHANGED vars
    BY <2>2 DEF vars, durable
  <2>3. CASE Next /\ ~RecordDeployment
    BY <1>1, <2>3, ImageStays
  <2> QED  BY <1>1, <2>1, <2>2, <2>3
<1>2. Inv /\ [Next]_vars => [app'.image # app.image => Whole]_vars
  BY <1>1
<1> QED  BY <1>2, Invariance, PTL DEF Spec, RedeployWhole
=============================================================================
