-------------------------- MODULE BuildLeaseProofs --------------------------
(***************************************************************************)
(* Safety of the build workers and the CI runners on their hosts, for any  *)
(* number of hosts, builds, targets and crashes: admission is exclusive,   *)
(* only a whole result counts, a result is fenced by its lease, and a      *)
(* build command and a CI job never run on one host at once.               *)
(***************************************************************************)
EXTENDS BuildLease, TLAPS

-----------------------------------------------------------------------------
(* The inductive invariant *)

BuildRow == [pc : BuildPc, host : Host \union {None},
             error : {"none", "unavailable", "fatal"}, retried : BOOLEAN,
             excluded : SUBSET Host, built : 0..NumTargets,
             artifacts : 0..NumTargets, origin : Host \union {None}]

\* What this attempt built never exceeds what is recorded, and a build that is
\* past its targets, or resumed to adopt them, has all of them; one without a
\* worker has built nothing.
Counted(r) ==
  /\ r.built <= r.artifacts
  /\ r.host = None => r.built = 0
  /\ r.pc \in {"building", "locked", "reporting"} => r.built < NumTargets
  /\ r.pc = "closing" => r.built = NumTargets
  /\ r.pc \in {"recovering", "verifying", "done"} => r.artifacts = NumTargets

RowOK(r) ==
  /\ r \in BuildRow
  /\ r.host # None <=> r.pc \in OnWorker
  /\ Counted(r)

\* A build inside a guarded command holds the lock of its host.
CommandHolds ==
  \A b \in Build : build[b].pc = "locked" =>
    lock[build[b].host] = b /\ build[b].host \notin orphan

\* A lock with a controller behind it belongs to a build in, or just out of, a
\* command on that host.
HolderKnown ==
  \A h \in Host \ orphan : lock[h] \in Build =>
    build[lock[h]].host = h /\ build[lock[h]].pc \in {"locked", "cleaning"}

\* Without a controller only a build command can hold a lock.
OrphanHeld == \A h \in orphan : lock[h] \in Build

ServiceHolds == \A h \in Host : h \in service <=> lock[h] = Ci

\* A build whose host was given away has no live lease there.
Cast(b) == build[b].host # None => ~HoldsLease(b)

IInv ==
  /\ TypeOK
  /\ AdmissionExclusive
  /\ \A b \in Build : RowOK(build[b])
  /\ CommandHolds
  /\ HolderKnown
  /\ OrphanHeld
  /\ ServiceHolds
  /\ \A b \in usurped : Cast(b)

\* The constants tell builds, hosts and the two lock states apart.
LEMMA Distinct ==
  /\ Build \subseteq Nat /\ None \notin Host /\ None \notin Build
  /\ Free \notin Build /\ Ci \notin Build /\ Free # Ci
  /\ CiHost \subseteq Host /\ NumTargets \in Nat /\ NumTargets >= 1
BY BuildAssumption DEF Build

\* Empty tables satisfy the invariant.
LEMMA InitIInv == Init => IInv
<1> SUFFICES ASSUME Init PROVE IInv
  OBVIOUS
<1>1. NewBuild \in BuildRow /\ RowOK(NewBuild)
  BY Distinct DEF NewBuild, BuildRow, RowOK, Counted, BuildPc, OnWorker
<1>2. TypeOK
  <2>1. \A b \in Build : build[b] = NewBuild
    BY DEF Init
  <2>2. lease \in [Host -> [op : Build \union {None}, live : BOOLEAN]]
    BY DEF Init, NoLease
  <2>3. build \in [Build -> BuildRow]
    BY <1>1 DEF Init
  <2>4. sync \in [CiHost -> [pc : {"idle", "asking", "inspecting", "deleting", "stopping",
                                "releasing", "preparing", "starting"},
                          busy : BOOLEAN,
                          goal : {"none", "stop", "release", "start"}]]
    BY DEF Init, NoSync
  <2> QED  BY <2>1, <2>2, <2>3, <2>4, <1>1, BuildAssumption DEF Init, TypeOK, BuildRow, RowOK
<1>3. CommandHolds /\ HolderKnown /\ OrphanHeld /\ ServiceHolds /\ AdmissionExclusive
  BY Distinct DEF Init, CommandHolds, HolderKnown, OrphanHeld, ServiceHolds, AdmissionExclusive, NewBuild
<1> QED  BY <1>1, <1>2, <1>3 DEF IInv, Init

-----------------------------------------------------------------------------
(* Steps of one build that touch neither lease nor lock *)

\* A build that changes place in the coordinator without taking or leaving a
\* worker disturbs nothing.
LEMMA RowMoves ==
  ASSUME IInv, NEW b \in Build, NEW r, RowOK(r), build' = [build EXCEPT ![b] = r],
         r.host = build[b].host, r.pc # "locked",
         build[b].pc \in {"locked", "cleaning"} => r.pc = "cleaning",
         UNCHANGED <<lease, ciVars, hostVars, usurped, process>>
  PROVE  IInv'
<1> USE DEF ciVars, hostVars, process
<1>1. TypeOK'
  BY DEF IInv, TypeOK, RowOK, BuildRow
<1>2. \A x \in Build : RowOK(build'[x])
  BY DEF IInv, TypeOK
<1>3. CommandHolds'
  BY DEF IInv, TypeOK, CommandHolds
<1>4. HolderKnown'
  BY DEF IInv, TypeOK, HolderKnown
<1>5. \A x \in usurped : Cast(x)'
  BY DEF IInv, TypeOK, Cast, HoldsLease
<1> QED  BY <1>1, <1>2, <1>3, <1>4, <1>5 DEF IInv, AdmissionExclusive, OrphanHeld, ServiceHolds, RowOK, Counted, BuildRow

\* Queueing, looking at the builds ahead and giving up touch only the row.
LEMMA WaitingInv ==
  ASSUME IInv, NEW b \in Build, Arrive(b) \/ Look(b) \/ GiveUp(b)
  PROVE  IInv'
<1>1. PICK pc \in {"arrived", "waiting", "probing", "failed"} :
        build' = [build EXCEPT ![b].pc = pc]
  BY DEF Arrive, Look, GiveUp, Become
<1>2. build[b].pc \in {"absent", "arrived", "waiting"}
  BY DEF Arrive, Look, GiveUp
<1> DEFINE r == [build[b] EXCEPT !.pc = pc]
<1>3. RowOK(r) /\ r.host = build[b].host /\ r.pc = pc
  BY <1>2, Distinct DEF IInv, RowOK, BuildRow, Counted, OnWorker, BuildPc
<1>4. build' = [build EXCEPT ![b] = r]
  BY <1>1 DEF IInv, TypeOK
<1>5. UNCHANGED <<lease, ciVars, hostVars, usurped, process>>
  BY DEF Arrive, Look, GiveUp
<1> HIDE DEF r
<1> QED  BY <1>2, <1>3, <1>4, <1>5, RowMoves

\* A build on a worker may fail at any time and keeps its worker until the
\* cleanup.
LEMMA ErrRow ==
  ASSUME IInv, NEW b \in Build, build[b].host # None, NEW e \in {"unavailable", "fatal"}
  PROVE  LET r == [build[b] EXCEPT !.pc = "cleaning", !.error = e]
         IN RowOK(r) /\ r.host = build[b].host /\ r.pc = "cleaning"
BY Distinct, SMTT(30), ZenonT(30) DEF IInv, RowOK, BuildRow, Counted, OnWorker, BuildPc

\* A lost connection, or a head that moved on, leaves lease and lock for the
\* cleanup.
LEMMA ErrInv ==
  ASSUME IInv, NEW b \in Build, Disconnect(b) \/ HeadMoved(b)
  PROVE  IInv'
<1>1. PICK e \in {"unavailable", "fatal"} : Err(b, e)
  BY DEF Disconnect, HeadMoved
<1>2. build[b].host # None
  BY DEF Disconnect, HeadMoved, IInv, RowOK, OnWorker
<1> DEFINE r == [build[b] EXCEPT !.pc = "cleaning", !.error = e]
<1>3. RowOK(r) /\ r.host = build[b].host /\ r.pc = "cleaning"
  BY <1>2, ErrRow
<1>4. build' = [build EXCEPT ![b] = r]
  BY <1>1 DEF IInv, TypeOK, Err
<1>5. UNCHANGED <<lease, ciVars, hostVars, usurped, process>>
  BY DEF Disconnect, HeadMoved
<1> HIDE DEF r
<1> QED  BY <1>3, <1>4, <1>5, RowMoves

\* Recording a target counts up to NumTargets, and only the last one closes the
\* build.
LEMMA RecordInv ==
  ASSUME IInv, NEW b \in Build, Record(b)
  PROVE  IInv'
<1>1. build[b].pc = "reporting" /\ build[b].host # None
  BY DEF Record, IInv, RowOK, OnWorker
<1>2. UNCHANGED <<lease, ciVars, hostVars, usurped, process>>
  BY DEF Record
<1>3. CASE Err(b, "fatal")
  <2> DEFINE r == [build[b] EXCEPT !.pc = "cleaning", !.error = "fatal"]
  <2>1. RowOK(r) /\ r.host = build[b].host /\ r.pc = "cleaning"
    BY <1>1, ErrRow
  <2>2. build' = [build EXCEPT ![b] = r]
    BY <1>3 DEF IInv, TypeOK, Err
  <2> HIDE DEF r
  <2> QED  BY <1>2, <2>1, <2>2, RowMoves
<1>4. CASE ~Err(b, "fatal")
  <2> DEFINE n == build[b].built + 1
             r == [build[b] EXCEPT !.built = n, !.origin = build[b].host,
                     !.artifacts = IF n > @ THEN n ELSE @,
                     !.pc = IF n = NumTargets THEN "closing" ELSE "building"]
  <2>1. build' = [build EXCEPT ![b] = r]
    BY <1>4 DEF Record, IInv, TypeOK
  <2>2. build[b] \in BuildRow /\ Counted(build[b]) /\ build[b].built < NumTargets
    BY <1>1 DEF IInv, RowOK, Counted
  <2>3. n \in 0..NumTargets /\ (n > build[b].artifacts => n \in 0..NumTargets)
    BY <2>2, Distinct DEF BuildRow
  <2>4. r \in BuildRow
    BY <2>2, <2>3, <1>1 DEF BuildRow, BuildPc
  <2>5. /\ r.host = build[b].host /\ r.pc = IF n = NumTargets THEN "closing" ELSE "building"
        /\ r.built = n /\ n <= r.artifacts
    BY <2>2, <2>3 DEF BuildRow
  <2>6. Counted(r)
    <3> HIDE DEF r
    <3> QED  BY <1>1, <2>2, <2>3, <2>4, <2>5, Distinct DEF BuildRow, Counted
  <2>7. RowOK(r)
    BY <1>1, <2>4, <2>5, <2>6 DEF RowOK, OnWorker
  <2> HIDE DEF r
  <2> QED  BY <1>1, <1>2, <2>1, <2>5, <2>7, RowMoves
<1> QED  BY <1>3, <1>4

-----------------------------------------------------------------------------
(* Admission *)

\* Whatever an admission decides leaves the invariant intact: a worker it grants
\* is not reserved, and only its own builds lose the ones it takes over.
LEMMA AcquireInv ==
  ASSUME IInv, NEW b \in Build, NEW C \in SUBSET Host,
         NEW pc \in {"building", "verifying"},
         NEW busy \in {"waiting", "arrived"}, NEW nobody \in {"failed", "arrived"},
         build[b].pc \in {"probing", "recovering"},
         pc = "verifying" => build[b].pc = "recovering",
         pc = "building" => build[b].pc = "probing",
         Acquire(b, C, pc, busy, nobody),
         UNCHANGED <<ciVars, hostVars, process>>
  PROVE  IInv'
<1> USE DEF ciVars, hostVars, process
<1>0. build[b].host = None /\ build[b].built = 0 /\ build[b] \in BuildRow
  BY DEF IInv, RowOK, Counted, OnWorker
\* The row of the build after it is given h.
<1> DEFINE got(h) == [build[b] EXCEPT !.host = h, !.pc = pc]
<1>1. \A h \in Host : RowOK(got(h)) /\ got(h).host = h /\ got(h).pc = pc
  <2> SUFFICES ASSUME NEW h \in Host  PROVE RowOK(got(h)) /\ got(h).host = h /\ got(h).pc = pc
    OBVIOUS
  <2>1. got(h) \in BuildRow /\ got(h).host = h /\ got(h).pc = pc
        /\ got(h).built = 0 /\ got(h).artifacts = build[b].artifacts
    BY <1>0 DEF BuildRow, BuildPc
  <2>2. Counted(got(h))
    BY <1>0, <2>1, Distinct DEF Counted, IInv, RowOK, BuildRow
  <2> HIDE DEF got
  <2> QED  BY <2>1, <2>2, Distinct DEF RowOK, OnWorker
\* A grant writes one row of each table and leaves the host unreserved.
<1>2. ASSUME NEW h \in Host \ reserved, build' = [build EXCEPT ![b] = got(h)],
             lease' \in [Host -> [op : Build \union {None}, live : BOOLEAN]],
             lease'[h] = [op |-> b, live |-> TRUE],
             \A x \in Host \ {h} : lease'[x] = lease[x] \/ ~lease'[x].live,
             usurped' \in SUBSET Build,
             \A x \in usurped' : x # b /\ (x \in usurped \/ build[x].host = h)
      PROVE  IInv'
  <2> HIDE DEF got
  <2>1. TypeOK'
    BY <1>1, <1>2 DEF IInv, TypeOK, RowOK, BuildRow
  <2>2. AdmissionExclusive'
    BY <1>2, Distinct DEF IInv, TypeOK, AdmissionExclusive
  <2>3. \A x \in Build : RowOK(build'[x])
    BY <1>1, <1>2 DEF IInv, TypeOK
  <2>4. CommandHolds'
    BY <1>1, <1>2 DEF IInv, TypeOK, CommandHolds
  <2>5. HolderKnown'
    BY <1>0, <1>2 DEF IInv, TypeOK, HolderKnown
  <2>6. \A x \in usurped' : Cast(x)'
    <3> SUFFICES ASSUME NEW x \in usurped', build'[x].host # None
                 PROVE  ~HoldsLease(x)'
      BY DEF Cast
    <3>1. x \in Build /\ x # b /\ build'[x] = build[x]
      BY <1>2 DEF IInv, TypeOK
    <3>2. build[x].host \in Host
      BY <3>1 DEF IInv, RowOK, BuildRow
    <3>3. CASE build[x].host = h
      BY <1>2, <3>1, <3>3 DEF HoldsLease
    <3>4. CASE build[x].host # h
      <4>1. x \in usurped /\ ~(lease[build[x].host].op = x /\ lease[build[x].host].live)
        BY <1>2, <3>1, <3>4 DEF IInv, Cast, HoldsLease
      <4> QED  BY <1>2, <3>1, <3>2, <3>4, <4>1 DEF HoldsLease
    <3> QED  BY <3>3, <3>4
  <2> QED  BY <2>1, <2>2, <2>3, <2>4, <2>5, <2>6 DEF IInv, OrphanHeld, ServiceHolds, RowOK, Counted, BuildRow
<1>3. Kept(b) \in [Host -> [op : Build \union {None}, live : BOOLEAN]]
      /\ \A x \in Host : Kept(b)[x] = lease[x] \/ ~Kept(b)[x].live
  BY DEF Kept, NoLease, IInv, TypeOK
<1>4. CASE \E h \in Renewable(b, C) :
             /\ lease' = [lease EXCEPT ![h].live = TRUE]
             /\ build' = [build EXCEPT ![b].host = h, ![b].pc = pc]
             /\ usurped' = usurped \ {b}
  <2> PICK h \in Renewable(b, C) :
             /\ lease' = [lease EXCEPT ![h].live = TRUE]
             /\ build' = [build EXCEPT ![b].host = h, ![b].pc = pc]
             /\ usurped' = usurped \ {b}
    BY <1>4
  <2>1. h \in Host \ reserved /\ lease[h].op = b /\ build' = [build EXCEPT ![b] = got(h)]
    BY DEF Renewable, IInv, TypeOK
  <2>2. lease'[h] = [op |-> b, live |-> TRUE]
        /\ lease' \in [Host -> [op : Build \union {None}, live : BOOLEAN]]
        /\ \A x \in Host \ {h} : lease'[x] = lease[x]
    BY <2>1, SMTT(30), ZenonT(30) DEF IInv, TypeOK
  <2>3. usurped' \in SUBSET Build /\ \A x \in usurped' : x # b /\ x \in usurped
    BY DEF IInv, TypeOK
  <2> HIDE DEF got
  <2> QED  BY <2>1, <2>2, <2>3, <1>2
<1>5. CASE \E h \in Grantable(b, C) : Granted(b, h, pc)
  <2> PICK h \in Grantable(b, C) : Granted(b, h, pc)
    BY <1>5
  <2>1. h \in Host \ reserved /\ build' = [build EXCEPT ![b] = got(h)]
    BY DEF Grantable, Granted, IInv, TypeOK
  <2>2. lease'[h] = [op |-> b, live |-> TRUE]
        /\ lease' \in [Host -> [op : Build \union {None}, live : BOOLEAN]]
        /\ \A x \in Host \ {h} : lease'[x] = lease[x] \/ ~lease'[x].live
    BY <1>3, <2>1 DEF Granted
  <2>3. usurped' \in SUBSET Build
        /\ \A x \in usurped' : x # b /\ (x \in usurped \/ build[x].host = h)
    BY DEF Granted, On, IInv, TypeOK
  <2> HIDE DEF got
  <2> QED  BY <2>1, <2>2, <2>3, <1>2
<1>6. CASE /\ lease' = Kept(b)
           /\ Become(b, IF C = {} THEN nobody ELSE busy)
           /\ UNCHANGED usurped
  <2> DEFINE to == IF C = {} THEN nobody ELSE busy
             r == [build[b] EXCEPT !.pc = to]
  <2>1. RowOK(r) /\ r.host = None /\ r.pc \in {"waiting", "arrived", "failed"}
    BY <1>0, Distinct DEF IInv, RowOK, BuildRow, Counted, OnWorker, BuildPc
  <2>2. build' = [build EXCEPT ![b] = r]
    BY <1>6 DEF Become, IInv, TypeOK
  <2> HIDE DEF r
  <2>3. TypeOK'
    BY <1>3, <1>6, <2>1, <2>2 DEF IInv, TypeOK, RowOK, BuildRow
  <2>4. AdmissionExclusive'
    BY <1>3, <1>6, Distinct DEF IInv, TypeOK, AdmissionExclusive
  <2>5. \A x \in Build : RowOK(build'[x])
    BY <2>1, <2>2 DEF IInv, TypeOK
  <2>6. CommandHolds' /\ HolderKnown'
    BY <1>0, <2>1, <2>2 DEF IInv, TypeOK, CommandHolds, HolderKnown
  <2>7. \A x \in usurped' : Cast(x)'
    <3> SUFFICES ASSUME NEW x \in usurped, build'[x].host # None
                 PROVE  ~HoldsLease(x)'
      BY <1>6 DEF Cast
    <3>1. x \in Build /\ build'[x].host = build[x].host /\ build[x].host \in Host
      BY <1>0, <2>1, <2>2 DEF IInv, TypeOK
    <3> QED  BY <1>3, <1>6, <3>1 DEF IInv, Cast, HoldsLease
  <2> QED  BY <2>3, <2>4, <2>5, <2>6, <2>7 DEF IInv, OrphanHeld, ServiceHolds, RowOK, Counted, BuildRow
<1> QED  BY <1>4, <1>5, <1>6 DEF Acquire

\* Both callers of tryAcquireBuildWorkerLease, admission and recovery, keep the
\* invariant.
LEMMA AdmitInv ==
  ASSUME IInv, NEW b \in Build, Admit(b) \/ Recover(b)
  PROVE  IInv'
<1>1. CASE Admit(b)
  <2> PICK C \in SUBSET Host : Acquire(b, C, "building", "waiting", "failed")
    BY <1>1 DEF Admit
  <2> QED  BY <1>1, AcquireInv DEF Admit
<1>2. CASE Recover(b)
  <2> PICK C \in SUBSET Host : Acquire(b, C, "verifying", "arrived", "arrived")
    BY <1>2 DEF Recover
  <2> QED  BY <1>2, AcquireInv DEF Recover
<1> QED  BY <1>1, <1>2

-----------------------------------------------------------------------------
(* Guarded commands, expiry and release *)

\* A live row may always die: it only ever takes rights away.
LEMMA ExpireInv ==
  ASSUME IInv, NEW h \in Host, Expire(h)
  PROVE  IInv'
<1> USE DEF Expire, ciVars, hostVars, process
<1>1. TypeOK'
  <2> DEFINE row == [lease[h] EXCEPT !.live = FALSE]
  <2>0. row \in [op : Build \union {None}, live : BOOLEAN] /\ lease' = [lease EXCEPT ![h] = row]
    BY SMTT(90), ZenonT(90) DEF IInv, TypeOK
  <2> HIDE DEF row
  <2>1. lease' \in [Host -> [op : Build \union {None}, live : BOOLEAN]]
    BY <2>0 DEF IInv, TypeOK
  <2> QED  BY <2>1 DEF IInv, TypeOK
<1>2. \A x \in Host : lease'[x] = lease[x] \/ ~lease'[x].live
  BY DEF IInv, TypeOK
<1>3. AdmissionExclusive'
  BY <1>2, Distinct DEF IInv, TypeOK, AdmissionExclusive
<1>4. \A x \in usurped : Cast(x)'
  BY <1>2 DEF IInv, TypeOK, Cast, HoldsLease
<1> QED  BY <1>1, <1>3, <1>4
      DEF IInv, RowOK, Counted, BuildRow, CommandHolds, HolderKnown, OrphanHeld, ServiceHolds

\* A command that finds the lock free takes it; the others give the host up.
LEMMA TakeLockInv ==
  ASSUME IInv, NEW b \in Build, TakeLock(b)
  PROVE  IInv'
<1> USE DEF ciVars, hostVars, process
<1> DEFINE h == build[b].host
<1>1. h \in Host /\ build[b].pc = "building" /\ build[b] \in BuildRow /\ h # None
  BY Distinct DEF TakeLock, IInv, RowOK, OnWorker, BuildRow
<1>2. CASE lock[h] = Free /\ lock' = [lock EXCEPT ![h] = b] /\ Become(b, "locked")
  <2> DEFINE r == [build[b] EXCEPT !.pc = "locked"]
  <2>1. r \in BuildRow /\ r.host = h /\ r.pc = "locked" /\ r.built = build[b].built
        /\ r.artifacts = build[b].artifacts
    BY <1>1 DEF BuildRow, BuildPc
  <2>2. RowOK(r)
    <3> HIDE DEF r
    <3> QED  BY <1>1, <2>1 DEF RowOK, Counted, IInv, OnWorker
  <2>3. build' = [build EXCEPT ![b] = r]
    BY <1>2 DEF Become, IInv, TypeOK
  <2> HIDE DEF r
  <2>4. TypeOK'
    BY <1>1, <1>2, <2>2, <2>3 DEF IInv, TypeOK, RowOK, BuildRow, TakeLock
  <2>5. \A x \in Build : RowOK(build'[x])
    BY <2>2, <2>3 DEF IInv, TypeOK
  <2>6. h \notin orphan
    BY <1>2, Distinct DEF IInv, OrphanHeld
  <2>7. CommandHolds'
    BY <1>1, <1>2, <2>1, <2>3, <2>6, Distinct DEF IInv, TypeOK, CommandHolds, TakeLock
  <2>8. HolderKnown'
    BY <1>1, <1>2, <2>1, <2>3, Distinct DEF IInv, TypeOK, HolderKnown, TakeLock
  <2>9. ServiceHolds'
    BY <1>1, <1>2, Distinct DEF IInv, TypeOK, ServiceHolds, TakeLock
  <2>10. OrphanHeld'
    BY <1>1, <1>2 DEF IInv, TypeOK, OrphanHeld, TakeLock
  <2>11. \A x \in usurped : Cast(x)'
    BY <2>1, <2>3 DEF IInv, TypeOK, Cast, HoldsLease, TakeLock
  <2> QED  BY <2>4, <2>5, <2>7, <2>8, <2>9, <2>10, <2>11 DEF IInv, TakeLock, AdmissionExclusive,
             RowOK, Counted, BuildRow
<1>3. CASE Err(b, "unavailable") /\ UNCHANGED lock
  <2> DEFINE r == [build[b] EXCEPT !.pc = "cleaning", !.error = "unavailable"]
  <2>1. RowOK(r) /\ r.host = build[b].host /\ r.pc = "cleaning"
    BY <1>1, ErrRow
  <2>2. build' = [build EXCEPT ![b] = r]
    BY <1>3 DEF IInv, TypeOK, Err
  <2>3. UNCHANGED <<lease, ciVars, hostVars, usurped, process>>
    BY <1>3 DEF TakeLock
  <2> HIDE DEF r
  <2> QED  BY <2>1, <2>2, <2>3, RowMoves
<1> QED  BY <1>2, <1>3 DEF TakeLock

\* A command that ends frees the lock; its build hears of it or not.
LEMMA CommandEndsInv ==
  ASSUME IInv, NEW h \in Host, CommandEnds(h)
  PROVE  IInv'
<1> USE DEF ciVars, hostVars, process
<1> DEFINE b == lock[h]
<1>1. b \in Build /\ b # Ci /\ build[b] \in BuildRow
  BY Distinct DEF CommandEnds, IInv, RowOK
\* Whatever its row becomes, it is not in a command any more and keeps its host.
<1>2. PICK r : /\ build' = [build EXCEPT ![b] = r] /\ RowOK(r) /\ r.host = build[b].host
               /\ r = build[b] \/ (build[b].pc = "locked" /\ r.pc \in {"reporting", "cleaning"})
               /\ r.pc = "locked" => h \in orphan
  <2>1. CASE h \in orphan \/ build[b].pc # "locked"
    <3>1. build' = build
      BY <2>1 DEF CommandEnds
    <3> WITNESS build[b]
    <3> QED  BY <1>1, <2>1, <3>1 DEF IInv, TypeOK
  <2>2. CASE h \notin orphan /\ build[b].pc = "locked" /\ Become(b, "reporting")
    <3> DEFINE q == [build[b] EXCEPT !.pc = "reporting"]
    <3>1. q \in BuildRow /\ q.host = build[b].host /\ q.pc = "reporting"
          /\ q.built = build[b].built /\ q.artifacts = build[b].artifacts
      BY <1>1 DEF BuildRow, BuildPc
    <3>2. RowOK(q)
      <4> HIDE DEF q
      <4> QED  BY <1>1, <2>2, <3>1 DEF RowOK, Counted, IInv, OnWorker
    <3>3. build' = [build EXCEPT ![b] = q]
      BY <2>2 DEF Become, IInv, TypeOK
    <3> HIDE DEF q
    <3> QED  BY <2>2, <3>1, <3>2, <3>3
  <2>3. CASE h \notin orphan /\ build[b].pc = "locked" /\ Err(b, "fatal")
    <3> DEFINE q == [build[b] EXCEPT !.pc = "cleaning", !.error = "fatal"]
    <3>0. build[b].host # None
      BY <1>1, <2>3 DEF IInv, RowOK, OnWorker
    <3>1. RowOK(q) /\ q.host = build[b].host /\ q.pc = "cleaning"
      BY <1>1, <3>0, ErrRow
    <3>3. build' = [build EXCEPT ![b] = q]
      BY <2>3 DEF Err, IInv, TypeOK
    <3> HIDE DEF q
    <3> QED  BY <2>3, <3>1, <3>3
  <2> QED  BY <2>1, <2>2, <2>3 DEF CommandEnds
<1>3. lock' = [lock EXCEPT ![h] = Free] /\ orphan' = orphan \ {h}
      /\ UNCHANGED <<lease, ciVars, registration, service, starting, usurped, process>>
  BY DEF CommandEnds
<1>4. TypeOK'
  BY <1>1, <1>2, <1>3 DEF IInv, TypeOK, RowOK, BuildRow
<1>5. \A x \in Build : RowOK(build'[x])
  BY <1>1, <1>2 DEF IInv, TypeOK
<1>6. CommandHolds'
  <2> SUFFICES ASSUME NEW x \in Build, build'[x].pc = "locked"
               PROVE  lock'[build'[x].host] = x /\ build'[x].host \notin orphan'
    BY DEF CommandHolds
  <2>1. build'[x] = build[x]
    BY <1>1, <1>2 DEF IInv, TypeOK
  <2>2. lock[build[x].host] = x /\ build[x].host \notin orphan /\ build[x].host \in Host
    BY <2>1, Distinct DEF IInv, CommandHolds, RowOK, OnWorker, BuildRow
  <2>3. build[x].host # h
    BY <1>1, <1>2, <2>1, <2>2 DEF IInv, TypeOK
  <2> QED  BY <1>3, <2>1, <2>2, <2>3 DEF IInv, TypeOK
<1>7. HolderKnown'
  <2> SUFFICES ASSUME NEW g \in Host \ orphan', lock'[g] \in Build
               PROVE  build'[lock'[g]].host = g /\ build'[lock'[g]].pc \in {"locked", "cleaning"}
    BY DEF HolderKnown
  <2>1. g # h /\ lock'[g] = lock[g] /\ g \notin orphan
    BY <1>3, Distinct DEF IInv, TypeOK
  <2>2. build[lock[g]].host = g /\ build[lock[g]].pc \in {"locked", "cleaning"}
    BY <2>1 DEF IInv, HolderKnown
  <2>3. lock[g] = b => h \in orphan
    BY <1>1, <2>1, <2>2 DEF IInv, HolderKnown
  <2>4. build'[lock[g]] = build[lock[g]]
    <3>1. CASE lock[g] # b
      BY <3>1, <1>2, <2>1 DEF IInv, TypeOK
    <3>2. CASE h \in orphan
      BY <3>2, <2>1 DEF CommandEnds
    <3> QED  BY <2>3, <3>1, <3>2
  <2> QED  BY <2>1, <2>2, <2>4
<1>8. OrphanHeld' /\ ServiceHolds'
  BY <1>1, <1>3, Distinct DEF IInv, TypeOK, OrphanHeld, ServiceHolds
<1>9. \A x \in usurped : Cast(x)'
  BY <1>1, <1>2, <1>3 DEF IInv, TypeOK, Cast, HoldsLease
<1> QED  BY <1>3, <1>4, <1>5, <1>6, <1>7, <1>8, <1>9
      DEF IInv, AdmissionExclusive, RowOK, Counted, BuildRow

-----------------------------------------------------------------------------
(* A build gives its worker back *)

\* Releasing the lease of b takes no right from a host that CI has reserved.
LEMMA ReleasedType ==
  ASSUME IInv, NEW b \in Build
  PROVE  /\ Released(b) \in [Host -> [op : Build \union {None}, live : BOOLEAN]]
         /\ \A x \in Host : Released(b)[x] = lease[x] \/ ~Released(b)[x].live
BY DEF Released, NoLease, IInv, TypeOK

\* A build without a command leaves its worker with a row that needs none.
LEMMA LeaveInv ==
  ASSUME IInv, NEW b \in Build, NEW r, RowOK(r), r.host = None,
         build' = [build EXCEPT ![b] = r], lease' = Released(b),
         \A x \in Host \ orphan' : lock'[x] # b, orphan \subseteq orphan', 
         orphan' \in SUBSET Host,
         \A x \in orphan' : lock'[x] \in Build,
         \A x \in orphan' \ orphan : lock[x] = b,
         lock' \in [Host -> Build \union {Free, Ci}],
         \A x \in Host : lock'[x] = lock[x] \/ (lock[x] = b /\ lock'[x] = Free),
         UNCHANGED <<ciVars, registration, service, starting, usurped, process>>
  PROVE  IInv'
<1> USE DEF ciVars, hostVars, process
<1>0. r.pc \notin OnWorker /\ r.pc # "locked"
  BY DEF RowOK, OnWorker
<1>1. TypeOK'
  BY ReleasedType, <1>0 DEF IInv, TypeOK, RowOK, BuildRow
<1>2. AdmissionExclusive'
  BY ReleasedType, Distinct DEF IInv, TypeOK, AdmissionExclusive
<1>3. \A x \in Build : RowOK(build'[x])
  BY DEF IInv, TypeOK
<1>4. CommandHolds'
  <2> SUFFICES ASSUME NEW x \in Build, build'[x].pc = "locked"
               PROVE  lock'[build'[x].host] = x /\ build'[x].host \notin orphan'
    BY DEF CommandHolds
  <2>1. x # b /\ build'[x] = build[x]
    BY <1>0 DEF IInv, TypeOK
  <2>2. lock[build[x].host] = x /\ build[x].host \notin orphan /\ build[x].host \in Host
    BY <2>1, Distinct DEF IInv, CommandHolds, RowOK, OnWorker, BuildRow
  <2> QED  BY <2>1, <2>2
<1>5. HolderKnown'
  <2> SUFFICES ASSUME NEW g \in Host \ orphan', lock'[g] \in Build
               PROVE  build'[lock'[g]].host = g /\ build'[lock'[g]].pc \in {"locked", "cleaning"}
    BY DEF HolderKnown
  <2>1. lock'[g] = lock[g] /\ lock[g] # b /\ g \notin orphan
    BY Distinct
  <2> QED  BY <2>1 DEF IInv, TypeOK, HolderKnown
<1>6. OrphanHeld' /\ ServiceHolds'
  BY Distinct DEF IInv, TypeOK, OrphanHeld, ServiceHolds
<1>7. \A x \in usurped : Cast(x)'
  <2> SUFFICES ASSUME NEW x \in usurped, build'[x].host # None
               PROVE  ~HoldsLease(x)'
    BY DEF Cast
  <2>1. x \in Build /\ build'[x].host = build[x].host /\ build[x].host \in Host
    BY DEF IInv, TypeOK
  <2> QED  BY <2>1, ReleasedType DEF IInv, Cast, HoldsLease
<1> QED  BY <1>1, <1>2, <1>3, <1>4, <1>5, <1>6, <1>7 DEF IInv, RowOK, Counted, BuildRow

\* The rows a build leaves its worker with.
LEMMA LeftRow ==
  ASSUME IInv, NEW b \in Build, NEW pc \in {"arrived", "done", "failed"},
         pc = "done" => build[b].artifacts = NumTargets
  PROVE  RowOK([build[b] EXCEPT !.pc = pc, !.host = None, !.built = 0])
<1> DEFINE r == [build[b] EXCEPT !.pc = pc, !.host = None, !.built = 0]
<1>1. build[b] \in BuildRow
  BY DEF IInv, RowOK
<1>0. 0 \in 0..NumTargets
  BY Distinct
<1>2. r \in BuildRow /\ r.host = None /\ r.pc = pc /\ r.built = 0
      /\ r.artifacts = build[b].artifacts
  BY <1>0, <1>1 DEF BuildRow, BuildPc
<1> HIDE DEF r
<1>3. RowOK(r)
  BY <1>1, <1>2, Distinct DEF RowOK, Counted, OnWorker, BuildRow
<1> QED  BY <1>3 DEF r

\* The row a build has after its cleanup, whether the failover takes it or not.
LEMMA CleanedRow ==
  ASSUME IInv, NEW b \in Build, NEW pc \in {"arrived", "failed"}, NEW again \in BOOLEAN,
         NEW without \in SUBSET Host
  PROVE  RowOK([build[b] EXCEPT !.pc = pc, !.host = None, !.error = "none", !.built = 0,
                                !.retried = again, !.excluded = without])
<1> DEFINE r == [build[b] EXCEPT !.pc = pc, !.host = None, !.error = "none", !.built = 0,
                                 !.retried = again, !.excluded = without]
<1>0. 0 \in 0..NumTargets
  BY Distinct
<1>1. build[b] \in BuildRow
  BY DEF IInv, RowOK
<1>2. r \in BuildRow /\ r.host = None /\ r.pc = pc /\ r.built = 0
      /\ r.artifacts = build[b].artifacts
  BY <1>0, <1>1 DEF BuildRow, BuildPc
<1> HIDE DEF r
<1>3. RowOK(r)
  BY <1>1, <1>2, Distinct DEF RowOK, Counted, OnWorker, BuildRow
<1> QED  BY <1>3 DEF r

\* Publication and adoption end with all targets recorded, and without a lock.
LEMMA FinishInv ==
  ASSUME IInv, NEW b \in Build, Finish(b) \/ Adopt(b)
  PROVE  IInv'
<1>1. build[b].pc \in {"closing", "verifying"} /\ build[b].artifacts = NumTargets
  BY Distinct DEF Finish, Adopt, IInv, RowOK, Counted, BuildRow
<1>2. PICK pc \in {"arrived", "done", "failed"} : Leave(b, pc)
  BY DEF Finish, Adopt
<1> DEFINE r == [build[b] EXCEPT !.pc = pc, !.host = None, !.built = 0]
<1>3. build' = [build EXCEPT ![b] = r] /\ lease' = Released(b)
  BY <1>2 DEF Leave, IInv, TypeOK
<1>4. RowOK(r)
  BY <1>1, LeftRow
<1>5. r.host = None
  BY DEF IInv, TypeOK
<1>6. \A x \in Host \ orphan : lock[x] # b
  BY <1>1 DEF IInv, HolderKnown
<1>7. UNCHANGED <<ciVars, hostVars, usurped, process>>
  BY DEF Finish, Adopt
<1> HIDE DEF r
<1> QED  BY <1>3, <1>4, <1>5, <1>6, <1>7, LeaveInv DEF IInv, TypeOK, OrphanHeld, hostVars

\* After an error the lock is freed, or its command goes on without a controller.
LEMMA CleanUpInv ==
  ASSUME IInv, NEW b \in Build, CleanUp(b)
  PROVE  IInv'
<1> DEFINE h == build[b].host
           mine == lock[h] = b /\ h \notin orphan
           again == /\ build[b].error = "unavailable" /\ build[b].artifacts = 0
                    /\ ~build[b].retried
           to == IF again THEN "arrived" ELSE "failed"
           without == IF again THEN build[b].excluded \union {h} ELSE {}
           r == [build[b] EXCEPT !.pc = to, !.host = None, !.error = "none", !.built = 0,
                                 !.retried = again, !.excluded = without]
<1>1. build[b] \in BuildRow /\ h \in Host /\ build[b].pc = "cleaning"
  BY Distinct DEF CleanUp, IInv, RowOK, OnWorker, BuildRow
<1>2. again \in BOOLEAN /\ to \in {"arrived", "failed"} /\ without \in SUBSET Host
  BY <1>1 DEF BuildRow
<1>3. RowOK(r) /\ r.host = None
  <2> HIDE DEF again, without, to
  <2> QED  BY <1>1, <1>2, CleanedRow DEF BuildRow
<1>4. build' = [build EXCEPT ![b] = r] /\ lease' = Released(b)
  <2>1. /\ lease' = Released(b)
        /\ build' = [build EXCEPT ![b].pc = to, ![b].host = None, ![b].error = "none",
             ![b].built = 0, ![b].retried = again, ![b].excluded = without]
    BY DEF CleanUp
  <2> HIDE DEF again, without, to
  <2> QED  BY <2>1 DEF IInv, TypeOK
<1>5. \/ lock' = [lock EXCEPT ![h] = IF mine THEN Free ELSE @] /\ orphan' = orphan
      \/ mine /\ orphan' = orphan \union {h} /\ lock' = lock
  BY DEF CleanUp
<1>6. \A x \in Host \ orphan : lock[x] = b => x = h
  BY DEF IInv, HolderKnown
<1>7. \A x \in Host \ orphan' : lock'[x] # b
  BY <1>1, <1>5, <1>6, Distinct DEF IInv, TypeOK
<1>8. lock' \in [Host -> Build \union {Free, Ci}] /\ orphan' \in SUBSET Host
      /\ orphan \subseteq orphan'
  BY <1>1, <1>5 DEF IInv, TypeOK
<1>9. \A x \in orphan' : lock'[x] \in Build
  BY <1>1, <1>5 DEF IInv, TypeOK, OrphanHeld
<1>10. /\ \A x \in orphan' \ orphan : lock[x] = b
       /\ \A x \in Host : lock'[x] = lock[x] \/ (lock[x] = b /\ lock'[x] = Free)
  BY <1>1, <1>5 DEF IInv, TypeOK
<1>11. UNCHANGED <<ciVars, registration, service, starting, usurped, process>>
  BY DEF CleanUp
<1> HIDE DEF r
<1> QED  BY <1>3, <1>4, <1>7, <1>8, <1>9, <1>10, <1>11, LeaveInv

-----------------------------------------------------------------------------
(* The CI runner *)

\* A step of the reconciliation or of GitHub that touches neither the
\* reservation nor the service of a host disturbs no build.
LEMMA CiFrame ==
  ASSUME IInv, TypeOK', UNCHANGED <<lease, build, reserved, service, lock, orphan, usurped>>
  PROVE  IInv'
BY DEF IInv, AdmissionExclusive, RowOK, Counted, BuildRow, CommandHolds, HolderKnown,
       OrphanHeld, ServiceHolds, Cast, HoldsLease

\* The service of c ends, and its lock is free; nothing else holds that lock.
LEMMA StopInv ==
  ASSUME IInv, NEW c \in CiHost, StopService(c), TypeOK',
         UNCHANGED <<lease, build, reserved, orphan, usurped>>
  PROVE  IInv'
<1>1. c \in Host
  BY Distinct
<1>2. \A x \in Host : lock'[x] = lock[x] \/ (lock[x] = Ci /\ lock'[x] = Free)
  BY <1>1 DEF StopService, IInv, TypeOK, ServiceHolds
<1>3. CommandHolds'
  <2> SUFFICES ASSUME NEW x \in Build, build[x].pc = "locked"
               PROVE  lock'[build[x].host] = x
    BY DEF CommandHolds, IInv
  <2>1. build[x].host \in Host /\ lock[build[x].host] = x
    BY Distinct DEF IInv, CommandHolds, RowOK, OnWorker, BuildRow
  <2> QED  BY <1>2, <2>1, Distinct
<1>4. HolderKnown'
  BY <1>2, Distinct DEF IInv, HolderKnown
<1>5. OrphanHeld'
  BY <1>2, Distinct, SMTT(30), ZenonT(30) DEF IInv, TypeOK, OrphanHeld
<1>6. ServiceHolds'
  BY <1>1, Distinct DEF StopService, IInv, TypeOK, ServiceHolds
<1> QED  BY <1>3, <1>4, <1>5, <1>6 DEF IInv, AdmissionExclusive, RowOK, Counted, BuildRow,
             Cast, HoldsLease

SyncRow == [pc : {"idle", "asking", "inspecting", "deleting", "stopping",
                  "releasing", "preparing", "starting"},
            busy : BOOLEAN,
            goal : {"none", "stop", "release", "start"}]

\* Every row of a reconciliation the handlers write is one.
LEMMA SyncType ==
  ASSUME IInv, NEW c \in CiHost,
         \/ SyncEnds(c)
         \/ \E pc \in {"releasing", "stopping", "preparing", "starting"} : Goto(c, pc)
         \/ \E goal \in {"stop", "release", "start"} : Delete(c, goal)
         \/ sync' = [sync EXCEPT ![c] = [NoSync EXCEPT !.pc = "asking"]]
         \/ sync' = [sync EXCEPT ![c].pc = "inspecting", ![c].busy = registration[c] = "busy"]
         \/ sync' = sync
  PROVE  sync' \in [CiHost -> SyncRow]
<1>1. sync \in [CiHost -> SyncRow] /\ NoSync \in SyncRow
  BY DEF IInv, TypeOK, SyncRow, NoSync
<1>2. PICK r \in SyncRow : sync' = [sync EXCEPT ![c] = r]
  <2>1. CASE SyncEnds(c)
    BY <1>1, <2>1 DEF SyncEnds
  <2>2. CASE \E pc \in {"releasing", "stopping", "preparing", "starting"} : Goto(c, pc)
    <3> PICK pc \in {"releasing", "stopping", "preparing", "starting"} : Goto(c, pc)
      BY <2>2
    <3>1. [sync[c] EXCEPT !.pc = pc] \in SyncRow
      BY <1>1 DEF SyncRow
    <3> QED  BY <1>1, <3>1 DEF Goto
  <2>3. CASE \E goal \in {"stop", "release", "start"} : Delete(c, goal)
    <3> PICK goal \in {"stop", "release", "start"} : Delete(c, goal)
      BY <2>3
    <3>1. [sync[c] EXCEPT !.pc = "deleting", !.goal = goal] \in SyncRow
      BY <1>1 DEF SyncRow
    <3>2. sync' = [sync EXCEPT ![c] = [sync[c] EXCEPT !.pc = "deleting", !.goal = goal]]
      BY <1>1 DEF Delete
    <3> QED  BY <3>1, <3>2
  <2>4. CASE sync' = [sync EXCEPT ![c] = [NoSync EXCEPT !.pc = "asking"]]
    <3>1. [NoSync EXCEPT !.pc = "asking"] \in SyncRow
      BY DEF SyncRow, NoSync
    <3> QED  BY <2>4, <3>1
  <2>5. CASE sync' = [sync EXCEPT ![c].pc = "inspecting", ![c].busy = registration[c] = "busy"]
    <3> DEFINE busy == registration[c] = "busy"
    <3>1. busy \in BOOLEAN
      OBVIOUS
    <3>2. sync' = [sync EXCEPT ![c].pc = "inspecting", ![c].busy = busy]
      BY <2>5
    <3> HIDE DEF busy
    <3>3. [sync[c] EXCEPT !.pc = "inspecting", !.busy = busy] \in SyncRow
      BY <1>1, <3>1 DEF SyncRow
    <3>4. sync' = [sync EXCEPT ![c] = [sync[c] EXCEPT !.pc = "inspecting", !.busy = busy]]
      BY <1>1, <3>2
    <3> QED  BY <3>3, <3>4
  <2>6. CASE sync' = sync
    BY <1>1, <2>6
  <2> QED  BY <2>1, <2>2, <2>3, <2>4, <2>5, <2>6
<1> QED  BY <1>1, <1>2

\* Steps of the reconciliation that touch memory, the idle deadline or GitHub only.
LEMMA SyncFrameInv ==
  ASSUME IInv, NEW c \in CiHost,
         \/ SyncStarts(c) \/ SyncAsks(c) \/ SyncDeletes(c) \/ SyncPrepares(c) \/ SyncFails(c)
  PROVE  IInv'
<1>1. sync' \in [CiHost -> SyncRow]
  <2>1. \/ SyncEnds(c)
        \/ \E pc \in {"releasing", "stopping", "preparing", "starting"} : Goto(c, pc)
        \/ sync' = [sync EXCEPT ![c] = [NoSync EXCEPT !.pc = "asking"]]
        \/ sync' = [sync EXCEPT ![c].pc = "inspecting", ![c].busy = registration[c] = "busy"]
    BY DEF SyncStarts, SyncAsks, SyncDeletes, SyncPrepares, SyncFails
  <2> QED  BY <2>1, SyncType
<1>2. registration' \in [CiHost -> {"none", "idle", "busy"}]
      /\ armed' \in [CiHost -> {"no", "yes", "over"}] /\ starting' \in SUBSET CiHost
  <2>1. CASE SyncStarts(c) \/ SyncAsks(c) \/ SyncFails(c)
    BY <2>1 DEF SyncStarts, SyncAsks, SyncFails, hostVars, IInv, TypeOK
  <2>2. CASE SyncDeletes(c)
    <3>1. registration' = registration \/ registration' = [registration EXCEPT ![c] = "none"]
      BY <2>2 DEF SyncDeletes
    <3>2. UNCHANGED <<armed, starting>>
      BY <2>2 DEF SyncDeletes
    <3> QED  BY <3>1, <3>2 DEF IInv, TypeOK
  <2>3. CASE SyncPrepares(c)
    BY <2>3 DEF SyncPrepares, IInv, TypeOK
  <2> QED  BY <2>1, <2>2, <2>3
<1>3. UNCHANGED <<lease, build, reserved, service, lock, orphan, usurped, up, crashes>>
  BY DEF SyncStarts, SyncAsks, SyncDeletes, SyncPrepares, SyncFails, hostVars, CiKeep, process
<1>4. TypeOK'
  BY <1>1, <1>2, <1>3 DEF IInv, TypeOK, SyncRow
<1> QED  BY <1>3, <1>4, CiFrame

\* What GitHub and the clock do to a runner.
LEMMA GitHubInv ==
  ASSUME IInv, NEW c \in CiHost, JobStarts(c) \/ Forgotten(c) \/ IdleDeadline(c)
  PROVE  IInv'
<1>1. UNCHANGED <<lease, build, reserved, service, lock, orphan, usurped, up, crashes>>
  BY DEF JobStarts, Forgotten, IdleDeadline, ciVars, hostVars, process
<1>2. TypeOK'
  <2>1. registration' \in [CiHost -> {"none", "idle", "busy"}]
        /\ armed' \in [CiHost -> {"no", "yes", "over"}] /\ starting' = starting /\ sync' = sync
    BY DEF JobStarts, Forgotten, IdleDeadline, ciVars, hostVars, IInv, TypeOK
  <2> QED  BY <1>1, <2>1 DEF IInv, TypeOK
<1> QED  BY <1>1, <1>2, CiFrame

\* Stopping a service keeps the types of services and locks.
LEMMA StopTypes ==
  ASSUME IInv, NEW c \in CiHost, StopService(c)
  PROVE  service' \in SUBSET CiHost /\ lock' \in [Host -> Build \union {Free, Ci}]
BY DEF StopService, IInv, TypeOK

\* A job that ends and a runner that is stopped free the lock of the service.
LEMMA ServiceStopsInv ==
  ASSUME IInv, NEW c \in CiHost, JobEnds(c) \/ SyncStops(c)
  PROVE  IInv'
<1>1. StopService(c)
  BY DEF JobEnds, SyncStops
<1>2. UNCHANGED <<lease, build, reserved, armed, starting, orphan, usurped, up, crashes>>
  BY DEF JobEnds, SyncStops, ciVars, process, CiKeep
<1>3. registration' \in [CiHost -> {"none", "idle", "busy"}]
  BY DEF JobEnds, SyncStops, IInv, TypeOK
<1>4. sync' \in [CiHost -> SyncRow]
  <2>1. SyncEnds(c) \/ Goto(c, "releasing") \/ sync' = sync
    BY DEF JobEnds, SyncStops, ciVars
  <2> QED  BY <2>1, SyncType
<1>5. TypeOK'
  BY <1>1, <1>2, <1>3, <1>4, StopTypes DEF IInv, TypeOK, SyncRow
<1> QED  BY <1>1, <1>2, <1>5, StopInv

\* The service starts only where it can take the lock.
LEMMA StartLandsInv ==
  ASSUME IInv, NEW c \in CiHost, StartLands(c)
  PROVE  IInv'
<1>1. c \in Host
  BY Distinct
<1>2. UNCHANGED <<lease, build, reserved, armed, orphan, usurped, up, crashes>>
  BY DEF StartLands, process
<1>3. sync' \in [CiHost -> SyncRow]
  <2>1. SyncEnds(c) \/ sync' = sync
    BY DEF StartLands, SyncEnds
  <2> QED  BY <2>1, SyncType
<1>4. TypeOK'
  <2>1. registration' \in [CiHost -> {"none", "idle", "busy"}] /\ starting' \in SUBSET CiHost
        /\ service' \in SUBSET CiHost /\ lock' \in [Host -> Build \union {Free, Ci}]
    BY DEF StartLands, IInv, TypeOK
  <2> QED  BY <1>2, <1>3, <2>1 DEF IInv, TypeOK, SyncRow
<1>5. CASE lock[c] # Free
  BY <1>2, <1>4, <1>5, CiFrame DEF StartLands
<1>6. CASE lock[c] = Free
  <2>1. service' = service \union {c} /\ lock' = [lock EXCEPT ![c] = Ci]
    BY <1>6 DEF StartLands
  <2>2. CommandHolds'
    <3> SUFFICES ASSUME NEW x \in Build, build[x].pc = "locked"
                 PROVE  lock'[build[x].host] = x
      BY <1>2 DEF CommandHolds, IInv
    <3>1. build[x].host \in Host /\ lock[build[x].host] = x
      BY Distinct DEF IInv, CommandHolds, RowOK, OnWorker, BuildRow
    <3> QED  BY <1>6, <2>1, <3>1, Distinct DEF IInv, TypeOK
  <2>3. HolderKnown'
    BY <1>1, <1>2, <2>1, Distinct DEF IInv, TypeOK, HolderKnown
  <2>4. OrphanHeld'
    BY <1>1, <1>2, <1>6, <2>1, Distinct DEF IInv, TypeOK, OrphanHeld
  <2>5. ServiceHolds'
    BY <1>1, <2>1 DEF IInv, TypeOK, ServiceHolds
  <2> QED  BY <1>2, <1>4, <2>2, <2>3, <2>4, <2>5 DEF IInv, AdmissionExclusive, RowOK,
             Counted, BuildRow, Cast, HoldsLease
<1> QED  BY <1>5, <1>6

\* A reservation is made on a host without a live lease, whoever believed to own it.
LEMMA SyncDecidesInv ==
  ASSUME IInv, NEW c \in CiHost, SyncDecides(c)
  PROVE  IInv'
<1>1. c \in Host
  BY Distinct
<1>2. UNCHANGED <<armed, registration, service, starting, lock, orphan, lease, build, up, crashes>>
  BY DEF SyncDecides, hostVars, process
<1>3. \/ SyncEnds(c) /\ reserved' = reserved
      \/ Delete(c, "stop") /\ reserved' = reserved
      \/ Delete(c, "release") /\ reserved' = reserved
      \/ Delete(c, "start") /\ reserved' = reserved \union {c} /\ ~lease[c].live
  BY DEF SyncDecides, Retire, LeaveAlone, ReleaseHost, ReserveHost, MayReserve
<1>4. sync' \in [CiHost -> SyncRow]
  BY <1>3, SyncType
<1>5. /\ usurped' \in SUBSET Build
      /\ \A x \in usurped' : x \in usurped \/ (build[x].host = c /\ ~lease[c].live)
  <2>1. usurped' = usurped \union (IF reserved' = reserved THEN {} ELSE On(c))
    BY DEF SyncDecides
  <2> QED  BY <1>3, <2>1 DEF On, IInv, TypeOK
<1>6. TypeOK'
  BY <1>2, <1>3, <1>4, <1>5 DEF IInv, TypeOK, SyncRow
<1>7. AdmissionExclusive'
  BY <1>2, <1>3 DEF IInv, AdmissionExclusive
<1>8. \A x \in usurped' : Cast(x)'
  BY <1>2, <1>5 DEF IInv, Cast, HoldsLease
<1> QED  BY <1>2, <1>6, <1>7, <1>8 DEF IInv, RowOK, Counted, BuildRow, CommandHolds,
             HolderKnown, OrphanHeld, ServiceHolds

\* Giving the host back to the builds only takes a reservation away.
LEMMA SyncReleasesInv ==
  ASSUME IInv, NEW c \in CiHost, SyncReleases(c)
  PROVE  IInv'
<1>1. UNCHANGED <<registration, service, starting, lock, orphan, lease, build, usurped, up, crashes>>
  BY DEF SyncReleases, hostVars, CiKeep, process
<1>2. reserved' \subseteq reserved /\ armed' \in [CiHost -> {"no", "yes", "over"}]
  BY DEF SyncReleases, IInv, TypeOK
<1>3. sync' \in [CiHost -> SyncRow]
  BY SyncType DEF SyncReleases
<1>4. TypeOK'
  BY <1>1, <1>2, <1>3 DEF IInv, TypeOK, SyncRow
<1> QED  BY <1>1, <1>2, <1>4 DEF IInv, AdmissionExclusive, RowOK, Counted, BuildRow,
             CommandHolds, HolderKnown, OrphanHeld, ServiceHolds, Cast, HoldsLease

-----------------------------------------------------------------------------
(* The controller process *)

\* A crash leaves the builds without workers and the commands without a controller.
LEMMA CrashInv ==
  ASSUME IInv, Crash
  PROVE  IInv'
<1> DEFINE again(b) == [NewBuild EXCEPT !.pc = IF Complete(b) THEN "recovering" ELSE "arrived",
                                        !.artifacts = build[b].artifacts,
                                        !.origin = build[b].origin]
<1>1. \A b \in Build : RowOK(build'[b]) /\ build'[b].host = None
  <2> SUFFICES ASSUME NEW b \in Build  PROVE RowOK(build'[b]) /\ build'[b].host = None
    OBVIOUS
  <2>0. RowOK(build[b]) /\ build[b] \in BuildRow
    BY DEF IInv, RowOK
  <2>1. CASE build[b].pc = "absent" \/ b \in Settled
    <3>1. build'[b] = build[b]
      BY <2>1 DEF Crash
    <3> QED  BY <2>0, <2>1, <3>1 DEF RowOK, OnWorker, Settled
  <2>2. CASE ~(build[b].pc = "absent" \/ b \in Settled)
    <3>1. build'[b] = again(b)
      BY <2>2 DEF Crash
    <3>2. 0 \in 0..NumTargets
      BY Distinct
    <3>3. /\ again(b) \in BuildRow /\ again(b).host = None /\ again(b).built = 0
          /\ again(b).artifacts = build[b].artifacts
          /\ again(b).pc = IF build[b].artifacts = NumTargets THEN "recovering" ELSE "arrived"
      BY <2>0, <3>2 DEF BuildRow, BuildPc, NewBuild, Complete
    <3> HIDE DEF again
    <3>4. RowOK(again(b))
      BY <2>0, <3>3, Distinct DEF RowOK, Counted, OnWorker, BuildRow
    <3> QED  BY <3>1, <3>3, <3>4
  <2> QED  BY <2>1, <2>2
<1>2. UNCHANGED <<lease, reserved, armed, registration, service, starting, lock, usurped>>
      /\ orphan' = {h \in Host : lock[h] \in Build}
  BY DEF Crash
<1>3. TypeOK'
  <2>1. build' \in [Build -> BuildRow]
    <3>1. build' = [b \in Build |->
             IF build[b].pc = "absent" \/ b \in Settled THEN build[b] ELSE again(b)]
      BY DEF Crash
    <3> HIDE DEF again
    <3> QED  BY <1>1, <3>1 DEF RowOK
  <2>2. sync' \in [CiHost -> SyncRow]
    BY DEF Crash, NoSync, SyncRow
  <2>3. up' \in BOOLEAN /\ crashes' \in 0..MaxCrashes
    <3>1. crashes \in 0..MaxCrashes /\ crashes < MaxCrashes /\ MaxCrashes \in Nat
      BY BuildAssumption DEF Crash, IInv, TypeOK
    <3>2. up' = FALSE /\ crashes' = crashes + 1
      BY DEF Crash
    <3>3. up' \in BOOLEAN
      BY <3>2
    <3>4. crashes' \in 0..MaxCrashes
      BY <3>1, <3>2
    <3> QED  BY <3>3, <3>4
  <2> QED  BY <1>1, <1>2, <2>1, <2>2, <2>3 DEF IInv, TypeOK, SyncRow, BuildRow, RowOK
<1>4. CommandHolds'
  BY <1>1 DEF CommandHolds, RowOK, OnWorker
<1>5. HolderKnown' /\ OrphanHeld'
  BY <1>2 DEF HolderKnown, OrphanHeld
<1>6. \A x \in usurped' : Cast(x)'
  BY <1>1, <1>2 DEF IInv, TypeOK, Cast
<1> QED  BY <1>1, <1>2, <1>3, <1>4, <1>5, <1>6 DEF IInv, AdmissionExclusive, ServiceHolds,
             RowOK, Counted, BuildRow

\* A restart changes nothing that is durable.
LEMMA RestartInv ==
  ASSUME IInv, Restart
  PROVE  IInv'
<1>1. UNCHANGED <<lease, build, reserved, armed, sync, registration, service, starting, lock,
                  orphan, usurped, crashes>> /\ up' = TRUE
  BY DEF Restart, ciVars, hostVars
<1>2. TypeOK'
  BY <1>1 DEF IInv, TypeOK
<1> QED  BY <1>1, <1>2, CiFrame

-----------------------------------------------------------------------------
(* The theorems *)

\* Every step of the controller, of the hosts and of GitHub keeps the
\* invariant.
LEMMA StepInv == IInv /\ [Next]_vars => IInv'
<1> SUFFICES ASSUME IInv, [Next]_vars PROVE IInv'
  OBVIOUS
<1>1. CASE UNCHANGED vars
  <2>1. UNCHANGED <<lease, build, reserved, armed, sync, registration, service, starting, lock,
                    orphan, usurped, up, crashes>>
    BY <1>1 DEF vars, ciVars, hostVars, process
  <2> QED  BY <2>1, CiFrame DEF IInv, TypeOK
<1>2. ASSUME NEW b \in Build, Arrive(b) \/ GiveUp(b) \/ Proceed(b) \/ Heartbeat(b)
                              \/ Disconnect(b) \/ HeadMoved(b)
      PROVE  IInv'
  <2>1. CASE Arrive(b) \/ Look(b) \/ GiveUp(b)
    BY <2>1, WaitingInv
  <2>2. CASE Admit(b) \/ Recover(b)
    BY <2>2, AdmitInv
  <2>3. CASE TakeLock(b)
    BY <2>3, TakeLockInv
  <2>4. CASE Record(b)
    BY <2>4, RecordInv
  <2>5. CASE Finish(b) \/ Adopt(b)
    BY <2>5, FinishInv
  <2>6. CASE CleanUp(b)
    BY <2>6, CleanUpInv
  <2>7. CASE Disconnect(b) \/ HeadMoved(b)
    BY <2>7, ErrInv
  <2>8. CASE Heartbeat(b)
    BY <1>1, <2>8 DEF Heartbeat
  <2> QED  BY <1>2, <2>1, <2>2, <2>3, <2>4, <2>5, <2>6, <2>7, <2>8 DEF Proceed
<1>3. ASSUME NEW h \in Host, Expire(h) \/ CommandEnds(h)
      PROVE  IInv'
  BY <1>3, ExpireInv, CommandEndsInv
<1>4. ASSUME NEW c \in CiHost, \/ StartLands(c) \/ JobStarts(c) \/ JobEnds(c) \/ Forgotten(c)
                               \/ IdleDeadline(c) \/ Reconcile(c) \/ SyncFails(c)
      PROVE  IInv'
  BY <1>4, StartLandsInv, GitHubInv, ServiceStopsInv, SyncFrameInv, SyncDecidesInv,
     SyncReleasesInv DEF Reconcile
<1> QED  BY <1>1, <1>2, <1>3, <1>4, CrashInv, RestartInv DEF Next

\* In every reachable state the lease rows, the builds, the reservations, the
\* services and the locks of the hosts agree as IInv says, over any number of
\* expiries, failovers, lost connections and crashes.
THEOREM Invariance == Spec => []IInv
<1> QED  BY InitIInv, StepInv, PTL DEF Spec

\* Every variable keeps its type, and a build names a worker exactly while it is
\* on one: no path out of buildCommitOnWorker leaves a worker behind.
THEOREM TypeCorrectness == Spec => []TypeOK
<1>1. IInv => TypeOK
  BY DEF IInv
<1> QED  BY <1>1, Invariance, PTL

\* No host is leased to a build and reserved for CI at once.
THEOREM ExclusiveAdmission == Spec => []AdmissionExclusive
<1>1. IInv => AdmissionExclusive
  BY DEF IInv
<1> QED  BY <1>1, Invariance, PTL

\* A build that is done has an artifact for each of its targets.
THEOREM ResultIsWhole == Spec => []WholeResult
<1>1. IInv => WholeResult
  BY DEF IInv, RowOK, Counted, WholeResult
<1> QED  BY <1>1, Invariance, PTL

\* A build command and a CI job are never active on one host at once: who is
\* inside a guarded command has the lock that the service would need.
THEOREM HostIsNotShared ==
  Spec => [](\A b \in Build : build[b].pc = "locked" => build[b].host \notin service)
<1>1. IInv => \A b \in Build : build[b].pc = "locked" => build[b].host \notin service
  <2> SUFFICES ASSUME IInv, NEW b \in Build, build[b].pc = "locked"
               PROVE  build[b].host \notin service
    OBVIOUS
  <2>1. build[b].host \in Host /\ lock[build[b].host] = b
    BY Distinct DEF IInv, CommandHolds, RowOK, OnWorker, BuildRow
  <2> QED  BY <2>1, Distinct DEF IInv, ServiceHolds
<1> QED  BY <1>1, Invariance, PTL

\* A build gets done only by publishing or adopting under the lease it holds.
LEMMA DoneUnderLease ==
  ASSUME IInv, Next, NEW b \in Build, build[b].pc # "done", build'[b].pc = "done"
  PROVE  build[b].host # None /\ HoldsLease(b)
<1>1. ASSUME NEW x \in Build, NEW pc, build' = [build EXCEPT ![x].pc = pc], pc # "done"
      PROVE  FALSE
  BY <1>1 DEF IInv, TypeOK
<1>2. ASSUME NEW x \in Build, NEW e, Err(x, e)
      PROVE  FALSE
  BY <1>2 DEF Err, IInv, TypeOK
<1>3. build' # build
  OBVIOUS
<1>4. ASSUME NEW x \in Build, NEW C \in SUBSET Host, NEW pc \in {"building", "verifying"},
             NEW busy \in {"waiting", "arrived"}, NEW nobody \in {"failed", "arrived"},
             Acquire(x, C, pc, busy, nobody)
      PROVE  FALSE
  <2>1. CASE \E h \in Host : build' = [build EXCEPT ![x].host = h, ![x].pc = pc]
    BY <2>1, <1>4 DEF IInv, TypeOK
  <2>2. CASE Become(x, IF C = {} THEN nobody ELSE busy)
    BY <2>2, <1>1, <1>4 DEF Become
  <2> QED  BY <1>4, <2>1, <2>2 DEF Acquire, Granted, Renewable, Grantable
<1>5. CASE \E x \in Build : Arrive(x) \/ Look(x) \/ GiveUp(x)
  <2> PICK x \in Build : Arrive(x) \/ Look(x) \/ GiveUp(x)
    BY <1>5
  <2>1. Become(x, "arrived") \/ Become(x, "probing") \/ Become(x, "waiting")
        \/ Become(x, "failed")
    BY DEF Arrive, Look, GiveUp
  <2> QED  BY <1>1, <2>1 DEF Become
<1>6. CASE \E x \in Build : Admit(x) \/ Recover(x)
  <2> PICK x \in Build : Admit(x) \/ Recover(x)
    BY <1>6
  <2>1. \/ \E C \in SUBSET Host : Acquire(x, C, "building", "waiting", "failed")
        \/ \E C \in SUBSET Host : Acquire(x, C, "verifying", "arrived", "arrived")
    BY DEF Admit, Recover
  <2> QED  BY <1>4, <2>1
<1>7. CASE \E x \in Build : TakeLock(x) \/ Disconnect(x) \/ HeadMoved(x)
  <2> PICK x \in Build : TakeLock(x) \/ Disconnect(x) \/ HeadMoved(x)
    BY <1>7
  <2>1. Become(x, "locked") \/ \E e : Err(x, e)
    BY DEF TakeLock, Disconnect, HeadMoved
  <2> QED  BY <1>1, <1>2, <2>1 DEF Become
<1>8. CASE \E x \in Build : Record(x)
  <2> PICK x \in Build : Record(x)
    BY <1>8
  <2>1. build'[x].pc \in {"closing", "building", "cleaning"}
        /\ \A y \in Build \ {x} : build'[y] = build[y]
    BY DEF Record, Err, IInv, TypeOK
  <2> QED  BY <2>1
<1>9. CASE \E x \in Build : CleanUp(x)
  <2> PICK x \in Build : CleanUp(x)
    BY <1>9
  <2> PICK r : build' = [build EXCEPT ![x] = r] /\ r.pc \in {"arrived", "failed"}
    <3>1. PICK again, without :
            build' = [build EXCEPT
              ![x].pc = IF again THEN "arrived" ELSE "failed", ![x].host = None,
              ![x].error = "none", ![x].built = 0, ![x].retried = again,
              ![x].excluded = without]
      BY DEF CleanUp
    <3> PICK to \in {"arrived", "failed"} : to = IF again THEN "arrived" ELSE "failed"
      OBVIOUS
    <3> PICK r : r = [build[x] EXCEPT !.pc = to, !.host = None, !.error = "none",
                                      !.built = 0, !.retried = again, !.excluded = without]
      OBVIOUS
    <3>2. build' = [build EXCEPT ![x] = r]
      BY <3>1 DEF IInv, TypeOK
    <3>3. r.pc = to
      BY DEF IInv, TypeOK
    <3> QED  BY <3>2, <3>3
  <2>1. build'[x].pc \in {"arrived", "failed"} /\ \A y \in Build \ {x} : build'[y] = build[y]
    BY DEF IInv, TypeOK
  <2> QED  BY <2>1
<1>10. CASE \E h \in Host : CommandEnds(h)
  <2> PICK h \in Host : CommandEnds(h)
    BY <1>10
  <2>1. lock[h] \in Build
        /\ (build' = build \/ Become(lock[h], "reporting") \/ Err(lock[h], "fatal"))
    BY DEF CommandEnds
  <2> QED  BY <1>1, <1>2, <1>3, <2>1 DEF Become
<1>11. CASE Crash
  BY <1>11 DEF Crash, Settled, NewBuild
<1>12. CASE \E x \in Build : Finish(x) \/ Adopt(x)
  <2> PICK x \in Build : Finish(x) \/ Adopt(x)
    BY <1>12
  <2>1. PICK pc \in {"arrived", "done", "failed"} :
          Leave(x, pc) /\ (pc = "done" => HoldsLease(x))
    BY DEF Finish, Adopt
  <2>2. x = b /\ pc = "done"
    BY <2>1 DEF Leave, IInv, TypeOK
  <2>3. build[x].pc \in OnWorker
    BY DEF Finish, Adopt, OnWorker
  <2> QED  BY <2>1, <2>2, <2>3 DEF IInv, RowOK
<1>13. CASE \/ \E x \in Build : Heartbeat(x)
            \/ \E h \in Host : Expire(h)
            \/ \E c \in CiHost : \/ StartLands(c) \/ JobStarts(c) \/ JobEnds(c) \/ Forgotten(c)
                                 \/ IdleDeadline(c) \/ Reconcile(c) \/ SyncFails(c)
            \/ Restart
  <2>1. build' = build
    BY <1>13 DEF Heartbeat, vars, Expire, StartLands, JobStarts, JobEnds, Forgotten,
       IdleDeadline, Reconcile, SyncFails, Restart, SyncStarts, SyncAsks, SyncDecides,
       SyncDeletes, SyncStops, SyncReleases, SyncPrepares, CiKeep
  <2> QED  BY <1>3, <2>1
<1> QED  BY <1>5, <1>6, <1>7, <1>8, <1>9, <1>10, <1>11, <1>12, <1>13 DEF Next, Proceed

\* Whatever a build publishes or adopts was made under a lease that lasted: nobody
\* was given its host since it was admitted.
THEOREM PublicationIsFenced == Spec => FencedPublication
<1>1. IInv /\ [Next]_vars =>
        [\A b \in Build : build[b].pc # "done" /\ build'[b].pc = "done" => b \notin usurped]_vars
  BY DoneUnderLease DEF IInv, Cast
<1> QED  BY <1>1, Invariance, PTL DEF Spec, FencedPublication
=============================================================================
