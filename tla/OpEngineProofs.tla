--------------------------- MODULE OpEngineProofs ---------------------------
(***************************************************************************)
(* Safety of the operation engine for every set of operations and keys,    *)
(* every kind definition and every limit: a runner, its lock table entries *)
(* and its durable row agree after every step, crash and sweep, and what   *)
(* the engine reports as rolled back is rolled back.  And the engine       *)
(* implements Saga: every stretch of the step runner is one step of the    *)
(* saga, and "done" means that the side effects of every step exist.  What *)
(* that needs beyond Inv is that the forward walk skipped no step and the  *)
(* reverse walk stands at a step that can be undone, and, for "done", that *)
(* what a forward walk recorded exists.                                    *)
(***************************************************************************)
EXTENDS OpEngine, OpEngineRefinement, FiniteSetTheorems, WellFoundedInduction, TLAPS

-----------------------------------------------------------------------------
(* The next step of a walk *)

\* A nonempty set of steps has a first one, and Least returns it.
LEMMA LeastIsFirst ==
  ASSUME NEW S \in SUBSET Nat, S # {}
  PROVE  Least(S) \in S /\ \A t \in S : Least(S) <= t
<1>1. PICK m \in S : \A t \in S : <<t, m>> \notin OpToRel(<, Nat)
  BY WFMin, NatLessThanWellFounded, Zenon
<1>2. \A t \in S : ~(t < m)
  BY <1>1, Zenon DEF OpToRel
<1>3. \A t \in S : m <= t
  BY <1>2
<1> QED  BY <1>3 DEF Least

\* A nonempty bounded set of steps has a last one, and Greatest returns it.
LEMMA GreatestIsLast ==
  ASSUME NEW S \in SUBSET Nat, S # {}, NEW b \in Nat, \A s \in S : s <= b
  PROVE  Greatest(S) \in S /\ \A t \in S : Greatest(S) >= t
<1> DEFINE T == {b - s : s \in S}
<1>1. T \in SUBSET Nat /\ T # {}
  <2>1. \A s \in S : b - s \in Nat
    OBVIOUS
  <2>2. PICK s \in S : TRUE
    OBVIOUS
  <2>3. b - s \in T
    OBVIOUS
  <2> QED  BY <2>1, <2>3
<1>2. PICK m \in T : \A t \in T : m <= t
  <2> HIDE DEF T
  <2> QED  BY <1>1, LeastIsFirst
<1>3. PICK s \in S : m = b - s
  BY <1>2
<1>4. \A t \in S : s >= t
  <2> SUFFICES ASSUME NEW t \in S  PROVE s >= t
    OBVIOUS
  <2>1. b - t \in T
    OBVIOUS
  <2>2. m <= b - t
    BY <1>2, <2>1
  <2> QED  BY <1>3, <2>2
<1> QED  BY <1>4 DEF Greatest

-----------------------------------------------------------------------------
(* What holds of every row, and of every row with its runner *)

RowOK(r) ==
  /\ r \in Row
  /\ r.status \in {"absent", "pending", "running"} => r.comp = {} /\ r.passes = 0
  /\ r.status \in {"running", "compensating", "compensation_failed"} => r.attempt >= 1
  /\ r.passes <= r.attempt
  /\ r.passes <= MaxCompensationAttempts

\* The statuses of a row whose runner goes forward, and of one that undoes: a
\* finalize that raced with the start may have overwritten either.
Working == {"running"} \union Finalized
Undoing == {"compensating", "compensation_failed"} \union Finalized

\* Nothing of the row was compensated, whatever its status says.
Fresh(r) == r.comp = {} /\ r.passes = 0 /\ r.attempt >= 1

RunnerOK(r, q) ==
  /\ q \in Runner
  /\ q.pc \in {"probe", "run"} =>
       r.status \in Working /\ Fresh(r) /\ q.step \notin r.fwd
  /\ q.pc \in {"probeGone", "undo"} =>
       r.status \in Undoing /\ r.attempt >= 1 /\ q.step \in r.fwd \ r.comp

\* The inductive invariant.
Inv ==
  /\ TypeOK
  /\ LockTable
  /\ \A o \in Op : RowOK(db[o]) /\ RunnerOK(db[o], run[o])
  /\ \A o \in Op : up /\ db[o].status = "running" => run[o].pc # "idle"
  /\ \A o \in Op : run[o].pc # "idle" => up

\* How every stretch of the step runner ends: with the keys released, or
\* suspended in a remote call with the lock table h as it was.
Outcome(o, h) ==
  \E r, q :
    /\ RowOK(r) /\ RunnerOK(r, q)
    /\ r.status = "running" => q.pc # "idle"
    /\ db' = [db EXCEPT ![o] = r]
    /\ run' = [run EXCEPT ![o] = q]
    /\ holder' = IF q.pc = "idle" THEN Released(o, h) ELSE h

-----------------------------------------------------------------------------
(* The stretches of the step runner *)

LEMMA LeaveOutcome ==
  ASSUME NEW o \in Op, NEW row, NEW h, RowOK(row), row.status # "running",
         Leave(o, row, h)
  PROVE  Outcome(o, h)
<1>1. RunnerOK(row, Idle)
  BY DEF RunnerOK, Idle, Runner
<1>2. Idle.pc = "idle"
  BY DEF Idle
<1> QED  BY <1>1, <1>2 DEF Outcome, Leave

LEMMA SuspendOutcome ==
  ASSUME NEW o \in Op, NEW row, NEW h, RowOK(row),
         NEW pc \in {"probe", "run", "probeGone", "undo"}, NEW s \in Nat,
         NEW failed \in BOOLEAN,
         RunnerOK(row, [pc |-> pc, step |-> s, failed |-> failed]),
         Suspend(o, row, h, pc, s, failed)
  PROVE  Outcome(o, h)
<1> DEFINE r == [row EXCEPT !.open =
                   IF pc \in {"probe", "probeGone"} THEN "started" ELSE "executing"]
           q == [pc |-> pc, step |-> s, failed |-> failed]
<1>1. RowOK(r)
  BY DEF RowOK, Row
<1>2. RunnerOK(r, q)
  BY DEF RowOK, Row, RunnerOK, Fresh
<1>3. q.pc # "idle"
  OBVIOUS
<1>4. db' = [db EXCEPT ![o] = r] /\ run' = [run EXCEPT ![o] = q] /\ holder' = h
  BY DEF Suspend
<1> HIDE DEF r, q
<1> QED  BY <1>1, <1>2, <1>3, <1>4 DEF Outcome

LEMMA FenceOffOutcome ==
  ASSUME NEW o \in Op, NEW row, NEW h, RowOK(row), FenceOff(o, row, h)
  PROVE  Outcome(o, h)
<1> DEFINE r == [row EXCEPT !.status = IF row.cancelled THEN "cancelled" ELSE "compensated",
                            !.comp = @ \union (Def[o].undo \intersect row.fwd),
                            !.fenced = TRUE]
<1>1. RowOK(r) /\ r.status # "running"
  BY DEF RowOK, Row, Status, Terminal
<1>2. Leave(o, r, h)
  BY DEF FenceOff
<1> HIDE DEF r
<1> QED  BY <1>1, <1>2, LeaveOutcome

LEMMA EndPassOutcome ==
  ASSUME NEW o \in Op, NEW row, NEW h, NEW failed \in BOOLEAN, RowOK(row),
         row.attempt >= 1, EndPass(o, row, h, failed)
  PROVE  Outcome(o, h)
<1>1. PICK st \in {"compensation_failed", "compensating", "cancelled", "failed", "compensated"} :
        Leave(o, [row EXCEPT !.status = st], h)
  BY DEF EndPass
<1> DEFINE r == [row EXCEPT !.status = st]
<1>2. RowOK(r) /\ r.status # "running"
  BY DEF RowOK, Row, Status, Terminal
<1>3. Leave(o, r, h)
  BY <1>1
<1> HIDE DEF r
<1> QED  BY <1>2, <1>3, LeaveOutcome

\* What TLAPS needs to know of a kind definition.
LEMMA DefType ==
  ASSUME NEW o \in Op
  PROVE  /\ Def[o].steps \in Nat \ {0} /\ Def[o].keys \in SUBSET Key /\ Def[o].keys # {}
         /\ Def[o].undo \in SUBSET Nat /\ o \notin {Nobody, NonOp}
BY OpAssumption DEF OpDef

LEMMA UndoBelowOutcome ==
  ASSUME NEW o \in Op, NEW row, NEW h, NEW i \in Nat, NEW failed \in BOOLEAN,
         RowOK(row), row.status \in Undoing, row.attempt >= 1,
         UndoBelow(o, row, h, i, failed)
  PROVE  Outcome(o, h)
<1> DEFINE todo == {s \in Def[o].undo \intersect row.fwd : s < i /\ s \notin row.comp}
           s == Greatest(todo)
           pc == IF s \in Def[o].probedGone THEN "probeGone" ELSE "undo"
<1>1. CASE todo = {}
  <2>1. EndPass(o, row, h, failed)
    BY <1>1 DEF UndoBelow
  <2> QED  BY <2>1, EndPassOutcome
<1>2. CASE todo # {} /\ Superseded(o)
  <2>1. FenceOff(o, row, h)
    BY <1>2 DEF UndoBelow
  <2> QED  BY <2>1, FenceOffOutcome
<1>3. CASE todo # {} /\ ~Superseded(o)
  <2>1. Suspend(o, row, h, pc, s, failed)
    BY <1>3 DEF UndoBelow
  <2>2. todo \in SUBSET Nat /\ \A t \in todo : t <= i
    BY DefType
  <2>3. s \in todo
    <3> HIDE DEF todo
    <3> QED  BY <1>3, <2>2, GreatestIsLast
  <2>4. s \in Nat /\ s \in row.fwd \ row.comp
    BY <2>2, <2>3
  <2> HIDE DEF todo, s
  <2>5. RunnerOK(row, [pc |-> pc, step |-> s, failed |-> failed])
    BY <2>4 DEF RunnerOK, Runner
  <2>6. pc \in {"probe", "run", "probeGone", "undo"}
    OBVIOUS
  <2> HIDE DEF pc
  <2> QED  BY <2>1, <2>4, <2>5, <2>6, SuspendOutcome
<1> QED  BY <1>1, <1>2, <1>3

LEMMA RunCompensationOutcome ==
  ASSUME NEW o \in Op, NEW row, NEW h, RowOK(row), row.status \in Undoing,
         row.passes < row.attempt, row.passes < MaxCompensationAttempts,
         RunCompensation(o, row, h)
  PROVE  Outcome(o, h)
<1> DEFINE p == row.passes + 1
           begun == [row EXCEPT !.passes = p]
<1>1. RowOK(begun) /\ begun.status \in Undoing /\ begun.attempt >= 1
  <2>1. row \in Row /\ row.attempt >= 1 /\ p \in Nat /\ p <= row.attempt /\ p <= MaxCompensationAttempts
    BY LimitAssumption DEF RowOK, Row
  <2> HIDE DEF p
  <2>2. begun \in Row /\ begun.status = row.status /\ begun.attempt = row.attempt
        /\ begun.passes = p
    BY <2>1 DEF Row
  <2> HIDE DEF begun
  <2> QED  BY <2>1, <2>2 DEF RowOK, Undoing, Finalized
<1>2. Def[o].steps + 1 \in Nat
  BY DefType
<1>3. FenceOff(o, begun, h) \/ UndoBelow(o, begun, h, Def[o].steps + 1, FALSE)
  BY DEF RunCompensation
<1> HIDE DEF begun
<1> QED  BY <1>1, <1>2, <1>3, FenceOffOutcome, UndoBelowOutcome

LEMMA FailForwardOutcome ==
  ASSUME NEW o \in Op, NEW row, NEW h, NEW cancelled \in BOOLEAN,
         RowOK(row), row.status \in Working, Fresh(row), FailForward(o, row, h, cancelled)
  PROVE  Outcome(o, h)
<1> DEFINE r == [row EXCEPT !.status = "compensating", !.cancelReq = FALSE,
                            !.cancelled = cancelled, !.open = "none"]
<1>1. RowOK(r) /\ r.status \in Undoing
  BY DEF RowOK, Row, Status, Undoing, Fresh
<1>2. r.passes < r.attempt /\ r.passes < MaxCompensationAttempts
  BY LimitAssumption DEF RowOK, Row, Fresh
<1>3. RunCompensation(o, r, h)
  BY DEF FailForward
<1> HIDE DEF r
<1> QED  BY <1>1, <1>2, <1>3, RunCompensationOutcome

LEMMA ForwardAfterOutcome ==
  ASSUME NEW o \in Op, NEW row, NEW h, NEW i \in Nat,
         RowOK(row), row.status \in Working, Fresh(row), ForwardAfter(o, row, h, i)
  PROVE  Outcome(o, h)
<1> DEFINE rest == {s \in 1..Def[o].steps : s > i /\ s \notin row.fwd}
           s == Least(rest)
           pc == IF s \in Def[o].probed THEN "probe" ELSE "run"
           done == [row EXCEPT !.status = "done", !.cancelReq = FALSE]
<1>1. CASE FailForward(o, row, h, TRUE)
  BY <1>1, FailForwardOutcome
<1>2. CASE Leave(o, done, h)
  <2>1. RowOK(done) /\ done.status # "running"
    BY DEF RowOK, Row, Status, Terminal
  <2> HIDE DEF done
  <2> QED  BY <1>2, <2>1, LeaveOutcome
<1>3. CASE rest # {} /\ Suspend(o, row, h, pc, s, FALSE)
  <2>1. rest \in SUBSET Nat
    BY DefType
  <2>2. s \in rest
    <3> HIDE DEF rest
    <3> QED  BY <1>3, <2>1, LeastIsFirst
  <2>3. s \in Nat /\ s \notin row.fwd
    BY <2>1, <2>2
  <2> HIDE DEF rest, s
  <2>4. RunnerOK(row, [pc |-> pc, step |-> s, failed |-> FALSE])
    BY <2>3 DEF RunnerOK, Runner
  <2>5. pc \in {"probe", "run", "probeGone", "undo"}
    OBVIOUS
  <2> HIDE DEF pc
  <2> QED  BY <1>3, <2>3, <2>4, <2>5, SuspendOutcome
<1>4. \/ FailForward(o, row, h, TRUE)
      \/ Leave(o, done, h)
      \/ rest # {} /\ Suspend(o, row, h, pc, s, FALSE)
  BY DEF ForwardAfter
<1> QED  BY <1>1, <1>2, <1>3, <1>4

-----------------------------------------------------------------------------
(* What preserves the invariant *)

\* No runner of a row that holds no key, and no runner of a row whose keys are
\* all free.
LEMMA NotHeldIdle ==
  ASSUME Inv, NEW o \in Op, ~IsHeld(o) \/ CanAcquire(o)
  PROVE  run[o].pc = "idle"
BY DefType DEF Inv, LockTable, InFlight, IsHeld, CanAcquire

\* A stretch of o's runner, resumed with the lock table as it is or started
\* with o's keys just taken, ends in the invariant.
LEMMA OutcomeKeepsInv ==
  ASSUME Inv, up, NEW o \in Op, NEW h, Outcome(o, h),
         \/ run[o].pc # "idle" /\ h = holder
         \/ CanAcquire(o) /\ h = Taken(o),
         UNCHANGED <<finalizing, up, crashes, requests>>, effects' \in [Op -> SUBSET Nat]
  PROVE  Inv'
<1>1. PICK r, q :
        /\ RowOK(r) /\ RunnerOK(r, q)
        /\ r.status = "running" => q.pc # "idle"
        /\ db' = [db EXCEPT ![o] = r]
        /\ run' = [run EXCEPT ![o] = q]
        /\ holder' = IF q.pc = "idle" THEN Released(o, h) ELSE h
  BY DEF Outcome
<1>2. /\ db \in [Op -> Row] /\ run \in [Op -> Runner]
      /\ holder \in [Key -> Op \union {Nobody, NonOp}]
  BY DEF Inv, TypeOK
<1>3. /\ h \in [Key -> Op \union {Nobody, NonOp}]
      /\ \A k \in Def[o].keys : h[k] = o
      /\ \A k \in Key : h[k] = o => k \in Def[o].keys
      /\ \A k \in Key : h[k] # o => h[k] = holder[k]
      /\ \A k \in Key : h[k] = o => holder[k] \in {o, Nobody}
  <2>1. CASE run[o].pc # "idle" /\ h = holder
    BY <1>2, <2>1, DefType DEF Inv, LockTable, InFlight
  <2>2. CASE CanAcquire(o) /\ h = Taken(o)
    <3>1. \A k \in Key : holder[k] # o
      BY <2>2, NotHeldIdle, DefType DEF Inv, LockTable, InFlight
    <3> QED  BY <1>2, <2>2, <3>1, DefType DEF Taken, CanAcquire
  <2> QED  BY <2>1, <2>2
<1>4. holder' \in [Key -> Op \union {Nobody, NonOp}]
  BY <1>1, <1>3 DEF Released
<1>5. r \in Row /\ q \in Runner
  BY <1>1 DEF RowOK, RunnerOK
<1>6. TypeOK'
  BY <1>1, <1>2, <1>4, <1>5 DEF TypeOK, Inv
<1>7. LockTable'
  <2>1. \A a \in Op : a # o => run'[a] = run[a]
    BY <1>1, <1>2
  <2>2. run'[o] = q
    BY <1>1, <1>2
  <2>3. \A a \in InFlight' : \A k \in Def[a].keys : holder'[k] = a
    <3> SUFFICES ASSUME NEW a \in Op, run'[a].pc # "idle", NEW k \in Def[a].keys
                 PROVE  holder'[k] = a
      BY DEF InFlight
    <3>1. CASE a = o
      BY <1>1, <1>3, <2>2, <3>1
    <3>2. CASE a # o
      <4>1. holder[k] = a /\ k \in Key
        BY <2>1, <3>2, DefType DEF Inv, LockTable, InFlight
      <4>2. h[k] = a
        BY <1>3, <3>2, <4>1, DefType
      <4>3. k \notin Def[o].keys
        BY <1>3, <3>2, <4>2
      <4> QED  BY <1>1, <4>1, <4>2, <4>3 DEF Released
    <3> QED  BY <3>1, <3>2
  <2>4. \A k \in Key : holder'[k] \in Op =>
          holder'[k] \in InFlight' /\ k \in Def[holder'[k]].keys
    <3> SUFFICES ASSUME NEW k \in Key, holder'[k] \in Op
                 PROVE  holder'[k] \in InFlight' /\ k \in Def[holder'[k]].keys
      OBVIOUS
    <3>1. holder'[k] = h[k]
      BY <1>1, DefType, OpAssumption DEF Released
    <3>2. CASE h[k] = o
      <4>1. q.pc # "idle"
        BY <1>1, <1>3, <3>2, OpAssumption DEF Released
      <4> QED  BY <1>3, <2>2, <3>1, <3>2, <4>1 DEF InFlight
    <3>3. CASE h[k] # o
      <4>1. h[k] = holder[k]
        BY <1>3, <3>3
      <4> QED  BY <2>1, <3>1, <3>3, <4>1 DEF Inv, LockTable, InFlight
    <3> QED  BY <3>2, <3>3
  <2> QED  BY <2>3, <2>4 DEF LockTable
<1>8. \A a \in Op :
        /\ RowOK(db'[a]) /\ RunnerOK(db'[a], run'[a])
        /\ db'[a].status = "running" => run'[a].pc # "idle"
  <2> TAKE a \in Op
  <2>1. CASE a = o
    BY <1>1, <1>2, <2>1
  <2>2. CASE a # o
    BY <1>1, <1>2, <2>2 DEF Inv
  <2> QED  BY <2>1, <2>2
<1>9. up' = up
  OBVIOUS
<1> QED  BY <1>6, <1>7, <1>8, <1>9 DEF Inv, RowOK, RunnerOK

\* Edits of rows beside the runners: each edited row keeps the completed steps
\* its runner relies on, and none becomes "running".
LEMMA EditKeepsInv ==
  ASSUME Inv, db' \in [Op -> Row],
         \A o \in Op : /\ RowOK(db'[o]) /\ RunnerOK(db'[o], run[o])
                       /\ db'[o].status = "running" => db[o].status = "running",
         UNCHANGED <<run, holder, effects, up, crashes>>, requests' \in 0..MaxRequests,
         finalizing' \in SUBSET Op
  PROVE  Inv'
<1>1. TypeOK'
  BY DEF Inv, TypeOK
<1>2. LockTable'
  BY DEF Inv, LockTable, InFlight
<1> QED  BY <1>1, <1>2 DEF Inv, RowOK, RunnerOK

-----------------------------------------------------------------------------
(* The actions *)

LEMMA InitInv == Init => Inv
<1> SUFFICES ASSUME Init  PROVE Inv
  OBVIOUS
<1>1. RowOK(NoRow) /\ RunnerOK(NoRow, Idle) /\ NoRow.status = "absent" /\ Idle.pc = "idle"
  BY LimitAssumption DEF RowOK, RunnerOK, NoRow, Idle, Row, Runner, Status, Terminal
<1>2. NoRow \in Row /\ Idle \in Runner
  BY <1>1 DEF RowOK, RunnerOK
<1>3. TypeOK
  BY <1>2, LimitAssumption DEF Init, TypeOK
<1>4. LockTable
  BY <1>1, OpAssumption DEF Init, LockTable, InFlight
<1> QED  BY <1>1, <1>3, <1>4 DEF Init, Inv

\* Starting a row that is not in flight: by a tick or by the sweep.
LEMMA TryStartInv ==
  ASSUME Inv, up, NEW o \in Op, o \notin InFlight,
         db[o].status \in {"pending", "compensating"}, TryStart(o)
  PROVE  Inv'
<1>1. /\ RowOK(db[o]) /\ RunnerOK(db[o], run[o]) /\ run[o].pc = "idle"
      /\ db \in [Op -> Row] /\ effects \in [Op -> SUBSET Nat]
      /\ requests \in 0..MaxRequests /\ finalizing \in SUBSET Op
  BY DEF Inv, TypeOK, InFlight
<1>2. CASE StartUnknown(o)
  <2> DEFINE r == [db[o] EXCEPT !.status = "failed", !.cancelReq = FALSE]
  <2>1. RowOK(r) /\ RunnerOK(r, run[o]) /\ r.status # "running"
    BY <1>1 DEF RowOK, RunnerOK, Row, Status, Terminal
  <2>2. /\ db' = [db EXCEPT ![o] = r]
        /\ UNCHANGED <<run, holder, effects, finalizing, up, crashes, requests>>
    BY <1>2 DEF StartUnknown, TryStart
  <2> HIDE DEF r
  <2>3. db' \in [Op -> Row]
    BY <1>1, <2>1, <2>2 DEF RowOK
  <2>4. \A a \in Op : /\ RowOK(db'[a]) /\ RunnerOK(db'[a], run[a])
                      /\ db'[a].status = "running" => db[a].status = "running"
    BY <1>1, <2>1, <2>2 DEF Inv
  <2> QED  BY <1>1, <2>2, <2>3, <2>4, EditKeepsInv
<1>3. CASE StartKnown(o)
  <2>1. CanAcquire(o)
    BY <1>3 DEF StartKnown
  <2>2. UNCHANGED <<finalizing, up, crashes, requests>> /\ effects' \in [Op -> SUBSET Nat]
    BY <1>1 DEF TryStart
  <2>3. Outcome(o, Taken(o))
    <3>1. CASE StartFencedChild(o)
      <4> DEFINE r == [db[o] EXCEPT !.status = "cancelled", !.cancelReq = FALSE,
                                    !.cancelled = FALSE, !.fenced = TRUE]
      <4>1. RowOK(r) /\ r.status # "running"
        BY <1>1 DEF RowOK, Row, Status, Terminal
      <4>2. Leave(o, r, Taken(o))
        BY <3>1 DEF StartFencedChild
      <4> HIDE DEF r
      <4> QED  BY <4>1, <4>2, LeaveOutcome
    <3>2. CASE StartExhausted(o)
      <4> DEFINE r == [db[o] EXCEPT !.status = "compensation_failed"]
      <4>1. RowOK(r) /\ r.status # "running"
        <5>1. db[o].attempt >= 1
          BY <1>1, <3>2 DEF StartExhausted, Exhausted, RowOK
        <5> QED  BY <1>1, <5>1 DEF RowOK, Row, Status, Terminal
      <4>2. Leave(o, r, Taken(o))
        BY <3>2 DEF StartExhausted
      <4> HIDE DEF r
      <4> QED  BY <4>1, <4>2, LeaveOutcome
    <3>3. CASE ResumeCompensation(o)
      <4> DEFINE n == db[o].attempt + 1
                 r == [db[o] EXCEPT !.attempt = n]
      <4>1. /\ db[o].status = "compensating" /\ db[o].attempt < MaxCompensationAttempts
            /\ db[o] \in Row /\ n \in Nat /\ db[o].passes < n
            /\ db[o].passes < MaxCompensationAttempts
        BY <1>1, <3>3, LimitAssumption DEF ResumeCompensation, Exhausted, RowOK, Row
      <4>2. RunCompensation(o, r, Taken(o))
        BY <3>3 DEF ResumeCompensation
      <4> HIDE DEF n
      <4>3. r \in Row /\ r.status = "compensating" /\ r.attempt = n /\ r.passes = db[o].passes
        BY <4>1 DEF Row
      <4> HIDE DEF r
      <4>4. RowOK(r)
        BY <4>1, <4>3, LimitAssumption DEF RowOK, Row
      <4> QED  BY <4>1, <4>2, <4>3, <4>4, RunCompensationOutcome DEF Undoing
    <3>4. CASE StartForward(o)
      <4> DEFINE n == db[o].attempt + 1
                 r == [db[o] EXCEPT !.status = "running", !.attempt = n]
      <4>1. /\ db[o].status = "pending" /\ db[o] \in Row /\ n \in Nat /\ n >= 1
            /\ db[o].passes = 0 /\ db[o].comp = {}
        BY <1>1, <3>4 DEF StartForward, RowOK, Row
      <4>2. ForwardAfter(o, r, Taken(o), 0)
        BY <3>4 DEF StartForward
      <4> HIDE DEF n
      <4>3. /\ r \in Row /\ r.status = "running" /\ r.attempt = n /\ r.passes = 0
            /\ r.comp = {}
        BY <4>1 DEF Row, Status
      <4> HIDE DEF r
      <4>4. RowOK(r) /\ r.status \in Working /\ Fresh(r)
        BY <4>1, <4>3, LimitAssumption DEF RowOK, Working, Fresh
      <4> QED  BY <4>2, <4>3, <4>4, ForwardAfterOutcome
    <3> QED  BY <1>3, <3>1, <3>2, <3>3, <3>4 DEF StartKnown
  <2> QED  BY <2>1, <2>2, <2>3, OutcomeKeepsInv
<1> QED  BY <1>2, <1>3 DEF TryStart

\* requestCancel keeps what holds of a row and its runner.
LEMMA RequestedOK ==
  ASSUME NEW row, NEW q, RowOK(row), RunnerOK(row, q)
  PROVE  /\ RowOK(Requested(row)) /\ RunnerOK(Requested(row), q)
         /\ Requested(row).status = "running" => row.status = "running"
<1>1. CASE row.status = "pending"
  <2> DEFINE r == [row EXCEPT !.status = "cancelled"]
  <2>1. RowOK(r) /\ RunnerOK(r, q) /\ r.status # "running"
    BY <1>1 DEF RowOK, RunnerOK, Row, Status, Terminal, Working, Undoing, Finalized
  <2>2. Requested(row) = r
    BY <1>1 DEF Requested
  <2> HIDE DEF r
  <2> QED  BY <2>1, <2>2
<1>2. CASE row.status = "running"
  <2> DEFINE r == [row EXCEPT !.cancelReq = TRUE]
  <2>1. RowOK(r) /\ RunnerOK(r, q)
    BY <1>2 DEF RowOK, RunnerOK, Row, Fresh
  <2>2. Requested(row) = r
    BY <1>2 DEF Requested
  <2> HIDE DEF r
  <2> QED  BY <1>2, <2>1, <2>2
<1>3. CASE row.status \notin {"pending", "running"}
  BY <1>3 DEF Requested
<1> QED  BY <1>1, <1>2, <1>3

\* A remote call of a forward step returns, or its side effect happens.
LEMMA ForwardInv ==
  ASSUME Inv, NEW o \in Op, up, run[o].pc \in {"probe", "run"}, Forward(o)
  PROVE  Inv'
<1> DEFINE s == run[o].step
           r == [db[o] EXCEPT !.fwd = @ \union {s}, !.open = "none"]
<1>1. /\ RowOK(db[o]) /\ db[o].status \in Working /\ Fresh(db[o]) /\ run[o] \in Runner
      /\ s \in Nat /\ s \notin db[o].fwd /\ run[o].pc # "idle"
      /\ db \in [Op -> Row] /\ effects \in [Op -> SUBSET Nat]
      /\ requests \in 0..MaxRequests /\ finalizing \in SUBSET Op
  BY DEF Inv, TypeOK, RunnerOK, Runner
<1>2. RowOK(r) /\ r.status \in Working /\ Fresh(r)
  BY <1>1 DEF RowOK, Row, Fresh
<1>3. CASE /\ ForwardAfter(o, r, holder, s)
           /\ UNCHANGED <<effects, finalizing, up, crashes, requests>>
  <2>1. Outcome(o, holder)
    <3> HIDE DEF r, s
    <3> QED  BY <1>1, <1>2, <1>3, ForwardAfterOutcome
  <2> HIDE DEF r, s
  <2> QED  BY <1>1, <1>3, <2>1, OutcomeKeepsInv
<1>4. CASE /\ FailForward(o, db[o], holder, CancelSeen(db[o]))
           /\ UNCHANGED <<effects, finalizing, up, crashes, requests>>
  <2>1. CancelSeen(db[o]) \in BOOLEAN
    BY DEF CancelSeen
  <2>2. Outcome(o, holder)
    BY <1>1, <1>4, <2>1, FailForwardOutcome
  <2> QED  BY <1>1, <1>4, <2>2, OutcomeKeepsInv
<1>5. CASE ProbeMisses(o)
  <2>1. Suspend(o, db[o], holder, "run", s, FALSE)
    BY <1>5 DEF ProbeMisses
  <2>2. RunnerOK(db[o], [pc |-> "run", step |-> s, failed |-> FALSE])
    BY <1>1 DEF RunnerOK, Runner
  <2>3. Outcome(o, holder)
    BY <1>1, <2>1, <2>2, SuspendOutcome
  <2>4. UNCHANGED <<effects, finalizing, up, crashes, requests>>
    BY <1>5 DEF ProbeMisses, Keep
  <2> QED  BY <1>1, <2>3, <2>4, OutcomeKeepsInv
<1>6. CASE EffectLands(o)
  <2>1. /\ UNCHANGED <<db, run, holder, finalizing, up, crashes, requests>>
        /\ effects' \in [Op -> SUBSET Nat]
    BY <1>1, <1>6 DEF EffectLands, Keep
  <2> QED  BY <2>1 DEF Inv, TypeOK, LockTable, InFlight, RowOK, RunnerOK
<1>7. CASE CancelChildren(o)
  <2>1. UNCHANGED <<run, holder, effects, finalizing, up, crashes, requests>>
    BY <1>7 DEF CancelChildren, Keep
  <2>2. \A c \in Op : db'[c] = db[c] \/ db'[c] = Requested(db[c])
    BY <1>7 DEF CancelChildren
  <2>3. ASSUME NEW c \in Op
        PROVE  /\ RowOK(Requested(db[c])) /\ RunnerOK(Requested(db[c]), run[c])
               /\ Requested(db[c]).status = "running" => db[c].status = "running"
    <3>1. RowOK(db[c]) /\ RunnerOK(db[c], run[c])
      BY DEF Inv
    <3> QED  BY <3>1, RequestedOK
  <2>4. \A c \in Op : /\ RowOK(db'[c]) /\ RunnerOK(db'[c], run[c])
                      /\ db'[c].status = "running" => db[c].status = "running"
    BY <2>2, <2>3 DEF Inv
  <2>5. db' = [c \in Op |-> IF c \in ChildrenOf(o) THEN Requested(db[c]) ELSE db[c]]
    BY <1>7 DEF CancelChildren
  <2>6. db' \in [Op -> Row]
    BY <2>4, <2>5 DEF RowOK
  <2> QED  BY <1>1, <2>1, <2>4, <2>6, EditKeepsInv
<1>8. \/ ProbeMisses(o) \/ EffectLands(o) \/ CancelChildren(o)
      \/ /\ ForwardAfter(o, r, holder, s)
         /\ UNCHANGED <<effects, finalizing, up, crashes, requests>>
      \/ /\ FailForward(o, db[o], holder, CancelSeen(db[o]))
         /\ UNCHANGED <<effects, finalizing, up, crashes, requests>>
  BY DEF Forward, ProbeAdopts, ProbeRejects, RunReturns, RunThrows, ChildrenSucceeded,
         ChildrenFailed, StepOk, Keep
<1> QED  BY <1>3, <1>4, <1>5, <1>6, <1>7, <1>8

\* A remote call of a compensation returns, or its side effect happens.
LEMMA BackwardInv ==
  ASSUME Inv, NEW o \in Op, up, run[o].pc \in {"probeGone", "undo"}, Backward(o)
  PROVE  Inv'
<1> DEFINE s == run[o].step
           f == run[o].failed
           done == [db[o] EXCEPT !.comp = @ \union {s}, !.open = "none"]
           failed == [db[o] EXCEPT !.open = "none"]
<1>1. /\ RowOK(db[o]) /\ db[o].status \in Undoing /\ db[o].attempt >= 1
      /\ run[o] \in Runner /\ s \in Nat /\ f \in BOOLEAN /\ s \in db[o].fwd \ db[o].comp /\ run[o].pc # "idle"
      /\ db \in [Op -> Row] /\ effects \in [Op -> SUBSET Nat]
      /\ requests \in 0..MaxRequests /\ finalizing \in SUBSET Op
  BY DEF Inv, TypeOK, RunnerOK, Runner
<1>2. RowOK(done) /\ done.status \in Undoing /\ done.attempt >= 1
  BY <1>1 DEF RowOK, Row, Undoing, Finalized
<1>3. RowOK(failed) /\ failed.status \in Undoing /\ failed.attempt >= 1
  BY <1>1 DEF RowOK, Row, Undoing, Finalized
<1>4. CASE /\ UndoBelow(o, done, holder, s, f)
           /\ UNCHANGED <<effects, finalizing, up, crashes, requests>>
  <2> HIDE DEF done, s, f
  <2>1. Outcome(o, holder)
    BY <1>1, <1>2, <1>4, UndoBelowOutcome
  <2> QED  BY <1>1, <1>4, <2>1, OutcomeKeepsInv
<1>5. CASE /\ UndoBelow(o, failed, holder, s, TRUE)
           /\ UNCHANGED <<effects, finalizing, up, crashes, requests>>
  <2> HIDE DEF failed, s
  <2>1. Outcome(o, holder)
    BY <1>1, <1>3, <1>5, UndoBelowOutcome
  <2> QED  BY <1>1, <1>5, <2>1, OutcomeKeepsInv
<1>6. CASE NotGone(o)
  <2>1. Suspend(o, db[o], holder, "undo", s, f)
    BY <1>6 DEF NotGone
  <2>2. RunnerOK(db[o], [pc |-> "undo", step |-> s, failed |-> f])
    BY <1>1 DEF RunnerOK, Runner
  <2>3. Outcome(o, holder)
    BY <1>1, <2>1, <2>2, SuspendOutcome
  <2>4. UNCHANGED <<effects, finalizing, up, crashes, requests>>
    BY <1>6 DEF NotGone, Keep
  <2> QED  BY <1>1, <2>3, <2>4, OutcomeKeepsInv
<1>7. CASE EffectUndone(o)
  <2>1. /\ UNCHANGED <<db, run, holder, finalizing, up, crashes, requests>>
        /\ effects' \in [Op -> SUBSET Nat]
    BY <1>1, <1>7 DEF EffectUndone, Keep
  <2> QED  BY <2>1 DEF Inv, TypeOK, LockTable, InFlight, RowOK, RunnerOK
<1>8. \/ NotGone(o) \/ EffectUndone(o)
      \/ /\ UndoBelow(o, done, holder, s, f)
         /\ UNCHANGED <<effects, finalizing, up, crashes, requests>>
      \/ /\ UndoBelow(o, failed, holder, s, TRUE)
         /\ UNCHANGED <<effects, finalizing, up, crashes, requests>>
  BY DEF Backward, FoundGone, UndoReturns, UndoThrows, UndoStepOk, Keep
<1> QED  BY <1>4, <1>5, <1>6, <1>7, <1>8

\* One edited row: what enqueueing, the sweep and the operator requests share.
LEMMA OneEditKeepsInv ==
  ASSUME Inv, NEW o \in Op, NEW r, db' = [db EXCEPT ![o] = r],
         RowOK(r), RunnerOK(r, run[o]), r.status = "running" => db[o].status = "running",
         UNCHANGED <<run, holder, effects, up, crashes>>, requests' \in 0..MaxRequests,
         finalizing' \in SUBSET Op
  PROVE  Inv'
<1>1. db' \in [Op -> Row]
  BY DEF Inv, TypeOK, RowOK
<1>2. \A a \in Op : /\ RowOK(db'[a]) /\ RunnerOK(db'[a], run[a])
                    /\ db'[a].status = "running" => db[a].status = "running"
  BY DEF Inv, TypeOK
<1> QED  BY <1>1, <1>2, EditKeepsInv

LEMMA EnqueueInv ==
  ASSUME Inv, NEW o \in Op, Enqueue(o)
  PROVE  Inv'
<1> DEFINE n == Cardinality(Present) + 1
           r == [NoRow EXCEPT !.status = "pending", !.id = n]
<1>1. n \in Nat
  <2>1. Cardinality(Present) \in Nat
    BY OpAssumption, FS_Subset, FS_CardinalityType DEF Present
  <2> QED  BY <2>1
<1>2. /\ db[o].status = "absent" /\ db' = [db EXCEPT ![o] = r]
      /\ UNCHANGED <<run, holder, effects, finalizing, up, crashes, requests>>
  BY DEF Enqueue, Keep
<1> HIDE DEF n
<1>3. RowOK(r) /\ r.status = "pending"
  <2>1. NoRow \in Row /\ NoRow.comp = {} /\ NoRow.passes = 0 /\ NoRow.attempt = 0
    BY DEF NoRow, Row, Status, Terminal
  <2>2. /\ r \in Row /\ r.status = "pending" /\ r.comp = {} /\ r.passes = 0
        /\ r.attempt = 0
    BY <1>1, <2>1 DEF Row, Status
  <2> HIDE DEF r
  <2> QED  BY <2>2, LimitAssumption DEF RowOK
<1>4. RunnerOK(db[o], run[o]) /\ requests \in 0..MaxRequests /\ finalizing \in SUBSET Op
  BY DEF Inv, TypeOK
<1> HIDE DEF r
<1>5. RunnerOK(r, run[o])
  BY <1>2, <1>4 DEF RunnerOK, Working, Undoing, Finalized, Runner
<1> QED  BY <1>2, <1>3, <1>4, <1>5, OneEditKeepsInv

LEMMA SweepInv ==
  ASSUME Inv, NEW o \in Op, Sweep(o)
  PROVE  Inv'
<1>1. CASE SweepExhausted(o)
  <2> DEFINE r == [db[o] EXCEPT !.status = "compensation_failed"]
  <2>1. /\ db[o].status = "compensating" /\ db' = [db EXCEPT ![o] = r]
        /\ UNCHANGED <<run, holder, effects, finalizing, up, crashes, requests>>
    BY <1>1 DEF SweepExhausted, Exhausted, Keep
  <2>2. /\ RowOK(db[o]) /\ RunnerOK(db[o], run[o])
        /\ requests \in 0..MaxRequests /\ finalizing \in SUBSET Op
    BY DEF Inv, TypeOK
  <2>3. RowOK(r) /\ RunnerOK(r, run[o]) /\ r.status # "running"
    BY <2>1, <2>2 DEF RowOK, RunnerOK, Row, Status, Terminal, Working, Undoing, Finalized
  <2> HIDE DEF r
  <2> QED  BY <2>1, <2>2, <2>3, OneEditKeepsInv
<1>2. CASE SweepRequeue(o)
  BY <1>2, TryStartInv DEF SweepRequeue
<1> QED  BY <1>1, <1>2 DEF Sweep

LEMMA OperatorInv ==
  ASSUME Inv, NEW o \in Op, Operator(o)
  PROVE  Inv'
<1>1. RowOK(db[o]) /\ RunnerOK(db[o], run[o])
  BY DEF Inv
<1>2. /\ requests' \in 0..MaxRequests /\ finalizing' \in SUBSET Op
      /\ UNCHANGED <<effects, holder, run, up, crashes>>
  <2>1. requests \in 0..MaxRequests /\ finalizing \in SUBSET Op
    BY DEF Inv, TypeOK
  <2>2. UNCHANGED <<effects, holder, run, up, crashes>>
    BY DEF Operator, Cancel, Retry, FinalizeCheck, FinalizeWrite
  <2>3. CASE Request /\ (UNCHANGED finalizing \/ finalizing' = finalizing \union {o})
    BY <2>1, <2>2, <2>3, LimitAssumption DEF Request
  <2>4. CASE UNCHANGED requests /\ finalizing' = finalizing \ {o}
    BY <2>1, <2>2, <2>4
  <2> QED  BY <2>3, <2>4 DEF Operator, Cancel, Retry, FinalizeCheck, FinalizeWrite
<1>3. CASE Cancel(o)
  <2>1. db' = [db EXCEPT ![o] = Requested(db[o])]
    BY <1>3 DEF Cancel
  <2> QED  BY <1>1, <1>2, <2>1, RequestedOK, OneEditKeepsInv
<1>4. CASE Retry(o)
  <2> DEFINE back == db[o].status \in {"compensating", "compensation_failed"}
             st == IF back THEN "compensating" ELSE "pending"
             r == [db[o] EXCEPT !.status = st,
                     !.cancelReq = FALSE, !.cancelled = FALSE, !.fenced = FALSE,
                     !.open = "none"]
  <2>1. run[o].pc = "idle"
    BY <1>4, NotHeldIdle DEF Retry
  <2>2. db[o].status \in {"pending", "running", "compensating", "compensation_failed"}
    BY <1>4 DEF Retry
  <2>3. db' = [db EXCEPT ![o] = r]
    BY <1>4 DEF Retry, Requeued
  <2>4. /\ st \in {"compensating", "pending"}
        /\ st = "pending" => db[o].status \in {"pending", "running"}
        /\ st = "compensating" => db[o].attempt >= 1
    BY <1>1, <2>2 DEF RowOK, Row
  <2> HIDE DEF st
  <2>5. /\ r \in Row /\ r.status = st /\ r.comp = db[o].comp /\ r.passes = db[o].passes
        /\ r.attempt = db[o].attempt /\ r.fwd = db[o].fwd
    BY <1>1, <2>4 DEF RowOK, Row, Status
  <2> HIDE DEF r
  <2>6. RowOK(r) /\ RunnerOK(r, run[o]) /\ r.status # "running"
    BY <1>1, <2>1, <2>4, <2>5 DEF RowOK, RunnerOK
  <2> QED  BY <1>2, <2>3, <2>6, OneEditKeepsInv
<1>5. CASE FinalizeCheck(o)
  <2>1. UNCHANGED db
    BY <1>5 DEF FinalizeCheck
  <2>2. \A a \in Op : RowOK(db[a]) /\ RunnerOK(db[a], run[a])
    BY DEF Inv
  <2>3. db' \in [Op -> Row]
    BY <2>1 DEF Inv, TypeOK
  <2> QED  BY <1>2, <2>1, <2>2, <2>3, EditKeepsInv
<1>6. CASE FinalizeWrite(o)
  <2>1. CASE UNCHANGED db
    <3>1. \A a \in Op : RowOK(db[a]) /\ RunnerOK(db[a], run[a])
      BY DEF Inv
    <3>2. db' \in [Op -> Row]
      BY <2>1 DEF Inv, TypeOK
    <3> QED  BY <1>2, <2>1, <3>1, <3>2, EditKeepsInv
  <2>2. ASSUME NEW st \in Finalized,
               db' = [db EXCEPT ![o] = [@ EXCEPT !.status = st, !.cancelReq = FALSE,
                                                 !.fenced = FALSE]]
        PROVE  Inv'
    <3> DEFINE r == [db[o] EXCEPT !.status = st, !.cancelReq = FALSE, !.fenced = FALSE]
    <3>1. /\ r \in Row /\ r.status \in Finalized /\ r.comp = db[o].comp
          /\ r.passes = db[o].passes /\ r.attempt = db[o].attempt /\ r.fwd = db[o].fwd
      BY <1>1 DEF RowOK, Row, Status, Terminal, Finalized
    <3>2. db' = [db EXCEPT ![o] = r]
      BY <2>2
    <3> HIDE DEF r
    <3>3. RowOK(r) /\ r.status # "running"
      BY <1>1, <3>1 DEF RowOK, Finalized
    <3>4. RunnerOK(r, run[o])
      BY <1>1, <3>1 DEF RunnerOK, Working, Undoing, Fresh
    <3> QED  BY <1>2, <3>2, <3>3, <3>4, OneEditKeepsInv
  <2> QED  BY <1>6, <2>1, <2>2 DEF FinalizeWrite
<1> QED  BY <1>3, <1>4, <1>5, <1>6 DEF Operator

\* Sections only touch keys that no operation holds.
LEMMA SectionInv ==
  ASSUME Inv, NEW k \in Key, EnterSection(k) \/ LeaveSection(k)
  PROVE  Inv'
<1>1. /\ UNCHANGED <<db, effects, run, finalizing, up, crashes>>
      /\ requests' \in 0..MaxRequests
      /\ holder[k] \in {Nobody, NonOp}
      /\ \E x \in {Nobody, NonOp} : holder' = [holder EXCEPT ![k] = x]
  BY LimitAssumption DEF EnterSection, LeaveSection, Request, Keep, Inv, TypeOK
<1>2. TypeOK'
  BY <1>1 DEF Inv, TypeOK
<1>3. LockTable'
  BY <1>1, DefType DEF Inv, TypeOK, LockTable, InFlight
<1> QED  BY <1>1, <1>2, <1>3 DEF Inv, RowOK, RunnerOK

LEMMA CrashInv ==
  ASSUME Inv, Crash
  PROVE  Inv'
<1>1. Idle \in Runner /\ Idle.pc = "idle"
  BY DEF Idle, Runner
<1>2. TypeOK'
  <2>1. crashes' \in 0..MaxCrashes
    BY LimitAssumption DEF Crash, Inv, TypeOK
  <2>2. /\ db' \in [Op -> Row] /\ effects' \in [Op -> SUBSET Nat]
        /\ up' \in BOOLEAN /\ requests' \in 0..MaxRequests
    BY DEF Crash, Inv, TypeOK
  <2>3. /\ holder' \in [Key -> Op \union {Nobody, NonOp}]
        /\ run' \in [Op -> Runner] /\ finalizing' \in SUBSET Op
    BY <1>1 DEF Crash
  <2> QED  BY <2>1, <2>2, <2>3 DEF TypeOK
<1>3. LockTable'
  BY <1>1, OpAssumption DEF Crash, LockTable, InFlight
<1>4. \A o \in Op : run'[o] = Idle /\ db'[o] = db[o]
  BY DEF Crash
<1>5. \A o \in Op : RowOK(db'[o]) /\ RunnerOK(db'[o], run'[o])
  BY <1>1, <1>4 DEF Inv, RunnerOK
<1> QED  BY <1>1, <1>2, <1>3, <1>4, <1>5 DEF Crash, Inv, RowOK, RunnerOK

LEMMA RestartInv ==
  ASSUME Inv, Restart
  PROVE  Inv'
<1>1. \A o \in Op : run[o].pc = "idle"
  BY DEF Restart, Inv
<1>2. ASSUME NEW o \in Op
      PROVE  /\ RowOK(Resumed(db[o])) /\ RunnerOK(Resumed(db[o]), run[o])
             /\ Resumed(db[o]).status # "running"
  <2> DEFINE st == IF db[o].status = "running" THEN "pending" ELSE db[o].status
             r == [db[o] EXCEPT !.status = st, !.open = "none"]
  <2>1. RowOK(db[o]) /\ RunnerOK(db[o], run[o])
    BY DEF Inv
  <2>2. CASE db[o].status \in {"running", "compensating"}
    <3>1. /\ st \in {"pending", "compensating"} /\ db[o].attempt >= 1
          /\ st = "pending" => db[o].status = "running"
      BY <2>1, <2>2 DEF RowOK
    <3>2. Resumed(db[o]) = r
      BY <2>2 DEF Resumed
    <3> HIDE DEF st
    <3>3. RowOK(r) /\ RunnerOK(r, run[o]) /\ r.status # "running"
      BY <1>1, <2>1, <3>1 DEF RowOK, RunnerOK, Row, Status
    <3> QED  BY <3>2, <3>3
  <2>3. CASE db[o].status \notin {"running", "compensating"}
    BY <2>1, <2>3 DEF Resumed
  <2> QED  BY <2>2, <2>3
<1>3. db' = [o \in Op |-> Resumed(db[o])]
      /\ UNCHANGED <<effects, holder, run, finalizing, crashes, requests>> /\ up'
  BY DEF Restart
<1>4. \A o \in Op : /\ RowOK(db'[o]) /\ RunnerOK(db'[o], run'[o])
                    /\ db'[o].status # "running"
  BY <1>2, <1>3
<1>5. TypeOK'
  BY <1>3, <1>4 DEF Inv, TypeOK, RowOK
<1>6. LockTable'
  BY <1>3 DEF Inv, LockTable, InFlight
<1> QED  BY <1>1, <1>3, <1>4, <1>5, <1>6 DEF Inv, RowOK, RunnerOK

-----------------------------------------------------------------------------
(* The theorems *)

LEMMA StepInv ==
  ASSUME Inv, [Next]_vars
  PROVE  Inv'
<1>1. CASE UNCHANGED vars
  BY <1>1 DEF vars, Inv, TypeOK, LockTable, InFlight, RowOK, RunnerOK
<1>2. ASSUME NEW o \in Op, Enqueue(o) \/ TickStart(o)
      PROVE  Inv'
  <2>1. CASE Enqueue(o)
    BY <2>1, EnqueueInv
  <2>2. CASE TickStart(o)
    <3>1. up /\ o \notin InFlight /\ TryStart(o)
      BY <2>2 DEF TickStart, Startable
    <3>2. db[o].status \in {"pending", "compensating"}
      BY <2>2 DEF TickStart, Window, Pending
    <3> QED  BY <3>1, <3>2, TryStartInv
  <2> QED  BY <1>2, <2>1, <2>2
<1>3. ASSUME NEW o \in Op, Forward(o) \/ Backward(o)
      PROVE  Inv'
  <2>1. CASE Forward(o)
    <3>1. up /\ run[o].pc \in {"probe", "run"}
      BY <2>1 DEF Forward, ProbeAdopts, ProbeMisses, ProbeRejects, EffectLands, RunReturns,
         RunThrows, CancelChildren, ChildrenSucceeded, ChildrenFailed, Awaiting, At
    <3> QED  BY <2>1, <3>1, ForwardInv
  <2>2. CASE Backward(o)
    <3>1. up /\ run[o].pc \in {"probeGone", "undo"}
      BY <2>2 DEF Backward, FoundGone, NotGone, EffectUndone, UndoReturns, UndoThrows, At
    <3> QED  BY <2>2, <3>1, BackwardInv
  <2> QED  BY <1>3, <2>1, <2>2
<1>4. ASSUME NEW o \in Op, Sweep(o) \/ Operator(o)
      PROVE  Inv'
  BY <1>4, SweepInv, OperatorInv
<1>5. ASSUME NEW k \in Key, EnterSection(k) \/ LeaveSection(k)
      PROVE  Inv'
  BY <1>5, SectionInv
<1>6. CASE Crash \/ Restart
  BY <1>6, CrashInv, RestartInv
<1> QED  BY <1>1, <1>2, <1>3, <1>4, <1>5, <1>6 DEF Next

\* The invariant holds in every reachable state.
THEOREM Invariance == Spec => []Inv
<1> QED  BY InitInv, StepInv, PTL DEF Spec

\* Every variable keeps its type: no step of the engine, the sweep, the routes
\* or a restart leaves a row, a runner or the lock table malformed.
THEOREM TypeCorrectness == Spec => []TypeOK
<1>1. Inv => TypeOK
  BY DEF Inv
<1> QED  BY <1>1, Invariance, PTL

\* The lock table is exactly the live runners' keys (scheduler.ts and the
\* finally block of engine.ts:112-116).
THEOREM LocksMatchRunners == Spec => []LockTable
<1>1. Inv => LockTable
  BY DEF Inv
<1> QED  BY <1>1, Invariance, PTL

\* Two operations in flight never share a resource key, whatever mix of ticks,
\* sweeps beyond the concurrency limit, retries and restarts started them.
THEOREM MutualExclusion == Spec => []KeyExclusion
<1>1. Inv => KeyExclusion
  <2> SUFFICES ASSUME Inv, NEW o \in InFlight, NEW n \in InFlight, o # n,
                      NEW k \in Def[o].keys \intersect Def[n].keys
               PROVE  FALSE
    BY DEF KeyExclusion
  <2>1. holder[k] = o /\ holder[k] = n
    BY DEF Inv, LockTable
  <2> QED  BY <2>1
<1> QED  BY <1>1, Invariance, PTL

\* The durable status and the runner agree; no "running" row of a live
\* controller is a zombie.
THEOREM StatusMatchesRunner == Spec => []OneRunner
<1>1. Inv => OneRunner
  BY DEF Inv, OneRunner, RunnerOK, InFlight, Working, Undoing
<1> QED  BY <1>1, Invariance, PTL

\* A completed step is never executed again and an undone one never undone again.
THEOREM StepsRunOnce == Spec => []RecordedOnce
<1>1. Inv => RecordedOnce
  BY DEF Inv, RecordedOnce, RunnerOK, InFlight
<1> QED  BY <1>1, Invariance, PTL

\* A rollback that began is never turned into forward work again.
THEOREM RollbackIsFinal == Spec => []NeverForwardAgain
<1>1. Inv => NeverForwardAgain
  BY DEF Inv, RowOK, NeverForwardAgain
<1> QED  BY <1>1, Invariance, PTL

\* No history makes an operation compensate more often than the policy allows.
THEOREM BoundedCompensation == Spec => []PassBound
<1>1. Inv => PassBound
  BY DEF Inv, RowOK, PassBound
<1> QED  BY <1>1, Invariance, PTL

-----------------------------------------------------------------------------
(* Settled rows *)

\* A step edits at most the row of o.
OnlyRow(o) == \E r : db' = [db EXCEPT ![o] = r]

\* Whatever path a stretch of the step runner takes, it writes its own row only.
LEMMA UndoBelowOnlyRow ==
  ASSUME NEW o \in Op, NEW row, NEW h, NEW i, NEW failed, UndoBelow(o, row, h, i, failed)
  PROVE  OnlyRow(o)
<1> DEFINE todo == {s \in Def[o].undo \intersect row.fwd : s < i /\ s \notin row.comp}
<1>1. CASE EndPass(o, row, h, failed)
  BY <1>1 DEF EndPass, Leave, OnlyRow
<1>2. CASE FenceOff(o, row, h)
  BY <1>2 DEF FenceOff, Leave, OnlyRow
<1>3. CASE \E pc, s : Suspend(o, row, h, pc, s, failed)
  BY <1>3 DEF Suspend, OnlyRow
<1> QED  BY <1>1, <1>2, <1>3 DEF UndoBelow

LEMMA RunCompensationOnlyRow ==
  ASSUME NEW o \in Op, NEW row, NEW h, RunCompensation(o, row, h)
  PROVE  OnlyRow(o)
<1>1. \E begun : FenceOff(o, begun, h) \/ \E i : UndoBelow(o, begun, h, i, FALSE)
  BY DEF RunCompensation
<1>2. ASSUME NEW begun, FenceOff(o, begun, h)  PROVE OnlyRow(o)
  BY <1>2 DEF FenceOff, Leave, OnlyRow
<1> QED  BY <1>1, <1>2, UndoBelowOnlyRow

LEMMA FailForwardOnlyRow ==
  ASSUME NEW o \in Op, NEW row, NEW h, NEW c, FailForward(o, row, h, c)
  PROVE  OnlyRow(o)
BY RunCompensationOnlyRow DEF FailForward

LEMMA ForwardAfterOnlyRow ==
  ASSUME NEW o \in Op, NEW row, NEW h, NEW i, ForwardAfter(o, row, h, i)
  PROVE  OnlyRow(o)
<1>1. \/ FailForward(o, row, h, TRUE)
      \/ \E r : Leave(o, r, h)
      \/ \E pc, s : Suspend(o, row, h, pc, s, FALSE)
  BY DEF ForwardAfter
<1> QED  BY <1>1, FailForwardOnlyRow DEF Leave, Suspend, OnlyRow

LEMMA TryStartOnlyRow ==
  ASSUME NEW o \in Op, TryStart(o)
  PROVE  OnlyRow(o)
<1>1. CASE StartUnknown(o)
  BY <1>1 DEF StartUnknown, OnlyRow
<1>2. CASE StartFencedChild(o) \/ StartExhausted(o)
  BY <1>2 DEF StartFencedChild, StartExhausted, Leave, OnlyRow
<1>3. CASE ResumeCompensation(o)
  BY <1>3, RunCompensationOnlyRow DEF ResumeCompensation
<1>4. CASE StartForward(o)
  BY <1>4, ForwardAfterOnlyRow DEF StartForward
<1> QED  BY <1>1, <1>2, <1>3, <1>4 DEF TryStart, StartKnown

LEMMA RunnerOnlyRow ==
  ASSUME NEW o \in Op, Forward(o) \/ Backward(o), ~CancelChildren(o)
  PROVE  OnlyRow(o) \/ UNCHANGED db
<1>1. CASE ProbeAdopts(o) \/ RunReturns(o) \/ ChildrenSucceeded(o)
  BY <1>1, ForwardAfterOnlyRow DEF ProbeAdopts, RunReturns, ChildrenSucceeded
<1>2. CASE ProbeRejects(o) \/ RunThrows(o) \/ ChildrenFailed(o)
  BY <1>2, FailForwardOnlyRow DEF ProbeRejects, RunThrows, ChildrenFailed
<1>3. CASE ProbeMisses(o) \/ NotGone(o)
  BY <1>3 DEF ProbeMisses, NotGone, Suspend, OnlyRow
<1>4. CASE EffectLands(o) \/ EffectUndone(o)
  BY <1>4 DEF EffectLands, EffectUndone
<1>5. CASE FoundGone(o) \/ UndoReturns(o) \/ UndoThrows(o)
  BY <1>5, UndoBelowOnlyRow DEF FoundGone, UndoReturns, UndoThrows
<1> QED  BY <1>1, <1>2, <1>3, <1>4, <1>5 DEF Forward, Backward

\* A step that edits only the row of o leaves the status of any other row.
LEMMA OtherRowStays ==
  ASSUME Inv, NEW o \in Op, OnlyRow(o), NEW a \in Op, a # o
  PROVE  db'[a] = db[a]
BY DEF Inv, TypeOK, OnlyRow

\* A settled row without a runner, through one step that is no request.
LEMMA SettledStep ==
  ASSUME Inv, [Next]_vars, NEW a \in Op, db[a].status \in Terminal, a \notin InFlight,
         NoRequest
  PROVE  db'[a].status = db[a].status
<1>1. CASE UNCHANGED db
  BY <1>1
<1>2. ASSUME NEW o \in Op, Enqueue(o) \/ TickStart(o)
      PROVE  db'[a].status = db[a].status
  <2>1. o # a
    BY <1>2 DEF Enqueue, TickStart, Window, Pending, Terminal
  <2>2. OnlyRow(o)
    BY <1>2, TryStartOnlyRow DEF Enqueue, TickStart, OnlyRow
  <2> QED  BY <2>1, <2>2, OtherRowStays
<1>3. ASSUME NEW o \in Op, Forward(o) \/ Backward(o)
      PROVE  db'[a].status = db[a].status
  <2>1. CASE CancelChildren(o)
    <3>1. db'[a] = db[a] \/ db'[a] = Requested(db[a])
      BY <2>1 DEF CancelChildren
    <3>2. Requested(db[a]) = db[a]
      BY DEF Requested, Terminal
    <3> QED  BY <3>1, <3>2
  <2>2. CASE ~CancelChildren(o)
    <3>1. o # a
      BY <1>3 DEF InFlight, Forward, Backward, ProbeAdopts, ProbeMisses, ProbeRejects,
         EffectLands, RunReturns, RunThrows, CancelChildren, ChildrenSucceeded,
         ChildrenFailed, FoundGone, NotGone, EffectUndone, UndoReturns, UndoThrows,
         Awaiting, At
    <3>2. OnlyRow(o) \/ UNCHANGED db
      BY <1>3, <2>2, RunnerOnlyRow
    <3> QED  BY <3>1, <3>2, OtherRowStays
  <2> QED  BY <2>1, <2>2
<1>4. ASSUME NEW o \in Op, Sweep(o)
      PROVE  db'[a].status = db[a].status
  <2>1. o # a
    BY <1>4 DEF Sweep, SweepExhausted, SweepRequeue, Exhausted, Terminal
  <2>2. OnlyRow(o)
    <3>1. CASE SweepExhausted(o)
      BY <3>1 DEF SweepExhausted, OnlyRow
    <3>2. CASE SweepRequeue(o)
      BY <3>2, TryStartOnlyRow DEF SweepRequeue
    <3> QED  BY <1>4, <3>1, <3>2 DEF Sweep
  <2> QED  BY <2>1, <2>2, OtherRowStays
<1>5. ASSUME NEW o \in Op, Operator(o)
      PROVE  FALSE
  <2>1. requests \in Nat
    BY LimitAssumption DEF Inv, TypeOK
  <2>2. CASE FinalizeWrite(o)
    BY <2>2 DEF FinalizeWrite, NoRequest
  <2>3. CASE Request
    BY <2>1, <2>3 DEF Request, NoRequest
  <2> QED  BY <1>5, <2>2, <2>3 DEF Operator, Cancel, Retry, FinalizeCheck
<1>6. CASE Restart
  BY <1>6 DEF Restart, Resumed, Terminal
<1>7. ASSUME NEW k \in Key, EnterSection(k) \/ LeaveSection(k)
      PROVE  UNCHANGED db
  BY <1>7 DEF EnterSection, LeaveSection
<1>8. CASE Crash \/ UNCHANGED vars
  BY <1>1, <1>8 DEF Crash, vars
<1> QED  BY <1>1, <1>2, <1>3, <1>4, <1>5, <1>6, <1>7, <1>8 DEF Next

\* Nothing but an operator's request changes what a settled row reports: no
\* tick, sweep, cancelled parent, crash or restart revives it.
THEOREM SettledRowsStay == Spec => SettledStays
<1>1. Inv /\ [Next]_vars =>
        [\A o \in Op : db[o].status \in Terminal /\ o \notin InFlight /\ NoRequest
           => db'[o].status = db[o].status]_vars
  BY SettledStep
<1> QED  BY <1>1, Invariance, PTL DEF Spec, SettledStays

-----------------------------------------------------------------------------
(* The order of the queue *)

\* An older pending row stands in the window that a younger one stands in.
LEMMA WindowHasOlder ==
  ASSUME Inv, NEW o \in Pending, NEW n \in Window, Newer(n, o)
  PROVE  o \in Window
<1> DEFINE before(p) == {q \in Pending : Newer(p, q)}
<1>1. IsFiniteSet(Pending)
  BY OpAssumption, FS_Subset DEF Pending
<1>2. IsFiniteSet(before(n)) /\ before(o) \subseteq before(n)
  <2>1. \A p \in Op : db[p].id \in Nat
    BY DEF Inv, RowOK, Row
  <2>2. \A q \in Pending : Newer(o, q) => Newer(n, q)
    BY <2>1 DEF Newer, Pending, Window
  <2> QED  BY <1>1, <2>2, FS_Subset
<1>3. Cardinality(before(o)) <= Cardinality(before(n))
  BY <1>2, FS_Subset
<1>4. IsFiniteSet(before(o))
  BY <1>2, FS_Subset
<1>5. Cardinality(before(o)) \in Nat /\ Cardinality(before(n)) \in Nat
  BY <1>2, <1>4, FS_CardinalityType
<1>6. Cardinality(before(n)) < 2 * MaxConcurrent /\ 2 * MaxConcurrent \in Nat
  BY LimitAssumption DEF Window
<1> HIDE DEF before
<1>7. Cardinality(before(o)) < 2 * MaxConcurrent
  BY <1>3, <1>5, <1>6
<1> QED  BY <1>7 DEF Window, before

\* A row that starts by a tick for the first time is behind no pending row that
\* its keys would let start.
LEMMA TickOldestFirst ==
  ASSUME Inv, NEW o \in Op, NEW n \in Op, Newer(n, o), Def[o].keys \subseteq Def[n].keys,
         db[n].status = "pending", db'[n].attempt # db[n].attempt, TickStart(n)
  PROVE  db[o].status # "pending"
<1> SUFFICES ASSUME db[o].status = "pending"  PROVE FALSE
  OBVIOUS
<1>1. n \in Window /\ \A p \in Window : Newer(n, p) => ~Startable(p)
  BY DEF TickStart
<1>2. o \in Pending /\ o \in Window
  BY <1>1, WindowHasOlder DEF Pending
<1>3. ~Startable(o)
  BY <1>1, <1>2
<1>4. o \notin InFlight
  BY DEF Inv, RunnerOK, Runner, InFlight, Working, Undoing, Finalized
<1>5. ~StartUnknown(n)
  <2>1. db[n] \in Row /\ db \in [Op -> Row]
    BY DEF Inv, TypeOK
  <2> SUFFICES ASSUME StartUnknown(n)  PROVE FALSE
    OBVIOUS
  <2>2. db'[n] = [db[n] EXCEPT !.status = "failed", !.cancelReq = FALSE]
    BY <2>1 DEF StartUnknown
  <2> QED  BY <2>1, <2>2 DEF Row
<1>6. CanAcquire(n)
  BY <1>5 DEF TickStart, TryStart, StartKnown
<1>7. CanAcquire(o)
  BY <1>6 DEF CanAcquire
<1> QED  BY <1>3, <1>4, <1>7 DEF Startable

\* Nothing but the start of a row counts an attempt of it.
LEMMA OnlyStartsCount ==
  ASSUME Inv, [Next]_vars, NEW n \in Op, db[n].attempt = 0, db'[n].attempt = 1
  PROVE  db[n].status = "pending" /\ TickStart(n)
<1>1. /\ db \in [Op -> Row] /\ db[n] \in Row /\ RowOK(db[n]) /\ RunnerOK(db[n], run[n])
      /\ db'[n] # db[n]
  BY DEF Inv, TypeOK
<1>2. /\ run[n].pc = "idle"
      /\ db[n].status \notin {"running", "compensating", "compensation_failed"}
  BY <1>1 DEF RowOK, RunnerOK, Runner, Fresh
<1>3. ASSUME NEW o \in Op, Enqueue(o)
      PROVE  FALSE
  <2>1. OnlyRow(o)
    BY <1>3 DEF Enqueue, OnlyRow
  <2>2. o = n
    BY <1>1, <2>1, OtherRowStays
  <2>3. db'[n] = [NoRow EXCEPT !.status = "pending", !.id = Cardinality(Present) + 1]
    BY <1>1, <1>3, <2>2 DEF Enqueue
  <2> QED  BY <2>3 DEF NoRow
<1>4. ASSUME NEW o \in Op, TickStart(o)
      PROVE  db[n].status = "pending" /\ TickStart(n)
  <2>1. o = n
    BY <1>1, <1>4, TryStartOnlyRow, OtherRowStays DEF TickStart
  <2> QED  BY <1>2, <1>4, <2>1 DEF TickStart, Window, Pending
<1>5. ASSUME NEW o \in Op, Forward(o) \/ Backward(o)
      PROVE  FALSE
  <2>1. CASE CancelChildren(o)
    <3>1. db'[n] = Requested(db[n])
      BY <1>1, <2>1 DEF CancelChildren
    <3> QED  BY <1>1, <3>1 DEF Requested, Row
  <2>2. CASE ~CancelChildren(o)
    <3>1. run[o].pc # "idle"
      BY <1>5, <2>2 DEF Forward, Backward, ProbeAdopts, ProbeMisses, ProbeRejects,
         EffectLands, RunReturns, RunThrows, ChildrenSucceeded, ChildrenFailed, FoundGone,
         NotGone, EffectUndone, UndoReturns, UndoThrows, Awaiting, At
    <3>2. OnlyRow(o) \/ UNCHANGED db
      BY <1>5, <2>2, RunnerOnlyRow
    <3> QED  BY <1>1, <1>2, <3>1, <3>2, OtherRowStays
  <2> QED  BY <2>1, <2>2
<1>6. ASSUME NEW o \in Op, Sweep(o)
      PROVE  FALSE
  <2>1. OnlyRow(o) /\ db[o].status = "compensating"
    BY <1>6, TryStartOnlyRow DEF Sweep, SweepExhausted, SweepRequeue, Exhausted, OnlyRow
  <2> QED  BY <1>1, <1>2, <2>1, OtherRowStays
<1>7. ASSUME NEW o \in Op, Operator(o)
      PROVE  FALSE
  <2>1. \/ UNCHANGED db
        \/ db' = [db EXCEPT ![o] = Requested(db[o])]
        \/ db' = [db EXCEPT ![o] = Requeued(db[o])]
        \/ \E st \in Finalized :
             db' = [db EXCEPT ![o] = [db[o] EXCEPT !.status = st, !.cancelReq = FALSE,
                                                   !.fenced = FALSE]]
    BY <1>7 DEF Operator, Cancel, Retry, FinalizeCheck, FinalizeWrite
  <2>2. OnlyRow(o) \/ UNCHANGED db
    BY <2>1 DEF OnlyRow
  <2>3. o = n
    BY <1>1, <2>2, OtherRowStays
  <2>4. \/ db'[n] = Requested(db[n])
        \/ db'[n] = Requeued(db[n])
        \/ \E st \in Finalized : db'[n] = [db[n] EXCEPT !.status = st, !.cancelReq = FALSE,
                                                        !.fenced = FALSE]
    BY <1>1, <2>1, <2>3
  <2>5. db'[n].attempt = 1 /\ db[n].attempt = 0
    OBVIOUS
  <2>6. ASSUME NEW st, db'[n] = [db[n] EXCEPT !.status = st, !.cancelReq = FALSE,
                                   !.cancelled = FALSE, !.fenced = FALSE, !.open = "none"]
        PROVE  FALSE
    BY <1>1, <2>5, <2>6 DEF Row
  <2>7. CASE db'[n] = Requeued(db[n])
    <3> DEFINE st == IF db[n].status \in {"compensating", "compensation_failed"}
                     THEN "compensating" ELSE "pending"
    <3>1. db'[n] = [db[n] EXCEPT !.status = st, !.cancelReq = FALSE,
                                 !.cancelled = FALSE, !.fenced = FALSE, !.open = "none"]
      BY <2>7 DEF Requeued
    <3> HIDE DEF st
    <3> QED  BY <2>6, <3>1
  <2>8. CASE db'[n] = Requested(db[n])
    BY <1>1, <2>5, <2>8 DEF Requested, Row
  <2>9. ASSUME NEW st \in Finalized,
               db'[n] = [db[n] EXCEPT !.status = st, !.cancelReq = FALSE, !.fenced = FALSE]
        PROVE  FALSE
    BY <1>1, <2>5, <2>9 DEF Row
  <2> QED  BY <2>4, <2>7, <2>8, <2>9
<1>8. ASSUME Restart
      PROVE  FALSE
  <2>1. db'[n] = Resumed(db[n])
    BY <1>8 DEF Restart
  <2> QED  BY <1>1, <2>1 DEF Resumed, Row
<1>9. ASSUME NEW k \in Key, EnterSection(k) \/ LeaveSection(k)
      PROVE  FALSE
  BY <1>1, <1>9 DEF EnterSection, LeaveSection
<1>10. ASSUME Crash \/ UNCHANGED vars
       PROVE  FALSE
  BY <1>1, <1>10 DEF Crash, vars
<1> QED  BY <1>3, <1>4, <1>5, <1>6, <1>7, <1>8, <1>9, <1>10 DEF Next

\* The queue serves the oldest first: no operation begins its first attempt
\* while an older one that needs no other key waits, whatever is cancelled,
\* retried, parked, restarted or of an unknown kind.
THEOREM OldestFirst == Spec => NoOvertaking
<1>1. Inv /\ [Next]_vars =>
        [\A o, n \in Op :
           Newer(n, o) /\ Def[o].keys \subseteq Def[n].keys
             /\ db[n].attempt = 0 /\ db'[n].attempt = 1 => db[o].status # "pending"]_vars
  BY OnlyStartsCount, TickOldestFirst
<1> QED  BY <1>1, Invariance, PTL DEF Spec, NoOvertaking

-----------------------------------------------------------------------------
(* An old rollback yields to a newer operation on the same resources *)

Undoes(q) == q.pc \in {"probeGone", "undo"}

\* A stretch of the step runner of o that does not end in a compensation.
NoRemoval(o) == \E q : ~Undoes(q) /\ run' = [run EXCEPT ![o] = q]

LEMMA LeaveNoRemoval ==
  ASSUME NEW o \in Op, NEW row, NEW h, Leave(o, row, h)
  PROVE  NoRemoval(o)
BY DEF Leave, NoRemoval, Undoes, Idle

LEMMA FenceOffNoRemoval ==
  ASSUME NEW o \in Op, NEW row, NEW h, FenceOff(o, row, h)
  PROVE  NoRemoval(o)
BY LeaveNoRemoval DEF FenceOff

\* The test before each compensation of a walk.
LEMMA UndoBelowNoRemoval ==
  ASSUME NEW o \in Op, NEW row, NEW h, NEW i, NEW failed, Superseded(o),
         UndoBelow(o, row, h, i, failed)
  PROVE  NoRemoval(o)
<1>1. EndPass(o, row, h, failed) \/ FenceOff(o, row, h)
  BY DEF UndoBelow
<1> QED  BY <1>1, LeaveNoRemoval, FenceOffNoRemoval DEF EndPass

\* The test before the walk.
LEMMA FailForwardNoRemoval ==
  ASSUME NEW o \in Op, NEW row, NEW h, NEW cancelled, Superseded(o),
         FailForward(o, row, h, cancelled)
  PROVE  NoRemoval(o)
BY FenceOffNoRemoval DEF FailForward, RunCompensation

LEMMA ForwardAfterNoRemoval ==
  ASSUME NEW o \in Op, NEW row, NEW h, NEW i, Superseded(o), ForwardAfter(o, row, h, i)
  PROVE  NoRemoval(o)
<1>1. CASE FailForward(o, row, h, TRUE)
  BY <1>1, FailForwardNoRemoval
<1>2. CASE \E r : Leave(o, r, h)
  BY <1>2, LeaveNoRemoval
<1>3. ASSUME NEW s, NEW pc \in {"probe", "run"}, Suspend(o, row, h, pc, s, FALSE)
      PROVE  NoRemoval(o)
  BY <1>3 DEF Suspend, NoRemoval, Undoes
<1> QED  BY <1>1, <1>2, <1>3 DEF ForwardAfter

LEMMA TryStartNoRemoval ==
  ASSUME NEW o \in Op, Superseded(o), TryStart(o)
  PROVE  NoRemoval(o) \/ UNCHANGED run
<1>1. CASE StartUnknown(o)
  BY <1>1 DEF StartUnknown
<1>2. CASE StartFencedChild(o) \/ StartExhausted(o)
  BY <1>2, LeaveNoRemoval DEF StartFencedChild, StartExhausted
<1>3. CASE ResumeCompensation(o)
  BY <1>3, FenceOffNoRemoval DEF ResumeCompensation, RunCompensation
<1>4. CASE StartForward(o)
  BY <1>4, ForwardAfterNoRemoval DEF StartForward
<1> QED  BY <1>1, <1>2, <1>3, <1>4 DEF TryStart, StartKnown

\* Whatever it does, a stretch of the runner of o suspends or ends that runner.
OnlyRun(o) == \E q : run' = [run EXCEPT ![o] = q]

LEMMA UndoBelowOnlyRun ==
  ASSUME NEW o \in Op, NEW row, NEW h, NEW i, NEW failed, UndoBelow(o, row, h, i, failed)
  PROVE  OnlyRun(o)
BY DEF UndoBelow, EndPass, FenceOff, Leave, Suspend, OnlyRun

LEMMA FailForwardOnlyRun ==
  ASSUME NEW o \in Op, NEW row, NEW h, NEW cancelled, FailForward(o, row, h, cancelled)
  PROVE  OnlyRun(o)
BY UndoBelowOnlyRun DEF FailForward, RunCompensation, FenceOff, Leave, OnlyRun

LEMMA ForwardAfterOnlyRun ==
  ASSUME NEW o \in Op, NEW row, NEW h, NEW i, ForwardAfter(o, row, h, i)
  PROVE  OnlyRun(o)
BY FailForwardOnlyRun DEF ForwardAfter, Leave, Suspend, OnlyRun

LEMMA TryStartOnlyRun ==
  ASSUME NEW o \in Op, TryStart(o)
  PROVE  OnlyRun(o) \/ UNCHANGED run
<1>1. CASE StartForward(o)
  BY <1>1, ForwardAfterOnlyRun DEF StartForward
<1>2. CASE ~StartForward(o)
  BY <1>2, UndoBelowOnlyRun DEF TryStart, StartKnown, StartUnknown, StartFencedChild, StartExhausted,
     ResumeCompensation, RunCompensation, FenceOff, Leave, OnlyRun
<1> QED  BY <1>1, <1>2

LEMMA RunnerOnlyRun ==
  ASSUME NEW o \in Op, Forward(o) \/ Backward(o)
  PROVE  OnlyRun(o) \/ UNCHANGED run
<1>1. CASE ProbeAdopts(o) \/ RunReturns(o) \/ ChildrenSucceeded(o)
  BY <1>1, ForwardAfterOnlyRun DEF ProbeAdopts, RunReturns, ChildrenSucceeded
<1>2. CASE ProbeRejects(o) \/ RunThrows(o) \/ ChildrenFailed(o)
  BY <1>2, FailForwardOnlyRun DEF ProbeRejects, RunThrows, ChildrenFailed
<1>3. CASE ProbeMisses(o) \/ NotGone(o)
  BY <1>3 DEF ProbeMisses, NotGone, Suspend, OnlyRun
<1>4. CASE EffectLands(o) \/ EffectUndone(o) \/ CancelChildren(o)
  BY <1>4 DEF EffectLands, EffectUndone, CancelChildren
<1>5. CASE FoundGone(o) \/ UndoReturns(o) \/ UndoThrows(o)
  BY <1>5, UndoBelowOnlyRun DEF FoundGone, UndoReturns, UndoThrows
<1> QED  BY <1>1, <1>2, <1>3, <1>4, <1>5 DEF Forward, Backward

\* A step may remove what the call in hand removes, and begin no other.
Yields(o) ==
  /\ Undoes(run'[o]) => Undoes(run[o]) /\ run'[o].step = run[o].step
  /\ effects[o] \ effects'[o] \subseteq IF run[o].pc = "undo" THEN {run[o].step} ELSE {}

LEMMA RunnerYields ==
  ASSUME TypeOK, NEW o \in Op, NEW p \in Op, Superseded(o), Forward(p) \/ Backward(p)
  PROVE  Yields(o)
<1>1. run \in [Op -> Runner] /\ effects \in [Op -> SUBSET Nat]
  BY DEF TypeOK
<1>2. CASE NoRemoval(p) /\ UNCHANGED effects /\ p = o
  BY <1>1, <1>2 DEF NoRemoval, Yields
<1>3. ASSUME p # o, NEW q, run' = [run EXCEPT ![p] = q] \/ UNCHANGED run,
             NEW e, effects' = [effects EXCEPT ![p] = e] \/ UNCHANGED effects
      PROVE  Yields(o)
  BY <1>1, <1>3 DEF Yields, Undoes
<1>4. CASE UNCHANGED <<run, effects>>
  BY <1>4 DEF Yields
<1>5. CASE p = o
  <2>1. CASE ProbeAdopts(o)
    BY <1>2, <1>5, <2>1, ForwardAfterNoRemoval DEF ProbeAdopts
  <2>2. CASE ProbeMisses(o)
    <3>1. NoRemoval(o) /\ UNCHANGED effects
      BY <2>2 DEF ProbeMisses, Suspend, NoRemoval, Undoes
    <3> QED  BY <1>2, <1>5, <3>1
  <2>3. CASE ProbeRejects(o) \/ RunThrows(o) \/ ChildrenFailed(o)
    BY <1>2, <1>5, <2>3, FailForwardNoRemoval DEF ProbeRejects, RunThrows, ChildrenFailed
  <2>4. CASE RunReturns(o) \/ ChildrenSucceeded(o)
    BY <1>2, <1>5, <2>4, ForwardAfterNoRemoval DEF RunReturns, ChildrenSucceeded
  <2>5. CASE EffectLands(o)
    <3>1. effects' = [effects EXCEPT ![o] = effects[o] \union {run[o].step}] /\ UNCHANGED run
      BY <2>5 DEF EffectLands
    <3> QED  BY <1>1, <3>1 DEF Yields, Undoes
  <2>6. CASE CancelChildren(o)
    BY <1>4, <2>6 DEF CancelChildren
  <2>7. CASE FoundGone(o) \/ UndoReturns(o) \/ UndoThrows(o)
    BY <1>2, <1>5, <2>7, UndoBelowNoRemoval DEF FoundGone, UndoReturns, UndoThrows
  <2>8. CASE NotGone(o)
    <3>1. Undoes(run[o])
      BY <2>8 DEF NotGone, At, Undoes
    <3>2. run' = [run EXCEPT ![o] = [pc |-> "undo", step |-> run[o].step,
                                     failed |-> run[o].failed]] /\ UNCHANGED effects
      BY <2>8 DEF NotGone, Suspend
    <3> QED  BY <1>1, <3>1, <3>2 DEF Yields
  <2>9. CASE EffectUndone(o)
    <3>1. /\ effects' = [effects EXCEPT ![o] = effects[o] \ {run[o].step}] /\ UNCHANGED run
          /\ run[o].pc = "undo"
      BY <2>9 DEF EffectUndone, At
    <3> QED  BY <1>1, <3>1 DEF Yields, Undoes
  <2> QED  BY <1>5, <2>1, <2>2, <2>3, <2>4, <2>5, <2>6, <2>7, <2>8, <2>9 DEF Forward, Backward
<1>6. CASE p # o
  <2>1. \E q : run' = [run EXCEPT ![p] = q] \/ UNCHANGED run
    BY RunnerOnlyRun DEF OnlyRun
  <2>2. \E e : effects' = [effects EXCEPT ![p] = e] \/ UNCHANGED effects
    BY DEF Forward, Backward, ProbeAdopts, ProbeMisses, ProbeRejects, EffectLands, RunReturns,
       RunThrows, CancelChildren, ChildrenSucceeded, ChildrenFailed, FoundGone, NotGone,
       EffectUndone, UndoReturns, UndoThrows
  <2> QED  BY <1>3, <1>6, <2>1, <2>2
<1> QED  BY <1>5, <1>6

\* No step removes anything more of an operation that a newer one has superseded.
LEMMA StepYields ==
  ASSUME Inv, [Next]_vars, NEW o \in Op, Superseded(o)
  PROVE  Yields(o)
<1>1. TypeOK /\ run \in [Op -> Runner]
  BY DEF Inv, TypeOK
<1>2. CASE UNCHANGED <<run, effects>>
  BY <1>2 DEF Yields
<1>3. ASSUME NEW p \in Op, TryStart(p)
      PROVE  Yields(o)
  <2>1. UNCHANGED effects
    BY <1>3 DEF TryStart
  <2>2. CASE p = o
    BY <1>1, <1>2, <1>3, <2>1, <2>2, TryStartNoRemoval DEF NoRemoval, Yields
  <2>3. CASE p # o
    BY <1>1, <1>2, <1>3, <2>1, <2>3, TryStartOnlyRun DEF OnlyRun, Yields
  <2> QED  BY <2>2, <2>3
<1>4. ASSUME NEW p \in Op, Forward(p) \/ Backward(p)
      PROVE  Yields(o)
  BY <1>1, <1>4, RunnerYields
<1>5. ASSUME NEW p \in Op, Enqueue(p) \/ TickStart(p) \/ Sweep(p) \/ Operator(p)
      PROVE  Yields(o)
  <2>1. TryStart(p) \/ UNCHANGED <<run, effects>>
    BY <1>5 DEF Enqueue, TickStart, Sweep, SweepExhausted, SweepRequeue, Operator, Cancel, Retry,
       FinalizeCheck, FinalizeWrite
  <2> QED  BY <1>2, <1>3, <2>1
<1>6. CASE Crash
  <2>1. run'[o] = Idle /\ UNCHANGED effects
    BY <1>6 DEF Crash
  <2> QED  BY <2>1 DEF Yields, Undoes, Idle
<1> QED  BY <1>2, <1>4, <1>5, <1>6 DEF Next, EnterSection, LeaveSection, Restart, vars

\* Once a newer operation on the same resources has begun, an old rollback, also one
\* that a crash, the sweep or an operator begins again, begins no removal any more
\* (step-runner.ts:239-242); names and ids are looked up at the moment of the check.
THEOREM NewerIsYieldedTo == Spec => RollbackYieldsToNewer
<1>1. ASSUME Inv, [Next]_vars
      PROVE  \A o, n \in Op :
               Newer(n, o) /\ Overlap(o, n) /\ db[n].attempt > 0 =>
                 /\ run'[o].pc \in {"probeGone", "undo"} =>
                      run[o].pc \in {"probeGone", "undo"} /\ run'[o].step = run[o].step
                 /\ effects[o] \ effects'[o] \subseteq
                      IF run[o].pc = "undo" THEN {run[o].step} ELSE {}
  BY <1>1, StepYields DEF Superseded, Yields, Undoes
<1> QED  BY <1>1, Invariance, PTL DEF Spec, RollbackYieldsToNewer

-----------------------------------------------------------------------------
(* Rollback: what a row, its runner and the world owe one another while a
   compensation pass walks down *)

\* What holds of a row r of o, its runner q and its side effects e in the world:
\* only steps of the kind were completed; a fenced row has settled; until then a
\* step recorded as undone is gone; a clean rollback undid every step it had to;
\* and a pass without a failure has undone every step above the one in hand.
Owed(o, r, q, e) ==
  /\ r.fwd \subseteq 1..Def[o].steps
  /\ q.pc \in {"probe", "run"} => q.step \in 1..Def[o].steps
  /\ r.fenced => r.status \in {"cancelled", "compensated"} /\ q.pc = "idle"
  /\ ~r.fenced /\ (q.pc # "idle" \/ r.status \notin Finalized) => r.comp \intersect e = {}
  /\ r.status = "compensated" /\ ~r.fenced => Def[o].undo \intersect r.fwd \subseteq r.comp
  /\ q.pc \in {"probeGone", "undo"} /\ ~q.failed =>
       \A s \in Def[o].undo \intersect r.fwd : s > q.step => s \in r.comp

Clean == \A o \in Op : Owed(o, db[o], run[o], effects[o])

\* What a stretch of the step runner starts from.
Ready(o, row) ==
  /\ row \in Row
  /\ row.fwd \subseteq 1..Def[o].steps
  /\ ~row.fenced
  /\ row.comp \intersect effects[o] = {}

\* How it ends.
CleanOutcome(o) ==
  \E r, q : /\ Owed(o, r, q, effects[o])
            /\ db' = [db EXCEPT ![o] = r]
            /\ run' = [run EXCEPT ![o] = q]

-----------------------------------------------------------------------------
(* The stretches of the step runner *)

LEMMA LeaveClean ==
  ASSUME NEW o \in Op, NEW row, NEW h, Owed(o, row, Idle, effects[o]), Leave(o, row, h)
  PROVE  CleanOutcome(o)
BY DEF CleanOutcome, Leave

LEMMA SuspendClean ==
  ASSUME NEW o \in Op, NEW row, NEW h, Ready(o, row), row.status # "compensated",
         NEW pc \in {"probe", "run", "probeGone", "undo"}, NEW s \in 1..Def[o].steps,
         NEW failed \in BOOLEAN,
         pc \in {"probeGone", "undo"} /\ ~failed =>
           \A t \in Def[o].undo \intersect row.fwd : t > s => t \in row.comp,
         Suspend(o, row, h, pc, s, failed)
  PROVE  CleanOutcome(o)
<1> DEFINE st == IF pc \in {"probe", "probeGone"} THEN "started" ELSE "executing"
           r == [row EXCEPT !.open = st]
           q == [pc |-> pc, step |-> s, failed |-> failed]
<1>1. /\ r.fwd = row.fwd /\ r.comp = row.comp /\ r.status = row.status
      /\ r.fenced = row.fenced
  BY DEF Ready, Row
<1>2. q.pc = pc /\ q.step = s /\ q.failed = failed
  OBVIOUS
<1>3. db' = [db EXCEPT ![o] = r] /\ run' = [run EXCEPT ![o] = q]
  BY DEF Suspend
<1> HIDE DEF r, q
<1>4. Owed(o, r, q, effects[o])
  BY <1>1, <1>2 DEF Owed, Ready
<1> QED  BY <1>3, <1>4 DEF CleanOutcome

LEMMA FenceOffClean ==
  ASSUME NEW o \in Op, NEW row, NEW h, Ready(o, row), FenceOff(o, row, h)
  PROVE  CleanOutcome(o)
<1> DEFINE st == IF row.cancelled THEN "cancelled" ELSE "compensated"
           undone == row.comp \union (Def[o].undo \intersect row.fwd)
           r == [row EXCEPT !.status = st, !.comp = undone, !.fenced = TRUE]
<1>1. Leave(o, r, h)
  BY DEF FenceOff
<1>2. st \in {"cancelled", "compensated"}
  OBVIOUS
<1> HIDE DEF st, undone
<1>3. r.fwd = row.fwd /\ r.status = st /\ r.fenced
  BY DEF Ready, Row
<1> HIDE DEF r
<1>4. Owed(o, r, Idle, effects[o])
  BY <1>2, <1>3 DEF Owed, Ready, Idle
<1> QED  BY <1>1, <1>4, LeaveClean

\* A row that settles without fencing keeps what it owes; it is "compensated"
\* only when every completed compensable step was undone.
LEMMA SettleClean ==
  ASSUME NEW o \in Op, NEW row, NEW h, Ready(o, row), NEW st,
         st = "compensated" => Def[o].undo \intersect row.fwd \subseteq row.comp,
         Leave(o, [row EXCEPT !.status = st], h)
  PROVE  CleanOutcome(o)
<1> DEFINE r == [row EXCEPT !.status = st]
<1>1. r.fwd = row.fwd /\ r.comp = row.comp /\ r.status = st /\ r.fenced = row.fenced
  BY DEF Ready, Row
<1>2. Leave(o, r, h)
  OBVIOUS
<1> HIDE DEF r
<1>3. Owed(o, r, Idle, effects[o])
  BY <1>1 DEF Owed, Ready, Idle
<1> QED  BY <1>2, <1>3, LeaveClean

LEMMA UndoBelowClean ==
  ASSUME NEW o \in Op, NEW row, NEW h, NEW i \in Nat, NEW failed \in BOOLEAN,
         Ready(o, row), row.status # "compensated",
         ~failed => \A s \in Def[o].undo \intersect row.fwd : s >= i => s \in row.comp,
         UndoBelow(o, row, h, i, failed)
  PROVE  CleanOutcome(o)
<1> DEFINE todo == {s \in Def[o].undo \intersect row.fwd : s < i /\ s \notin row.comp}
           s == Greatest(todo)
           pc == IF s \in Def[o].probedGone THEN "probeGone" ELSE "undo"
<1>1. Def[o].undo \in SUBSET Nat /\ Def[o].steps \in Nat /\ row.fwd \subseteq 1..Def[o].steps
  BY DefType DEF Ready
<1>2. CASE todo = {} /\ EndPass(o, row, h, failed)
  <2>1. PICK st : /\ Leave(o, [row EXCEPT !.status = st], h)
                  /\ st = "compensated" => ~failed
    BY <1>2 DEF EndPass
  <2>2. ~failed => Def[o].undo \intersect row.fwd \subseteq row.comp
    <3> SUFFICES ASSUME ~failed, NEW t \in Def[o].undo \intersect row.fwd
                 PROVE  t \in row.comp
      OBVIOUS
    <3>1. t \in Nat
      BY <1>1
    <3>2. CASE t >= i
      BY <3>2
    <3>3. CASE t < i
      BY <1>2, <3>3
    <3> QED  BY <3>1, <3>2, <3>3
  <2> QED  BY <2>1, <2>2, SettleClean
<1>3. CASE FenceOff(o, row, h)
  BY <1>3, FenceOffClean
<1>4. CASE todo # {} /\ Suspend(o, row, h, pc, s, failed)
  <2>1. todo \in SUBSET Nat /\ \A t \in todo : t <= i
    BY <1>1
  <2>2. s \in todo /\ \A t \in todo : s >= t
    <3> HIDE DEF todo
    <3> QED  BY <1>4, <2>1, GreatestIsLast
  <2>3. s \in 1..Def[o].steps
    BY <1>1, <2>2
  <2>4. ~failed => \A t \in Def[o].undo \intersect row.fwd : t > s => t \in row.comp
    <3> SUFFICES ASSUME ~failed, NEW t \in Def[o].undo \intersect row.fwd, t > s
                 PROVE  t \in row.comp
      OBVIOUS
    <3>1. t \in Nat /\ s \in Nat
      BY <1>1, <2>1, <2>2
    <3>2. t \notin todo
      <4> HIDE DEF todo, s
      <4> QED  BY <2>2, <3>1
    <3>3. CASE t >= i
      BY <3>3
    <3>4. CASE t < i
      BY <3>2, <3>4
    <3> QED  BY <3>1, <3>3, <3>4
  <2>5. pc \in {"probe", "run", "probeGone", "undo"}
    OBVIOUS
  <2> HIDE DEF todo, s, pc
  <2> QED  BY <1>4, <2>3, <2>4, <2>5, SuspendClean
<1>5. \/ todo = {} /\ EndPass(o, row, h, failed)
      \/ FenceOff(o, row, h)
      \/ todo # {} /\ Suspend(o, row, h, pc, s, failed)
  BY DEF UndoBelow
<1> QED  BY <1>2, <1>3, <1>4, <1>5

LEMMA RunCompensationClean ==
  ASSUME NEW o \in Op, NEW row, NEW h, Ready(o, row), row.status # "compensated",
         RunCompensation(o, row, h)
  PROVE  CleanOutcome(o)
<1> DEFINE p == row.passes + 1
           begun == [row EXCEPT !.passes = p]
           top == Def[o].steps + 1
<1>1. FenceOff(o, begun, h) \/ UndoBelow(o, begun, h, top, FALSE)
  BY DEF RunCompensation
<1>2. top \in Nat /\ Def[o].steps \in Nat
  BY DefType
<1>3. p \in Nat
  BY DEF Ready, Row
<1> HIDE DEF p
<1>4. Ready(o, begun) /\ begun.status = row.status /\ begun.fwd = row.fwd
  BY <1>3 DEF Ready, Row
<1>5. \A s \in Def[o].undo \intersect begun.fwd : s >= top => s \in begun.comp
  BY <1>2, <1>4 DEF Ready
<1> HIDE DEF begun, top
<1> QED  BY <1>1, <1>2, <1>4, <1>5, FenceOffClean, UndoBelowClean

LEMMA FailForwardClean ==
  ASSUME NEW o \in Op, NEW row, NEW h, NEW cancelled \in BOOLEAN, Ready(o, row),
         FailForward(o, row, h, cancelled)
  PROVE  CleanOutcome(o)
<1> DEFINE r == [row EXCEPT !.status = "compensating", !.cancelReq = FALSE,
                            !.cancelled = cancelled, !.open = "none"]
<1>1. Ready(o, r) /\ r.status = "compensating"
  BY DEF Ready, Row, Status
<1>2. RunCompensation(o, r, h)
  BY DEF FailForward
<1> HIDE DEF r
<1> QED  BY <1>1, <1>2, RunCompensationClean

LEMMA ForwardAfterClean ==
  ASSUME NEW o \in Op, NEW row, NEW h, NEW i \in Nat, Ready(o, row),
         row.status # "compensated", ForwardAfter(o, row, h, i)
  PROVE  CleanOutcome(o)
<1> DEFINE rest == {s \in 1..Def[o].steps : s > i /\ s \notin row.fwd}
           s == Least(rest)
           pc == IF s \in Def[o].probed THEN "probe" ELSE "run"
           done == [row EXCEPT !.status = "done", !.cancelReq = FALSE]
<1>1. CASE FailForward(o, row, h, TRUE)
  BY <1>1, FailForwardClean
<1>2. CASE Leave(o, done, h)
  <2>1. done.fwd = row.fwd /\ done.comp = row.comp /\ done.status = "done" /\ ~done.fenced
    BY DEF Ready, Row
  <2> HIDE DEF done
  <2>2. Owed(o, done, Idle, effects[o])
    BY <2>1 DEF Owed, Ready, Idle
  <2> QED  BY <1>2, <2>2, LeaveClean
<1>3. CASE rest # {} /\ Suspend(o, row, h, pc, s, FALSE)
  <2>1. rest \in SUBSET Nat
    BY DefType
  <2>2. s \in rest
    <3> HIDE DEF rest
    <3> QED  BY <1>3, <2>1, LeastIsFirst
  <2>3. s \in 1..Def[o].steps
    BY <2>2
  <2>4. pc \in {"probe", "run", "probeGone", "undo"} /\ pc \notin {"probeGone", "undo"}
    OBVIOUS
  <2> HIDE DEF rest, s, pc
  <2> QED  BY <1>3, <2>3, <2>4, SuspendClean
<1>4. \/ FailForward(o, row, h, TRUE)
      \/ Leave(o, done, h)
      \/ rest # {} /\ Suspend(o, row, h, pc, s, FALSE)
  BY DEF ForwardAfter
<1> QED  BY <1>1, <1>2, <1>3, <1>4

-----------------------------------------------------------------------------
(* The actions *)

\* A stretch of o's runner changes nothing of the other rows.
LEMMA OutcomeKeepsClean ==
  ASSUME Inv, Clean, NEW o \in Op, CleanOutcome(o), UNCHANGED effects
  PROVE  Clean'
<1>1. db \in [Op -> Row] /\ run \in [Op -> Runner]
  BY DEF Inv, TypeOK
<1>2. PICK r, q : /\ Owed(o, r, q, effects[o])
                  /\ db' = [db EXCEPT ![o] = r]
                  /\ run' = [run EXCEPT ![o] = q]
  BY DEF CleanOutcome
<1>3. ASSUME NEW a \in Op
      PROVE  Owed(a, db'[a], run'[a], effects'[a])
  <2>1. CASE a = o
    BY <1>1, <1>2, <2>1
  <2>2. CASE a # o
    <3>1. db'[a] = db[a] /\ run'[a] = run[a]
      BY <1>1, <1>2, <2>2
    <3> QED  BY <3>1 DEF Clean
  <2> QED  BY <2>1, <2>2
<1> QED  BY <1>3 DEF Clean

\* One edited row beside the runners.
LEMMA OneEditKeepsClean ==
  ASSUME Inv, Clean, NEW o \in Op, NEW r, db' = [db EXCEPT ![o] = r],
         Owed(o, r, run[o], effects[o]), UNCHANGED <<run, effects>>
  PROVE  Clean'
<1>1. db \in [Op -> Row]
  BY DEF Inv, TypeOK
<1> SUFFICES ASSUME NEW a \in Op  PROVE Owed(a, db'[a], run'[a], effects'[a])
  BY DEF Clean
<1>2. CASE a = o
  BY <1>1, <1>2
<1>3. CASE a # o
  <2>1. db'[a] = db[a]
    BY <1>1, <1>3
  <2> QED  BY <2>1 DEF Clean
<1> QED  BY <1>2, <1>3

\* What a row owes survives an edit of its status that neither claims a clean
\* rollback nor revives a finalized row, and one that lifts the fence of a row
\* only to finalize it.
LEMMA EditedOwed ==
  ASSUME NEW o \in Op, NEW old, NEW new, NEW q, NEW e, Owed(o, old, q, e),
         new.fwd = old.fwd, new.comp = old.comp,
         new.fenced => old.fenced /\ new.status = old.status,
         new.status = "compensated" => old.status = "compensated" /\ new.fenced = old.fenced,
         old.fenced /\ ~new.fenced => new.status \in Finalized,
         old.status \in Finalized => new.status \in Finalized
  PROVE  Owed(o, new, q, e)
BY DEF Owed

LEMMA InitClean == Init => Clean
<1> SUFFICES ASSUME Init, NEW o \in Op  PROVE Owed(o, db[o], run[o], effects[o])
  BY DEF Clean
<1>1. db[o] = NoRow /\ run[o] = Idle /\ effects[o] = {}
  BY DEF Init
<1> QED  BY <1>1 DEF NoRow, Idle, Owed

\* The runner of o, suspended, starts its next stretch from a row without a
\* fence and with nothing recorded as undone that is still there.
LEMMA SuspendedReady ==
  ASSUME Inv, Clean, NEW o \in Op, run[o].pc # "idle"
  PROVE  Ready(o, db[o]) /\ db[o].status # "compensated"
<1>1. RowOK(db[o]) /\ RunnerOK(db[o], run[o]) /\ Owed(o, db[o], run[o], effects[o])
  BY DEF Inv, Clean
<1>2. run[o].pc \in {"probe", "run", "probeGone", "undo"}
  BY <1>1 DEF RunnerOK, Runner
<1> QED  BY <1>1, <1>2 DEF Ready, Owed, RowOK, RunnerOK, Working, Undoing, Finalized

LEMMA EnqueueClean ==
  ASSUME Inv, Clean, NEW o \in Op, Enqueue(o)
  PROVE  Clean'
<1> DEFINE n == Cardinality(Present) + 1
           r == [NoRow EXCEPT !.status = "pending", !.id = n]
<1>1. /\ db[o].status = "absent" /\ db' = [db EXCEPT ![o] = r]
      /\ UNCHANGED <<run, effects>>
  BY DEF Enqueue, Keep
<1>2. run[o].pc = "idle"
  BY <1>1 DEF Inv, RunnerOK, Runner, Working, Undoing, Finalized
<1> HIDE DEF n
<1>3. r.status = "pending" /\ r.fwd = {} /\ r.comp = {} /\ ~r.fenced
  BY DEF NoRow
<1> HIDE DEF r
<1>4. Owed(o, r, run[o], effects[o])
  BY <1>2, <1>3 DEF Owed
<1> QED  BY <1>1, <1>4, OneEditKeepsClean

LEMMA TryStartClean ==
  ASSUME Inv, Clean, NEW o \in Op, o \notin InFlight,
         db[o].status \in {"pending", "compensating"}, TryStart(o)
  PROVE  Clean'
<1>1. RowOK(db[o]) /\ Owed(o, db[o], run[o], effects[o]) /\ db[o] \in Row
  BY DEF Inv, Clean, RowOK
<1>2. Ready(o, db[o]) /\ UNCHANGED effects
  BY <1>1 DEF Ready, Owed, Finalized, TryStart
<1>3. CASE StartUnknown(o)
  <2> DEFINE r == [db[o] EXCEPT !.status = "failed", !.cancelReq = FALSE]
  <2>1. db' = [db EXCEPT ![o] = r] /\ UNCHANGED <<run, effects>>
    BY <1>2, <1>3 DEF StartUnknown
  <2>2. /\ r.fwd = db[o].fwd /\ r.comp = db[o].comp /\ r.status = "failed"
        /\ r.fenced = db[o].fenced
    BY <1>1 DEF Row
  <2> HIDE DEF r
  <2>3. Owed(o, r, run[o], effects[o])
    BY <1>1, <1>2, <2>2, EditedOwed DEF Finalized, Ready
  <2> QED  BY <2>1, <2>3, OneEditKeepsClean
<1>4. CASE StartFencedChild(o)
  <2> DEFINE r == [db[o] EXCEPT !.status = "cancelled", !.cancelReq = FALSE,
                                !.cancelled = FALSE, !.fenced = TRUE]
  <2>1. Leave(o, r, Taken(o))
    BY <1>4 DEF StartFencedChild
  <2>2. r.fwd = db[o].fwd /\ r.status = "cancelled" /\ r.fenced
    BY <1>1 DEF Row
  <2> HIDE DEF r
  <2>3. Owed(o, r, Idle, effects[o])
    BY <1>2, <2>2 DEF Owed, Ready, Idle
  <2>4. CleanOutcome(o)
    BY <2>1, <2>3, LeaveClean
  <2> QED  BY <1>2, <2>4, OutcomeKeepsClean
<1>5. CASE StartExhausted(o)
  <2>1. Leave(o, [db[o] EXCEPT !.status = "compensation_failed"], Taken(o))
    BY <1>5 DEF StartExhausted
  <2>2. CleanOutcome(o)
    BY <1>2, <2>1, SettleClean
  <2> QED  BY <1>2, <2>2, OutcomeKeepsClean
<1>6. CASE ResumeCompensation(o)
  <2> DEFINE n == db[o].attempt + 1
             r == [db[o] EXCEPT !.attempt = n]
  <2>1. RunCompensation(o, r, Taken(o)) /\ db[o].status = "compensating"
    BY <1>6 DEF ResumeCompensation
  <2>2. n \in Nat
    BY <1>1 DEF Row
  <2> HIDE DEF n
  <2>3. Ready(o, r) /\ r.status = db[o].status
    BY <1>2, <2>2 DEF Ready, Row
  <2> HIDE DEF r
  <2>4. CleanOutcome(o)
    BY <2>1, <2>3, RunCompensationClean
  <2> QED  BY <1>2, <2>4, OutcomeKeepsClean
<1>7. CASE StartForward(o)
  <2> DEFINE n == db[o].attempt + 1
             r == [db[o] EXCEPT !.status = "running", !.attempt = n]
  <2>1. ForwardAfter(o, r, Taken(o), 0)
    BY <1>7 DEF StartForward
  <2>2. n \in Nat
    BY <1>1 DEF Row
  <2> HIDE DEF n
  <2>3. Ready(o, r) /\ r.status = "running"
    BY <1>2, <2>2 DEF Ready, Row, Status
  <2> HIDE DEF r
  <2>4. CleanOutcome(o)
    BY <2>1, <2>3, ForwardAfterClean
  <2> QED  BY <1>2, <2>4, OutcomeKeepsClean
<1> QED  BY <1>3, <1>4, <1>5, <1>6, <1>7 DEF TryStart, StartKnown

\* requestCancel keeps what a row owes.
LEMMA RequestedOwed ==
  ASSUME NEW o \in Op, NEW row \in Row, NEW q, NEW e, Owed(o, row, q, e)
  PROVE  Owed(o, Requested(row), q, e)
<1>1. /\ Requested(row).fwd = row.fwd /\ Requested(row).comp = row.comp
      /\ Requested(row).fenced = row.fenced
      /\ \/ Requested(row).status = row.status
         \/ row.status = "pending" /\ Requested(row).status = "cancelled"
  BY DEF Requested, Row
<1> QED  BY <1>1 DEF Owed, Finalized

\* A remote call of a forward step returns, or its side effect happens.
LEMMA ForwardClean ==
  ASSUME Inv, Clean, NEW o \in Op, run[o].pc \in {"probe", "run"}, Forward(o)
  PROVE  Clean'
<1> DEFINE s == run[o].step
           r == [db[o] EXCEPT !.fwd = @ \union {s}, !.open = "none"]
<1>1. /\ Ready(o, db[o]) /\ db[o].status # "compensated" /\ db[o] \in Row
      /\ s \in 1..Def[o].steps /\ s \in Nat /\ db[o].comp = {}
  <2>1. RunnerOK(db[o], run[o]) /\ Owed(o, db[o], run[o], effects[o])
    BY DEF Inv, Clean
  <2>2. s \in Nat /\ db[o].comp = {} /\ s \in 1..Def[o].steps
    BY <2>1 DEF RunnerOK, Runner, Fresh, Owed
  <2> HIDE DEF s
  <2> QED  BY <2>2, SuspendedReady DEF Ready
<1>2. Ready(o, r) /\ r.status # "compensated"
  <2> HIDE DEF s
  <2>1. /\ r \in Row /\ r.fwd = db[o].fwd \union {s} /\ r.comp = db[o].comp
        /\ r.fenced = db[o].fenced /\ r.status = db[o].status
    BY <1>1 DEF Row
  <2> HIDE DEF r
  <2> QED  BY <1>1, <2>1 DEF Ready
<1>3. CASE ForwardAfter(o, r, holder, s) /\ UNCHANGED effects
  <2> HIDE DEF r, s
  <2>1. CleanOutcome(o)
    BY <1>1, <1>2, <1>3, ForwardAfterClean
  <2> QED  BY <1>3, <2>1, OutcomeKeepsClean
<1>4. CASE FailForward(o, db[o], holder, CancelSeen(db[o])) /\ UNCHANGED effects
  <2>1. CancelSeen(db[o]) \in BOOLEAN
    BY DEF CancelSeen
  <2>2. CleanOutcome(o)
    BY <1>1, <1>4, <2>1, FailForwardClean
  <2> QED  BY <1>4, <2>2, OutcomeKeepsClean
<1>5. CASE ProbeMisses(o)
  <2>1. Suspend(o, db[o], holder, "run", s, FALSE) /\ UNCHANGED effects
    BY <1>5 DEF ProbeMisses
  <2> HIDE DEF s
  <2>2. CleanOutcome(o)
    BY <1>1, <2>1, SuspendClean
  <2> QED  BY <2>1, <2>2, OutcomeKeepsClean
<1>6. CASE EffectLands(o)
  <2>1. /\ UNCHANGED <<db, run>> /\ effects \in [Op -> SUBSET Nat]
        /\ effects' = [effects EXCEPT ![o] = @ \union {s}]
    BY <1>6 DEF EffectLands, Inv, TypeOK
  <2> HIDE DEF s
  <2> SUFFICES ASSUME NEW a \in Op  PROVE Owed(a, db'[a], run'[a], effects'[a])
    BY DEF Clean
  <2>2. Owed(a, db[a], run[a], effects[a])
    BY DEF Clean
  <2>3. CASE a = o
    BY <1>1, <2>1, <2>2, <2>3 DEF Owed
  <2>4. CASE a # o
    BY <2>1, <2>2, <2>4
  <2> QED  BY <2>3, <2>4
<1>7. CASE CancelChildren(o)
  <2>1. /\ db' = [c \in Op |-> IF c \in ChildrenOf(o) THEN Requested(db[c]) ELSE db[c]]
        /\ UNCHANGED <<run, effects>>
    BY <1>7 DEF CancelChildren
  <2> SUFFICES ASSUME NEW a \in Op  PROVE Owed(a, db'[a], run'[a], effects'[a])
    BY DEF Clean
  <2>2. db[a] \in Row /\ Owed(a, db[a], run[a], effects[a])
    BY DEF Clean, Inv, RowOK
  <2>3. Owed(a, Requested(db[a]), run[a], effects[a])
    BY <2>2, RequestedOwed
  <2>4. db'[a] = db[a] \/ db'[a] = Requested(db[a])
    BY <2>1
  <2> QED  BY <2>1, <2>2, <2>3, <2>4
<1>8. \/ ProbeMisses(o) \/ EffectLands(o) \/ CancelChildren(o)
      \/ ForwardAfter(o, r, holder, s) /\ UNCHANGED effects
      \/ FailForward(o, db[o], holder, CancelSeen(db[o])) /\ UNCHANGED effects
  BY DEF Forward, ProbeAdopts, ProbeRejects, RunReturns, RunThrows, ChildrenSucceeded,
         ChildrenFailed, StepOk
<1> QED  BY <1>3, <1>4, <1>5, <1>6, <1>7, <1>8

\* A remote call of a compensation returns, or its side effect goes.
LEMMA BackwardClean ==
  ASSUME Inv, Clean, NEW o \in Op, run[o].pc \in {"probeGone", "undo"}, Backward(o)
  PROVE  Clean'
<1> DEFINE s == run[o].step
           f == run[o].failed
           done == [db[o] EXCEPT !.comp = @ \union {s}, !.open = "none"]
           failed == [db[o] EXCEPT !.open = "none"]
<1>1. /\ Ready(o, db[o]) /\ db[o].status # "compensated" /\ db[o] \in Row
      /\ s \in 1..Def[o].steps /\ s \in Nat /\ f \in BOOLEAN
      /\ ~f => \A t \in Def[o].undo \intersect db[o].fwd : t > s => t \in db[o].comp
  <2>1. RunnerOK(db[o], run[o]) /\ Owed(o, db[o], run[o], effects[o])
    BY DEF Inv, Clean
  <2>2. Ready(o, db[o]) /\ db[o].status # "compensated"
    BY SuspendedReady
  <2>3. s \in db[o].fwd /\ s \in Nat /\ f \in BOOLEAN
    BY <2>1 DEF RunnerOK, Runner
  <2> QED  BY <2>1, <2>2, <2>3 DEF Ready, Owed
<1>2. CASE UndoBelow(o, done, holder, s, f) /\ UNCHANGED effects /\ s \notin effects[o]
  <2> HIDE DEF s, f
  <2>1. /\ done \in Row /\ done.fwd = db[o].fwd /\ done.comp = db[o].comp \union {s}
        /\ done.fenced = db[o].fenced /\ done.status = db[o].status
    BY <1>1 DEF Row
  <2> HIDE DEF done
  <2>2. Ready(o, done) /\ done.status # "compensated"
    BY <1>1, <1>2, <2>1 DEF Ready
  <2>3. ~f => \A t \in Def[o].undo \intersect done.fwd : t >= s => t \in done.comp
    <3> SUFFICES ASSUME ~f, NEW t \in Def[o].undo \intersect db[o].fwd, t >= s, t # s
                 PROVE  t \in db[o].comp
      BY <2>1
    <3>1. t \in Nat
      BY DefType
    <3> QED  BY <1>1, <3>1
  <2>4. CleanOutcome(o)
    BY <1>1, <1>2, <2>2, <2>3, UndoBelowClean
  <2> QED  BY <1>2, <2>4, OutcomeKeepsClean
<1>3. CASE UndoBelow(o, failed, holder, s, TRUE) /\ UNCHANGED effects
  <2> HIDE DEF s
  <2>1. Ready(o, failed) /\ failed.status # "compensated"
    BY <1>1 DEF Ready, Row
  <2> HIDE DEF failed
  <2>2. CleanOutcome(o)
    BY <1>1, <1>3, <2>1, UndoBelowClean
  <2> QED  BY <1>3, <2>2, OutcomeKeepsClean
<1>4. CASE NotGone(o)
  <2>1. Suspend(o, db[o], holder, "undo", s, f) /\ UNCHANGED effects
    BY <1>4 DEF NotGone
  <2> HIDE DEF s, f
  <2>2. CleanOutcome(o)
    BY <1>1, <2>1, SuspendClean
  <2> QED  BY <2>1, <2>2, OutcomeKeepsClean
<1>5. CASE EffectUndone(o)
  <2>1. /\ UNCHANGED <<db, run>> /\ effects \in [Op -> SUBSET Nat]
        /\ effects' = [effects EXCEPT ![o] = @ \ {s}]
    BY <1>5 DEF EffectUndone, Inv, TypeOK
  <2> HIDE DEF s
  <2> SUFFICES ASSUME NEW a \in Op  PROVE Owed(a, db'[a], run'[a], effects'[a])
    BY DEF Clean
  <2>2. Owed(a, db[a], run[a], effects[a])
    BY DEF Clean
  <2>3. effects'[a] \subseteq effects[a]
    BY <2>1
  <2> QED  BY <2>1, <2>2, <2>3 DEF Owed
<1>6. \/ NotGone(o) \/ EffectUndone(o)
      \/ UndoBelow(o, done, holder, s, f) /\ UNCHANGED effects /\ s \notin effects[o]
      \/ UndoBelow(o, failed, holder, s, TRUE) /\ UNCHANGED effects
  BY DEF Backward, FoundGone, UndoReturns, UndoThrows, UndoStepOk
<1> QED  BY <1>2, <1>3, <1>4, <1>5, <1>6

LEMMA SweepClean ==
  ASSUME Inv, Clean, NEW o \in Op, Sweep(o)
  PROVE  Clean'
<1>1. CASE SweepExhausted(o)
  <2> DEFINE r == [db[o] EXCEPT !.status = "compensation_failed"]
  <2>1. /\ db[o].status = "compensating" /\ db' = [db EXCEPT ![o] = r]
        /\ UNCHANGED <<run, effects>>
    BY <1>1 DEF SweepExhausted, Exhausted
  <2>2. db[o] \in Row /\ Owed(o, db[o], run[o], effects[o])
    BY DEF Inv, RowOK, Clean
  <2>3. /\ r.fwd = db[o].fwd /\ r.comp = db[o].comp /\ r.fenced = db[o].fenced
        /\ r.status = "compensation_failed"
    BY <2>2 DEF Row
  <2> HIDE DEF r
  <2>4. Owed(o, r, run[o], effects[o])
    BY <2>1, <2>2, <2>3 DEF Owed, Finalized
  <2> QED  BY <2>1, <2>4, OneEditKeepsClean
<1>2. CASE SweepRequeue(o)
  BY <1>2, TryStartClean DEF SweepRequeue
<1> QED  BY <1>1, <1>2 DEF Sweep

LEMMA OperatorClean ==
  ASSUME Inv, Clean, NEW o \in Op, Operator(o)
  PROVE  Clean'
<1>1. db[o] \in Row /\ Owed(o, db[o], run[o], effects[o])
  BY DEF Inv, RowOK, Clean
<1>2. UNCHANGED <<run, effects>>
  BY DEF Operator, Cancel, Retry, FinalizeCheck, FinalizeWrite
<1>3. CASE UNCHANGED db
  BY <1>2, <1>3 DEF Clean
<1>4. CASE Cancel(o)
  <2>1. db' = [db EXCEPT ![o] = Requested(db[o])]
    BY <1>4 DEF Cancel
  <2> QED  BY <1>1, <1>2, <2>1, RequestedOwed, OneEditKeepsClean
<1>5. CASE Retry(o)
  <2> DEFINE back == db[o].status \in {"compensating", "compensation_failed"}
             st == IF back THEN "compensating" ELSE "pending"
             r == [db[o] EXCEPT !.status = st,
                     !.cancelReq = FALSE, !.cancelled = FALSE, !.fenced = FALSE,
                     !.open = "none"]
  <2>1. db' = [db EXCEPT ![o] = r]
    BY <1>5 DEF Retry, Requeued
  <2>2. db[o].status \in {"pending", "running", "compensating", "compensation_failed"}
    BY <1>5 DEF Retry
  <2>3. st \in {"pending", "compensating"}
    OBVIOUS
  <2> HIDE DEF st
  <2>4. r.fwd = db[o].fwd /\ r.comp = db[o].comp /\ r.status = st /\ ~r.fenced
    BY <1>1 DEF Row
  <2> HIDE DEF r
  <2>5. Owed(o, r, run[o], effects[o])
    BY <1>1, <2>2, <2>3, <2>4 DEF Owed, Finalized
  <2> QED  BY <1>2, <2>1, <2>5, OneEditKeepsClean
<1>6. ASSUME NEW st \in Finalized,
             db' = [db EXCEPT ![o] = [@ EXCEPT !.status = st, !.cancelReq = FALSE,
                                               !.fenced = FALSE]]
      PROVE  Clean'
  <2> DEFINE r == [db[o] EXCEPT !.status = st, !.cancelReq = FALSE, !.fenced = FALSE]
  <2>1. db' = [db EXCEPT ![o] = r]
    BY <1>6
  <2>2. r.fwd = db[o].fwd /\ r.comp = db[o].comp /\ r.status = st /\ ~r.fenced
    BY <1>1 DEF Row
  <2> HIDE DEF r
  <2>3. Owed(o, r, run[o], effects[o])
    BY <1>1, <2>2 DEF Owed, Finalized
  <2> QED  BY <1>2, <2>1, <2>3, OneEditKeepsClean
<1> QED  BY <1>3, <1>4, <1>5, <1>6 DEF Operator, FinalizeCheck, FinalizeWrite

LEMMA CrashClean ==
  ASSUME Inv, Clean, Crash
  PROVE  Clean'
<1> SUFFICES ASSUME NEW a \in Op  PROVE Owed(a, db'[a], run'[a], effects'[a])
  BY DEF Clean
<1>1. run'[a] = Idle /\ db'[a] = db[a] /\ effects'[a] = effects[a]
  BY DEF Crash
<1>2. Owed(a, db[a], run[a], effects[a])
  BY DEF Clean
<1> QED  BY <1>1, <1>2 DEF Owed, Idle

LEMMA RestartClean ==
  ASSUME Inv, Clean, Restart
  PROVE  Clean'
<1> SUFFICES ASSUME NEW a \in Op  PROVE Owed(a, db'[a], run'[a], effects'[a])
  BY DEF Clean
<1>1. db[a] \in Row /\ Owed(a, db[a], run[a], effects[a]) /\ run[a].pc = "idle"
  BY DEF Inv, RowOK, Clean, Restart
<1>2. db'[a] = Resumed(db[a]) /\ UNCHANGED <<run, effects>>
  BY DEF Restart
<1>3. /\ db'[a].fwd = db[a].fwd /\ db'[a].comp = db[a].comp
      /\ db'[a].fenced = db[a].fenced
      /\ \/ db'[a].status = db[a].status
         \/ db[a].status = "running" /\ db'[a].status = "pending"
  BY <1>1, <1>2 DEF Resumed, Row
<1> QED  BY <1>1, <1>2, <1>3 DEF Owed, Finalized

-----------------------------------------------------------------------------
(* The theorem *)

LEMMA StepClean ==
  ASSUME Inv, Clean, [Next]_vars
  PROVE  Clean'
<1>1. CASE UNCHANGED <<db, run, effects>>
  BY <1>1 DEF Clean
<1>2. ASSUME NEW o \in Op, Enqueue(o) \/ TickStart(o)
      PROVE  Clean'
  <2>1. CASE TickStart(o)
    <3>1. o \notin InFlight /\ TryStart(o)
      BY <2>1 DEF TickStart, Startable
    <3>2. db[o].status \in {"pending", "compensating"}
      BY <2>1 DEF TickStart, Window, Pending
    <3> QED  BY <3>1, <3>2, TryStartClean
  <2> QED  BY <1>2, <2>1, EnqueueClean
<1>3. ASSUME NEW o \in Op, Forward(o) \/ Backward(o)
      PROVE  Clean'
  <2>1. CASE Forward(o)
    <3>1. run[o].pc \in {"probe", "run"}
      BY <2>1 DEF Forward, ProbeAdopts, ProbeMisses, ProbeRejects, EffectLands, RunReturns,
         RunThrows, CancelChildren, ChildrenSucceeded, ChildrenFailed, Awaiting, At
    <3> QED  BY <2>1, <3>1, ForwardClean
  <2>2. CASE Backward(o)
    <3>1. run[o].pc \in {"probeGone", "undo"}
      BY <2>2 DEF Backward, FoundGone, NotGone, EffectUndone, UndoReturns, UndoThrows, At
    <3> QED  BY <2>2, <3>1, BackwardClean
  <2> QED  BY <1>3, <2>1, <2>2
<1>4. ASSUME NEW o \in Op, Sweep(o) \/ Operator(o)
      PROVE  Clean'
  BY <1>4, SweepClean, OperatorClean
<1>5. ASSUME NEW k \in Key, EnterSection(k) \/ LeaveSection(k)
      PROVE  Clean'
  BY <1>1, <1>5 DEF EnterSection, LeaveSection
<1>6. CASE Crash \/ Restart
  BY <1>6, CrashClean, RestartClean
<1> QED  BY <1>1, <1>2, <1>3, <1>4, <1>5, <1>6 DEF Next, vars

\* A row reported "compensated" that no newer operation fenced off has no side
\* effect of a completed compensable step left (step-runner.ts:251-287): over
\* failed passes, crashes, retries and children that settle meanwhile.
THEOREM RollbackLeavesNothing == Spec => []RolledBackClean
<1>1. Inv /\ Clean => RolledBackClean
  BY DEF Clean, Owed, RolledBackClean, Finalized
<1> QED  BY <1>1, InitInv, InitClean, StepInv, StepClean, PTL DEF Spec

-----------------------------------------------------------------------------
(* The engine implements Saga: the invariant and what a row shows of the saga *)

\* A row nobody enqueued has completed nothing; the forward walk stands above
\* completed steps only; the reverse walk stands at a step with a compensate.
OnTrack(o, r, q) ==
  /\ r.status = "absent" => r.fwd = {}
  /\ q.pc \in {"probe", "run"} => \A s \in 1..Def[o].steps : s < q.step => s \in r.fwd
  /\ q.pc \in {"probeGone", "undo"} => q.step \in Def[o].undo

Walk ==
  /\ \A o \in Op : OnTrack(o, db[o], run[o])
  /\ finalizing \subseteq Present

\* What a row and its runner show of the saga: its phase and what is owed.
Shown(r, q) ==
  IF q.pc \in {"probe", "run"} THEN "forward"
  ELSE IF q.pc \in {"probeGone", "undo"} THEN "backward"
  ELSE IF r.status \in {"pending", "running"} THEN "forward"
  ELSE IF r.status = "compensating" THEN "backward"
  ELSE r.status

LeftOver(r) == r.fwd \ r.comp

\* A row in work reads "done" only if a finalize wrote that underneath.
NotDoneYet(o, row) == row.status = "done" => db[o].status = "done"

\* How a stretch ends: in phase p with S owed, at work or not.
Lands(o, p, S, works) ==
  \E r, q : /\ OnTrack(o, r, q)
            /\ r.status # "absent"
            /\ works => NotDoneYet(o, r)
            /\ Shown(r, q) = p
            /\ LeftOver(r) = S
            /\ works = (q.pc # "idle")
            /\ db' = [db EXCEPT ![o] = r]
            /\ run' = [run EXCEPT ![o] = q]

\* The outcomes of a rollback that undid all it could.
Rested == {"compensated", "cancelled", "failed"}

-----------------------------------------------------------------------------
(* The stretches of the step runner: each lands where a step of the saga does *)

\* A runner that leaves shows its row alone.
LEMMA LeaveLands ==
  ASSUME NEW o \in Op, NEW row, NEW h, row.status \in Terminal, Leave(o, row, h)
  PROVE  Lands(o, row.status, LeftOver(row), FALSE)
<1>1. Idle.pc = "idle"
  BY DEF Idle
<1>2. OnTrack(o, row, Idle) /\ Shown(row, Idle) = row.status
  BY <1>1 DEF OnTrack, Shown, Terminal
<1>3. row.status # "absent"
  BY DEF Terminal
<1> QED  BY <1>1, <1>2, <1>3 DEF Lands, Leave

\* A row between two passes of its rollback is at rest, and still owes.
LEMMA RestLands ==
  ASSUME NEW o \in Op, NEW row, NEW h, row.status = "compensating", Leave(o, row, h)
  PROVE  Lands(o, "backward", LeftOver(row), FALSE)
<1>1. Idle.pc = "idle"
  BY DEF Idle
<1>2. OnTrack(o, row, Idle) /\ Shown(row, Idle) = "backward"
  BY <1>1 DEF OnTrack, Shown
<1> QED  BY <1>1, <1>2 DEF Lands, Leave

\* A runner suspended at a step is at work on what its row owes.
LEMMA SuspendLands ==
  ASSUME NEW o \in Op, NEW row \in Row, NEW h, row.status # "absent", NotDoneYet(o, row),
         NEW pc \in {"probe", "run", "probeGone", "undo"}, NEW s \in Nat, NEW failed,
         OnTrack(o, row, [pc |-> pc, step |-> s, failed |-> failed]),
         Suspend(o, row, h, pc, s, failed)
  PROVE  Lands(o, IF pc \in {"probe", "run"} THEN "forward" ELSE "backward",
               LeftOver(row), TRUE)
<1> DEFINE open == IF pc \in {"probe", "probeGone"} THEN "started" ELSE "executing"
           r == [row EXCEPT !.open = open]
           q == [pc |-> pc, step |-> s, failed |-> failed]
<1>1. db' = [db EXCEPT ![o] = r] /\ run' = [run EXCEPT ![o] = q]
  BY DEF Suspend
<1> HIDE DEF open
<1>2. r.fwd = row.fwd /\ r.comp = row.comp /\ r.status = row.status
  BY DEF Row
<1> HIDE DEF r
<1>3. q.pc = pc
  OBVIOUS
<1>4. OnTrack(o, r, q) /\ LeftOver(r) = LeftOver(row) /\ NotDoneYet(o, r)
  BY <1>2, <1>3 DEF OnTrack, LeftOver, NotDoneYet
<1>5. Shown(r, q) = IF pc \in {"probe", "run"} THEN "forward" ELSE "backward"
  BY <1>3 DEF Shown
<1>6. TRUE = (q.pc # "idle")
  BY <1>3
<1> HIDE DEF q
<1> QED  BY <1>1, <1>2, <1>4, <1>5, <1>6 DEF Lands

\* A fenced rollback ends as withdrawn: the newer operation owns what it left.
LEMMA FenceOffLands ==
  ASSUME NEW o \in Op, NEW row \in Row, NEW h, FenceOff(o, row, h)
  PROVE  \E p \in Rested : Lands(o, p, LeftOver(row) \ Def[o].undo, FALSE)
<1> DEFINE st == IF row.cancelled THEN "cancelled" ELSE "compensated"
           undone == row.comp \union (Def[o].undo \intersect row.fwd)
           r == [row EXCEPT !.status = st, !.comp = undone, !.fenced = TRUE]
<1>1. Leave(o, r, h)
  BY DEF FenceOff
<1>2. st \in Rested /\ st \in Terminal
  BY DEF Rested, Terminal
<1> HIDE DEF st
<1>3. r.status = st /\ r.fwd = row.fwd /\ r.comp = undone
  <2> HIDE DEF undone
  <2> QED  BY DEF Row
<1>4. LeftOver(r) = LeftOver(row) \ Def[o].undo
  <2> HIDE DEF r
  <2> QED  BY <1>3 DEF LeftOver
<1> HIDE DEF r
<1> QED  BY <1>1, <1>2, <1>3, <1>4, LeaveLands

\* The reverse walk goes on, ends clean, or, once a compensation failed, rests
\* or gives up.
LEMMA UndoBelowLands ==
  ASSUME NEW o \in Op, NEW row \in Row, NEW h, NEW i \in Nat, NEW failed \in BOOLEAN,
         row.fwd \subseteq 1..Def[o].steps, row.status # "absent", NotDoneYet(o, row),
         ~failed => \A s \in Def[o].undo \intersect row.fwd : s >= i => s \in row.comp,
         UndoBelow(o, row, h, i, failed)
  PROVE  \/ Lands(o, "backward", LeftOver(row), TRUE)
         \/ \E p \in Rested : Lands(o, p, LeftOver(row) \ Def[o].undo, FALSE)
         \/ /\ failed
            /\ \/ Lands(o, "backward", LeftOver(row), FALSE)
               \/ Lands(o, "compensation_failed", LeftOver(row), FALSE)
<1> DEFINE todo == {s \in Def[o].undo \intersect row.fwd : s < i /\ s \notin row.comp}
           s == Greatest(todo)
           pc == IF s \in Def[o].probedGone THEN "probeGone" ELSE "undo"
           still == [row EXCEPT !.status = "compensating"]
           lost == [row EXCEPT !.status = "compensation_failed"]
           st == IF row.cancelled THEN "cancelled"
                 ELSE IF Def[o].destroys THEN "failed" ELSE "compensated"
           clean == [row EXCEPT !.status = st]
<1>1. Def[o].undo \in SUBSET Nat /\ Def[o].steps \in Nat
  BY DefType
<1>2. CASE failed /\ Leave(o, still, h)
  <2>1. still.status = "compensating" /\ still.fwd = row.fwd /\ still.comp = row.comp
    BY DEF Row
  <2> HIDE DEF still
  <2>2. LeftOver(still) = LeftOver(row)
    BY <2>1 DEF LeftOver
  <2> QED  BY <1>2, <2>1, <2>2, RestLands
<1>3. CASE failed /\ Leave(o, lost, h)
  <2>1. lost.status = "compensation_failed" /\ lost.fwd = row.fwd /\ lost.comp = row.comp
    BY DEF Row
  <2> HIDE DEF lost
  <2>2. LeftOver(lost) = LeftOver(row) /\ lost.status \in Terminal
    BY <2>1 DEF LeftOver, Terminal
  <2> QED  BY <1>3, <2>1, <2>2, LeaveLands
<1>4. CASE ~failed /\ todo = {} /\ Leave(o, clean, h)
  <2>1. st \in Rested /\ st \in Terminal
    BY DEF Rested, Terminal
  <2> HIDE DEF st
  <2>2. clean.status = st /\ clean.fwd = row.fwd /\ clean.comp = row.comp
    BY DEF Row
  <2> HIDE DEF clean
  <2>3. \A t \in Def[o].undo \intersect row.fwd : t \in row.comp
    <3> SUFFICES ASSUME NEW t \in Def[o].undo \intersect row.fwd, t \notin row.comp
                 PROVE  FALSE
      OBVIOUS
    <3>1. t \in Nat
      BY <1>1
    <3>2. t >= i
      BY <1>4, <3>1
    <3> QED  BY <1>4, <3>2
  <2>4. LeftOver(clean) = LeftOver(row) \ Def[o].undo
    BY <2>2, <2>3 DEF LeftOver
  <2> QED  BY <1>4, <2>1, <2>2, <2>4, LeaveLands
<1>5. CASE FenceOff(o, row, h)
  BY <1>5, FenceOffLands
<1>6. CASE todo # {} /\ Suspend(o, row, h, pc, s, failed)
  <2>1. todo \in SUBSET Nat /\ \A t \in todo : t <= i
    BY <1>1
  <2>2. s \in todo
    <3> HIDE DEF todo
    <3> QED  BY <1>6, <2>1, GreatestIsLast
  <2>3. s \in Nat /\ s \in Def[o].undo
    BY <2>1, <2>2
  <2>4. pc \in {"probeGone", "undo"}
    OBVIOUS
  <2> HIDE DEF todo, s, pc
  <2>5. OnTrack(o, row, [pc |-> pc, step |-> s, failed |-> failed])
    BY <2>3, <2>4 DEF OnTrack
  <2> QED  BY <1>6, <2>3, <2>4, <2>5, SuspendLands
<1>7. \/ failed /\ Leave(o, still, h)
      \/ failed /\ Leave(o, lost, h)
      \/ ~failed /\ todo = {} /\ Leave(o, clean, h)
      \/ FenceOff(o, row, h)
      \/ todo # {} /\ Suspend(o, row, h, pc, s, failed)
  BY DEF UndoBelow, EndPass
<1> QED  BY <1>2, <1>3, <1>4, <1>5, <1>6, <1>7

\* A rollback starts or resumes: fenced, at its first step, or with nothing
\* left.
LEMMA RunCompensationLands ==
  ASSUME NEW o \in Op, NEW row \in Row, NEW h, row.fwd \subseteq 1..Def[o].steps,
         row.status # "absent", NotDoneYet(o, row), RunCompensation(o, row, h)
  PROVE  \/ Lands(o, "backward", LeftOver(row), TRUE)
         \/ \E p \in Rested : Lands(o, p, LeftOver(row) \ Def[o].undo, FALSE)
<1> DEFINE p == row.passes + 1
           begun == [row EXCEPT !.passes = p]
           top == Def[o].steps + 1
<1>1. FenceOff(o, begun, h) \/ UndoBelow(o, begun, h, top, FALSE)
  BY DEF RunCompensation
<1>2. top \in Nat /\ \A s \in row.fwd : ~(s >= top)
  BY DefType
<1>3. p \in Nat
  BY DEF Row
<1> HIDE DEF p, top
<1>4. /\ begun \in Row /\ begun.fwd = row.fwd /\ begun.comp = row.comp
      /\ begun.status = row.status
  BY <1>3 DEF Row
<1> HIDE DEF begun
<1>5. LeftOver(begun) = LeftOver(row) /\ NotDoneYet(o, begun)
  BY <1>4 DEF LeftOver, NotDoneYet
<1>6. CASE FenceOff(o, begun, h)
  BY <1>4, <1>5, <1>6, FenceOffLands
<1>7. CASE UndoBelow(o, begun, h, top, FALSE)
  BY <1>2, <1>4, <1>5, <1>7, UndoBelowLands
<1> QED  BY <1>1, <1>6, <1>7

\* A forward step that failed ends the operation or turns it back.
LEMMA FailForwardLands ==
  ASSUME NEW o \in Op, NEW row \in Row, NEW h, NEW cancelled \in BOOLEAN,
         row.fwd \subseteq 1..Def[o].steps, FailForward(o, row, h, cancelled)
  PROVE  \/ Lands(o, "backward", LeftOver(row), TRUE)
         \/ \E p \in Rested : Lands(o, p, LeftOver(row) \ Def[o].undo, FALSE)
<1> DEFINE r == [row EXCEPT !.status = "compensating", !.cancelReq = FALSE,
                            !.cancelled = cancelled, !.open = "none"]
<1>1. RunCompensation(o, r, h)
  BY DEF FailForward
<1>2. r \in Row /\ r.fwd = row.fwd /\ r.comp = row.comp /\ r.status = "compensating"
  BY DEF Row, Status
<1> HIDE DEF r
<1>3. LeftOver(r) = LeftOver(row) /\ NotDoneYet(o, r)
  BY <1>2 DEF LeftOver, NotDoneYet
<1> QED  BY <1>1, <1>2, <1>3, RunCompensationLands

\* The forward walk goes on, is done with every step completed, or turns back.
LEMMA ForwardAfterLands ==
  ASSUME NEW o \in Op, NEW row \in Row, NEW h, NEW i \in Nat,
         row.fwd \subseteq 1..Def[o].steps, row.status # "absent", NotDoneYet(o, row),
         \A s \in 1..Def[o].steps : s <= i => s \in row.fwd,
         ForwardAfter(o, row, h, i)
  PROVE  \/ Lands(o, "forward", LeftOver(row), TRUE)
         \/ 1..Def[o].steps \subseteq row.fwd /\ Lands(o, "done", LeftOver(row), FALSE)
         \/ Lands(o, "backward", LeftOver(row), TRUE)
         \/ \E p \in Rested : Lands(o, p, LeftOver(row) \ Def[o].undo, FALSE)
<1> DEFINE rest == {s \in 1..Def[o].steps : s > i /\ s \notin row.fwd}
           s == Least(rest)
           pc == IF s \in Def[o].probed THEN "probe" ELSE "run"
           done == [row EXCEPT !.status = "done", !.cancelReq = FALSE]
<1>0. Def[o].steps \in Nat
  BY DefType
<1>1. CASE FailForward(o, row, h, TRUE)
  BY <1>1, FailForwardLands
<1>2. CASE rest = {} /\ Leave(o, done, h)
  <2>1. done.status = "done" /\ done.fwd = row.fwd /\ done.comp = row.comp
    BY DEF Row
  <2> HIDE DEF done
  <2>2. done.status \in Terminal /\ LeftOver(done) = LeftOver(row)
    BY <2>1 DEF Terminal, LeftOver
  <2>3. 1..Def[o].steps \subseteq row.fwd
    <3> SUFFICES ASSUME NEW t \in 1..Def[o].steps  PROVE t \in row.fwd
      OBVIOUS
    <3>1. t \in Nat
      BY <1>0
    <3> QED  BY <1>2, <3>1
  <2> QED  BY <1>2, <2>1, <2>2, <2>3, LeaveLands
<1>3. CASE rest # {} /\ Suspend(o, row, h, pc, s, FALSE)
  <2>1. rest \in SUBSET Nat
    BY <1>0
  <2>2. s \in rest /\ \A t \in rest : s <= t
    <3> HIDE DEF rest
    <3> QED  BY <1>3, <2>1, LeastIsFirst
  <2>3. s \in Nat
    BY <2>1, <2>2
  <2>4. \A t \in 1..Def[o].steps : t < s => t \in row.fwd
    <3> SUFFICES ASSUME NEW t \in 1..Def[o].steps, t < s, t \notin row.fwd
                 PROVE  FALSE
      OBVIOUS
    <3> HIDE DEF s
    <3>1. t \in Nat /\ t > i
      BY <1>0
    <3>2. t \in rest
      BY <3>1
    <3> QED  BY <2>2, <2>3, <3>1, <3>2
  <2>5. pc \in {"probe", "run"}
    OBVIOUS
  <2> HIDE DEF rest, s, pc
  <2>6. OnTrack(o, row, [pc |-> pc, step |-> s, failed |-> FALSE])
    BY <2>4, <2>5 DEF OnTrack
  <2> QED  BY <1>3, <2>3, <2>5, <2>6, SuspendLands
<1>4. \/ FailForward(o, row, h, TRUE)
      \/ rest = {} /\ Leave(o, done, h)
      \/ rest # {} /\ Suspend(o, row, h, pc, s, FALSE)
  BY DEF ForwardAfter
<1> QED  BY <1>1, <1>2, <1>3, <1>4

-----------------------------------------------------------------------------
(* What a step of the engine is to the saga *)

\* PhaseOf of the mapping is what the row and its runner show.
LEMMA PhaseShown ==
  ASSUME Inv, Inv', NEW a \in Op
  PROVE  /\ PhaseOf(a) = Shown(db[a], run[a])
         /\ PhaseOf(a)' = Shown(db'[a], run'[a])
         /\ a \in InFlight <=> run[a].pc # "idle"
         /\ a \in InFlight' <=> run'[a].pc # "idle"
<1>1. run[a].pc \in {"idle", "probe", "run", "probeGone", "undo"}
  BY DEF Inv, TypeOK, Runner
<1>2. run'[a].pc \in {"idle", "probe", "run", "probeGone", "undo"}
  BY DEF Inv, TypeOK, Runner
<1>3. PhaseOf(a) = Shown(db[a], run[a])
  BY <1>1 DEF PhaseOf, Shown, InFlight
<1>4. PhaseOf(a)' = Shown(db'[a], run'[a])
  BY <1>2 DEF PhaseOf, Shown, InFlight
<1> QED  BY <1>3, <1>4 DEF InFlight

\* A step that shows nothing new is a stutter of the saga.
LEMMA ShowsNothing ==
  ASSUME Inv, Inv',
         \A a \in Op : /\ Shown(db'[a], run'[a]) = Shown(db[a], run[a])
                       /\ LeftOver(db'[a]) = LeftOver(db[a])
                       /\ run'[a].pc = "idle" <=> run[a].pc = "idle"
  PROVE  UNCHANGED Promise!vars
<1>1. \A a \in Op : PhaseOf(a)' = PhaseOf(a)
  BY PhaseShown
<1>2. InFlight' = InFlight
  BY DEF InFlight
<1>3. \A a \in Op : (db[a].fwd \ db[a].comp)' = db[a].fwd \ db[a].comp
  BY DEF LeftOver
<1> QED  BY <1>1, <1>2, <1>3 DEF Promise!vars

\* Nobody else works under a key of a live runner, or of a row that can start.
LEMMA NobodyElse ==
  ASSUME Inv, NEW o \in Op, run[o].pc # "idle" \/ CanAcquire(o)
  PROVE  Promise!MayWork(o)
<1> SUFFICES ASSUME NEW n \in InFlight, n # o, NEW k \in Def[n].keys \intersect Def[o].keys
             PROVE  FALSE
  BY DEF Promise!MayWork, InFlight
<1>1. holder[k] = n
  BY DEF Inv, LockTable
<1>2. holder[k] \in {o, Nobody}
  BY DEF Inv, LockTable, InFlight, CanAcquire
<1> QED  BY <1>1, <1>2, DefType DEF InFlight

\* An outcome of a stretch of o, seen through the mapping.
LEMMA LandsMaps ==
  ASSUME Inv, Inv', NEW o \in Op, NEW p, NEW S, NEW works \in BOOLEAN,
         Lands(o, p, S, works)
  PROVE  /\ Promise!To(o, p)
         /\ Promise!Owes(o, S)
         /\ InFlight' = IF works THEN InFlight \union {o} ELSE InFlight \ {o}
<1>1. PICK r, q : /\ Shown(r, q) = p /\ LeftOver(r) = S
                  /\ works = (q.pc # "idle")
                  /\ db' = [db EXCEPT ![o] = r] /\ run' = [run EXCEPT ![o] = q]
  BY DEF Lands
<1>2. db \in [Op -> Row] /\ run \in [Op -> Runner]
  BY DEF Inv, TypeOK
<1>3. db'[o] = r /\ run'[o] = q
  BY <1>1, <1>2
<1>4. \A a \in Op : a # o => db'[a] = db[a] /\ run'[a] = run[a]
  BY <1>1, <1>2
<1>5. PhaseOf(o)' = p /\ \A a \in Op : a # o => PhaseOf(a)' = PhaseOf(a)
  BY <1>1, <1>3, <1>4, PhaseShown
<1>6. Promise!To(o, p)
  BY <1>5 DEF Promise!To
<1>7. Promise!Owes(o, S)
  BY <1>1, <1>3, <1>4 DEF Promise!Owes, LeftOver
<1>8. InFlight' = IF works THEN InFlight \union {o} ELSE InFlight \ {o}
  BY <1>1, <1>3, <1>4 DEF InFlight
<1> QED  BY <1>6, <1>7, <1>8

\* The phase and the debt a stretch keeps are unchanged.
LEMMA SamePhase ==
  ASSUME NEW o \in Op, Promise!To(o, PhaseOf(o))
  PROVE  [a \in Op |-> PhaseOf(a)]' = [a \in Op |-> PhaseOf(a)]
BY DEF Promise!To

\* An outcome of a stretch of o keeps every row on its track.
LEMMA LandsWalk ==
  ASSUME Inv, Walk, NEW o \in Op, NEW p, NEW S, NEW works \in BOOLEAN,
         Lands(o, p, S, works), finalizing' \subseteq finalizing
  PROVE  Walk'
<1>1. PICK r, q : /\ OnTrack(o, r, q) /\ r.status # "absent"
                  /\ db' = [db EXCEPT ![o] = r] /\ run' = [run EXCEPT ![o] = q]
  BY DEF Lands
<1>2. db \in [Op -> Row] /\ run \in [Op -> Runner]
  BY DEF Inv, TypeOK
<1>3. db'[o] = r /\ run'[o] = q
  BY <1>1, <1>2
<1>4. \A a \in Op : a # o => db'[a] = db[a] /\ run'[a] = run[a]
  BY <1>1, <1>2
<1>5. \A a \in Op : OnTrack(a, db'[a], run'[a])
  BY <1>1, <1>3, <1>4 DEF Walk
<1>6. finalizing' \subseteq Present'
  BY <1>1, <1>3, <1>4 DEF Walk, Present
<1> QED  BY <1>5, <1>6 DEF Walk, OnTrack

\* Where a forward stretch of o can end, when it made W of what o owes.
ForwardEnd(o, W) ==
  \/ Lands(o, "forward", W, TRUE)
  \/ 1..Def[o].steps \subseteq W /\ Lands(o, "done", W, FALSE)
  \/ Lands(o, "backward", W, TRUE)
  \/ \E p \in Rested : Lands(o, p, W \ Def[o].undo, FALSE)

\* Such an end is a step of the saga.
LEMMA ForwardEndStep ==
  ASSUME Inv, Inv', Walk, NEW o \in Op, Shown(db[o], run[o]) = "forward",
         Promise!MayWork(o), NEW W,
         \/ W = LeftOver(db[o])
         \/ \E s \in 1..Def[o].steps : W = LeftOver(db[o]) \union {s},
         ForwardEnd(o, W), UNCHANGED finalizing
  PROVE  Walk' /\ Promise!Next
<1>1. PhaseOf(o) = "forward"
  BY PhaseShown
<1>2. W \in Promise!More(o)
  BY DEF Promise!More, LeftOver
<1>3. CASE Lands(o, "forward", W, TRUE)
  <2>1. /\ Promise!To(o, "forward") /\ Promise!Owes(o, W)
        /\ InFlight' = InFlight \union {o}
    BY <1>3, LandsMaps
  <2>2. [a \in Op |-> PhaseOf(a)]' = [a \in Op |-> PhaseOf(a)]
    BY <1>1, <2>1, SamePhase
  <2>3. Promise!Advance(o)
    BY <1>1, <1>2, <2>1, <2>2 DEF Promise!Advance
  <2> QED  BY <1>3, <2>3, LandsWalk DEF Promise!Next
<1>4. CASE 1..Def[o].steps \subseteq W /\ Lands(o, "done", W, FALSE)
  <2>1. Promise!To(o, "done") /\ Promise!Owes(o, W) /\ InFlight' = InFlight \ {o}
    BY <1>4, LandsMaps
  <2>2. Promise!Complete(o)
    BY <1>1, <1>2, <1>4, <2>1 DEF Promise!Complete
  <2> QED  BY <1>4, <2>2, LandsWalk DEF Promise!Next
<1>5. CASE Lands(o, "backward", W, TRUE)
  <2>1. /\ Promise!To(o, "backward") /\ Promise!Owes(o, W)
        /\ InFlight' = InFlight \union {o}
    BY <1>5, LandsMaps
  <2>2. Promise!TurnBack(o)
    BY <1>1, <1>2, <2>1 DEF Promise!TurnBack
  <2> QED  BY <1>5, <2>2, LandsWalk DEF Promise!Next
<1>6. ASSUME NEW p \in Rested, Lands(o, p, W \ Def[o].undo, FALSE)
      PROVE  Walk' /\ Promise!Next
  <2>1. /\ Promise!To(o, p) /\ Promise!Owes(o, W \ Def[o].undo)
        /\ InFlight' = InFlight \ {o}
    BY <1>6, LandsMaps
  <2>2. Promise!RolledBack(o)
    BY <1>1, <1>2, <2>1 DEF Promise!RolledBack, Rested
  <2> QED  BY <1>6, <2>2, LandsWalk DEF Promise!Next
<1> QED  BY <1>3, <1>4, <1>5, <1>6 DEF ForwardEnd

\* Where a stretch of o's rollback can end, when it left W of what o owes.
BackwardEnd(o, W) ==
  \/ Lands(o, "backward", W, TRUE)
  \/ Lands(o, "backward", W, FALSE)
  \/ Lands(o, "compensation_failed", W, FALSE)
  \/ \E p \in Rested : Lands(o, p, W \ Def[o].undo, FALSE)

\* Such an end is a step of the saga.
LEMMA BackwardEndStep ==
  ASSUME Inv, Inv', Walk, NEW o \in Op, Shown(db[o], run[o]) = "backward",
         Promise!MayWork(o), NEW W, W \subseteq LeftOver(db[o]),
         LeftOver(db[o]) \ W \subseteq Def[o].undo,
         BackwardEnd(o, W), UNCHANGED finalizing
  PROVE  Walk' /\ Promise!Next
<1>1. PhaseOf(o) = "backward"
  BY PhaseShown
<1>2. W \in Promise!Fewer(o)
  BY DEF Promise!Fewer, LeftOver
<1>3. ASSUME NEW works \in BOOLEAN, Lands(o, "backward", W, works)
      PROVE  Walk' /\ Promise!Next
  <2>1. /\ Promise!To(o, "backward") /\ Promise!Owes(o, W)
        /\ InFlight' \in {InFlight \union {o}, InFlight \ {o}}
    BY <1>3, LandsMaps
  <2>2. [a \in Op |-> PhaseOf(a)]' = [a \in Op |-> PhaseOf(a)]
    BY <1>1, <2>1, SamePhase
  <2>3. Promise!UndoSome(o)
    BY <1>1, <1>2, <2>1, <2>2 DEF Promise!UndoSome
  <2> QED  BY <1>3, <2>3, LandsWalk DEF Promise!Next
<1>4. CASE Lands(o, "compensation_failed", W, FALSE)
  <2>1. /\ Promise!To(o, "compensation_failed") /\ Promise!Owes(o, W)
        /\ InFlight' = InFlight \ {o}
    BY <1>4, LandsMaps
  <2>2. Promise!GiveUp(o)
    BY <1>1, <1>2, <2>1 DEF Promise!GiveUp
  <2> QED  BY <1>4, <2>2, LandsWalk DEF Promise!Next
<1>5. ASSUME NEW p \in Rested, Lands(o, p, W \ Def[o].undo, FALSE)
      PROVE  Walk' /\ Promise!Next
  <2>1. /\ Promise!To(o, p) /\ Promise!Owes(o, W \ Def[o].undo)
        /\ InFlight' = InFlight \ {o}
    BY <1>5, LandsMaps
  <2>2. W \ Def[o].undo = LeftOver(db[o]) \ Def[o].undo
    OBVIOUS
  <2>3. Promise!RolledBack(o)
    BY <1>1, <2>1, <2>2 DEF Promise!RolledBack, Rested, LeftOver
  <2> QED  BY <1>5, <2>3, LandsWalk DEF Promise!Next
<1> QED  BY <1>3, <1>4, <1>5 DEF BackwardEnd

-----------------------------------------------------------------------------
(* Edits of rows *)

\* An edit of a row without a runner that keeps its completed steps.
LEMMA EditLands ==
  ASSUME NEW o \in Op, run[o].pc = "idle", NEW r, db' = [db EXCEPT ![o] = r],
         run' = run, run \in [Op -> Runner],
         r.fwd = db[o].fwd, r.comp = db[o].comp, r.status # "absent"
  PROVE  Lands(o, Shown(r, run[o]), LeftOver(db[o]), FALSE)
<1>1. run' = [run EXCEPT ![o] = run[o]]
  OBVIOUS
<1>2. OnTrack(o, r, run[o])
  BY DEF OnTrack
<1>3. LeftOver(r) = LeftOver(db[o]) /\ FALSE = (run[o].pc # "idle")
  BY DEF LeftOver
<1> QED  BY <1>1, <1>2, <1>3 DEF Lands

\* Edits that keep the completed steps of every row keep it on its track.
LEMMA EditWalk ==
  ASSUME Walk, UNCHANGED run,
         \A a \in Op : /\ db'[a].fwd = db[a].fwd
                       /\ db'[a].status = "absent" <=> db[a].status = "absent",
         finalizing' \subseteq Present
  PROVE  Walk'
<1>1. \A a \in Op : OnTrack(a, db'[a], run'[a])
  BY DEF Walk, OnTrack
<1>2. Present' = Present
  BY DEF Present
<1> QED  BY <1>1, <1>2 DEF Walk, OnTrack

\* A row without a runner leaves the queue.
LEMMA WithdrawStep ==
  ASSUME Inv, Inv', Walk, NEW o \in Op, o \notin InFlight,
         db[o].status \in {"pending", "running", "compensating"},
         NEW p \in {"cancelled", "failed"}, NEW S, S = LeftOver(db[o]),
         Lands(o, p, S, FALSE),
         UNCHANGED finalizing
  PROVE  Walk' /\ Promise!Next
<1>1. /\ Promise!To(o, p) /\ Promise!Owes(o, S)
      /\ InFlight' = InFlight \ {o}
  BY LandsMaps
<1>2. PhaseOf(o) \in {"forward", "backward"}
  BY PhaseShown DEF Shown, InFlight
<1>3. [a \in Op |-> PhaseOf(a)]' = [a \in Op |-> IF a \in {o} THEN p ELSE PhaseOf(a)]
  BY <1>1 DEF Promise!To
<1>4. [a \in Op |-> db[a].fwd \ db[a].comp]' = [a \in Op |-> db[a].fwd \ db[a].comp]
  BY <1>1 DEF Promise!Owes, LeftOver
<1>5. Promise!Withdraw({o})
  BY <1>1, <1>2, <1>3, <1>4 DEF Promise!Withdraw
<1> QED  BY <1>5, LandsWalk DEF Promise!Next

\* A rollback without a runner is given up.
LEMMA GiveUpStep ==
  ASSUME Inv, Inv', Walk, NEW o \in Op, o \notin InFlight,
         db[o].status = "compensating",
         NEW S, S = LeftOver(db[o]),
         Lands(o, "compensation_failed", S, FALSE), UNCHANGED finalizing
  PROVE  Walk' /\ Promise!Next
<1>1. /\ Promise!To(o, "compensation_failed") /\ Promise!Owes(o, S)
      /\ InFlight' = InFlight \ {o}
  BY LandsMaps
<1>2. PhaseOf(o) = "backward"
  BY PhaseShown DEF Shown, InFlight
<1>3. S \in Promise!Fewer(o)
  BY DEF Promise!Fewer, LeftOver
<1>4. Promise!GiveUp(o)
  BY <1>1, <1>2, <1>3 DEF Promise!GiveUp
<1> QED  BY <1>4, LandsWalk DEF Promise!Next

-----------------------------------------------------------------------------
(* The actions *)

\* A request or a parent adds a row, which owes nothing.
LEMMA EnqueueSaga ==
  ASSUME Inv, Inv', Walk, NEW o \in Op, Enqueue(o)
  PROVE  Walk' /\ Promise!Next
<1> DEFINE n == Cardinality(Present) + 1
           r == [NoRow EXCEPT !.status = "pending", !.id = n]
<1>1. /\ db[o].status = "absent" /\ db' = [db EXCEPT ![o] = r]
      /\ UNCHANGED <<run, finalizing>>
  BY DEF Enqueue, Keep
<1>2. run \in [Op -> Runner] /\ RunnerOK(db[o], run[o]) /\ RowOK(db[o])
  BY DEF Inv, TypeOK
<1>3. run[o].pc = "idle"
  BY <1>1, <1>2 DEF RunnerOK, Runner, Working, Undoing, Finalized
<1>4. db[o].fwd = {} /\ db[o].comp = {}
  BY <1>1, <1>2 DEF Walk, OnTrack, RowOK
<1> HIDE DEF n
<1>5. r.status = "pending" /\ r.fwd = {} /\ r.comp = {}
  BY DEF NoRow
<1> HIDE DEF r
<1>6. Shown(r, run[o]) = "forward" /\ PhaseOf(o) = "absent"
  BY <1>1, <1>3, <1>5, PhaseShown DEF Shown
<1> PICK S : S = LeftOver(db[o])
  OBVIOUS
<1>7. Lands(o, "forward", S, FALSE)
  BY <1>1, <1>2, <1>3, <1>4, <1>5, <1>6, EditLands
<1>8. /\ Promise!To(o, "forward") /\ Promise!Owes(o, S)
      /\ InFlight' = InFlight \ {o}
  BY <1>7, LandsMaps
<1>9. [a \in Op |-> db[a].fwd \ db[a].comp]' = [a \in Op |-> db[a].fwd \ db[a].comp]
  BY <1>8 DEF Promise!Owes, LeftOver
<1>10. Promise!Submit(o)
  BY <1>3, <1>6, <1>8, <1>9 DEF Promise!Submit, InFlight
<1> QED  BY <1>1, <1>7, <1>10, LandsWalk DEF Promise!Next

\* The tick or the sweep starts a row, whatever it finds: a step at work, a
\* fence, attempts spent.
LEMMA TryStartSaga ==
  ASSUME Inv, Inv', Walk, Clean, NEW o \in Op, o \notin InFlight,
         db[o].status \in {"pending", "compensating"}, TryStart(o)
  PROVE  Walk' /\ Promise!Next
<1>1. /\ RowOK(db[o]) /\ db[o] \in Row /\ db[o].fwd \subseteq 1..Def[o].steps
      /\ run[o].pc = "idle" /\ run \in [Op -> Runner] /\ UNCHANGED finalizing
  BY DEF Inv, TypeOK, Clean, Owed, RowOK, InFlight, TryStart
<1>2. CASE StartUnknown(o)
  <2> DEFINE r == [db[o] EXCEPT !.status = "failed", !.cancelReq = FALSE]
  <2>1. db' = [db EXCEPT ![o] = r] /\ UNCHANGED run
    BY <1>2 DEF StartUnknown
  <2>2. r.fwd = db[o].fwd /\ r.comp = db[o].comp /\ r.status = "failed"
    BY <1>1 DEF Row
  <2> HIDE DEF r
  <2>3. Shown(r, run[o]) = "failed"
    BY <1>1, <2>2 DEF Shown
  <2>4. Lands(o, "failed", LeftOver(db[o]), FALSE)
    BY <1>1, <2>1, <2>2, <2>3, EditLands
  <2> QED  BY <1>1, <2>4, WithdrawStep
<1>3. CASE StartFencedChild(o)
  <2> DEFINE r == [db[o] EXCEPT !.status = "cancelled", !.cancelReq = FALSE,
                                !.cancelled = FALSE, !.fenced = TRUE]
  <2>1. Leave(o, r, Taken(o))
    BY <1>3 DEF StartFencedChild
  <2>2. r.fwd = db[o].fwd /\ r.comp = db[o].comp /\ r.status = "cancelled"
    BY <1>1 DEF Row
  <2> HIDE DEF r
  <2>3. r.status \in Terminal /\ LeftOver(r) = LeftOver(db[o])
    BY <2>2 DEF Terminal, LeftOver
  <2>4. Lands(o, "cancelled", LeftOver(db[o]), FALSE)
    BY <2>1, <2>2, <2>3, LeaveLands
  <2> QED  BY <1>1, <2>4, WithdrawStep
<1>4. CASE StartExhausted(o)
  <2> DEFINE r == [db[o] EXCEPT !.status = "compensation_failed"]
  <2>1. Leave(o, r, Taken(o)) /\ db[o].status = "compensating"
    BY <1>4 DEF StartExhausted, Exhausted
  <2>2. r.fwd = db[o].fwd /\ r.comp = db[o].comp /\ r.status = "compensation_failed"
    BY <1>1 DEF Row
  <2> HIDE DEF r
  <2>3. r.status \in Terminal /\ LeftOver(r) = LeftOver(db[o])
    BY <2>2 DEF Terminal, LeftOver
  <2>4. Lands(o, "compensation_failed", LeftOver(db[o]), FALSE)
    BY <2>1, <2>2, <2>3, LeaveLands
  <2> QED  BY <1>1, <2>1, <2>4, GiveUpStep
<1>5. CASE CanAcquire(o) /\ ResumeCompensation(o)
  <2> DEFINE n == db[o].attempt + 1
             r == [db[o] EXCEPT !.attempt = n]
  <2>1. RunCompensation(o, r, Taken(o)) /\ db[o].status = "compensating"
    BY <1>5 DEF ResumeCompensation
  <2>2. n \in Nat
    BY <1>1 DEF Row
  <2> HIDE DEF n
  <2>3. r \in Row /\ r.fwd = db[o].fwd /\ r.comp = db[o].comp /\ r.status = db[o].status
    BY <1>1, <2>2 DEF Row
  <2> HIDE DEF r
  <2>4. /\ LeftOver(r) = LeftOver(db[o]) /\ Shown(db[o], run[o]) = "backward"
        /\ NotDoneYet(o, r)
    BY <1>1, <2>1, <2>3 DEF LeftOver, Shown, NotDoneYet
  <2>5. BackwardEnd(o, LeftOver(db[o]))
    BY <1>1, <2>1, <2>3, <2>4, RunCompensationLands DEF BackwardEnd
  <2>6. Promise!MayWork(o)
    BY <1>5, NobodyElse
  <2> QED  BY <1>1, <2>4, <2>5, <2>6, BackwardEndStep
<1>6. CASE CanAcquire(o) /\ StartForward(o)
  <2> DEFINE n == db[o].attempt + 1
             r == [db[o] EXCEPT !.status = "running", !.attempt = n]
  <2>1. ForwardAfter(o, r, Taken(o), 0) /\ db[o].status = "pending"
    BY <1>6 DEF StartForward
  <2>2. n \in Nat /\ db[o].comp = {}
    BY <1>1, <2>1 DEF Row, RowOK
  <2> HIDE DEF n
  <2>3. r \in Row /\ r.fwd = db[o].fwd /\ r.comp = {} /\ r.status = "running"
    BY <1>1, <2>2 DEF Row, Status
  <2> HIDE DEF r
  <2>4. LeftOver(r) = LeftOver(db[o]) /\ LeftOver(r) = r.fwd /\ NotDoneYet(o, r)
    BY <2>2, <2>3 DEF LeftOver, NotDoneYet
  <2>5. Shown(db[o], run[o]) = "forward"
    BY <1>1, <2>1 DEF Shown
  <2>6. \A s \in 1..Def[o].steps : s <= 0 => s \in r.fwd
    BY DefType
  <2>7. ForwardEnd(o, LeftOver(db[o]))
    BY <1>1, <2>1, <2>3, <2>4, <2>6, ForwardAfterLands DEF ForwardEnd
  <2>8. Promise!MayWork(o)
    BY <1>6, NobodyElse
  <2> QED  BY <1>1, <2>5, <2>7, <2>8, ForwardEndStep
<1> QED  BY <1>2, <1>3, <1>4, <1>5, <1>6 DEF TryStart, StartKnown

\* A remote call of a forward step returns: what o owes grows by a step whose
\* side effect exists, or whose children succeeded.
LEMMA ForwardEnds ==
  ASSUME Inv, Walk, Clean, NEW o \in Op, run[o].pc \in {"probe", "run"},
         ~CancelChildren(o), ~EffectLands(o), Forward(o)
  PROVE  \E W : /\ ForwardEnd(o, W)
                /\ \/ W = LeftOver(db[o])
                   \/ \E s \in 1..Def[o].steps : /\ s \in effects[o] \union Def[o].awaits
                                                /\ W = LeftOver(db[o]) \union {s}
<1> DEFINE s == run[o].step
           r == [db[o] EXCEPT !.fwd = @ \union {s}, !.open = "none"]
<1>1. /\ RunnerOK(db[o], run[o]) /\ Owed(o, db[o], run[o], effects[o])
      /\ OnTrack(o, db[o], run[o]) /\ db[o] \in Row
  BY DEF Inv, Clean, Walk, RowOK
<1>2. /\ s \in 1..Def[o].steps /\ s \in Nat /\ db[o].fwd \subseteq 1..Def[o].steps
      /\ db[o].comp = {} /\ db[o].status # "absent"
      /\ \A t \in 1..Def[o].steps : t < s => t \in db[o].fwd
  BY <1>1 DEF RunnerOK, Runner, Owed, OnTrack, Fresh, Working, Finalized
<1>3. CASE ForwardAfter(o, r, holder, s) /\ s \in effects[o] \union Def[o].awaits
  <2> HIDE DEF s
  <2>1. /\ r \in Row /\ r.fwd = db[o].fwd \union {s} /\ r.comp = {}
        /\ r.status = db[o].status
    BY <1>1, <1>2 DEF Row
  <2> HIDE DEF r
  <2>2. \A t \in 1..Def[o].steps : t <= s => t \in r.fwd
    <3> SUFFICES ASSUME NEW t \in 1..Def[o].steps, t <= s, t # s  PROVE t \in db[o].fwd
      BY <2>1
    <3>1. t < s
      BY <1>2, DefType
    <3> QED  BY <1>2, <3>1
  <2> PICK W : W = LeftOver(db[o]) \union {s}
    OBVIOUS
  <2>3. LeftOver(r) = W /\ W = r.fwd /\ NotDoneYet(o, r)
    BY <1>2, <2>1 DEF LeftOver, NotDoneYet
  <2>4. ForwardEnd(o, W)
    BY <1>2, <1>3, <2>1, <2>2, <2>3, ForwardAfterLands DEF ForwardEnd
  <2> QED  BY <1>2, <1>3, <2>4
<1>4. CASE FailForward(o, db[o], holder, CancelSeen(db[o]))
  <2>1. CancelSeen(db[o]) \in BOOLEAN
    BY DEF CancelSeen
  <2> PICK W : W = LeftOver(db[o])
    OBVIOUS
  <2>2. ForwardEnd(o, W)
    BY <1>1, <1>2, <1>4, <2>1, FailForwardLands DEF ForwardEnd
  <2> QED  BY <2>2
<1>5. CASE ProbeMisses(o)
  <2>1. Suspend(o, db[o], holder, "run", s, FALSE)
    BY <1>5 DEF ProbeMisses
  <2> HIDE DEF s
  <2>2. OnTrack(o, db[o], [pc |-> "run", step |-> s, failed |-> FALSE])
    BY <1>2 DEF OnTrack
  <2> PICK W : W = LeftOver(db[o])
    OBVIOUS
  <2>3. Lands(o, "forward", W, TRUE)
    BY <1>1, <1>2, <2>1, <2>2, SuspendLands DEF NotDoneYet
  <2> QED  BY <2>3 DEF ForwardEnd
<1>6. \/ ProbeMisses(o)
      \/ ForwardAfter(o, r, holder, s) /\ s \in effects[o] \union Def[o].awaits
      \/ FailForward(o, db[o], holder, CancelSeen(db[o]))
  BY DEF Forward, ProbeAdopts, ProbeRejects, RunReturns, RunThrows, ChildrenSucceeded,
         ChildrenFailed, StepOk, Awaiting
<1> QED  BY <1>3, <1>4, <1>5, <1>6

\* Each return, failure or effect of a forward step.
LEMMA ForwardSaga ==
  ASSUME Inv, Inv', Walk, Clean, NEW o \in Op, run[o].pc \in {"probe", "run"},
         ~CancelChildren(o), Forward(o)
  PROVE  Walk' /\ [Promise!Next]_(Promise!vars)
<1>1. Shown(db[o], run[o]) = "forward" /\ Promise!MayWork(o)
  BY NobodyElse DEF Shown
<1>2. UNCHANGED finalizing
  BY DEF Forward, ProbeAdopts, ProbeMisses, ProbeRejects, EffectLands, RunReturns,
         RunThrows, CancelChildren, ChildrenSucceeded, ChildrenFailed, Keep
<1>3. CASE EffectLands(o)
  <2>1. UNCHANGED <<db, run>>
    BY <1>3 DEF EffectLands
  <2>2. UNCHANGED Promise!vars
    BY <2>1, ShowsNothing
  <2> QED  BY <1>2, <2>1, <2>2, EditWalk DEF Walk
<1>4. CASE ~EffectLands(o)
  <2>1. PICK W : /\ ForwardEnd(o, W)
                 /\ \/ W = LeftOver(db[o])
                    \/ \E s \in 1..Def[o].steps : W = LeftOver(db[o]) \union {s}
    BY <1>4, ForwardEnds
  <2> QED  BY <1>1, <1>2, <2>1, ForwardEndStep
<1> QED  BY <1>3, <1>4

\* A waiting parent passes a cancel request on: its pending children leave the
\* queue, the others only note it.
LEMMA CancelChildrenSaga ==
  ASSUME Inv, Inv', Walk, NEW o \in Op, CancelChildren(o)
  PROVE  Walk' /\ [Promise!Next]_(Promise!vars)
<1> DEFINE W == {c \in ChildrenOf(o) : db[c].status = "pending"}
<1>1. /\ db' = [c \in Op |-> IF c \in ChildrenOf(o) THEN Requested(db[c]) ELSE db[c]]
      /\ UNCHANGED <<run, finalizing>>
  BY DEF CancelChildren, Keep
<1>2. W \subseteq Op /\ W \in SUBSET Op
  BY DEF ChildrenOf, Children
<1>3. \A a \in Op : db[a] \in Row /\ RunnerOK(db[a], run[a])
  BY DEF Inv, RowOK
<1>4. \A c \in W : run[c].pc = "idle"
  BY <1>2, <1>3 DEF RunnerOK, Runner, Working, Undoing, Finalized
<1>5. ASSUME NEW a \in Op
      PROVE  /\ db'[a].fwd = db[a].fwd /\ db'[a].comp = db[a].comp
             /\ a \in W => db'[a].status = "cancelled"
             /\ a \notin W => db'[a].status = db[a].status
  <2>1. CASE a \in ChildrenOf(o)
    BY <1>1, <1>3, <2>1 DEF Requested, Row
  <2>2. CASE a \notin ChildrenOf(o)
    BY <1>1, <2>2
  <2> QED  BY <2>1, <2>2
<1>6. Walk'
  <2>1. \A a \in Op : db'[a].status = "absent" <=> db[a].status = "absent"
    BY <1>5
  <2> QED  BY <1>1, <1>5, <2>1, EditWalk DEF Walk
<1>7. \A a \in Op : a \in W => PhaseOf(a) = "forward" /\ PhaseOf(a)' = "cancelled"
  BY <1>1, <1>4, <1>5, PhaseShown DEF Shown
<1>8. \A a \in Op : a \notin W => PhaseOf(a)' = PhaseOf(a)
  BY <1>1, <1>5, PhaseShown DEF Shown
<1>9. InFlight' = InFlight /\ W \intersect InFlight = {}
  BY <1>1, <1>4 DEF InFlight
<1>10. \A a \in Op : (db[a].fwd \ db[a].comp)' = db[a].fwd \ db[a].comp
  BY <1>5
<1> HIDE DEF W
<1>11. Promise!Withdraw(W)
  BY <1>2, <1>7, <1>8, <1>9, <1>10 DEF Promise!Withdraw
<1> QED  BY <1>2, <1>6, <1>11 DEF Promise!Next

\* A remote call of a compensation returns: what o owes loses at most a step
\* that can be undone.
LEMMA BackwardEnds ==
  ASSUME Inv, Walk, Clean, NEW o \in Op, run[o].pc \in {"probeGone", "undo"},
         ~EffectUndone(o), Backward(o)
  PROVE  \E W : /\ BackwardEnd(o, W)
                /\ W \subseteq LeftOver(db[o]) /\ LeftOver(db[o]) \ W \subseteq Def[o].undo
<1> DEFINE s == run[o].step
           f == run[o].failed
           done == [db[o] EXCEPT !.comp = @ \union {s}, !.open = "none"]
           failed == [db[o] EXCEPT !.open = "none"]
<1>1. /\ RunnerOK(db[o], run[o]) /\ Owed(o, db[o], run[o], effects[o])
      /\ OnTrack(o, db[o], run[o]) /\ db[o] \in Row
  BY DEF Inv, Clean, Walk, RowOK
<1>2. /\ s \in Nat /\ f \in BOOLEAN /\ db[o].fwd \subseteq 1..Def[o].steps
      /\ s \in Def[o].undo /\ s \in LeftOver(db[o]) /\ db[o].status # "absent"
      /\ ~f => \A t \in Def[o].undo \intersect db[o].fwd : t > s => t \in db[o].comp
  BY <1>1 DEF RunnerOK, Runner, Owed, OnTrack, Undoing, Finalized, LeftOver
<1>3. CASE UndoBelow(o, done, holder, s, f)
  <2> HIDE DEF s, f
  <2>1. /\ done \in Row /\ done.fwd = db[o].fwd /\ done.comp = db[o].comp \union {s}
        /\ done.status = db[o].status
    BY <1>1, <1>2 DEF Row
  <2> HIDE DEF done
  <2>2. ~f => \A t \in Def[o].undo \intersect done.fwd : t >= s => t \in done.comp
    <3> SUFFICES ASSUME ~f, NEW t \in Def[o].undo \intersect db[o].fwd, t >= s, t # s
                 PROVE  t \in db[o].comp
      BY <2>1
    <3>1. t \in Nat
      BY <1>2, DefType
    <3> QED  BY <1>2, <3>1
  <2> PICK W : W = LeftOver(db[o]) \ {s}
    OBVIOUS
  <2>3. LeftOver(done) = W
    BY <2>1 DEF LeftOver
  <2>4. BackwardEnd(o, W)
    <3> HIDE DEF failed
    <3>1. /\ done.fwd \subseteq 1..Def[o].steps /\ done.status # "absent"
          /\ NotDoneYet(o, done)
      BY <1>2, <2>1 DEF NotDoneYet
    <3>2. \/ Lands(o, "backward", LeftOver(done), TRUE)
          \/ \E p \in Rested : Lands(o, p, LeftOver(done) \ Def[o].undo, FALSE)
          \/ Lands(o, "backward", LeftOver(done), FALSE)
          \/ Lands(o, "compensation_failed", LeftOver(done), FALSE)
      BY <1>2, <1>3, <2>1, <2>2, <3>1, UndoBelowLands
    <3> QED  BY <2>3, <3>2 DEF BackwardEnd
  <2> QED  BY <1>2, <2>4
<1>4. CASE UndoBelow(o, failed, holder, s, TRUE)
  <2> HIDE DEF s
  <2>1. /\ failed \in Row /\ failed.fwd = db[o].fwd /\ failed.comp = db[o].comp
        /\ failed.status = db[o].status
    BY <1>1 DEF Row
  <2> HIDE DEF failed
  <2> PICK W : W = LeftOver(db[o])
    OBVIOUS
  <2>2. LeftOver(failed) = W /\ NotDoneYet(o, failed)
    BY <2>1 DEF LeftOver, NotDoneYet
  <2>3. BackwardEnd(o, W)
    BY <1>2, <1>4, <2>1, <2>2, UndoBelowLands DEF BackwardEnd
  <2> QED  BY <2>3
<1>5. CASE NotGone(o)
  <2>1. Suspend(o, db[o], holder, "undo", s, f)
    BY <1>5 DEF NotGone
  <2> HIDE DEF s, f
  <2>2. OnTrack(o, db[o], [pc |-> "undo", step |-> s, failed |-> f])
    BY <1>1, <1>2 DEF OnTrack
  <2> PICK W : W = LeftOver(db[o])
    OBVIOUS
  <2>3. Lands(o, "backward", W, TRUE)
    BY <1>1, <1>2, <2>1, <2>2, SuspendLands DEF NotDoneYet
  <2> QED  BY <2>3 DEF BackwardEnd
<1>6. \/ NotGone(o)
      \/ UndoBelow(o, done, holder, s, f)
      \/ UndoBelow(o, failed, holder, s, TRUE)
  BY DEF Backward, FoundGone, UndoReturns, UndoThrows, UndoStepOk
<1> QED  BY <1>3, <1>4, <1>5, <1>6

\* Each return, failure or effect of a compensation.
LEMMA BackwardSaga ==
  ASSUME Inv, Inv', Walk, Clean, NEW o \in Op, run[o].pc \in {"probeGone", "undo"},
         Backward(o)
  PROVE  Walk' /\ [Promise!Next]_(Promise!vars)
<1>1. Shown(db[o], run[o]) = "backward" /\ Promise!MayWork(o)
  BY NobodyElse DEF Shown
<1>2. UNCHANGED finalizing
  BY DEF Backward, FoundGone, NotGone, EffectUndone, UndoReturns, UndoThrows, Keep
<1>3. CASE EffectUndone(o)
  <2>1. UNCHANGED <<db, run>>
    BY <1>3 DEF EffectUndone
  <2>2. UNCHANGED Promise!vars
    BY <2>1, ShowsNothing
  <2> QED  BY <1>2, <2>1, <2>2, EditWalk DEF Walk
<1>4. CASE ~EffectUndone(o)
  <2>1. PICK W : /\ BackwardEnd(o, W) /\ W \subseteq LeftOver(db[o])
                 /\ LeftOver(db[o]) \ W \subseteq Def[o].undo
    BY <1>4, BackwardEnds
  <2> QED  BY <1>1, <1>2, <2>1, BackwardEndStep
<1> QED  BY <1>3, <1>4

\* The sweep requeues or gives up a row.
LEMMA SweepSaga ==
  ASSUME Inv, Inv', Walk, Clean, NEW o \in Op, Sweep(o)
  PROVE  Walk' /\ [Promise!Next]_(Promise!vars)
<1>1. CASE SweepRequeue(o)
  BY <1>1, TryStartSaga DEF SweepRequeue
<1>2. CASE SweepExhausted(o)
  <2> DEFINE r == [db[o] EXCEPT !.status = "compensation_failed"]
  <2>1. /\ db[o].status = "compensating" /\ db' = [db EXCEPT ![o] = r]
        /\ UNCHANGED <<run, finalizing>>
    BY <1>2 DEF SweepExhausted, Exhausted, Keep
  <2>2. /\ db \in [Op -> Row] /\ db[o] \in Row /\ run \in [Op -> Runner]
        /\ RunnerOK(db[o], run[o])
    BY DEF Inv, TypeOK
  <2>3. r.fwd = db[o].fwd /\ r.comp = db[o].comp /\ r.status = "compensation_failed"
    BY <2>2 DEF Row
  <2> HIDE DEF r
  <2>4. CASE o \in InFlight
    <3>1. run[o].pc \in {"probeGone", "undo"}
      BY <2>1, <2>2, <2>4 DEF InFlight, RunnerOK, Runner, Working, Finalized
    <3>2. db'[o] = r /\ \A a \in Op : a # o => db'[a] = db[a]
      BY <2>1, <2>2
    <3>3. UNCHANGED Promise!vars
      BY <2>1, <2>3, <3>1, <3>2, ShowsNothing DEF Shown, LeftOver
    <3> QED  BY <2>1, <2>3, <3>2, <3>3, EditWalk DEF Walk
  <2>5. CASE o \notin InFlight
    <3> PICK S : S = LeftOver(db[o])
      OBVIOUS
    <3>1. Shown(r, run[o]) = "compensation_failed" /\ run[o].pc = "idle"
      BY <2>3, <2>5 DEF Shown, InFlight
    <3>2. Lands(o, "compensation_failed", S, FALSE)
      BY <2>1, <2>2, <2>3, <3>1, EditLands
    <3> QED  BY <2>1, <2>5, <3>2, GiveUpStep
  <2> QED  BY <2>4, <2>5
<1> QED  BY <1>1, <1>2 DEF Sweep

\* An operator withdraws a pending row or asks a running one to stop.
LEMMA CancelSaga ==
  ASSUME Inv, Inv', Walk, NEW o \in Op, Cancel(o)
  PROVE  Walk' /\ [Promise!Next]_(Promise!vars)
<1> DEFINE r == Requested(db[o])
<1>1. /\ db[o].status \in {"pending", "running"} /\ db' = [db EXCEPT ![o] = r]
      /\ UNCHANGED <<run, finalizing>>
  BY DEF Cancel
<1>2. /\ db \in [Op -> Row] /\ db[o] \in Row /\ run \in [Op -> Runner]
      /\ RunnerOK(db[o], run[o])
  BY DEF Inv, TypeOK
<1>3. /\ r.fwd = db[o].fwd /\ r.comp = db[o].comp
      /\ db[o].status = "pending" => r.status = "cancelled"
      /\ db[o].status = "running" => r.status = "running"
  BY <1>1, <1>2 DEF Requested, Row
<1> HIDE DEF r
<1>4. CASE db[o].status = "pending"
  <2> PICK S : S = LeftOver(db[o])
    OBVIOUS
  <2>1. run[o].pc = "idle"
    BY <1>2, <1>4 DEF RunnerOK, Runner, Working, Undoing, Finalized
  <2>2. Shown(r, run[o]) = "cancelled"
    BY <1>3, <1>4, <2>1 DEF Shown
  <2>3. Lands(o, "cancelled", S, FALSE)
    BY <1>1, <1>2, <1>3, <1>4, <2>1, <2>2, EditLands
  <2> QED  BY <1>1, <2>1, <2>3, WithdrawStep DEF InFlight
<1>5. CASE db[o].status = "running"
  <2>1. db'[o] = r /\ \A a \in Op : a # o => db'[a] = db[a]
    BY <1>1, <1>2
  <2>2. UNCHANGED Promise!vars
    BY <1>1, <1>3, <1>5, <2>1, ShowsNothing DEF Shown, LeftOver
  <2> QED  BY <1>1, <1>3, <1>5, <2>1, <2>2, EditWalk DEF Walk
<1> QED  BY <1>1, <1>4, <1>5

\* An operator resumes a rollback that was given up.
LEMMA RetrySaga ==
  ASSUME Inv, Inv', Walk, NEW o \in Op, Retry(o)
  PROVE  Walk' /\ [Promise!Next]_(Promise!vars)
<1> DEFINE r == Requeued(db[o])
<1>1. /\ db[o].status \in {"pending", "running", "compensating", "compensation_failed"}
      /\ db' = [db EXCEPT ![o] = r] /\ UNCHANGED <<run, finalizing>>
  BY DEF Retry
<1>2. run[o].pc = "idle"
  BY NotHeldIdle DEF Retry
<1>3. db \in [Op -> Row] /\ db[o] \in Row /\ run \in [Op -> Runner]
  BY DEF Inv, TypeOK
<1>4. /\ r.fwd = db[o].fwd /\ r.comp = db[o].comp
      /\ r.status = IF db[o].status \in {"compensating", "compensation_failed"}
                      THEN "compensating" ELSE "pending"
  BY <1>3 DEF Requeued, Row
<1> HIDE DEF r
<1>5. CASE db[o].status = "compensation_failed"
  <2> PICK S : S = LeftOver(db[o])
    OBVIOUS
  <2>1. Shown(r, run[o]) = "backward" /\ PhaseOf(o) = "compensation_failed"
    BY <1>2, <1>4, <1>5, PhaseShown DEF Shown
  <2>2. Lands(o, "backward", S, FALSE)
    BY <1>1, <1>2, <1>3, <1>4, <1>5, <2>1, EditLands
  <2>3. Promise!To(o, "backward") /\ Promise!Owes(o, S) /\ InFlight' = InFlight \ {o}
    BY <2>2, LandsMaps
  <2>4. [a \in Op |-> db[a].fwd \ db[a].comp]' = [a \in Op |-> db[a].fwd \ db[a].comp]
    BY <2>3 DEF Promise!Owes, LeftOver
  <2>5. Promise!Reopen(o)
    BY <1>2, <2>1, <2>3, <2>4 DEF Promise!Reopen, InFlight
  <2> QED  BY <1>1, <2>2, <2>5, LandsWalk DEF Promise!Next
<1>6. CASE db[o].status # "compensation_failed"
  <2>1. db'[o] = r /\ \A a \in Op : a # o => db'[a] = db[a]
    BY <1>1, <1>3
  <2>2. Shown(r, run[o]) = Shown(db[o], run[o])
    BY <1>1, <1>2, <1>4, <1>6 DEF Shown
  <2>3. UNCHANGED Promise!vars
    BY <1>1, <1>4, <2>1, <2>2, ShowsNothing DEF LeftOver
  <2>4. r.status # "absent"
    BY <1>4
  <2> QED  BY <1>1, <1>4, <2>1, <2>3, <2>4, EditWalk DEF Walk
<1> QED  BY <1>5, <1>6

\* Under a live runner the operator's verdict shows nothing yet.
LEMMA FinalizeSaga ==
  ASSUME Inv, Inv', Walk, NEW o \in Op, FinalizeWrite(o)
  PROVE  Walk' /\ [Promise!Next]_(Promise!vars)
<1>1. /\ db \in [Op -> Row] /\ db[o] \in Row /\ run \in [Op -> Runner]
      /\ db[o].status # "absent" /\ UNCHANGED run /\ finalizing' \subseteq finalizing
  BY DEF Inv, TypeOK, Walk, Present, FinalizeWrite
<1>2. CASE UNCHANGED db
  <2>1. UNCHANGED Promise!vars
    BY <1>1, <1>2, ShowsNothing
  <2> QED  BY <1>1, <1>2, <2>1, EditWalk DEF Walk
<1>3. ASSUME NEW st \in Finalized,
             db' = [db EXCEPT ![o] = [db[o] EXCEPT !.status = st, !.cancelReq = FALSE,
                                                   !.fenced = FALSE]]
      PROVE  Walk' /\ [Promise!Next]_(Promise!vars)
  <2> DEFINE r == [db[o] EXCEPT !.status = st, !.cancelReq = FALSE, !.fenced = FALSE]
  <2>1. r.fwd = db[o].fwd /\ r.comp = db[o].comp /\ r.status = st
    BY <1>1 DEF Row
  <2>2. db' = [db EXCEPT ![o] = r]
    BY <1>3
  <2> HIDE DEF r
  <2>3. db'[o] = r /\ (\A a \in Op : a # o => db'[a] = db[a]) /\ st # "absent"
    BY <1>1, <1>3, <2>2 DEF Finalized
  <2>4. CASE o \in InFlight
    <3>1. run[o].pc \in {"probe", "run", "probeGone", "undo"}
      BY <1>1, <2>4 DEF InFlight, Runner
    <3>2. Shown(r, run[o]) = Shown(db[o], run[o])
      BY <3>1 DEF Shown
    <3>3. UNCHANGED Promise!vars
      BY <1>1, <2>1, <2>3, <3>2, ShowsNothing DEF LeftOver
    <3> QED  BY <1>1, <2>1, <2>3, <3>3, EditWalk DEF Walk
  <2>5. CASE o \notin InFlight
    <3> PICK S : S = LeftOver(db[o])
      OBVIOUS
    <3>1. run[o].pc = "idle" /\ Shown(r, run[o]) = st
      BY <1>3, <2>1, <2>5 DEF Shown, InFlight, Finalized
    <3>2. Lands(o, st, S, FALSE)
      BY <1>1, <2>1, <2>2, <2>3, <3>1, EditLands, SMTT(30), ZenonT(30)
    <3>3. Promise!To(o, st) /\ Promise!Owes(o, S) /\ InFlight' = InFlight \ {o}
      BY <3>2, LandsMaps
    <3>4. [a \in Op |-> db[a].fwd \ db[a].comp]' = [a \in Op |-> db[a].fwd \ db[a].comp]
      BY <3>3 DEF Promise!Owes, LeftOver
    <3>5. PhaseOf(o) # "absent"
      BY <1>1, <3>1, PhaseShown DEF Shown
    <3>6. Promise!Override(o)
      BY <1>3, <2>5, <3>3, <3>4, <3>5 DEF Promise!Override, Finalized
    <3> QED  BY <1>1, <3>2, <3>6, LandsWalk DEF Promise!Next
  <2> QED  BY <2>4, <2>5
<1> QED  BY <1>2, <1>3 DEF FinalizeWrite

\* A crash stops all work at once; what was decided underneath shows now.
LEMMA CrashSaga ==
  ASSUME Inv, Inv', Walk, Crash
  PROVE  Walk' /\ Promise!Next
<1>1. /\ UNCHANGED db /\ finalizing' = {} /\ \A a \in Op : run'[a] = Idle
  BY DEF Crash
<1>2. Idle.pc = "idle"
  BY DEF Idle
<1>3. Walk'
  <2>1. \A a \in Op : OnTrack(a, db'[a], run'[a])
    BY <1>1, <1>2 DEF Walk, OnTrack
  <2> QED  BY <1>1, <2>1 DEF Walk, OnTrack
<1>4. InFlight' = {}
  BY <1>1, <1>2 DEF InFlight
<1>5. [a \in Op |-> db[a].fwd \ db[a].comp]' = [a \in Op |-> db[a].fwd \ db[a].comp]
  BY <1>1
<1> DEFINE Settled == {"done", "failed", "compensation_failed"}
           p == [a \in InFlight |-> IF db[a].status \in Settled THEN db[a].status ELSE "stays"]
<1>6. p \in [InFlight -> {"done", "failed", "compensation_failed", "stays"}]
  OBVIOUS
<1>7. ASSUME NEW a \in Op
      PROVE  PhaseOf(a)' = IF a \in InFlight /\ p[a] # "stays" THEN p[a] ELSE PhaseOf(a)
  <2>1. PhaseOf(a) = Shown(db[a], run[a]) /\ PhaseOf(a)' = Shown(db[a], Idle)
    BY <1>1, PhaseShown
  <2>2. CASE a \notin InFlight
    BY <1>2, <2>1, <2>2 DEF InFlight, Shown
  <2>3. CASE a \in InFlight /\ db[a].status \in Settled
    <3>1. p[a] = db[a].status /\ p[a] # "stays"
      BY <2>3
    <3>2. PhaseOf(a)' = db[a].status
      BY <1>2, <2>1, <2>3 DEF Shown
    <3> HIDE DEF p
    <3> QED  BY <2>3, <3>1, <3>2
  <2>4. CASE a \in InFlight /\ db[a].status \notin Settled
    <3>1. p[a] = "stays"
      BY <2>4
    <3>2. RunnerOK(db[a], run[a])
      BY DEF Inv
    <3>3. \/ run[a].pc \in {"probe", "run"} /\ db[a].status = "running"
          \/ run[a].pc \in {"probeGone", "undo"} /\ db[a].status = "compensating"
      BY <2>4, <3>2 DEF RunnerOK, Runner, InFlight, Working, Undoing, Finalized
    <3>4. PhaseOf(a)' = PhaseOf(a)
      BY <1>2, <2>1, <3>3 DEF Shown
    <3> HIDE DEF p
    <3> QED  BY <3>1, <3>4
  <2> QED  BY <2>2, <2>3, <2>4
<1> HIDE DEF p
<1>8. Promise!Crash
  BY <1>4, <1>5, <1>6, <1>7 DEF Promise!Crash
<1> QED  BY <1>3, <1>8 DEF Promise!Next

\* A restart makes interrupted rows startable and shows nothing.
LEMMA RestartSaga ==
  ASSUME Inv, Inv', Walk, Restart
  PROVE  Walk' /\ UNCHANGED Promise!vars
<1>1. UNCHANGED <<run, finalizing>> /\ \A a \in Op : db'[a] = Resumed(db[a])
  BY DEF Restart
<1>2. ASSUME NEW a \in Op
      PROVE  /\ db'[a].fwd = db[a].fwd /\ db'[a].comp = db[a].comp
             /\ \/ db'[a].status = db[a].status
                \/ db[a].status = "running" /\ db'[a].status = "pending"
             /\ run[a].pc = "idle"
  <2>1. db[a] \in Row /\ run[a].pc = "idle"
    BY DEF Inv, RowOK, Restart
  <2> QED  BY <1>1, <2>1 DEF Resumed, Row
<1>3. UNCHANGED Promise!vars
  BY <1>1, <1>2, ShowsNothing DEF Shown, LeftOver
<1>4. \A a \in Op : db'[a].status = "absent" <=> db[a].status = "absent"
  BY <1>2
<1> QED  BY <1>1, <1>2, <1>3, <1>4, EditWalk DEF Walk

\* Every step of the engine.
LEMMA StepSaga ==
  ASSUME Inv, Inv', Walk, Clean, [Next]_vars
  PROVE  Walk' /\ [Promise!Next]_(Promise!vars)
<1>1. CASE UNCHANGED <<db, run>> /\ finalizing' \subseteq Present
  <2>1. UNCHANGED Promise!vars
    BY <1>1, ShowsNothing
  <2> QED  BY <1>1, <2>1, EditWalk
<1>2. ASSUME NEW o \in Op, TickStart(o)
      PROVE  Walk' /\ [Promise!Next]_(Promise!vars)
  <2>1. o \notin InFlight /\ TryStart(o)
    BY <1>2 DEF TickStart, Startable
  <2>2. db[o].status \in {"pending", "compensating"}
    BY <1>2 DEF TickStart, Window, Pending
  <2> QED  BY <2>1, <2>2, TryStartSaga
<1>3. ASSUME NEW o \in Op, Forward(o) \/ Backward(o)
      PROVE  Walk' /\ [Promise!Next]_(Promise!vars)
  <2>1. CASE CancelChildren(o)
    BY <2>1, CancelChildrenSaga
  <2>2. CASE ~CancelChildren(o) /\ Forward(o)
    <3>1. run[o].pc \in {"probe", "run"}
      BY <2>2 DEF Forward, ProbeAdopts, ProbeMisses, ProbeRejects, EffectLands,
         RunReturns, RunThrows, ChildrenSucceeded, ChildrenFailed, Awaiting, At
    <3> QED  BY <2>2, <3>1, ForwardSaga
  <2>3. CASE Backward(o)
    <3>1. run[o].pc \in {"probeGone", "undo"}
      BY <2>3 DEF Backward, FoundGone, NotGone, EffectUndone, UndoReturns, UndoThrows, At
    <3> QED  BY <2>3, <3>1, BackwardSaga
  <2> QED  BY <1>3, <2>1, <2>2, <2>3
<1>4. ASSUME NEW o \in Op, Operator(o)
      PROVE  Walk' /\ [Promise!Next]_(Promise!vars)
  <2>1. CASE FinalizeCheck(o)
    <3>1. UNCHANGED <<db, run>> /\ finalizing' \subseteq Present
      BY <2>1 DEF FinalizeCheck, Walk, Present
    <3> QED  BY <1>1, <3>1
  <2> QED  BY <1>4, <2>1, CancelSaga, RetrySaga, FinalizeSaga DEF Operator
<1>5. ASSUME NEW k \in Key, EnterSection(k) \/ LeaveSection(k)
      PROVE  Walk' /\ [Promise!Next]_(Promise!vars)
  <2>1. UNCHANGED <<db, run>> /\ finalizing' \subseteq Present
    BY <1>5 DEF EnterSection, LeaveSection, Keep, Walk
  <2> QED  BY <1>1, <2>1
<1>6. CASE UNCHANGED vars
  BY <1>1, <1>6 DEF vars, Walk
<1> QED  BY <1>2, <1>3, <1>4, <1>5, <1>6, EnqueueSaga, SweepSaga, CrashSaga, RestartSaga
        DEF Next

\* The empty tables.
LEMMA InitSaga == Init => Walk /\ Promise!Init
<1> SUFFICES ASSUME Init  PROVE Walk /\ Promise!Init
  OBVIOUS
<1>1. \A o \in Op : db[o] = NoRow /\ run[o] = Idle
  BY DEF Init
<1>2. NoRow.status = "absent" /\ NoRow.fwd = {} /\ Idle.pc = "idle"
  BY DEF NoRow, Idle
<1>3. Walk
  BY <1>1, <1>2 DEF Walk, OnTrack, Init
<1>4. InFlight = {} /\ \A o \in Op : PhaseOf(o) = "absent"
  BY <1>1, <1>2 DEF InFlight, PhaseOf
<1> QED  BY <1>1, <1>2, <1>3, <1>4 DEF Promise!Init

\* The forward walk skips no step and the reverse walk stands at steps that can
\* be undone, over every replay, cancel and resumed rollback; only rows that
\* were enqueued are finalized.
THEOREM WalksStayOnTrack == Spec => []Walk
<1>1. Inv /\ Clean /\ Walk /\ Inv' /\ [Next]_vars => Walk'
  BY StepSaga
<1> QED  BY <1>1, InitInv, InitClean, InitSaga, StepInv, StepClean, PTL DEF Spec

\* engine.ts and step-runner.ts implement the saga their callers rely on: work
\* only where no other operation works under the same keys, "done" only with
\* every step completed, a rollback only with everything undone that can be, and
\* settled operations touched by operators only, for any number of operations,
\* crashes, sweeps, retries and late answers.
THEOREM EngineIsSaga == Spec => ImplementsSaga
<1>1. Inv /\ Clean /\ Walk /\ Inv' /\ [Next]_vars => [Promise!Next]_(Promise!vars)
  BY StepSaga
<1>2. Init => Promise!Init
  BY InitSaga
<1> QED  BY <1>1, <1>2, InitInv, InitClean, StepInv, StepClean, WalksStayOnTrack,
            PTL DEF Spec, ImplementsSaga, Promise!Spec

-----------------------------------------------------------------------------
(* What "done" says of the world *)

\* While an operation goes forward, what it recorded as completed exists.
Backed ==
  \A o \in Op :
    Shown(db[o], run[o]) = "forward" => db[o].fwd \ Def[o].awaits \subseteq effects[o]

\* No row becomes "done" without its side effects.
DoneIsBacked ==
  \A o \in Op : db[o].status # "done" /\ db'[o].status = "done"
                  => (1..Def[o].steps) \ Def[o].awaits \subseteq effects'[o]

\* A stretch that records only effects that exist keeps Backed.
LEMMA LandsBacked ==
  ASSUME Inv, Inv', Backed, NEW o \in Op, NEW p, NEW S, NEW works \in BOOLEAN,
         Lands(o, p, S, works), UNCHANGED effects,
         p \in {"forward", "done"} => S \ Def[o].awaits \subseteq effects[o],
         p = "done" => 1..Def[o].steps \subseteq S
  PROVE  Backed' /\ DoneIsBacked
<1>1. PICK r, q : /\ works => NotDoneYet(o, r)
                  /\ Shown(r, q) = p /\ LeftOver(r) = S
                  /\ works = (q.pc # "idle")
                  /\ db' = [db EXCEPT ![o] = r] /\ run' = [run EXCEPT ![o] = q]
  BY DEF Lands
<1>2. db \in [Op -> Row] /\ run \in [Op -> Runner]
  BY DEF Inv, TypeOK
<1>3. db'[o] = r /\ run'[o] = q
  BY <1>1, <1>2
<1>4. \A a \in Op : a # o => db'[a] = db[a] /\ run'[a] = run[a]
  BY <1>1, <1>2
<1>5. RowOK(r) /\ RunnerOK(r, q) /\ q.pc \in {"idle", "probe", "run", "probeGone", "undo"}
  BY <1>3 DEF Inv, RowOK, RunnerOK, Runner
<1>6. p = "forward" => r.fwd \ Def[o].awaits \subseteq effects'[o]
  <2> SUFFICES ASSUME p = "forward"  PROVE r.fwd \ Def[o].awaits \subseteq effects'[o]
    OBVIOUS
  <2>1. \/ q.pc \in {"probe", "run"}
        \/ r.status \in {"pending", "running"}
    BY <1>1, <1>5 DEF Shown, RowOK, Row, Status, Terminal
  <2>2. r.comp = {}
    BY <1>5, <2>1 DEF RowOK, RunnerOK, Fresh
  <2> QED  BY <1>1, <2>2 DEF LeftOver
<1>7. r.status = "done" /\ db[o].status # "done"
        => (1..Def[o].steps) \ Def[o].awaits \subseteq effects'[o]
  <2> SUFFICES ASSUME r.status = "done", db[o].status # "done"
               PROVE  (1..Def[o].steps) \ Def[o].awaits \subseteq effects'[o]
    OBVIOUS
  <2>1. q.pc = "idle"
    BY <1>1 DEF NotDoneYet
  <2>2. p = "done"
    BY <1>1, <2>1 DEF Shown
  <2> QED  BY <2>2
<1>8. Backed'
  BY <1>1, <1>3, <1>4, <1>6 DEF Backed, Shown
<1>9. DoneIsBacked
  BY <1>3, <1>4, <1>7 DEF DoneIsBacked
<1> QED  BY <1>8, <1>9

\* Steps that send no row forward, complete no step, and take away the effects
\* of rollbacks only.
LEMMA OtherBacked ==
  ASSUME Backed,
         \A a \in Op :
           /\ db'[a].fwd = db[a].fwd
           /\ db'[a].status = "done" => db[a].status = "done"
           /\ Shown(db'[a], run'[a]) = "forward" => /\ Shown(db[a], run[a]) = "forward"
                                                    /\ effects[a] \subseteq effects'[a]
  PROVE  Backed' /\ DoneIsBacked
BY DEF Backed, DoneIsBacked, Shown

\* A start sends forward what is recorded, and records nothing itself.
LEMMA TryStartBacked ==
  ASSUME Inv, Inv', Clean, Backed, NEW o \in Op, o \notin InFlight,
         db[o].status \in {"pending", "compensating"}, TryStart(o)
  PROVE  Backed' /\ DoneIsBacked
<1>1. /\ RowOK(db[o]) /\ db[o] \in Row /\ db[o].fwd \subseteq 1..Def[o].steps
      /\ run[o].pc = "idle" /\ run \in [Op -> Runner] /\ UNCHANGED effects
  BY DEF Inv, TypeOK, Clean, Owed, RowOK, InFlight, TryStart
<1>2. CASE StartUnknown(o)
  <2> DEFINE r == [db[o] EXCEPT !.status = "failed", !.cancelReq = FALSE]
  <2>1. db' = [db EXCEPT ![o] = r] /\ UNCHANGED run
    BY <1>2 DEF StartUnknown
  <2>2. r.fwd = db[o].fwd /\ r.comp = db[o].comp /\ r.status = "failed"
    BY <1>1 DEF Row
  <2> HIDE DEF r
  <2> PICK S : S = LeftOver(db[o])
    OBVIOUS
  <2>3. Shown(r, run[o]) = "failed"
    BY <1>1, <2>2 DEF Shown
  <2>4. Lands(o, "failed", S, FALSE)
    BY <1>1, <2>1, <2>2, <2>3, EditLands
  <2> QED  BY <1>1, <2>4, LandsBacked
<1>3. CASE StartFencedChild(o)
  <2> DEFINE r == [db[o] EXCEPT !.status = "cancelled", !.cancelReq = FALSE,
                                !.cancelled = FALSE, !.fenced = TRUE]
  <2>1. Leave(o, r, Taken(o))
    BY <1>3 DEF StartFencedChild
  <2>2. r.status = "cancelled" /\ r.status \in Terminal
    BY <1>1 DEF Row, Terminal
  <2> HIDE DEF r
  <2> PICK S : S = LeftOver(r)
    OBVIOUS
  <2>3. Lands(o, "cancelled", S, FALSE)
    BY <2>1, <2>2, LeaveLands
  <2> QED  BY <1>1, <2>3, LandsBacked
<1>4. CASE StartExhausted(o)
  <2> DEFINE r == [db[o] EXCEPT !.status = "compensation_failed"]
  <2>1. Leave(o, r, Taken(o))
    BY <1>4 DEF StartExhausted
  <2>2. r.status = "compensation_failed" /\ r.status \in Terminal
    BY <1>1 DEF Row, Terminal
  <2> HIDE DEF r
  <2> PICK S : S = LeftOver(r)
    OBVIOUS
  <2>3. Lands(o, "compensation_failed", S, FALSE)
    BY <2>1, <2>2, LeaveLands
  <2> QED  BY <1>1, <2>3, LandsBacked
<1>5. CASE ResumeCompensation(o)
  <2> DEFINE n == db[o].attempt + 1
             r == [db[o] EXCEPT !.attempt = n]
  <2>1. RunCompensation(o, r, Taken(o)) /\ db[o].status = "compensating"
    BY <1>5 DEF ResumeCompensation
  <2>2. n \in Nat
    BY <1>1 DEF Row
  <2> HIDE DEF n
  <2>3. r \in Row /\ r.fwd = db[o].fwd /\ r.status = db[o].status
    BY <1>1, <2>2 DEF Row
  <2> HIDE DEF r
  <2>4. NotDoneYet(o, r)
    BY <2>3 DEF NotDoneYet
  <2> PICK S, U : S = LeftOver(r) /\ U = LeftOver(r) \ Def[o].undo
    OBVIOUS
  <2>5. Lands(o, "backward", S, TRUE) \/ \E p \in Rested : Lands(o, p, U, FALSE)
    BY <1>1, <2>1, <2>3, <2>4, RunCompensationLands
  <2> QED  BY <1>1, <2>5, LandsBacked DEF Rested
<1>6. CASE StartForward(o)
  <2> DEFINE n == db[o].attempt + 1
             r == [db[o] EXCEPT !.status = "running", !.attempt = n]
  <2>1. ForwardAfter(o, r, Taken(o), 0) /\ db[o].status = "pending"
    BY <1>6 DEF StartForward
  <2>2. n \in Nat /\ db[o].comp = {}
    BY <1>1, <2>1 DEF Row, RowOK
  <2> HIDE DEF n
  <2>3. r \in Row /\ r.fwd = db[o].fwd /\ r.comp = {} /\ r.status = "running"
    BY <1>1, <2>2 DEF Row, Status
  <2> HIDE DEF r
  <2> PICK S, U : S = LeftOver(r) /\ U = LeftOver(r) \ Def[o].undo
    OBVIOUS
  <2>4. S = db[o].fwd /\ S = r.fwd /\ NotDoneYet(o, r)
    BY <2>3 DEF LeftOver, NotDoneYet
  <2>5. S \ Def[o].awaits \subseteq effects[o]
    BY <1>1, <2>1, <2>4 DEF Backed, Shown
  <2>6. \A s \in 1..Def[o].steps : s <= 0 => s \in r.fwd
    BY DefType
  <2>7. \/ Lands(o, "forward", S, TRUE)
        \/ 1..Def[o].steps \subseteq S /\ Lands(o, "done", S, FALSE)
        \/ Lands(o, "backward", S, TRUE)
        \/ \E p \in Rested : Lands(o, p, U, FALSE)
    BY <1>1, <2>1, <2>3, <2>4, <2>6, ForwardAfterLands
  <2> QED  BY <1>1, <2>5, <2>7, LandsBacked DEF Rested
<1> QED  BY <1>2, <1>3, <1>4, <1>5, <1>6 DEF TryStart, StartKnown

\* A forward call records its step once the effect exists.
LEMMA ForwardBacked ==
  ASSUME Inv, Inv', Walk, Clean, Backed, NEW o \in Op, run[o].pc \in {"probe", "run"},
         ~CancelChildren(o), Forward(o)
  PROVE  Backed' /\ DoneIsBacked
<1>1. CASE EffectLands(o)
  <2>1. /\ UNCHANGED <<db, run>> /\ effects \in [Op -> SUBSET Nat]
        /\ effects' = [effects EXCEPT ![o] = effects[o] \union {run[o].step}]
    BY <1>1 DEF EffectLands, Inv, TypeOK
  <2>2. \A a \in Op : effects[a] \subseteq effects'[a]
    BY <2>1
  <2> QED  BY <2>1, <2>2, OtherBacked
<1>2. CASE ~EffectLands(o)
  <2>1. PICK W : /\ ForwardEnd(o, W)
                 /\ \/ W = LeftOver(db[o])
                    \/ \E s \in 1..Def[o].steps : /\ s \in effects[o] \union Def[o].awaits
                                                  /\ W = LeftOver(db[o]) \union {s}
    BY <1>2, ForwardEnds
  <2>2. UNCHANGED effects
    BY <1>2 DEF Forward, ProbeAdopts, ProbeMisses, ProbeRejects, RunReturns, RunThrows,
         ChildrenSucceeded, ChildrenFailed
  <2>3. W \ Def[o].awaits \subseteq effects[o]
    BY <2>1 DEF Backed, Shown, LeftOver
  <2> PICK U : U = W \ Def[o].undo
    OBVIOUS
  <2>4. \/ Lands(o, "forward", W, TRUE)
        \/ 1..Def[o].steps \subseteq W /\ Lands(o, "done", W, FALSE)
        \/ Lands(o, "backward", W, TRUE)
        \/ \E p \in Rested : Lands(o, p, U, FALSE)
    BY <2>1 DEF ForwardEnd
  <2> QED  BY <2>2, <2>3, <2>4, LandsBacked DEF Rested
<1> QED  BY <1>1, <1>2

\* A compensation removes effects of a row that no longer goes forward.
LEMMA BackwardBacked ==
  ASSUME Inv, Inv', Walk, Clean, Backed, NEW o \in Op,
         run[o].pc \in {"probeGone", "undo"}, Backward(o)
  PROVE  Backed' /\ DoneIsBacked
<1>1. CASE EffectUndone(o)
  <2>1. /\ UNCHANGED <<db, run>> /\ effects \in [Op -> SUBSET Nat]
        /\ effects' = [effects EXCEPT ![o] = effects[o] \ {run[o].step}]
    BY <1>1 DEF EffectUndone, Inv, TypeOK
  <2>2. Shown(db[o], run[o]) # "forward"
    BY DEF Shown
  <2>3. \A a \in Op : a # o => effects'[a] = effects[a]
    BY <2>1
  <2> QED  BY <2>1, <2>2, <2>3, OtherBacked
<1>2. CASE ~EffectUndone(o)
  <2>1. PICK W : BackwardEnd(o, W)
    BY <1>2, BackwardEnds
  <2>2. UNCHANGED effects
    BY <1>2 DEF Backward, FoundGone, NotGone, UndoReturns, UndoThrows
  <2> PICK U : U = W \ Def[o].undo
    OBVIOUS
  <2>3. \/ Lands(o, "backward", W, TRUE)
        \/ Lands(o, "backward", W, FALSE)
        \/ Lands(o, "compensation_failed", W, FALSE)
        \/ \E p \in Rested : Lands(o, p, U, FALSE)
    BY <2>1 DEF BackwardEnd
  <2> QED  BY <2>2, <2>3, LandsBacked DEF Rested
<1> QED  BY <1>1, <1>2

\* Steps beside the runners: none of them brings a row to "done" but the
\* finalize of an operator.
LEMMA EditBacked ==
  ASSUME Inv, Backed, UNCHANGED <<run, effects>>,
         \A a \in Op :
           /\ db'[a].fwd = db[a].fwd
           /\ \/ db'[a].status = db[a].status
              \/ db'[a].status \in Terminal \ {"done"}
              \/ db'[a].status = "pending" /\ db[a].status = "running"
              \/ db'[a].status = "compensating" /\ run[a].pc = "idle"
  PROVE  Backed' /\ DoneIsBacked
<1>1. ASSUME NEW a \in Op
      PROVE  /\ db'[a].status = "done" => db[a].status = "done"
             /\ Shown(db'[a], run'[a]) = "forward" => Shown(db[a], run[a]) = "forward"
  BY DEF Shown, Terminal
<1> QED  BY <1>1, OtherBacked

\* Cancel, retry and finalize.
LEMMA OperatorBacked ==
  ASSUME Inv, Walk, Backed, NEW o \in Op, Operator(o)
  PROVE  Backed' /\ (NoRequest => DoneIsBacked)
<1>1. /\ UNCHANGED <<run, effects>> /\ db \in [Op -> Row] /\ db[o] \in Row

  BY DEF Inv, TypeOK, Operator, Cancel, Retry, FinalizeCheck, FinalizeWrite
<1>2. CASE UNCHANGED db
  BY <1>1, <1>2, EditBacked
<1>3. CASE Cancel(o)
  <2> DEFINE r == Requested(db[o])
  <2>1. db' = [db EXCEPT ![o] = r] /\ db[o].status \in {"pending", "running"}
    BY <1>3 DEF Cancel
  <2>2. r.fwd = db[o].fwd /\ (r.status = db[o].status \/ r.status = "cancelled")
    BY <1>1, <2>1 DEF Requested, Row
  <2> HIDE DEF r
  <2>3. db'[o] = r /\ \A a \in Op : a # o => db'[a] = db[a]
    BY <1>1, <2>1
  <2>4. r.status = db[o].status \/ r.status \in Terminal \ {"done"}
    BY <2>2 DEF Terminal
  <2> QED  BY <1>1, <2>2, <2>3, <2>4, EditBacked
<1>4. CASE Retry(o)
  <2> DEFINE r == Requeued(db[o])
  <2>1. /\ db' = [db EXCEPT ![o] = r]
        /\ db[o].status \in {"pending", "running", "compensating", "compensation_failed"}
    BY <1>4 DEF Retry
  <2>2. run[o].pc = "idle"
    BY <1>4, NotHeldIdle DEF Retry
  <2>3. /\ r.fwd = db[o].fwd
        /\ \/ r.status = "compensating"
           \/ r.status = "pending" /\ db[o].status \in {"pending", "running"}
    BY <1>1, <2>1 DEF Requeued, Row
  <2> HIDE DEF r
  <2>4. db'[o] = r /\ \A a \in Op : a # o => db'[a] = db[a]
    BY <1>1, <2>1
  <2> QED  BY <1>1, <2>2, <2>3, <2>4, EditBacked
<1>5. ASSUME NEW st \in Finalized, finalizing' = finalizing \ {o}, o \in finalizing,
             db' = [db EXCEPT ![o] = [db[o] EXCEPT !.status = st, !.cancelReq = FALSE,
                                                   !.fenced = FALSE]]
      PROVE  Backed' /\ (NoRequest => DoneIsBacked)
  <2> DEFINE r == [db[o] EXCEPT !.status = st, !.cancelReq = FALSE, !.fenced = FALSE]
  <2>1. r.fwd = db[o].fwd /\ r.status = st
    BY <1>1 DEF Row
  <2>2. db' = [db EXCEPT ![o] = r]
    BY <1>5
  <2> HIDE DEF r
  <2>3. db'[o] = r /\ \A a \in Op : a # o => db'[a] = db[a]
    BY <1>1, <2>2
  <2>4. Shown(r, run[o]) = "forward" => Shown(db[o], run[o]) = "forward"
    BY <1>5, <2>1 DEF Shown, Finalized
  <2>5. Backed'
    BY <1>1, <2>1, <2>3, <2>4 DEF Backed, Shown
  <2>6. ~NoRequest
    BY <1>5 DEF NoRequest
  <2> QED  BY <2>5, <2>6
<1> QED  BY <1>2, <1>3, <1>4, <1>5 DEF Operator, FinalizeCheck, FinalizeWrite

\* Every step of the engine.
LEMMA StepBacked ==
  ASSUME Inv, Inv', Walk, Clean, Backed, [Next]_vars
  PROVE  Backed' /\ (NoRequest => DoneIsBacked)
<1>1. CASE UNCHANGED <<db, run, effects>>
  BY <1>1, EditBacked
<1>2. ASSUME NEW o \in Op, Enqueue(o)
      PROVE  Backed' /\ DoneIsBacked
  <2> DEFINE n == Cardinality(Present) + 1
             r == [NoRow EXCEPT !.status = "pending", !.id = n]
  <2>1. db' = [db EXCEPT ![o] = r] /\ UNCHANGED <<run, effects>> /\ db[o].status = "absent"
    BY <1>2 DEF Enqueue
  <2> HIDE DEF n
  <2>2. r.status = "pending" /\ r.fwd = {}
    BY DEF NoRow
  <2> HIDE DEF r
  <2>3. db'[o] = r /\ \A a \in Op : a # o => db'[a] = db[a]
    BY <2>1 DEF Inv, TypeOK
  <2> QED  BY <2>1, <2>2, <2>3 DEF Backed, DoneIsBacked, Shown
<1>3. ASSUME NEW o \in Op, TickStart(o) \/ SweepRequeue(o)
      PROVE  Backed' /\ DoneIsBacked
  <2>1. o \notin InFlight /\ TryStart(o) /\ db[o].status \in {"pending", "compensating"}
    BY <1>3 DEF TickStart, Startable, Window, Pending, SweepRequeue
  <2> QED  BY <2>1, TryStartBacked
<1>4. ASSUME NEW o \in Op, CancelChildren(o)
      PROVE  Backed' /\ DoneIsBacked
  <2>1. /\ db' = [c \in Op |-> IF c \in ChildrenOf(o) THEN Requested(db[c]) ELSE db[c]]
        /\ UNCHANGED <<run, effects>>
    BY <1>4 DEF CancelChildren
  <2>2. ASSUME NEW a \in Op
        PROVE  /\ db'[a].fwd = db[a].fwd
               /\ db'[a].status = db[a].status \/ db'[a].status = "cancelled"
    <3>1. db[a] \in Row
      BY DEF Inv, RowOK
    <3>2. db'[a] = db[a] \/ db'[a] = Requested(db[a])
      BY <2>1
    <3> QED  BY <3>1, <3>2 DEF Requested, Row
  <2> QED  BY <2>1, <2>2, EditBacked DEF Terminal
<1>5. ASSUME NEW o \in Op, Forward(o) \/ Backward(o), ~CancelChildren(o)
      PROVE  Backed' /\ DoneIsBacked
  <2>1. CASE Forward(o)
    <3>1. run[o].pc \in {"probe", "run"}
      BY <1>5, <2>1 DEF Forward, ProbeAdopts, ProbeMisses, ProbeRejects, EffectLands,
         RunReturns, RunThrows, ChildrenSucceeded, ChildrenFailed, Awaiting, At
    <3> QED  BY <1>5, <2>1, <3>1, ForwardBacked
  <2>2. CASE Backward(o)
    <3>1. run[o].pc \in {"probeGone", "undo"}
      BY <2>2 DEF Backward, FoundGone, NotGone, EffectUndone, UndoReturns, UndoThrows, At
    <3> QED  BY <2>2, <3>1, BackwardBacked
  <2> QED  BY <1>5, <2>1, <2>2
<1>6. ASSUME NEW o \in Op, SweepExhausted(o)
      PROVE  Backed' /\ DoneIsBacked
  <2> DEFINE r == [db[o] EXCEPT !.status = "compensation_failed"]
  <2>1. db' = [db EXCEPT ![o] = r] /\ UNCHANGED <<run, effects>>
    BY <1>6 DEF SweepExhausted
  <2>2. db \in [Op -> Row] /\ db[o] \in Row
    BY DEF Inv, TypeOK
  <2>3. r.fwd = db[o].fwd /\ r.status = "compensation_failed"
    BY <2>2 DEF Row
  <2> HIDE DEF r
  <2>4. db'[o] = r /\ \A a \in Op : a # o => db'[a] = db[a]
    BY <2>1, <2>2
  <2> QED  BY <2>1, <2>3, <2>4, EditBacked DEF Terminal
<1>7. CASE Crash
  <2>1. UNCHANGED <<db, effects>> /\ \A a \in Op : run'[a] = Idle
    BY <1>7 DEF Crash
  <2>2. ASSUME NEW a \in Op, Shown(db[a], Idle) = "forward"
        PROVE  Shown(db[a], run[a]) = "forward"
    <3>1. RunnerOK(db[a], run[a])
      BY DEF Inv
    <3> QED  BY <2>2, <3>1 DEF Shown, Idle, RunnerOK, Runner, Undoing, Finalized
  <2>3. \A a \in Op : Shown(db'[a], run'[a]) = "forward" => Shown(db[a], run[a]) = "forward"
    BY <2>1, <2>2
  <2> QED  BY <2>1, <2>3, OtherBacked
<1>8. CASE Restart
  <2>1. UNCHANGED <<run, effects>> /\ \A a \in Op : db'[a] = Resumed(db[a])
    BY <1>8 DEF Restart
  <2>2. ASSUME NEW a \in Op
        PROVE  /\ db'[a].fwd = db[a].fwd
               /\ \/ db'[a].status = db[a].status
                  \/ db[a].status = "running" /\ db'[a].status = "pending"
    <3>1. db[a] \in Row
      BY DEF Inv, RowOK
    <3> QED  BY <2>1, <3>1 DEF Resumed, Row
  <2> QED  BY <2>1, <2>2, EditBacked
<1>9. ASSUME NEW k \in Key, EnterSection(k) \/ LeaveSection(k)
      PROVE  Backed' /\ (NoRequest => DoneIsBacked)
  <2>1. UNCHANGED <<db, run, effects>>
    BY <1>9 DEF EnterSection, LeaveSection
  <2> QED  BY <1>1, <2>1
<1>10. CASE UNCHANGED vars
  BY <1>1, <1>10 DEF vars
<1> QED  BY <1>2, <1>3, <1>4, <1>5, <1>6, <1>7, <1>8, <1>9, <1>10, OperatorBacked
        DEF Next, Sweep

\* The empty tables.
LEMMA InitBacked == Init => Backed
BY DEF Init, Backed, Shown, NoRow, Idle

\* The engine reports "done" only when every side effect of the kind exists
\* (but for steps that only wait for children): over adopted probes, steps
\* replayed after a crash, and rollbacks of the same operation.
THEOREM DoneIsDone == Spec => DoneMeansDone
<1>1. Inv /\ Inv' /\ Walk /\ Clean /\ Backed /\ [Next]_vars => Backed'
  BY StepBacked
<1>2. Inv /\ Inv' /\ Walk /\ Clean /\ Backed /\ [Next]_vars =>
        [\A o \in Op : db[o].status # "done" /\ db'[o].status = "done" /\ NoRequest
           => (1..Def[o].steps) \ Def[o].awaits \subseteq effects'[o]]_vars
  BY StepBacked DEF DoneIsBacked
<1> QED  BY <1>1, <1>2, InitInv, InitClean, InitBacked, StepInv, StepClean,
            WalksStayOnTrack, PTL DEF Spec, DoneMeansDone
=============================================================================
