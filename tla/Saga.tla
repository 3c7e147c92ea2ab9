-------------------------------- MODULE Saga --------------------------------
(***************************************************************************)
(* What the operation engine promises to whoever enqueues operations: each *)
(* operation is a saga.  It goes forward step by step, or it turns back    *)
(* for good; it works only while no other operation works under one of its *)
(* keys; "done" means that every step was completed, a rollback that every *)
(* completed step that can be undone is off the books; and a settled       *)
(* operation is touched by operators only.  Runners, attempts, probes,     *)
(* fences and the lock table are gone.  OpEngineRefinement shows that the  *)
(* engine implements this specification.                                   *)
(***************************************************************************)
EXTENDS Naturals

CONSTANTS
  Op,    \* operations
  Keys,  \* the resource keys of each operation
  Steps, \* the number of its steps
  Undo   \* its steps that can be undone

VARIABLES
  phase,  \* absent, forward, backward, or the outcome of a settled operation
  owed,   \* its completed steps that were not undone
  active  \* the operations at work

vars == <<phase, owed, active>>

Outcome == {"done", "failed", "cancelled", "compensated", "compensation_failed"}

TypeOK ==
  /\ phase \in [Op -> {"absent", "forward", "backward"} \union Outcome]
  /\ owed \in [Op -> SUBSET Nat]
  /\ active \in SUBSET Op

Init ==
  /\ phase = [o \in Op |-> "absent"]
  /\ owed = [o \in Op |-> {}]
  /\ active = {}

-----------------------------------------------------------------------------
\* No other operation is at work under a key of o.
MayWork(o) == \A n \in active : n # o => Keys[n] \intersect Keys[o] = {}

To(o, p) == phase' = [phase EXCEPT ![o] = p]
Owes(o, S) == owed' = [owed EXCEPT ![o] = S]
\* What o owes when it completed at most one more step,
More(o) == {owed[o]} \union {owed[o] \union {s} : s \in 1..Steps[o]}
\* and when it undid some of what can be undone.
Fewer(o) == {S \in SUBSET owed[o] : owed[o] \ S \subseteq Undo[o]}

Submit(o) ==
  /\ phase[o] = "absent"
  /\ To(o, "forward")
  /\ UNCHANGED <<owed, active>>

Advance(o) ==
  /\ phase[o] = "forward" /\ MayWork(o)
  /\ \E S \in More(o) : Owes(o, S)
  /\ active' = active \union {o}
  /\ UNCHANGED phase

Complete(o) ==
  /\ phase[o] = "forward" /\ MayWork(o)
  /\ To(o, "done")
  /\ \E S \in More(o) : 1..Steps[o] \subseteq S /\ Owes(o, S)
  /\ active' = active \ {o}

TurnBack(o) ==
  /\ phase[o] = "forward" /\ MayWork(o)
  /\ To(o, "backward")
  /\ \E S \in More(o) : Owes(o, S)
  /\ active' = active \union {o}

\* Goes on with the rollback, or ends a pass of it and rests.
UndoSome(o) ==
  /\ phase[o] = "backward" /\ MayWork(o)
  /\ \E S \in Fewer(o) : Owes(o, S)
  /\ active' \in {active \union {o}, active \ {o}}
  /\ UNCHANGED phase

RolledBack(o) ==
  /\ phase[o] \in {"forward", "backward"} /\ MayWork(o)
  /\ \E p \in {"compensated", "cancelled", "failed"} : To(o, p)
  /\ \E S \in IF phase[o] = "forward" THEN More(o) ELSE {owed[o]} : Owes(o, S \ Undo[o])
  /\ active' = active \ {o}

GiveUp(o) ==
  /\ phase[o] = "backward"
  /\ To(o, "compensation_failed")
  /\ \E S \in Fewer(o) : Owes(o, S)
  /\ active' = active \ {o}

\* Operations that are not at work leave the queue: cancelled by an operator or
\* by the parent, fenced off, or of no known kind.
Withdraw(W) ==
  /\ W \intersect active = {}
  /\ \A o \in W : phase[o] \in {"forward", "backward"}
  /\ \E p \in {"cancelled", "failed"} :
       phase' = [o \in Op |-> IF o \in W THEN p ELSE phase[o]]
  /\ UNCHANGED <<owed, active>>

\* An operator asks for more passes of a rollback that was given up.
Reopen(o) ==
  /\ phase[o] = "compensation_failed"
  /\ To(o, "backward")
  /\ UNCHANGED <<owed, active>>

\* An operator declares the outcome.
Override(o) ==
  /\ o \notin active
  /\ phase[o] # "absent"
  /\ \E p \in {"done", "failed"} : To(o, p)
  /\ UNCHANGED <<owed, active>>

\* All work stops.  What an operator or the sweep settled underneath a runner
\* shows only now.
Crash ==
  /\ active' = {}
  /\ \E p \in [active -> {"done", "failed", "compensation_failed", "stays"}] :
       phase' = [o \in Op |-> IF o \in active /\ p[o] # "stays" THEN p[o] ELSE phase[o]]
  /\ UNCHANGED owed

Next ==
  \/ \E o \in Op : Submit(o) \/ Advance(o) \/ Complete(o) \/ TurnBack(o)
  \/ \E o \in Op : UndoSome(o) \/ RolledBack(o) \/ GiveUp(o)
  \/ \E W \in SUBSET Op : Withdraw(W)
  \/ \E o \in Op : Reopen(o) \/ Override(o)
  \/ Crash

Spec == Init /\ [][Next]_vars
=============================================================================
