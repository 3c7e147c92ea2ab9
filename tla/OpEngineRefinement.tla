------------------------- MODULE OpEngineRefinement -------------------------
(***************************************************************************)
(* The operation engine implements Saga.  While an operation has a runner, *)
(* the runner decides whether it goes forward or back: what the sweep or   *)
(* an operator wrote to its row underneath takes effect when the runner is *)
(* gone.  Without a runner the durable status decides.                     *)
(***************************************************************************)
EXTENDS OpEngine

PhaseOf(o) ==
  CASE run[o].pc \in {"probe", "run"}          -> "forward"
    [] run[o].pc \in {"probeGone", "undo"}     -> "backward"
    [] o \notin InFlight /\ db[o].status \in {"pending", "running"} -> "forward"
    [] o \notin InFlight /\ db[o].status = "compensating"           -> "backward"
    [] OTHER                                   -> db[o].status

Promise == INSTANCE Saga WITH
  Keys   <- [o \in Op |-> Def[o].keys],
  Steps  <- [o \in Op |-> Def[o].steps],
  Undo   <- [o \in Op |-> Def[o].undo],
  phase  <- [o \in Op |-> PhaseOf(o)],
  owed   <- [o \in Op |-> db[o].fwd \ db[o].comp],
  active <- InFlight

\* engine.ts and step-runner.ts keep the promise their callers rely on: every
\* operation is a saga over its steps and keys, over every interleaving of
\* ticks, sweeps, requests, crashes and late answers.
ImplementsSaga == Promise!Spec
=============================================================================
