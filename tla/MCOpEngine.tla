----------------------------- MODULE MCOpEngine -----------------------------
(* Small instances of OpEngine. *)
EXTENDS OpEngineRefinement

CONSTANTS deploy, redeploy, stack, child, removal, legacy, name, app, gone, other, stk

\* A row on its own: two compensable steps under the key "app", nothing parked.
Plain == [keys |-> {app}, owned |-> {app}, steps |-> 2, probed |-> {}, undo |-> {1, 2},
          probedGone |-> {}, awaits |-> {}, parent |-> NoParent, at |-> 0,
          inserts |-> 0, joins |-> {}, erases |-> 0, acts |-> FALSE,
          destroys |-> FALSE, known |-> TRUE]
OneStep == [Plain EXCEPT !.steps = 1, !.undo = {1}]

\* A deploy under the name of the app: a volume, with a probe, the row, with a
\* probeCompensated, and the container; a later, one-step redeploy under the id
\* that the row gave the app.
SagaDef == [o \in Op |->
  IF o = deploy
  THEN [Plain EXCEPT !.keys = {name}, !.owned = {name}, !.steps = 3, !.undo = {1, 2, 3},
                     !.probed = {1}, !.probedGone = {2}, !.inserts = 2, !.joins = {name, app}]
  ELSE [OneStep EXCEPT !.acts = TRUE]]

\* A stack deploy that waits for the deploy of one member, then for the removal
\* of another; a redeploy of the first member, which takes the key of the stack
\* too; a row of a kind that no longer exists.
Stack == [Plain EXCEPT !.keys = {stk}, !.owned = {stk}, !.undo = {}, !.awaits = {1, 2}]
Child == [OneStep EXCEPT !.parent = stack, !.at = 1, !.keys = {name}, !.owned = {name},
                         !.inserts = 1, !.joins = {name, app}]
Removal == [OneStep EXCEPT !.parent = stack, !.at = 2, !.keys = {gone}, !.owned = {gone},
                           !.undo = {}, !.erases = 1, !.destroys = TRUE]
Member == [OneStep EXCEPT !.keys = {app, stk}, !.owned = {app, stk}, !.acts = TRUE]
QueueDef == [o \in Op |->
  CASE o = stack   -> Stack
    [] o = legacy  -> [OneStep EXCEPT !.keys = {other}, !.owned = {other}, !.known = FALSE]
    [] o = child   -> Child
    [] o = removal -> Removal
    [] OTHER       -> Member]
=============================================================================
