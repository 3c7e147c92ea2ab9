------------------------------ MODULE MCStack ------------------------------
(* Small instances of Stack: a web server that needs its database. *)
EXTENDS Stack

CONSTANTS web, data

Two == {web, data}
WebNeedsData == [m \in Two |-> IF m = web THEN {data} ELSE {}]

Deploy(declared, selected, image) ==
  [apps |-> declared, selected |-> selected, partial |-> selected # declared, image |-> image]

\* The web server with all it needs, at one image; at the next the data alone.
Changes == <<Deploy(Two, {web}, 1), Deploy({data}, {data}, 2)>>
=============================================================================
