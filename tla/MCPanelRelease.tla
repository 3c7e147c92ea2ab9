--------------------------- MODULE MCPanelRelease ---------------------------
(* A small instance of PanelRelease: the panel in service, a good release with
   a migration, and one with a migration that never becomes healthy. *)
EXTENDS PanelRelease

CONSTANTS base, good, bad

Schemas == [i \in Image |-> IF i = base THEN 1 ELSE 2]
=============================================================================
