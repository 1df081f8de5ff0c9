------------------------- MODULE MCProjectCreation -------------------------
(* A small instance of ProjectCreation. *)
EXTENDS ProjectCreation

CONSTANTS f1, f2

MCBlueprint == <<f1, f2>>

============================================================================
