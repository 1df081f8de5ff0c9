--------------------------- MODULE MCPositionOutbox ---------------------------
(* Small instances of PositionOutbox for TLC. *)
EXTENDS PositionOutbox, TLC

CONSTANTS A, B, C

(* C is a folder copy of A. *)
MCInstanceOfOne == (A :> A)
MCInstanceOfAll == (A :> A) @@ (B :> B) @@ (C :> A)
=============================================================================
