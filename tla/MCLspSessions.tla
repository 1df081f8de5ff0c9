--------------------------- MODULE MCLspSessions ---------------------------
(* A small instance of LspSessions: every start names the key of the document. *)
EXTENDS LspSessions, TLC

CONSTANTS P, R

MCDocumentKey == [project |-> P, root |-> R]
MCKeys == {MCDocumentKey}

(* No action tells one start from another. *)
MCSymmetry == Permutations(Starts)

============================================================================
