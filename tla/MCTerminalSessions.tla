------------------------- MODULE MCTerminalSessions -------------------------
(* A small instance of TerminalSessions: a project that may be found in two folders,
   and another one.                                                             *)
EXTENDS TerminalSessions, TLC

CONSTANTS P, Q, R1, R2

MCFolders == {[project |-> P, root |-> R1], [project |-> P, root |-> R2],
              [project |-> Q, root |-> R1]}

(* With two starts: the total decides, the project decides, neither does. *)
MCCaps == {[perProject |-> 2, total |-> 1], [perProject |-> 1, total |-> 2],
           [perProject |-> 2, total |-> 2]}

(* No action tells one start from another. *)
MCSymmetry == Permutations(Starts)

============================================================================
