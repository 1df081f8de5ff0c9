---------------------------- MODULE MCEditorSaves ----------------------------
(* A small instance of EditorSaves. *)
EXTENDS EditorSaves, TLC

(* No action tells one text from another. *)
MCSymmetry == Permutations(Texts)

============================================================================
