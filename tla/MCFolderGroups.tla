--------------------------- MODULE MCFolderGroups ---------------------------
(* A small instance of FolderGroups for TLC: one file in a folder, one in the folder above. *)
EXTENDS FolderGroups, TLC
CONSTANTS f1, f2
MCHome == f1 :> <<"a", "b">> @@ f2 :> <<"a">>
MCFolders == {<<"a">>, <<"b">>, <<"a", "b">>, <<"b", "b">>}
=============================================================================
