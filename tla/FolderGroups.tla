---------------------------- MODULE FolderGroups ----------------------------
(***************************************************************************)
(* Folders on disk and their groups on the canvas: the operations of the   *)
(* filesystem write manager (filesystemWriteManager.js, groupDomain.js),   *)
(* each of which changes the disk first and the canvas when the answer has *)
(* come, the pass that brings groups and folders together                  *)
(* (useGroupFolderReconciliation.js, reconcileGroupsWithFolders.js), and   *)
(* another program that changes the same folders (useDiskChanges.js).      *)
(*                                                                         *)
(* A path is the sequence of its folders' names; a file keeps its name and *)
(* no two files share one, so a file's path is its folder.  Text, tabs,    *)
(* connections, the index, the database, parent links and undo are left    *)
(* out, and so are merging and renaming groups (see README).               *)
(***************************************************************************)
EXTENDS Naturals, FiniteSets, SequencesExt

CONSTANTS
    Files,
    Folders,     \* the paths a folder may have (bound)
    Ops,         \* operations of the person; each happens once (bound)
    Home,        \* where each file is at first
    None,        \* nothing; no folder
    MaxActs      \* bound: operations begun and changes by another program

Root == <<>>

Names == UNION {Range(d) : d \in Folders}
Paths == Seq(Names)

ASSUME FoldersAssumption ==
    /\ IsFiniteSet(Files) /\ Folders \subseteq Paths
    /\ Home \in [Files -> Folders \cup {Root}]
    /\ Root \notin Folders
    /\ MaxActs \in Nat

VARIABLES
    dirs,      \* folders on disk
    at,        \* per file: its folder on disk, None when it is deleted
    pieces,    \* per file: the folder its piece names, None when it has no piece
    groups,    \* the groups, in the order of the canvas
    given,     \* ids given to groups so far
    op,        \* per operation: what it is, how far it is and the render it sees
    pend,      \* pendingFolderGroups of the managers that operations hold
    render,    \* counts the renders that operations hold, from 0
    pass,      \* the pass under way
    unseen,    \* the tree changed since it was last checked, or since the launch
    stamped,   \* the tree was checked once
    outside,   \* history: changes by another program
    strayed,   \* history: files moved by another program and not followed yet, or lost by
               \*   the deletion of a folder that failed
    overlapped, \* history: an operation began before another had ended
    entangled, \* history: a pass changed the groups while an operation was in flight, a
               \*   folder took the place of another or of what a group shows, or an
               \*   operation began while a piece's folder had no group
    missed     \* history: the last refresh came to nothing or could not list the tree, or the
               \*   first check found changes that no pass was about to list

treeVars == <<dirs, at>>
canvasVars == <<pieces, groups, given>>
history == <<strayed, overlapped, entangled>>
folderVars == <<treeVars, canvasVars, op, pend, render, pass, unseen, stamped, outside, history, missed>>

Acts == outside + Cardinality({o \in Ops : op[o].at # "new"})
Resting(o) == op[o].at \in {"new", "done"}

Under(p, d) == IsPrefix(d, p)
Rebased(p, from, to) == to \o SubSeq(p, Len(from) + 1, Len(p))
WithParents(d) == {SubSeq(d, 1, n) : n \in 1..Len(d)}

GroupsOf(f, gs) == {i \in DOMAIN gs : f \in gs[i].members}
Owners(d, gs) == {i \in DOMAIN gs : gs[i].folder = d}
GroupAt(d, gs) == gs[Min(Owners(d, gs))]
Without(gs, ids) ==
    LET left == {i \in DOMAIN gs : gs[i].id \notin ids}
        nth(k) == CHOOSE i \in left : Cardinality({j \in left : j <= i}) = k
    IN [k \in 1..Cardinality(left) |-> gs[nth(k)]]
WithoutFiles(gs, F) == [i \in DOMAIN gs |-> [gs[i] EXCEPT !.members = @ \ F]]

----------------------------------------------------------------------------
(* A render: after the canvas changed, after a refresh was asked for, or both.  A change
   cancels the pass under way, and a refresh starts one.  Only the pass of the launch is
   begun again when it is cancelled; it waits for the first piece.                *)
Rendered(changed, refreshed) ==
    LET due == pass.due /\ \E f \in Files : pieces'[f] # None
        next == IF refreshed \/ (changed /\ due) THEN "reading"
                ELSE IF changed THEN "none" ELSE pass.at
    IN /\ pass' = [at |-> next, dirs |-> IF next = "read" THEN pass.dirs ELSE {},
                   due |-> pass.due]
       /\ missed' = (next # "reading" /\ (missed \/ (changed /\ pass.at # "none")))

(* The managers that operations in flight hold.  The render counts on only while one of
   them was made in the current render, and what a manager no one holds kept is gone. *)
Managers(entries, changed) ==
    LET held == {op'[o].render : o \in {o \in Ops : op'[o].at \notin {"new", "done"}}} IN
    /\ pend' = {e \in entries : e.render \in held}
    /\ render' = IF held = {} THEN 0
                 ELSE IF changed /\ render \in held THEN render + 1 ELSE render

(* An operation goes on; one that has followed needs no more than its manager. *)
Goes(o, stage) ==
    op' = [op EXCEPT ![o] = CASE stage = "done" -> [at |-> stage]
                              [] stage = "followed" -> [at |-> stage, render |-> @.render]
                              [] OTHER -> [@ EXCEPT !.at = stage]]

IsNext(o) == op[o].at = "new" /\ o = CHOOSE r \in Ops : op[r].at = "new"

(* A piece's folder has no group: a deletion that failed has removed it from the canvas,
   and the pass has yet to make it again.                                         *)
Ungrouped == \E f \in Files \ strayed : /\ pieces[f] \notin {None, Root}
                                        /\ Owners(pieces[f], groups) = {}

(* useFilesystemWriteManager: an operation sees the render it is begun in, to its end. *)
Begins(o, what) ==
    /\ IsNext(o) /\ Acts < MaxActs
    /\ op' = [op EXCEPT ![o] = [at |-> "asked", what |-> what,
                                pieces |-> pieces, groups |-> groups, render |-> render]]
    /\ overlapped' = (overlapped \/ \E q \in Ops : ~Resting(q))
    /\ entangled' = (entangled \/ Ungrouped)
    /\ UNCHANGED <<treeVars, canvasVars, pend, render, pass, unseen, stamped, outside>>
    /\ UNCHANGED <<strayed, missed>>

Known == dirs \cup {groups[i].folder : i \in DOMAIN groups}

(* A drag on the canvas or in the drawer: createHandlePieceGroupDrop, handleScaffoldDrop. *)
AskMoveFile(o, f, to) ==
    \E from \in {pieces[f], at[f]} \ {None, to} :
        /\ to \in Known \cup {Root}
        /\ Begins(o, [kind |-> "file", file |-> f, from |-> from, to |-> to])

(* nestGroup, unnestGroup, handleScaffoldDrop, handleContextRename. *)
AskMoveFolder(o, from, to) ==
    /\ from \in Known /\ to # from
    /\ Front(to) \in Known \cup {Root}
    /\ Last(to) = Last(from) \/ Front(to) = Front(from)
    /\ Begins(o, [kind |-> "folder", from |-> from, to |-> to])

(* handleDeleteSelected, handleContextDelete. *)
AskDeleteFile(o, f) ==
    \E from \in {pieces[f], at[f]} \ {None} :
        Begins(o, [kind |-> "rmfile", file |-> f, from |-> from])

(* handleContextDelete, handleDeleteSelected on a group, handleContextNewFolder and
   handleCommitGroupCreate.                                                       *)
AskForFolder(o, d) ==
    \/ (d \in dirs /\ Begins(o, [kind |-> "rmdir", from |-> d]))
    \/ \E i \in Owners(d, groups) :
           Begins(o, [kind |-> "rmgroup", from |-> d, group |-> groups[i].id])
    \/ /\ Front(d) \in Known \cup {Root} /\ d \notin dirs
       /\ Begins(o, [kind |-> "mkdir", from |-> d])
    \/ /\ Front(d) \in Known \cup {Root} /\ Owners(d, groups) = {}
       /\ ~(\E f \in Files : pieces[f] # None /\ Under(pieces[f], d))
       /\ Begins(o, [kind |-> "mkgroup", from |-> d])

----------------------------------------------------------------------------
(* The disk, for Litria and for another program. *)
MoveFileOnDisk(f, from, to) ==
    /\ at[f] = from
    /\ at' = [at EXCEPT ![f] = to]
    /\ dirs' = dirs \cup WithParents(to)

(* move_project_path: an empty folder of that name is replaced. *)
MoveFolderOnDisk(from, to) ==
    LET moved(p) == IF p # None /\ Under(p, from) THEN Rebased(p, from, to) ELSE p IN
    /\ from \in dirs /\ ~Under(to, from)
    /\ \A p \in ((dirs \ {to}) \cup {at[f] : f \in Files}) \ {None} : ~Under(p, to)
    /\ \A d \in dirs : moved(d) \in Folders
    /\ dirs' = {moved(d) : d \in dirs} \cup WithParents(to)
    /\ at' = [f \in Files |-> IF at[f] = None THEN None ELSE moved(at[f])]

RemoveOnDisk(d) ==
    /\ dirs' = {e \in dirs : ~Under(e, d)}
    /\ at' = [f \in Files |-> IF at[f] # None /\ Under(at[f], d) THEN None ELSE at[f]]

MakeOnDisk(d) == dirs' = dirs \cup WithParents(d) /\ UNCHANGED at

(* A folder comes where another folder is, or where a group still shows one. *)
TakesPlace(w) ==
    \/ w.to \in dirs
    \/ \E i \in DOMAIN groups : Under(groups[i].folder, w.to) /\ ~Under(groups[i].folder, w.from)

(* The shell's half of an operation (moveProjectPath, deleteProjectPath, ...).  Deleting
   what is not there succeeds.                                                    *)
Effect(o) ==
    LET w == op[o].what IN
    /\ op[o].at = "asked"
    /\ \/ (w.kind = "file" /\ MoveFileOnDisk(w.file, w.from, w.to))
       \/ (w.kind = "folder" /\ MoveFolderOnDisk(w.from, w.to))
       \/ /\ w.kind = "rmfile" /\ UNCHANGED dirs
          /\ at' = [at EXCEPT ![w.file] = IF @ = w.from THEN None ELSE @]
       \/ (w.kind \in {"rmdir", "rmgroup"} /\ RemoveOnDisk(w.from))
       \/ (w.kind \in {"mkdir", "mkgroup"} /\ MakeOnDisk(w.from))
    /\ unseen' = (unseen \/ treeVars' # treeVars)
    /\ entangled' = (entangled \/ (w.kind = "folder" /\ TakesPlace(w)))
    /\ Goes(o, "made")
    /\ UNCHANGED <<canvasVars, pend, render, pass, stamped, outside, strayed, overlapped, missed>>

(* A move or a creation that fails may have made the folders above its destination. *)
ParentsMade(w) ==
    CASE w.kind = "file" /\ at[w.file] = w.from -> {w.to}
      [] w.kind = "folder" /\ w.from \in dirs -> {Front(w.to)}
      [] w.kind \in {"mkdir", "mkgroup"} -> {Front(w.from)}
      [] OTHER -> {}

(* A folder whose deletion fails may have lost some of what is in it. *)
LeftOf(w) ==
    LET in(p) == w.kind \in {"rmdir", "rmgroup"} /\ p # None /\ Under(p, w.from)
        parts == (SUBSET {d \in dirs : in(d) /\ d # w.from}) \X (SUBSET {f \in Files : in(at[f])})
        whole(gone, lost) == /\ \A d \in gone, e \in dirs : Under(e, d) => e \in gone
                             /\ {f \in Files : at[f] \in gone} \subseteq lost
    IN {[dirs |-> dirs \ x[1], lost |-> x[2]] : x \in {y \in parts : whole(y[1], y[2])}}

(* The shell refuses.  Deleting or creating a group goes on all the same, since the
   manager answers a refusal and throws nothing.                                  *)
Refused(o) ==
    LET w == op[o].what IN
    /\ op[o].at = "asked"
    /\ \E left \in LeftOf(w), made \in SUBSET ParentsMade(w) :
        /\ dirs' = left.dirs \cup UNION {WithParents(p) : p \in made}
        /\ at' = [f \in Files |-> IF f \in left.lost THEN None ELSE at[f]]
        /\ strayed' = strayed \cup left.lost
    /\ unseen' = (unseen \/ treeVars' # treeVars)
    /\ Goes(o, IF w.kind \in {"rmgroup", "mkgroup"} THEN "refused" ELSE "done")
    /\ Managers(pend, FALSE)
    /\ UNCHANGED <<canvasVars, pass, stamped, outside, overlapped, entangled, missed>>

----------------------------------------------------------------------------
(* Mutant: a folder's move takes only the pieces of the folder itself. *)
AffectedExactly(w, view) ==
    {f \in Files : view[f] # None /\ view[f] = w.from /\ (w.kind = "folder" \/ f = w.file)}

(* collectAffectedPieces *)
Affected(w, view) ==
    {f \in Files : view[f] # None /\
        IF w.kind = "folder" THEN Under(view[f], w.from) ELSE f = w.file /\ view[f] = w.from}

NextPath(w, p) == IF w.kind = "folder" /\ Under(p, w.from) THEN Rebased(p, w.from, w.to) ELSE p

(* Where an affected file is now, and the group it is in, in the render seen. *)
Dest(v, f) == IF v.what.kind = "folder" THEN NextPath(v.what, v.pieces[f]) ELSE v.what.to
GroupOf(v, f) == LET own == GroupsOf(f, v.groups)
                 IN IF own = {} THEN {} ELSE {v.groups[Max(own)]}

(* Mutant: the folders of groups are compared as they were before the move. *)
StaysAsItWas(v, f) == \E g \in GroupOf(v, f) : g.folder = Dest(v, f)

Stays(v, f) == \E g \in GroupOf(v, f) : NextPath(v.what, g.folder) = Dest(v, f)

(* buildMembershipPlan: the file leaves its group, joins the group of its new folder, or
   is among those for whose folder a group must be made.                          *)
Leaves(v, f, g) == ~Stays(v, f) /\ \E h \in GroupOf(v, f) : h.id = g.id
NewOwners(v, f) == {i \in DOMAIN v.groups : v.groups[i] \notin GroupOf(v, f)
                                         /\ NextPath(v.what, v.groups[i].folder) = Dest(v, f)}
Joins(v, f, g) == /\ ~Stays(v, f) /\ NewOwners(v, f) # {}
                  /\ v.groups[Min(NewOwners(v, f))].id = g.id
Homeless(v) == {f \in Affected(v.what, v.pieces) :
                    Dest(v, f) # Root /\ ~Stays(v, f) /\ NewOwners(v, f) = {}}

(* allocateGroupId, for each of the folders that need a group. *)
Allocated(ds) ==
    LET s == SetToSeq(ds) IN {[folder |-> s[i], id |-> given + i] : i \in DOMAIN s}

(* applyFsSyncPlan: new folders of groups, removals, additions, then groups made or filled. *)
Synced(v, gs, made) ==
    LET F == Affected(v.what, v.pieces)
        moved(g) == {h \in ToSet(v.groups) : /\ h.id = g.id
                                             /\ NextPath(v.what, h.folder) # h.folder}
        path(g) == IF moved(g) = {} THEN g.folder
                   ELSE NextPath(v.what, (CHOOSE h \in moved(g) : TRUE).folder)
        into(e) == {f \in Homeless(v) : Dest(v, f) = e.folder}
        filled(g) == UNION {into(e) : e \in {e \in made : e.id = g.id}}
        new == SetToSeq({e \in made : \A i \in DOMAIN gs : gs[i].id # e.id})
    IN [i \in DOMAIN gs |->
            [id |-> gs[i].id, folder |-> path(gs[i]),
             members |-> ((gs[i].members \ {f \in F : Leaves(v, f, gs[i])})
                          \cup {f \in F : Joins(v, f, gs[i])}) \cup filled(gs[i])]]
       \o [i \in DOMAIN new |->
            [id |-> new[i].id, folder |-> new[i].folder, members |-> into(new[i])]]

(* Steps 2 to 8 of a move: pieces and groups follow what the render seen held. *)
Follow(o) ==
    LET v == op[o]
        F == Affected(v.what, v.pieces)
        need == {Dest(v, f) : f \in Homeless(v)}
        mine == {e \in pend : e.render = v.render /\ e.folder \in need}
        kept == {[folder |-> e.folder, id |-> e.id] : e \in mine}
        fresh == Allocated(need \ {e.folder : e \in kept})
    IN /\ v.at = "made" /\ v.what.kind \in {"file", "folder", "follow"} /\ F # {}
       /\ pieces' = [f \in Files |-> IF f \in F /\ pieces[f] # None THEN Dest(v, f)
                                     ELSE pieces[f]]
       /\ groups' = Synced(v, groups, kept \cup fresh)
       /\ given' = given + Cardinality(fresh)
       /\ strayed' = strayed \ {f \in F : v.what.kind = "follow" /\ at[f] = v.what.to}
       /\ Goes(o, "followed")
       /\ LET remembered(e) == [folder |-> e.folder, id |-> e.id, render |-> v.render]
          IN Managers(pend \cup {remembered(e) : e \in fresh}, TRUE)
       /\ UNCHANGED <<treeVars, unseen, stamped, outside, overlapped, entangled>>
       /\ Rendered(TRUE, FALSE)

(* Step 9, or at once when nothing on the canvas moved: the refresh. *)
Refresh(o) ==
    /\ \/ op[o].at = "followed"
       \/ op[o].at = "made" /\ op[o].what.kind = "mkdir"
       \/ /\ op[o].at = "made" /\ op[o].what.kind \in {"file", "folder", "follow"}
          /\ Affected(op[o].what, op[o].pieces) = {}
    /\ Goes(o, "done")
    /\ UNCHANGED <<treeVars, canvasVars, unseen, stamped, outside, history>>
    /\ Managers(pend, FALSE) /\ Rendered(FALSE, TRUE)

----------------------------------------------------------------------------
(* deletePipeline after the disk.  Both removePieces and deleteGroup start from the groups
   last rendered, so that where both are called the later one alone has effect.    *)
Deleted(v, gs) ==
    LET w == v.what
        F == {f \in Files : v.pieces[f] # None /\
                 IF w.kind = "rmfile" THEN f = w.file /\ v.pieces[f] = w.from
                 ELSE Under(v.pieces[f], w.from)}
        own == CASE w.kind = "rmgroup" -> {w.group}
                 [] w.kind = "rmdir" /\ Owners(w.from, v.groups) # {} ->
                        {GroupAt(w.from, v.groups).id}
                 [] OTHER -> {}
    IN [pieces |-> [f \in Files |-> IF f \in F THEN None ELSE pieces[f]],
        groups |-> IF own = {} THEN WithoutFiles(gs, F)
                   ELSE Without(gs, own)]

(* The rest of a delete: the canvas, the groups remembered for the folder, the refresh. *)
Clear(o) ==
    LET v == op[o] IN
    /\ v.at = "made" /\ v.what.kind \in {"rmfile", "rmdir", "rmgroup"}
    /\ pieces' = Deleted(v, groups).pieces /\ groups' = Deleted(v, groups).groups
    /\ Goes(o, "done")
    /\ LET moot(e) == /\ v.what.kind \in {"rmdir", "rmgroup"} /\ e.render = v.render
                      /\ Under(e.folder, v.what.from)
           changed == <<pieces', groups'>> # <<pieces, groups>>
       IN Managers({e \in pend : ~moot(e)}, changed) /\ Rendered(changed, TRUE)
    /\ UNCHANGED <<treeVars, given, unseen, stamped, outside, history>>

(* removeFromCanvas asks nothing of the disk: it is done in one step. *)
RemoveFromCanvas(o, f) ==
    /\ IsNext(o) /\ Acts < MaxActs /\ pieces[f] # None
    /\ pieces' = [pieces EXCEPT ![f] = None]
    /\ groups' = WithoutFiles(groups, {f})
    /\ Goes(o, "done")
    /\ UNCHANGED <<treeVars, given, unseen, stamped, outside, history>>
    /\ Managers(pend, TRUE) /\ Rendered(TRUE, TRUE)

(* handleDeleteSelected when the folder could not be deleted. *)
ClearGroup(o) ==
    /\ op[o].at = "refused" /\ op[o].what.kind = "rmgroup"
    /\ groups' = Without(groups, {op[o].what.group})
    /\ Goes(o, "done")
    /\ UNCHANGED <<treeVars, pieces, given, unseen, stamped, outside, history>>
    /\ Managers(pend, TRUE) /\ Rendered(TRUE, TRUE)

(* handleCommitGroupCreate: the group, whether or not its folder could be made. *)
AddGroup(o) ==
    /\ op[o].at \in {"made", "refused"} /\ op[o].what.kind = "mkgroup"
    /\ given' = given + 1
    /\ groups' = Append(groups, [id |-> given + 1, folder |-> op[o].what.from, members |-> {}])
    /\ Goes(o, "done")
    /\ UNCHANGED <<treeVars, pieces, unseen, stamped, outside, history>>
    /\ Managers(pend, TRUE) /\ Rendered(TRUE, TRUE)

----------------------------------------------------------------------------
(* The pass: the tree is read, then compared with the canvas of the render. *)
ReadTree ==
    /\ pass.at = "reading"
    /\ pass' = [pass EXCEPT !.at = "read", !.dirs = dirs]
    /\ UNCHANGED <<treeVars, canvasVars, op, pend, render, unseen, stamped, outside, history, missed>>

TreeUnread ==
    /\ pass.at = "reading"
    /\ pass' = [pass EXCEPT !.at = "blind"]
    /\ UNCHANGED <<treeVars, canvasVars, op, pend, render, unseen, stamped, outside, history, missed>>

(* reconcileGroupsWithFolders *)
PlacedFolders == {pieces[f] : f \in Files} \ {None, Root}
Duplicate(i) == \E j \in 1..i - 1 : groups[j].folder = groups[i].folder
Alive(d) == d \in IF pass.at = "blind" THEN PlacedFolders ELSE pass.dirs

(* Mutant: two groups of one folder are both kept. *)
SurvivorsTwice == {i \in DOMAIN groups : Alive(groups[i].folder)}

Survivors == {i \in DOMAIN groups : ~Duplicate(i) /\ Alive(groups[i].folder)}
Wanting == (PlacedFolders \cup pass.dirs) \ {groups[i].folder : i \in DOMAIN groups}

Reconcile ==
    LET gone == {groups[i].id : i \in DOMAIN groups \ Survivors}
        new == SetToSeq(Allocated(Wanting)) IN
    /\ pass.at \in {"read", "blind"}
    /\ groups' = Without(groups, gone) \o
                 [i \in DOMAIN new |->
                     [id |-> new[i].id, folder |-> new[i].folder,
                      members |-> {f \in Files : pieces[f] = new[i].folder}]]
    /\ given' = given + Cardinality(Wanting)
    /\ pass' = [at |-> "none", dirs |-> {}, due |-> FALSE]
    /\ missed' = (missed \/ pass.at = "blind")
    /\ entangled' = (entangled \/ (groups' # groups /\ \E o \in Ops : ~Resting(o)))
    /\ UNCHANGED op /\ Managers(pend, groups' # groups)
    /\ UNCHANGED <<treeVars, pieces, unseen, stamped, outside, strayed, overlapped>>

(* A drag, or whatever else changes pieces or groups and none of the above. *)
Redraw ==
    /\ pass.at # "none"
    /\ UNCHANGED <<treeVars, canvasVars, unseen, stamped, outside, history>>
    /\ UNCHANGED op /\ Managers(pend, TRUE) /\ Rendered(TRUE, FALSE)

----------------------------------------------------------------------------
(* Another program. *)
Outside ==
    /\ Acts < MaxActs
    /\ outside' = outside + 1
    /\ unseen' = TRUE
    /\ \/ \E d \in Folders \ dirs : /\ Front(d) \in dirs \cup {Root}
                                    /\ MakeOnDisk(d)
       \/ \E f \in Files, to \in dirs \cup {Root} : /\ at[f] \notin {None, to}
                                                    /\ MoveFileOnDisk(f, at[f], to)
       \/ \E from \in dirs, to \in Folders : /\ Front(to) \in dirs \cup {Root}
                                             /\ MoveFolderOnDisk(from, to)
       \/ \E d \in dirs : RemoveOnDisk(d)
    /\ strayed' = strayed \cup {f \in Files : at'[f] # at[f]}
    /\ UNCHANGED <<canvasVars, op, pend, render, pass, stamped, overlapped, entangled, missed>>

(* checkTree, the first time: it takes the stamp and refreshes nothing.  What changed since
   the launch is not noticed any more, unless a pass has yet to list the tree.    *)
TakeStamp ==
    /\ ~stamped /\ stamped' = TRUE
    /\ unseen' = FALSE
    /\ missed' = (missed \/ (unseen /\ pass.at # "reading"))
    /\ UNCHANGED <<treeVars, canvasVars, op, pend, render, pass, outside, history>>

(* checkTree, from then on: a moved stamp refreshes, also after Litria's own changes. *)
CheckTree ==
    /\ stamped /\ unseen /\ unseen' = FALSE
    /\ UNCHANGED <<treeVars, canvasVars, stamped, outside, history>>
    /\ UNCHANGED op /\ Managers(pend, FALSE) /\ Rendered(FALSE, TRUE)

(* followRenames, of a check after the first: a file that is missed where its piece says,
   and seen elsewhere. *)
FollowRename(o, f) ==
    /\ stamped /\ IsNext(o)
    /\ pieces[f] # None /\ at[f] \notin {None, pieces[f]}
    /\ LET what == [kind |-> "follow", file |-> f, from |-> pieces[f], to |-> at[f]] IN
           op' = [op EXCEPT ![o] = [at |-> "made", what |-> what, pieces |-> pieces,
                                    groups |-> groups, render |-> render]]
    /\ overlapped' = (overlapped \/ \E q \in Ops : ~Resting(q))
    /\ entangled' = (entangled \/ Ungrouped)
    /\ UNCHANGED <<treeVars, canvasVars, pend, render, pass, unseen, stamped, outside>>
    /\ UNCHANGED <<strayed, missed>>

----------------------------------------------------------------------------
FoldersInit ==
    /\ at = Home /\ pieces = Home
    /\ dirs = UNION {WithParents(Home[f]) : f \in Files}
    /\ LET ds == SetToSeq(dirs) IN
           groups = [i \in DOMAIN ds |-> [id |-> i, folder |-> ds[i],
                                          members |-> {f \in Files : Home[f] = ds[i]}]]
    /\ given = Cardinality(dirs)
    /\ op = [o \in Ops |-> [at |-> "new"]]
    /\ pend = {} /\ render = 0
    /\ pass = [at |-> "reading", dirs |-> {}, due |-> TRUE]
    /\ unseen = FALSE /\ stamped = FALSE
    /\ outside = 0 /\ strayed = {}
    /\ overlapped = FALSE /\ entangled = FALSE /\ missed = FALSE

Begin(o) ==
    /\ Acts < MaxActs /\ IsNext(o)
    /\ \/ \E f \in Files, to \in Known \cup {Root} : AskMoveFile(o, f, to)
       \/ \E from \in Known, to \in Folders : AskMoveFolder(o, from, to)
       \/ \E f \in Files : AskDeleteFile(o, f) \/ RemoveFromCanvas(o, f)
       \/ \E d \in Folders : AskForFolder(o, d)

FoldersNext ==
    \/ \E o \in Ops :
        \/ Begin(o) \/ \E f \in Files : FollowRename(o, f)
        \/ Effect(o) \/ Refused(o) \/ Follow(o) \/ Refresh(o)
        \/ Clear(o) \/ ClearGroup(o) \/ AddGroup(o)
    \/ ReadTree \/ TreeUnread \/ Reconcile \/ Redraw
    \/ Outside \/ TakeStamp \/ CheckTree

FoldersSpec == FoldersInit /\ [][FoldersNext]_folderVars

----------------------------------------------------------------------------
(* Nothing in flight: every operation has ended, the last pass has run or was dropped, and
   the tree was checked after its last change. *)
Quiet == (\A o \in Ops : Resting(o)) /\ pass.at = "none" /\ ~unseen

(* Each step of the disk is followed by one of the canvas that was worked out in an earlier
   render.  When all is quiet, and operations did not overlap, a piece still names the
   folder its file is in, whatever passes, refusals, removals from the canvas and changes
   by another program came in between; only a file another program moved may be
   elsewhere, until its rename is followed, or a file gone with a folder that could not be
   deleted whole (followMovedPaths, deletePipeline, followRenames). *)
PiecesFollowFiles ==
    Quiet /\ ~overlapped => \A f \in Files \ strayed : pieces[f] \in {None, at[f]}

(* The pass mends what operations that overlap leave: when all is quiet, the pass of the
   last refresh was neither dropped nor blind, and the first check of the tree did not come
   too late for a change, each folder on disk has one group, and a group without a folder
   has a piece that still names it (reconcileGroupsWithFolders, checkTree). *)
EveryFolderDrawn ==
    Quiet /\ ~missed =>
        /\ \A d \in dirs : Cardinality(Owners(d, groups)) = 1
        /\ \A i \in DOMAIN groups : groups[i].folder \in dirs \cup PlacedFolders

(* The pass keeps the members of a group it keeps, so only the operations bring members
   right: a piece on the canvas is in no group but its folder's, and in that one unless
   its file strayed.  It needs that nothing met halfway: neither two
   operations, nor a pass and an operation (buildMembershipPlan, applyFsSyncPlan). *)
MembersFollowFiles ==
    Quiet /\ ~missed /\ ~overlapped /\ ~entangled =>
        \A f \in {f \in Files : pieces[f] # None} :
            LET homes == {groups[i].folder : i \in GroupsOf(f, groups)} IN
            /\ homes \subseteq {pieces[f]}
            /\ f \in strayed \/ homes = {pieces[f]} \ {Root}
=============================================================================
