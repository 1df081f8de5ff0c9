-------------------------- MODULE ProjectCreation --------------------------
(***************************************************************************)
(* Attempts to create a project in one folder: the claim of the folder and *)
(* the manifest of what was written (creation_ownership.rs), the Blank,    *)
(* Python and npm runs (blank_project.rs, python_scaffold.rs,              *)
(* scaffold_runner.rs), the process they start under its limits and the    *)
(* cancellation (process_control.rs), and the cleanup afterwards.          *)
(* The person, or another program, works in the same folder.  Litria may   *)
(* die between any two steps.                                              *)
(* A text is <<who wrote it, number>>.  Subfolders, links and the file     *)
(* steps of an npm plan are left out.                                      *)
(***************************************************************************)
EXTENDS Integers, Sequences, FiniteSets

CONSTANTS
    Blueprint,    \* the names of the files that Litria writes, in order
    Output,       \* the name under which a process leaves its output (.venv)
    Extra,        \* another name, which the person may use
    Kinds,        \* which of "blank", "python", "npm" are tried
    MaxAttempts,  \* bound: runs
    MaxPerson,    \* bound: what the person does in the folder
    MaxCrashes,   \* bound: deaths of Litria
    Undisturbed   \* assumption on the person, see MayWrite and MayMake

Files == {Blueprint[i] : i \in DOMAIN Blueprint}
Names == Files \cup {Output, Extra}

ASSUME CreationAssumption ==
    /\ Blueprint \in Seq(Files) /\ Output # Extra /\ {Output, Extra} \cap Files = {}
    /\ Kinds \subseteq {"blank", "python", "npm"}
    /\ {MaxAttempts, MaxPerson, MaxCrashes} \subseteq Nat /\ Undisturbed \in BOOLEAN

VARIABLES
    (* the disk: trees [made, files, marker], see NoTree *)
    root,      \* the folder of the project
    aside,     \* where a cleanup has moved it, or NoTree
    left,      \* such trees of processes that died
    (* the run *)
    attempt,   \* runs so far; the number of the one under way
    kind,
    stage,
    written,   \* files of the blueprint written so far
    manifest,  \* Attempt::marker
    command,   \* commands that ended: an npm run has two
    child,     \* the process and what it starts: "none", "up", or "left" by a teardown
    orphan,    \* whether a process goes on that no run waits for
    fresh,     \* output that the loop has not read
    overdue,   \* the deadline has passed
    runs,      \* RUNS: the run that is registered, as a set of numbers
    flagged,   \* runs whose RunControl is cancelled
    cancels,   \* runs for which cancel_scaffold was asked and did not begin
    outcome,   \* what the wizard was told of the last run
    (* bounds and history *)
    person, crashes,
    theirs,    \* the person's texts and folders that the person has not removed
    touched    \* names that the person has changed since the run began

diskVars == <<root, aside, left>>
runVars == <<attempt, kind, written, manifest, command>>
processVars == <<child, orphan, fresh, overdue>>
cancelVars == <<runs, flagged, cancels>>
historyVars == <<person, crashes, theirs, touched>>
creationVars == <<diskVars, runVars, stage, processVars, cancelVars, outcome, historyVars>>

NoText == <<"none", 0>>
Empty == <<"empty", 0>>
Made == <<"output", 0>>
Mine == <<"run", attempt>>
Theirs(k) == <<"person", k>>

NothingRecorded ==
    [files |-> [f \in Names |-> NoText], createdRoot |-> FALSE, unrecorded |-> {}]
NoMarker == [state |-> "none", says |-> NothingRecorded]
NoTree == [made |-> NoText, files |-> [f \in Names |-> NoText], marker |-> NoMarker]

Exists(t) == t.made # NoText
IsEmpty(t) == (\A f \in Names : t.files[f] = NoText) /\ t.marker.state = "none"
Texts(t) == {t.made} \cup {t.files[f] : f \in Names}

----------------------------------------------------------------------------
(* verify_dir: every entry is the marker or an unchanged recorded file.  An npm run has
   declared everything unrecorded, and writes no marker.                         *)
Verified(t, m) ==
    /\ \A f \in Names : t.files[f] # NoText => f \notin m.unrecorded /\ t.files[f] = m.files[f]
    /\ Names \subseteq m.unrecorded => t.marker.state = "none"

External == [NothingRecorded EXCEPT !.createdRoot = TRUE, !.unrecorded = Names]

(* The wizard's Create: handleDone, or the fallback to Blank. *)
Begin(k) ==
    /\ stage = "idle" /\ attempt < MaxAttempts
    /\ attempt' = attempt + 1
    /\ kind' = k
    /\ stage' = IF k = "npm" THEN "absent" ELSE "claim"
    /\ written' = 0 /\ command' = 0
    /\ manifest' = IF k = "npm" THEN External ELSE NothingRecorded
    /\ outcome' = "none"
    /\ touched' = {}
    /\ UNCHANGED <<diskVars, processVars, cancelVars, person, crashes, theirs>>

(* The run ends and the wizard is told. *)
End(o) == stage' = "idle" /\ outcome' = o
Goes(step) == stage' = step /\ UNCHANGED outcome

(* claim_root up to the decision *)
Claim ==
    /\ stage = "claim"
    /\ \/ ~Exists(root) /\ Goes("make") /\ UNCHANGED manifest
       \/ /\ Exists(root) /\ root.marker.state = "written"
          /\ IF Verified(root, root.marker.says)
             THEN Goes("tear") /\ manifest' = root.marker.says
             ELSE End("refused") /\ UNCHANGED manifest
       \/ /\ Exists(root) /\ root.marker.state # "written"
          /\ IF IsEmpty(root) THEN Goes("tear") ELSE End("refused")
          /\ UNCHANGED manifest
    /\ UNCHANGED <<diskVars, attempt, kind, written, command, processVars, cancelVars, historyVars>>

(* claim_root: create_dir *)
MakeRoot ==
    /\ stage = "make"
    /\ IF Exists(root) THEN End("refused") /\ UNCHANGED <<root, manifest>>
       ELSE /\ root' = [NoTree EXCEPT !.made = Mine]
            /\ manifest' = [manifest EXCEPT !.createdRoot = TRUE]
            /\ Goes("tear")
    /\ UNCHANGED <<aside, left, attempt, kind, written, command, processVars, cancelVars, historyVars>>

(* persist_marker: the file is created or truncated, then written.  A marker that is not
   whole cannot be read.                                                          *)
TearMarker ==
    /\ stage = "tear"
    /\ IF Exists(root)
       THEN root' = [root EXCEPT !.marker = [NoMarker EXCEPT !.state = "torn"]] /\ Goes("mark")
       ELSE End("failed") /\ UNCHANGED root
    /\ UNCHANGED <<aside, left, runVars, processVars, cancelVars, historyVars>>

(* Mutant: the last file of the blueprint is left out. *)
AfterEarly ==
    CASE written + 1 < Len(Blueprint) -> "write"
      [] written + 1 >= Len(Blueprint) /\ kind = "blank" -> "created"
      [] OTHER -> IF Output \in manifest.unrecorded THEN "register" ELSE "note"

(* What a Blank or a Python run does next. *)
After ==
    CASE written < Len(Blueprint) -> "write"
      [] written = Len(Blueprint) /\ kind = "blank" -> "created"
      [] OTHER -> IF Output \in manifest.unrecorded THEN "register" ELSE "note"

WriteMarker ==
    /\ stage = "mark"
    /\ root' = IF Exists(root)
               THEN [root EXCEPT !.marker = [state |-> "written", says |-> manifest]] ELSE root
    /\ IF After = "created" THEN End("created") ELSE Goes(After)
    /\ UNCHANGED <<aside, left, runVars, processVars, cancelVars, historyVars>>

----------------------------------------------------------------------------
(* write_file *)
File == Blueprint[written + 1]

(* Mutant: a file that the manifest names is taken for unchanged. *)
ProvenByName(f) == manifest.files[f] # NoText
Proven(f) == manifest.files[f] # NoText /\ root.files[f] = manifest.files[f]

(* The file must be new, or proven to be an attempt's unchanged output. *)
Write ==
    /\ stage = "write"
    /\ \/ root.files[File] = NoText /\ Goes("create")
       \/ root.files[File] # NoText /\ Proven(File) /\ Goes("remove")
       \/ root.files[File] # NoText /\ ~Proven(File) /\ End("failed")
    /\ UNCHANGED <<diskVars, runVars, processVars, cancelVars, historyVars>>

Remove ==
    /\ stage = "remove"
    /\ IF root.files[File] = NoText THEN End("failed") /\ UNCHANGED root
       ELSE root' = [root EXCEPT !.files[File] = NoText] /\ Goes("create")
    /\ UNCHANGED <<aside, left, runVars, processVars, cancelVars, historyVars>>

(* create_new *)
Create ==
    /\ stage = "create"
    /\ IF Exists(root) /\ root.files[File] = NoText
       THEN root' = [root EXCEPT !.files[File] = Empty] /\ Goes("fill")
       ELSE End("failed") /\ UNCHANGED root
    /\ UNCHANGED <<aside, left, runVars, processVars, cancelVars, historyVars>>

(* write_all through the open file, which the person may have removed, and the record *)
Fill ==
    /\ stage = "fill"
    /\ root' = IF root.files[File] = NoText THEN root ELSE [root EXCEPT !.files[File] = Mine]
    /\ manifest' = [manifest EXCEPT !.files[File] = Mine]
    /\ written' = written + 1
    /\ Goes("tear")
    /\ UNCHANGED <<aside, left, attempt, kind, command, processVars, cancelVars, historyVars>>

(* note_unrecorded *)
Note ==
    /\ stage = "note"
    /\ manifest' = [manifest EXCEPT !.unrecorded = @ \cup {Output}]
    /\ Goes("tear")
    /\ UNCHANGED <<diskVars, attempt, kind, written, command, processVars, cancelVars, historyVars>>

(* run_scaffold: the target must not exist. *)
Absent ==
    /\ stage = "absent"
    /\ IF Exists(root) THEN End("refused") ELSE Goes("register")
    /\ UNCHANGED <<diskVars, runVars, processVars, cancelVars, historyVars>>

(* The age gate refuses, or there is no package manager. *)
GateRefuses ==
    /\ stage = "register" /\ kind = "npm"
    /\ End("failed")
    /\ UNCHANGED <<diskVars, runVars, processVars, cancelVars, historyVars>>

----------------------------------------------------------------------------
(* The process and its limits *)

RegisterRun ==
    /\ stage = "register"
    /\ runs' = runs \cup {attempt}
    /\ Goes("spawn")
    /\ UNCHANGED <<diskVars, runVars, processVars, flagged, cancels, historyVars>>

(* finish_run *)
Finished == runs' = runs \ {attempt} /\ UNCHANGED <<flagged, cancels>>

(* run_with_limits: a cancelled run starts nothing; spawn may fail. *)
Spawn ==
    /\ stage = "spawn"
    /\ \/ /\ attempt \in flagged
          /\ Goes("cleanup")
          /\ IF kind = "python" THEN Finished ELSE UNCHANGED cancelVars
          /\ UNCHANGED processVars
       \/ /\ attempt \notin flagged
          /\ child' = "up"
          /\ Goes("running")
          /\ UNCHANGED <<orphan, fresh, overdue, cancelVars>>
    /\ UNCHANGED <<diskVars, runVars, historyVars>>

(* A command of the run ended: well, by a failure, or by its limits.  A Python run does
   without its environment; an npm run without what follows the first command.   *)
CommandEnds(well) ==
    IF kind = "npm" /\ command = 0 /\ well
    THEN Goes("spawn") /\ command' = 1 /\ UNCHANGED cancelVars
    ELSE /\ Finished
         /\ End(IF kind = "npm" /\ command = 0 THEN "failed" ELSE "created")
         /\ UNCHANGED command

SpawnFails ==
    /\ stage = "spawn" /\ attempt \notin flagged
    /\ CommandEnds(FALSE)
    /\ UNCHANGED <<diskVars, attempt, kind, written, manifest, processVars, historyVars>>

(* The loop is left, and with it its deadline and what it has not read. *)
Leaves == fresh' = FALSE /\ overdue' = FALSE /\ UNCHANGED <<child, orphan>>

(* The process closes its output, as one that exits does: the loop is left, and the exit
   is waited for without a limit.                                                 *)
ChildCloses ==
    /\ stage = "running"
    /\ Goes("wait") /\ Leaves
    /\ UNCHANGED <<diskVars, runVars, cancelVars, historyVars>>

ChildExits ==
    /\ stage = "wait"
    /\ child' = "none"
    /\ \E well \in BOOLEAN : CommandEnds(well)
    /\ UNCHANGED <<diskVars, attempt, kind, written, manifest, orphan, fresh, overdue, historyVars>>

ChildPrints ==
    /\ stage = "running" /\ ~fresh
    /\ fresh' = TRUE
    /\ UNCHANGED <<diskVars, runVars, stage, child, orphan, overdue, cancelVars, outcome, historyVars>>

(* The process writes below the folder; a create command makes the folder. *)
ChildWrites ==
    /\ child # "none" \/ orphan
    /\ kind = "npm" \/ Exists(root)
    /\ root.files[Output] = NoText
    /\ root' = [root EXCEPT !.made = IF Exists(root) THEN @ ELSE Made, !.files[Output] = Made]
    /\ UNCHANGED <<aside, left, runVars, stage, processVars, cancelVars, outcome, historyVars>>

DeadlinePasses ==
    /\ stage = "running" /\ ~overdue
    /\ overdue' = TRUE
    /\ UNCHANGED <<diskVars, runVars, stage, child, orphan, fresh, cancelVars, outcome, historyVars>>

(* The loop reads a line. *)
ReadsLine ==
    /\ stage = "running" /\ fresh
    /\ fresh' = FALSE
    /\ UNCHANGED <<diskVars, runVars, stage, child, orphan, overdue, cancelVars, outcome, historyVars>>

(* Mutant: output extends the deadline. *)
PastDeadlineSilent == overdue /\ ~fresh
PastDeadline == overdue

(* The loop ends the process: cancelled, past its deadline, or silent for too long. *)
StopsCancelled ==
    /\ stage = "running" /\ attempt \in flagged
    /\ Goes("stop") /\ Leaves
    /\ UNCHANGED <<diskVars, runVars, cancelVars, historyVars>>

StopsOverdue ==
    /\ stage = "running" /\ attempt \notin flagged /\ PastDeadline
    /\ Goes("expire") /\ Leaves
    /\ UNCHANGED <<diskVars, runVars, cancelVars, historyVars>>

StopsIdle ==
    /\ stage = "running" /\ attempt \notin flagged /\ ~fresh
    /\ Goes("expire") /\ Leaves
    /\ UNCHANGED <<diskVars, runVars, cancelVars, historyVars>>

(* ProcessTree::teardown: the process is ended and reaped.  One that it started may ignore
   the signal or have left the group, and once the process is reaped nothing forces it.  *)
TearDown ==
    /\ stage \in {"stop", "expire"}
    /\ stage' = IF stage = "stop" THEN "stopped" ELSE "expired"
    /\ child' \in {"none", "left"}
    /\ UNCHANGED <<diskVars, runVars, orphan, fresh, overdue, cancelVars, outcome, historyVars>>

(* What survived closes the pipes, by its exit or while it goes on. *)
LetsGo ==
    /\ child = "left"
    /\ child' = "none"
    /\ orphan' \in {orphan, TRUE}
    /\ UNCHANGED <<diskVars, runVars, stage, fresh, overdue, cancelVars, outcome, historyVars>>

(* The readers end with the pipes, and are waited for without a limit.  A Python run whose
   environment ran past its limits goes on; a cancelled run and an npm run clean up.    *)
Join ==
    /\ stage \in {"stopped", "expired"} /\ child = "none"
    /\ IF kind = "python" THEN Finished ELSE UNCHANGED cancelVars
    /\ IF kind = "python" /\ stage = "expired" THEN End("created") ELSE Goes("cleanup")
    /\ UNCHANGED <<diskVars, runVars, processVars, historyVars>>

----------------------------------------------------------------------------
(* cleanup_after_abort *)
EndCleanup(o) == End(o) /\ Finished

MoveAside ==
    /\ stage = "cleanup"
    /\ \/ ~Exists(root) /\ EndCleanup("removed") /\ UNCHANGED <<root, aside>>
       \/ Exists(root) /\ EndCleanup("retained") /\ UNCHANGED <<root, aside>>
       \/ /\ Exists(root) /\ manifest.createdRoot
          /\ aside' = root /\ root' = NoTree
          /\ Goes("verify") /\ UNCHANGED cancelVars
    /\ UNCHANGED <<left, runVars, processVars, historyVars>>

Verify ==
    /\ stage = "verify"
    /\ Goes(IF Verified(aside, manifest) THEN "delete" ELSE "back")
    /\ UNCHANGED <<diskVars, runVars, processVars, cancelVars, historyVars>>

Delete ==
    /\ stage = "delete"
    /\ aside' = NoTree
    /\ \/ EndCleanup("removed") /\ UNCHANGED left
       \/ EndCleanup("retained") /\ left' = left \cup {aside}
    /\ UNCHANGED <<root, runVars, processVars, historyVars>>

(* The folder is moved back, unless there is one of its name. *)
MoveBack ==
    /\ stage = "back"
    /\ aside' = NoTree
    /\ IF Exists(root) THEN left' = left \cup {aside} /\ UNCHANGED root
       ELSE root' = aside /\ UNCHANGED left
    /\ EndCleanup("retained")
    /\ UNCHANGED <<runVars, processVars, historyVars>>

----------------------------------------------------------------------------
(* The wizard's Cancel, and the command it asks for *)
Cancel ==
    /\ stage # "idle" /\ attempt \notin cancels \cup flagged
    /\ cancels' = cancels \cup {attempt}
    /\ UNCHANGED <<diskVars, runVars, stage, processVars, runs, flagged, outcome, historyVars>>

(* cancel_run: a run that is not registered is not reached. *)
CancelRun(r) ==
    /\ r \in cancels
    /\ cancels' = cancels \ {r}
    /\ flagged' = IF r \in runs THEN flagged \cup {r} ELSE flagged
    /\ UNCHANGED <<diskVars, runVars, stage, processVars, runs, outcome, historyVars>>

----------------------------------------------------------------------------
(* The person, and crashes *)

(* Undisturbed: nobody writes a file between the moment a run looks at it and the moment
   it has written it, and nobody makes a folder of the name while a run is under way that
   believes to have made it.                                                       *)
MayWrite(f) == Undisturbed => ~(stage \in {"remove", "fill"} /\ f = File)
MayMake == Undisturbed => stage \in {"idle", "claim", "make", "absent", "verify", "delete", "back"}

PersonWrites(f) ==
    /\ person < MaxPerson /\ Exists(root) /\ MayWrite(f)
    /\ person' = person + 1
    /\ root' = [root EXCEPT !.files[f] = Theirs(person')]
    /\ theirs' = (theirs \ {root.files[f]}) \cup {Theirs(person')}
    /\ touched' = touched \cup {f}
    /\ UNCHANGED <<aside, left, runVars, stage, processVars, cancelVars, outcome, crashes>>

PersonMakes ==
    /\ person < MaxPerson /\ ~Exists(root) /\ MayMake
    /\ person' = person + 1
    /\ root' = [NoTree EXCEPT !.made = Theirs(person')]
    /\ theirs' = theirs \cup {Theirs(person')}
    /\ UNCHANGED <<aside, left, runVars, stage, processVars, cancelVars, outcome, crashes, touched>>

PersonRemoves ==
    /\ person < MaxPerson /\ Exists(root)
    /\ person' = person + 1
    /\ root' = NoTree
    /\ theirs' = theirs \ Texts(root)
    /\ touched' = Names
    /\ UNCHANGED <<aside, left, runVars, stage, processVars, cancelVars, outcome, crashes>>

(* Litria dies.  Its process may outlive it where nothing ties them together. *)
Crash ==
    /\ crashes < MaxCrashes
    /\ crashes' = crashes + 1
    /\ stage' = "idle" /\ outcome' = "none"
    /\ left' = IF Exists(aside) THEN left \cup {aside} ELSE left
    /\ aside' = NoTree
    /\ child' = "none" /\ fresh' = FALSE /\ overdue' = FALSE
    /\ \/ orphan' = (orphan \/ child # "none")
       \/ UNCHANGED orphan
    /\ runs' = {} /\ flagged' = {} /\ cancels' = {}
    /\ manifest' = NothingRecorded
    /\ UNCHANGED <<root, attempt, kind, written, command, person, theirs, touched>>

----------------------------------------------------------------------------
CreationInit ==
    /\ root = NoTree /\ aside = NoTree /\ left = {}
    /\ attempt = 0 /\ kind = "blank" /\ stage = "idle" /\ written = 0 /\ command = 0
    /\ manifest = NothingRecorded
    /\ child = "none" /\ orphan = FALSE /\ fresh = FALSE /\ overdue = FALSE
    /\ runs = {} /\ flagged = {} /\ cancels = {} /\ outcome = "none"
    /\ person = 0 /\ crashes = 0 /\ theirs = {} /\ touched = {}

(* What the thread of the run does by itself *)
RunSteps ==
    \/ Claim \/ MakeRoot \/ TearMarker \/ WriteMarker
    \/ Write \/ Remove \/ Create \/ Fill \/ Note
    \/ Absent \/ GateRefuses \/ RegisterRun \/ Spawn \/ SpawnFails
    \/ StopsCancelled \/ StopsOverdue \/ StopsIdle \/ TearDown \/ Join
    \/ MoveAside \/ Verify \/ Delete \/ MoveBack

CreationNext ==
    \/ \E k \in Kinds : Begin(k)
    \/ RunSteps \/ ReadsLine
    \/ ChildCloses \/ ChildExits \/ ChildPrints \/ ChildWrites \/ LetsGo \/ DeadlinePasses
    \/ Cancel \/ \E r \in cancels : CancelRun(r)
    \/ \E f \in Names : PersonWrites(f)
    \/ PersonMakes \/ PersonRemoves \/ Crash

CreationSpec == CreationInit /\ [][CreationNext]_creationVars

(* The run's thread keeps running and time passes; the process owes nothing. *)
FairCreationSpec ==
    /\ CreationSpec
    /\ WF_creationVars(RunSteps) /\ WF_creationVars(ReadsLine) /\ WF_creationVars(DeadlinePasses)

----------------------------------------------------------------------------
(* Properties *)

(* Nothing that the person wrote or made is lost: neither overwritten by a retry nor
   removed by a cleanup, at most it is kept aside.                               *)
NothingForeignLost ==
    theirs \subseteq UNION {Texts(t) : t \in {root, aside} \cup left}

(* What the wizard is told is so.  Created: every file of the blueprint is this run's, but
   for those the person has changed since.  Removed: no folder of a run remains. *)
OutcomeIsTrue ==
    /\ outcome = "created" /\ kind # "npm" =>
           \A f \in Files : root.files[f] = Mine \/ f \in touched
    /\ outcome = "removed" => aside = NoTree /\ root.made[1] # "run"

(* A process that the run waits for without a limit: one that has closed its output, or
   one that survived the teardown and holds it.                                    *)
Awaits == stage = "wait" \/ (stage \in {"stopped", "expired"} /\ child = "left")

(* Nothing but such a process holds a run: while it prints or is silent the limits and the
   cancellation end it, and when such a process lets go the run comes to its end.    *)
RunEnds == stage # "idle" /\ ~Awaits ~> stage = "idle" \/ Awaits

============================================================================
