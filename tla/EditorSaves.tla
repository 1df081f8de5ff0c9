---------------------------- MODULE EditorSaves ----------------------------
(***************************************************************************)
(* One open file: the saves of its tab (useProjectPersistence.js,          *)
(* project_ops.rs), the check that looks for another program's changes     *)
(* (useDiskChanges.js, diskChanges.js) and the choices it offers the       *)
(* person (diskConflicts.js).                                              *)
(* A text is a member of Texts, a stamp is the number of the version on    *)
(* disk.  Reads and saves are synchronous commands: the event loop runs    *)
(* them, and the window hears of them, in the order asked; stamps are read *)
(* on another thread.  What the window has set is seen by closures only    *)
(* after a render.                                                         *)
(***************************************************************************)
EXTENDS Naturals, Sequences

CONSTANTS
    Texts,      \* what a file or a tab may hold
    Gone,       \* nothing has the file's name
    MaxWrites,  \* bound: writes of another program
    MaxTyped,   \* bound: edits in the tab
    MaxSaves    \* bound: saves and choices of the person

ASSUME SavesAssumption ==
    /\ Texts # {} /\ Gone \notin Texts
    /\ {MaxWrites, MaxTyped, MaxSaves} \subseteq Nat

VARIABLES
    (* the disk *)
    disk,       \* [text, version, own]: `own` is whether Litria wrote it
    writes,     \* writes of another program so far
    (* the window; `now` is what was set, `seen` what the last render showed *)
    now, seen,  \* [code, stamp, saved, working]: piece.code, piece.diskStamp (0 for null),
                \* tab.code, tab.workingCode
    lastSaved,  \* diskConflicts: the text of the last save, or Gone
    notice,     \* notices of the file: [kind, version]
    typed, saves,
    (* the check *)
    check,      \* [pc, watched, stamp]
    (* reads and saves asked and not yet heard, oldest first *)
    calls,
    (* history *)
    reached,    \* texts that the editor document has held
    offered,    \* versions that a notice was about
    blamed,     \* versions that the check took for another program's
    late        \* whether a check judged before a render that was due

diskVars == <<disk, writes>>
windowVars == <<now, seen, lastSaved, notice, typed, saves>>
historyVars == <<reached, offered, blamed, late>>
vars == <<diskVars, windowVars, check, calls, historyVars>>

NoNotice == [kind |-> "none", version |-> 0]
Call(by, text, base) ==
    [by |-> by, text |-> text, base |-> base, step |-> "asked", answer |-> Gone, version |-> 0,
     own |-> FALSE]

isSaving == \E i \in DOMAIN calls : calls[i].by = "save"
Dirty(t) == t.working # t.saved

----------------------------------------------------------------------------
(* Another program *)
Write(t) ==
    /\ writes < MaxWrites /\ t # disk.text
    /\ writes' = writes + 1
    /\ disk' = [text |-> t, version |-> disk.version + 1, own |-> FALSE]
    /\ UNCHANGED <<windowVars, check, calls, historyVars>>

----------------------------------------------------------------------------
(* The event loop: the first call that has not ended *)
Running(i) == /\ i \in DOMAIN calls /\ calls[i].step # "ended"
              /\ \A j \in 1..(i - 1) : calls[j].step = "ended"

Ends(i, answer, version, own) ==
    calls' = [calls EXCEPT ![i] = [@ EXCEPT !.step = "ended", !.answer = answer,
                                            !.version = version, !.own = own]]

(* read_project_file_with_revision; the stamp of a missing file is null. *)
Read(i) ==
    /\ Running(i) /\ calls[i].by # "save"
    /\ Ends(i, disk.text, disk.version, disk.own)
    /\ UNCHANGED <<diskVars, windowVars, check, historyVars>>

(* holds *)
Holds(base) == disk.text = base

(* save_project_file_with: the first comparison, or an error *)
Compare(i) ==
    /\ Running(i) /\ calls[i].by = "save" /\ calls[i].step = "asked"
    /\ \/ Holds(calls[i].base) /\ calls' = [calls EXCEPT ![i].step = "compared"]
       \/ ~Holds(calls[i].base) /\ Ends(i, "changed", IF disk.text = Gone THEN 0 ELSE 1, FALSE)
       \/ Ends(i, "failed", 0, FALSE)
    /\ UNCHANGED <<diskVars, windowVars, check, historyVars>>

(* Mutant: the disk is compared once, before the new content is written beside it. *)
StillHoldsUnread(base) == TRUE
StillHolds(base) == Holds(base)

(* replace_string_if: the last comparison and the rename.  Nothing is written between
   them here: that is the window the code documents.                              *)
Replace(i) ==
    /\ Running(i) /\ calls[i].step = "compared"
    /\ IF StillHolds(calls[i].base)
       THEN /\ disk' = [text |-> calls[i].text, version |-> disk.version + 1, own |-> TRUE]
            /\ calls' = [calls EXCEPT ![i].step = "replaced"]
       ELSE /\ Ends(i, "changed", IF disk.text = Gone THEN 0 ELSE 1, FALSE)
            /\ UNCHANGED disk
    /\ UNCHANGED <<writes, windowVars, check, historyVars>>

(* Mutant: the stamp is taken whatever the disk holds by then. *)
StampOfAny(i) == disk.version

(* the stamp of the text just saved, or none *)
StampOfSaved(i) == IF disk.text = calls[i].text THEN disk.version ELSE 0

Stamp(i) ==
    /\ Running(i) /\ calls[i].step = "replaced"
    /\ Ends(i, "saved", StampOfSaved(i), FALSE)
    /\ UNCHANGED <<diskVars, windowVars, check, historyVars>>

----------------------------------------------------------------------------
(* The window *)
Render ==
    /\ seen # now
    /\ seen' = now
    /\ UNCHANGED <<diskVars, now, lastSaved, notice, typed, saves, check, calls, historyVars>>

(* Typing, an undo, an agent's edit, a discard. *)
Edit(t) ==
    /\ typed < MaxTyped /\ t # now.working
    /\ typed' = typed + 1
    /\ now' = [now EXCEPT !.working = t]
    /\ reached' = reached \cup {t}
    /\ UNCHANGED <<diskVars, seen, lastSaved, notice, saves, check, calls, offered, blamed, late>>

(* saveTab and persistSavedTab up to the await, with what the last render showed. *)
AskSave(base) == Append(calls, Call("save", seen.working, base))

Save ==
    /\ saves < MaxSaves
    /\ saves' = saves + 1
    /\ calls' = AskSave(seen.code)
    /\ UNCHANGED <<diskVars, now, seen, lastSaved, notice, typed, check, historyVars>>

(* showConflict, showDeleted *)
Show(kind, version) ==
    /\ notice' = [kind |-> kind, version |-> version]
    /\ offered' = IF kind = "conflict" THEN offered \cup {version} ELSE offered

(* The reply that is heard next *)
Heard == calls[1]
Hears(by) == /\ calls # <<>> /\ Heard.by = by /\ Heard.step = "ended"

(* persistSavedTab after the await; a save that found another version asks for it. *)
HearSave ==
    /\ Hears("save")
    /\ CASE Heard.answer = "saved" ->
              /\ lastSaved' = Heard.text
              /\ now' = [now EXCEPT !.code = Heard.text, !.stamp = Heard.version,
                                    !.saved = Heard.text]
              /\ calls' = Tail(calls)
              /\ UNCHANGED <<notice, offered>>
         [] Heard.answer = "changed" /\ Heard.version = 0 ->
              /\ Show("deleted", 0)
              /\ calls' = Tail(calls)
              /\ UNCHANGED <<lastSaved, now>>
         [] Heard.answer = "changed" /\ Heard.version # 0 ->
              /\ calls' = Append(Tail(calls), Call("listen", Gone, Gone))
              /\ UNCHANGED <<lastSaved, now, notice, offered>>
         [] OTHER -> calls' = Tail(calls) /\ UNCHANGED <<lastSaved, now, notice, offered>>
    /\ UNCHANGED <<diskVars, seen, typed, saves, check, reached, blamed, late>>

(* onDiskConflict, after the read *)
HearListener ==
    /\ Hears("listen")
    /\ calls' = Tail(calls)
    /\ IF Heard.answer = Gone THEN UNCHANGED <<now, notice, offered>>
       ELSE /\ now' = [now EXCEPT !.stamp = Heard.version]
            /\ Show("conflict", Heard.version)
    /\ UNCHANGED <<diskVars, seen, lastSaved, typed, saves, check, reached, blamed, late>>

(* The choices of a notice: load theirs, keep mine, save again. *)
Choose(by) ==
    /\ notice.kind = "conflict" /\ by \in {"take", "keep"} /\ saves < MaxSaves
    /\ saves' = saves + 1
    /\ notice' = NoNotice
    /\ calls' = Append(calls, Call(by, Gone, Gone))
    /\ UNCHANGED <<diskVars, now, seen, lastSaved, typed, check, historyVars>>

SaveAgain ==
    /\ notice.kind = "deleted" /\ saves < MaxSaves
    /\ saves' = saves + 1
    /\ notice' = NoNotice
    /\ calls' = AskSave(Gone)
    /\ UNCHANGED <<diskVars, now, seen, lastSaved, typed, check, historyVars>>

(* takeTheirs after the read: TAKE_DISK_VERSION, the piece, and the save that keeps mine;
   their version becomes an undo step of the document.                            *)
HearTake(by) ==
    /\ by \in {"take", "keep"} /\ Hears(by)
    /\ IF Heard.answer = Gone THEN UNCHANGED <<now, reached>> /\ calls' = Tail(calls)
       ELSE /\ now' = [code |-> Heard.answer, stamp |-> Heard.version, saved |-> Heard.answer,
                       working |-> IF by = "keep" THEN now.working ELSE Heard.answer]
            /\ reached' = reached \cup {Heard.answer}
            /\ calls' = IF by = "take" THEN Tail(calls)
                        ELSE Append(Tail(calls), Call("save", seen.working, Heard.answer))
    /\ UNCHANGED <<diskVars, seen, lastSaved, notice, typed, saves, check, offered, blamed, late>>

----------------------------------------------------------------------------
(* The check *)

(* check: the stamps are asked for unless a save is in flight.  The second between two
   checks is taken to be longer than a render.                                    *)
CheckAsks ==
    /\ check.pc = "idle" /\ ~isSaving /\ seen = now
    /\ check' = [check EXCEPT !.pc = "asked", !.watched = seen.stamp]
    /\ UNCHANGED <<diskVars, windowVars, calls, historyVars>>

CheckStamps ==
    /\ check.pc = "asked"
    /\ check' = [check EXCEPT !.pc = "answered",
                              !.stamp = IF disk.text = Gone THEN 0 ELSE disk.version]
    /\ UNCHANGED <<diskVars, windowVars, calls, historyVars>>

Idle == [pc |-> "idle", watched |-> 0, stamp |-> 0]

(* examine for a file that has no stamp *)
FindGone ==
    IF isSaving THEN UNCHANGED <<now, notice, offered>>
    ELSE /\ now' = [now EXCEPT !.stamp = 0]
         /\ IF Dirty(seen) THEN Show("deleted", 0) ELSE UNCHANGED <<notice, offered>>

(* stampMoved, and the first half of examine *)
CheckHears ==
    /\ check.pc = "answered"
    /\ IF check.stamp = check.watched
       THEN check' = Idle /\ UNCHANGED <<calls, now, notice, offered>>
       ELSE IF check.stamp = 0
            THEN check' = Idle /\ FindGone /\ UNCHANGED calls
            ELSE /\ check' = [check EXCEPT !.pc = "reading"]
                 /\ calls' = Append(calls, Call("check", Gone, Gone))
                 /\ UNCHANGED <<now, notice, offered>>
    /\ UNCHANGED <<diskVars, seen, lastSaved, typed, saves, reached, blamed, late>>

(* Mutant: only the piece's own text is compared. *)
TouchedByCode(text) == text = seen.code

(* judgeDiskChange: "touched" *)
Touched(text) == text = seen.code \/ text = lastSaved

(* examine after the read *)
HearCheck ==
    /\ Hears("check")
    /\ calls' = Tail(calls)
    /\ check' = Idle
    /\ late' = (late \/ seen # now)
    /\ CASE Heard.answer = Gone \/ isSaving -> UNCHANGED <<now, notice, reached, offered, blamed>>
         [] Heard.answer # Gone /\ ~isSaving /\ Touched(Heard.answer) ->
              /\ now' = [now EXCEPT !.stamp = Heard.version]
              /\ notice' = NoNotice
              /\ UNCHANGED <<reached, offered, blamed>>
         [] Heard.answer # Gone /\ ~isSaving /\ ~Touched(Heard.answer) /\ Dirty(seen) ->
              /\ now' = [now EXCEPT !.stamp = Heard.version]
              /\ Show("conflict", Heard.version)
              /\ blamed' = IF Heard.own THEN blamed \cup {Heard.version} ELSE blamed
              /\ UNCHANGED reached
         [] OTHER ->
              IF Dirty(now) THEN UNCHANGED <<now, notice, reached, offered, blamed>>
              ELSE /\ now' = [code |-> Heard.answer, stamp |-> Heard.version,
                              saved |-> Heard.answer, working |-> Heard.answer]
                   /\ notice' = NoNotice
                   /\ reached' = reached \cup {Heard.answer}
                   /\ blamed' = IF Heard.own THEN blamed \cup {Heard.version} ELSE blamed
                   /\ UNCHANGED offered
    /\ UNCHANGED <<diskVars, seen, lastSaved, typed, saves>>

----------------------------------------------------------------------------
Init ==
    /\ \E t \in Texts :
        /\ disk = [text |-> t, version |-> 1, own |-> FALSE]
        /\ now = [code |-> t, stamp |-> 1, saved |-> t, working |-> t]
        /\ reached = {t}
    /\ seen = now /\ lastSaved = Gone /\ notice = NoNotice
    /\ writes = 0 /\ typed = 0 /\ saves = 0
    /\ check = Idle /\ calls = <<>>
    /\ offered = {} /\ blamed = {} /\ late = FALSE

Next ==
    \/ \E t \in Texts \cup {Gone} : Write(t)
    \/ \E t \in Texts : Edit(t)
    \/ \E i \in DOMAIN calls : Read(i) \/ Compare(i) \/ Replace(i) \/ Stamp(i)
    \/ Render \/ Save \/ HearSave \/ HearListener \/ SaveAgain
    \/ \E by \in {"take", "keep"} : Choose(by) \/ HearTake(by)
    \/ CheckAsks \/ CheckStamps \/ CheckHears \/ HearCheck

Spec == Init /\ [][Next]_vars

----------------------------------------------------------------------------
(* Properties *)

(* What a save overwrites has been in the editor: shown there, or one undo away. *)
NothingUnseenOverwritten ==
    [][disk.text # Gone /\ disk'.own /\ disk'.version # disk.version =>
           disk.own \/ disk.text \in reached]_vars

(* A clean tab is not quietly stale: once the version on disk is recorded, so that the
   check will not look again, the tab shows it or the person was offered it.      *)
NeverQuietlyStale ==
    ~late /\ disk.text # Gone /\ now.stamp = disk.version /\ ~Dirty(now) =>
        now.saved = disk.text \/ disk.version \in offered \/ disk.text = lastSaved

(* The check takes no text for another program's that Litria saved. *)
CheckBlamesOthers == blamed = {}

============================================================================
