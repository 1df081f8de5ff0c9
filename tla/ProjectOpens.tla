---------------------------- MODULE ProjectOpens ----------------------------
(***************************************************************************)
(* Requests to open a project and to exit to the launcher: the queue of    *)
(* opens, the notice about busy terminals, the teardown of the project     *)
(* that is open and the open of the next (useProjectLaunch.js), and the    *)
(* gate that holds one notice (terminalEndGate.js).                        *)
(* Workers that a teardown ends are left out: see TerminalSessions.        *)
(***************************************************************************)
EXTENDS Naturals, Sequences

CONSTANTS
    MaxRequests,   \* bound: requests of the person
    Projects,
    Nothing        \* no project; no request

(* A request is its place among them. *)
Requests == 1..MaxRequests

ASSUME OpensAssumption ==
    /\ MaxRequests \in Nat
    /\ Nothing \notin Projects /\ Nothing \notin Requests

VARIABLES
    asked,    \* history: the requests so far
    target,   \* per request: the project to open; Nothing for an exit
    crossed,  \* history: the requests that were under way while an exit was
    pc,       \* per request: "idle" "queued" "checking" "asking" "notice" "guard"
              \* "closing" "opening" "showing" "done"
    queue,    \* openTurnRef: the opens that have not ended, the oldest first
    waiting,  \* terminalEndGate: the request whose notice is shown
    torn,     \* requests that tore a project down
    shown,    \* liveInstanceRef, the project in the window
    db,       \* the project whose database is open
    current,  \* the project in which terminals may be started
    last      \* history: the request whose outcome the window shows, 0 for none

requestVars == <<asked, target, crossed>>
windowVars == <<shown, current, last>>
vars == <<requestVars, pc, queue, waiting, torn, windowVars, db>>

Opens(r) == target[r] # Nothing
Active(r) == pc[r] \notin {"idle", "done"}
Newest(r) == \A q \in Requests : Opens(q) => q <= r

----------------------------------------------------------------------------
(* Mutant: a notice that gives way is dropped without an answer. *)
SettledUnresolved(q) == [q EXCEPT ![waiting] = "notice"]

(* settle(false): the request that waits for its notice ends. *)
Settled(p) == IF waiting = Nothing THEN p ELSE [p EXCEPT ![waiting] = "done"]

(* An exit does not queue: it runs beside whatever is under way, except the request whose
   notice it or the other replaces.                                                  *)
UnderWay == {q \in Requests : Active(q) /\ pc[q] # "notice"}
Cross(r, others) == crossed' = IF others = {} THEN crossed ELSE crossed \cup {r} \cup others

(* handleOpenProjectInstance *)
AskOpen(r, p) ==
    /\ r = asked + 1
    /\ asked' = r
    /\ target' = [target EXCEPT ![r] = p]
    /\ Cross(r, {q \in UnderWay : ~Opens(q)})
    /\ pc' = [Settled(pc) EXCEPT ![r] = "queued"]
    /\ waiting' = Nothing
    /\ queue' = Append(queue, r)
    /\ UNCHANGED <<torn, windowVars, db>>

(* handleExitToLauncher: it does not queue. *)
AskExit(r) ==
    /\ r = asked + 1 /\ shown # Nothing
    /\ asked' = r
    /\ Cross(r, UnderWay)
    /\ pc' = [Settled(pc) EXCEPT ![r] = "asking"]
    /\ waiting' = Nothing
    /\ UNCHANGED <<target, queue, torn, windowVars, db>>

(* Mutant: an open does not wait for the one in flight. *)
TurnAtOnce(r) == pc[r] = "queued"

(* the request whose turn it is: the opens before it have ended *)
Turn(r) == pc[r] = "queued" /\ Head(queue) = r

(* Only the newest runs. *)
TakeTurn(r) ==
    /\ Turn(r)
    /\ pc' = [pc EXCEPT ![r] = IF Newest(r) THEN "checking" ELSE "done"]
    /\ UNCHANGED <<requestVars, queue, waiting, torn, windowVars, db>>

(* nextTask after the open ended *)
EndTurn ==
    /\ queue # <<>> /\ pc[Head(queue)] = "done"
    /\ queue' = Tail(queue)
    /\ UNCHANGED <<requestVars, pc, waiting, torn, windowVars, db>>

(* dbCheckProjectPath; a path that cannot be a project ends here. *)
CheckPath(r) ==
    /\ pc[r] = "checking"
    /\ pc' = [pc EXCEPT ![r] = IF shown = Nothing THEN "guard" ELSE "asking"]
    /\ UNCHANGED <<requestVars, queue, waiting, torn, windowVars, db>>

BadPath(r) ==
    /\ pc[r] = "checking"
    /\ pc' = [pc EXCEPT ![r] = "done"]
    /\ UNCHANGED <<requestVars, queue, waiting, torn, windowVars, db>>

(* busySessions answers; confirm settles any notice that waits.  Sessions that run a
   program get a notice, idle ones none.                                         *)
Confirm(r) ==
    /\ pc[r] = "asking"
    /\ \/ waiting' = r /\ pc' = [Settled(pc) EXCEPT ![r] = "notice"]
       \/ waiting' = Nothing /\ pc' = [Settled(pc) EXCEPT ![r] = "guard"]
    /\ UNCHANGED <<requestVars, queue, torn, windowVars, db>>

(* The person answers the notice. *)
Answer(r) ==
    /\ waiting = r
    /\ waiting' = Nothing
    /\ \E step \in {"guard", "done"} : pc' = [pc EXCEPT ![r] = step]
    /\ UNCHANGED <<requestVars, queue, torn, windowVars, db>>

(* guardUnsavedChanges: the person stays, or the teardown begins. *)
Stay(r) ==
    /\ pc[r] = "guard"
    /\ pc' = [pc EXCEPT ![r] = "done"]
    /\ UNCHANGED <<requestVars, queue, waiting, torn, windowVars, db>>

GoAhead(r) ==
    /\ pc[r] = "guard"
    /\ IF shown # Nothing
       THEN /\ current' = Nothing
            /\ pc' = [pc EXCEPT ![r] = "closing"]
            /\ torn' = torn \cup {r}
       ELSE /\ pc' = [pc EXCEPT ![r] = IF Opens(r) THEN "opening" ELSE "showing"]
            /\ UNCHANGED <<current, torn>>
    /\ UNCHANGED <<requestVars, queue, waiting, shown, last, db>>

(* teardownActiveProject, to its end: dbCloseProject *)
CloseDatabase(r) ==
    /\ pc[r] = "closing"
    /\ db' = Nothing
    /\ pc' = [pc EXCEPT ![r] = IF Opens(r) THEN "opening" ELSE "showing"]
    /\ UNCHANGED <<requestVars, queue, waiting, torn, windowVars>>

(* dbOpenProject *)
OpenDatabase(r) ==
    /\ pc[r] = "opening"
    /\ db' = target[r]
    /\ pc' = [pc EXCEPT ![r] = "showing"]
    /\ UNCHANGED <<requestVars, queue, waiting, torn, windowVars>>

(* Mutant: an open that fails leaves the window as it is. *)
ResetNever(r) == FALSE
Reset(r) == r \in torn

(* db_open_project fails and undoes nothing: before the new connection replaces the one there
   is, after it, or between a close and a bootstrap.                                  *)
LeftOpen(r) == {db, Nothing, target[r]}

(* The open fails.  If a project was torn down for it, the launcher is shown. *)
OpenFails(r) ==
    /\ pc[r] = "opening"
    /\ db' \in LeftOpen(r)
    /\ pc' = [pc EXCEPT ![r] = "done"]
    /\ shown' = IF Reset(r) THEN Nothing ELSE shown
    /\ last' = IF Reset(r) THEN r ELSE last
    /\ UNCHANGED <<requestVars, queue, waiting, torn, current>>

(* The end of openProjectInstanceNow, and resetToLauncher at the end of an exit *)
Show(r) ==
    /\ pc[r] = "showing"
    /\ pc' = [pc EXCEPT ![r] = "done"]
    /\ shown' = target[r]
    /\ current' = IF Opens(r) THEN target[r] ELSE current
    /\ last' = r
    /\ UNCHANGED <<requestVars, queue, waiting, torn, db>>

----------------------------------------------------------------------------
Init ==
    /\ asked = 0
    /\ target = [r \in Requests |-> Nothing]
    /\ crossed = {}
    /\ pc = [r \in Requests |-> "idle"]
    /\ queue = <<>> /\ waiting = Nothing /\ torn = {}
    /\ shown = Nothing /\ db = Nothing /\ current = Nothing /\ last = 0

(* What the program does by itself, and what the person does who was asked *)
Step(r) ==
    \/ TakeTurn(r) \/ CheckPath(r) \/ BadPath(r) \/ Confirm(r)
    \/ CloseDatabase(r) \/ OpenDatabase(r) \/ OpenFails(r) \/ Show(r)
Decide(r) == Answer(r) \/ Stay(r) \/ GoAhead(r)

Next ==
    \/ EndTurn
    \/ \E r \in Requests :
        \/ \E p \in Projects : AskOpen(r, p)
        \/ AskExit(r) \/ Step(r) \/ Decide(r)

Spec == Init /\ [][Next]_vars

(* Every command answers, and the person answers what is on screen. *)
FairSpec == Spec /\ WF_vars(EndTurn)
                 /\ \A r \in Requests : WF_vars(Step(r)) /\ WF_vars(Decide(r))

----------------------------------------------------------------------------
(* Properties *)

(* What the window shows is the outcome of a request that an exit crossed. *)
Astray == last \in crossed

(* A project in the window is the one whose database is open and in which terminals start,
   and behind the launcher no terminal can start: unless a request is past its questions, or
   what is shown is the outcome of one that an exit crossed.  (Behind the launcher a database
   may be open: see LeftOpen.)                                                         *)
ShownIsOpen ==
    (\A r \in Requests : pc[r] \notin {"closing", "opening", "showing"}) /\ ~Astray
        => /\ shown # Nothing => shown = db
           /\ shown = current

(* An open has its outcome shown while every open asked after it still waits for its turn,
   whatever the exits do; and only the outcome of a request that an exit crossed may replace
   that of a request made later.                                                       *)
LaterChoiceStays ==
    [][/\ \A r, q \in Requests :
              /\ Opens(r) /\ pc[r] \in {"opening", "showing"} /\ pc'[r] = "done"
              /\ Opens(q) /\ r < q
              => pc[q] = "queued"
       /\ last' < last => Astray']_vars

(* Every request comes to an end, the ones that gave way included. *)
RequestsEnd == \A r \in Requests : pc[r] # "idle" ~> pc[r] = "done"

============================================================================
