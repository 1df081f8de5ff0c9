-------------------------- MODULE TerminalSessions --------------------------
(***************************************************************************)
(* Terminal sessions: the registry of terminal_session_manager.rs, the     *)
(* start commands that spawn a shell outside its lock, the teardowns, page *)
(* loads and the quit, and of terminalDomain.js and useTerminalLifecycle.js*)
(* the tabs, the close of a project and the backstop after a switch.       *)
(* A start, its tab and the session it may become have one name in Starts. *)
(* The contents of a terminal are left out.                                *)
(***************************************************************************)
EXTENDS Integers, FiniteSets

CONSTANTS
    Starts,       \* start commands: each is one tab and at most one session
    Folders,      \* records [project, root] that the window may open
    NoFolder,     \* no project is open
    Caps,         \* records [perProject, total]: the limits to check, one at a time
    EarlyLimit,   \* EARLY_EXIT_LIMIT
    MaxPages,     \* bound: page loads
    MaxOpens,     \* bound: projects opened
    Prompt        \* assumption on the scheduler, see below

ASSUME TerminalAssumption ==
    /\ IsFiniteSet(Starts) /\ NoFolder \notin Folders
    /\ \A f, g \in Folders : f.project = g.project /\ f.root = g.root => f = g
    /\ Caps \subseteq [perProject : Nat, total : Nat]
    /\ {EarlyLimit, MaxPages, MaxOpens} \subseteq Nat
    /\ Prompt \in BOOLEAN

VARIABLES
    cap,       \* MAX_SESSIONS_PER_PROJECT and MAX_SESSIONS_TOTAL: it never changes
    (* the window *)
    current,   \* terminalDomain state.current
    shown,     \* the folder of the instance on screen
    tab,       \* per start: "none", "starting", "running", "ended" or "gone"
    ask,       \* per start: the folder and the page that asked
    opens,     \* projects opened so far
    (* commands asked and not yet begun *)
    ends,      \* starts whose session is to be ended: terminal_session_end
    sweeps,    \* whether a terminal_teardown_all is to run
    backstop,  \* projects to be ended: terminal_end_project
    (* the threads of the start commands *)
    pc,        \* "idle" "asked" "captured" "reserved" "spawned" "ok" "refused" "done"
    seen,      \* per start: the page its command captured
    (* the registry *)
    live, pending, cancelled, early,  \* sets of starts
    ending,    \* the count of teardowns
    page,      \* State::page
    main,      \* the event loop: "idle" "loading" "quitting" "waiting" "left"
    (* the processes *)
    proc,      \* per start: "none" "up" "exited" "told" "gone"
    tearing,   \* starts whose session a teardown thread is ending
    swept      \* history: starts that were live or pending when a sweep took them

frontVars == <<current, shown, tab, ask, opens>>
askedVars == <<ends, sweeps, backstop>>
startVars == <<pc, seen>>
registryVars == <<live, pending, cancelled, early, ending, page, main>>
processVars == <<proc, tearing, swept>>
vars == <<cap, frontVars, askedVars, startVars, registryVars, processVars>>

----------------------------------------------------------------------------
quitting == main \in {"quitting", "waiting", "left"}
(* The process runs until the quit handler returns. *)
Running == main # "left"
(* Frontend code and its calls need the event loop, which page loads and the quit hold. *)
FrontendRuns == main = "idle"

Project(s) == ask[s].folder.project
InProject(S, p) == {s \in S : Project(s) = p}

(* State::live entries of S become teardowns, each counted in `ending`. *)
Tear(S) == /\ tearing' = tearing \cup S
           /\ ending' = ending + Cardinality(S)

(* A sweep of S (end_project, take_all): starts in flight are cancelled, live sessions
   are taken.                                                                    *)
Sweep(S) ==
    /\ live' = live \ S
    /\ cancelled' = cancelled \cup (pending \cap S)
    /\ Tear(live \cap S)
    /\ swept' = swept \cup ((live \cup pending) \cap S)

----------------------------------------------------------------------------
(* The window *)

(* The end of openProjectInstanceNow.  A switch leaves the old instance on screen
   until this moment, so the effect of useTerminalLifecycle then ends its project,
   which has no tab any more.                                                   *)
OpenProject(f) ==
    /\ FrontendRuns /\ current = NoFolder /\ ~sweeps /\ opens < MaxOpens
    /\ Prompt => backstop = {}
    /\ current' = f
    /\ shown' = f
    /\ opens' = opens + 1
    /\ backstop' = IF shown # NoFolder /\ shown.project # f.project
                   THEN backstop \cup {shown.project} ELSE backstop
    /\ UNCHANGED <<tab, ask, ends, sweeps, startVars, registryVars, processVars>>

(* resetToLauncher *)
ToLauncher ==
    /\ FrontendRuns /\ current = NoFolder /\ ~sweeps /\ shown # NoFolder
    /\ shown' = NoFolder
    /\ UNCHANGED <<current, tab, ask, opens, askedVars, startVars, registryVars, processVars>>

(* teardownActiveProject: clearCurrentProject, then teardownAll drops every tab and
   asks the shell to end every session; the open that follows waits for it.     *)
CloseProject ==
    /\ FrontendRuns /\ current # NoFolder
    /\ current' = NoFolder
    /\ tab' = [s \in Starts |-> IF tab[s] = "none" THEN "none" ELSE "gone"]
    /\ sweeps' = TRUE
    /\ UNCHANGED <<shown, ask, opens, ends, backstop, startVars, registryVars, processVars>>

(* startSession up to `await io.spawn`. *)
StartSession(s) ==
    /\ FrontendRuns /\ current # NoFolder /\ pc[s] = "idle"
    /\ tab' = [tab EXCEPT ![s] = "starting"]
    /\ ask' = [ask EXCEPT ![s] = [folder |-> current, page |-> page]]
    /\ pc' = [pc EXCEPT ![s] = "asked"]
    /\ UNCHANGED <<current, shown, opens, askedVars, seen, registryVars, processVars>>

(* endSession: the tab goes at once; a session not yet known is ended when its start
   resolves.                                                                    *)
EndSession(s) ==
    /\ FrontendRuns /\ tab[s] \in {"starting", "running"}
    /\ tab' = [tab EXCEPT ![s] = "gone"]
    /\ ends' = IF tab[s] = "running" THEN ends \cup {s} ELSE ends
    /\ UNCHANGED <<current, shown, ask, opens, sweeps, backstop, startVars, registryVars, processVars>>

(* Mutant: a session whose tab went away while it was starting is forgotten. *)
HearStartForgets(s) ==
    /\ FrontendRuns /\ pc[s] \in {"ok", "refused"} /\ ask[s].page = page
    /\ pc' = [pc EXCEPT ![s] = "done"]
    /\ tab' = [tab EXCEPT ![s] = CASE tab[s] = "gone" -> "gone"
                                   [] pc[s] = "ok" -> "running"
                                   [] OTHER -> "ended"]
    /\ UNCHANGED <<current, shown, ask, opens, askedVars, seen, registryVars, processVars>>

(* startSession after `await io.spawn`, on the page that asked. *)
HearStart(s) ==
    /\ FrontendRuns /\ pc[s] \in {"ok", "refused"} /\ ask[s].page = page
    /\ pc' = [pc EXCEPT ![s] = "done"]
    /\ IF tab[s] = "gone"
       THEN /\ ends' = IF pc[s] = "ok" THEN ends \cup {s} ELSE ends
            /\ UNCHANGED tab
       ELSE /\ tab' = [tab EXCEPT ![s] = IF pc[s] = "ok" THEN "running" ELSE "ended"]
            /\ UNCHANGED ends
    /\ UNCHANGED <<current, shown, ask, opens, sweeps, backstop, seen, registryVars, processVars>>

----------------------------------------------------------------------------
(* A start command *)

(* terminal_spawn begins on the async runtime and captures the page. *)
Capture(s) ==
    /\ Running /\ pc[s] = "asked"
    /\ seen' = [seen EXCEPT ![s] = page]
    /\ pc' = [pc EXCEPT ![s] = "captured"]
    /\ UNCHANGED <<frontVars, askedVars, registryVars, processVars>>

OtherRoot(s) == \E t \in live \cup (pending \ cancelled) :
                    Project(t) = Project(s) /\ ask[t].folder.root # ask[s].folder.root

(* Mutant: teardowns still running do not count. *)
FullForgetsEnding(s) ==
    \/ Cardinality(InProject(live, Project(s))) + Cardinality(InProject(pending, Project(s)))
           >= cap.perProject
    \/ Cardinality(live) + Cardinality(pending) >= cap.total

Full(s) ==
    \/ Cardinality(InProject(live, Project(s))) + Cardinality(InProject(pending, Project(s)))
           >= cap.perProject
    \/ Cardinality(live) + Cardinality(pending) + ending >= cap.total

(* state.page != page, looked at when a slot is reserved and after the spawn. *)
EarlierPage(s) == page # seen[s]

Refused(s) == quitting \/ EarlierPage(s) \/ OtherRoot(s) \/ Full(s)

(* reserve *)
Reserve(s) ==
    /\ Running /\ pc[s] = "captured"
    /\ IF Refused(s)
       THEN /\ pc' = [pc EXCEPT ![s] = "refused"]
            /\ UNCHANGED pending
       ELSE /\ pc' = [pc EXCEPT ![s] = "reserved"]
            /\ pending' = pending \cup {s}
    /\ UNCHANGED <<frontVars, askedVars, seen, live, cancelled, early, ending, page, main, processVars>>

(* The spawn, outside the lock.  One that fails or panics gives its slot back. *)
SpawnFails(s) ==
    /\ Running /\ pc[s] = "reserved"
    /\ pc' = [pc EXCEPT ![s] = "refused"]
    /\ pending' = pending \ {s}
    /\ cancelled' = cancelled \ {s}
    /\ UNCHANGED <<frontVars, askedVars, seen, live, early, ending, page, main, processVars>>

Spawn(s) ==
    /\ Running /\ pc[s] = "reserved"
    /\ pc' = [pc EXCEPT ![s] = "spawned"]
    /\ proc' = [proc EXCEPT ![s] = "up"]
    /\ UNCHANGED <<frontVars, askedVars, seen, registryVars, tearing, swept>>

(* Mutant: the cancellation is not looked at after the spawn. *)
UnwantedIgnoresCancel(s) == quitting \/ EarlierPage(s)

(* start_on_page: `cancelled` *)
Unwanted(s) == quitting \/ EarlierPage(s) \/ s \in cancelled

ExitedEarly(s) == s \in early

(* start_on_page under the lock again: the session is registered, or ended at once. *)
Register(s) ==
    /\ Running /\ pc[s] = "spawned"
    /\ pending' = pending \ {s}
    /\ cancelled' = cancelled \ {s}
    /\ early' = early \ {s}
    /\ IF Unwanted(s) \/ ExitedEarly(s)
       THEN Tear({s}) /\ UNCHANGED live
       ELSE live' = live \cup {s} /\ UNCHANGED <<ending, tearing>>
    /\ pc' = [pc EXCEPT ![s] = IF Unwanted(s) THEN "refused" ELSE "ok"]
    /\ UNCHANGED <<frontVars, askedVars, seen, page, main, proc, swept>>

----------------------------------------------------------------------------
(* Ends *)

(* end: one session of the person's *)
EndOne(s) ==
    /\ Running /\ s \in ends
    /\ ends' = ends \ {s}
    /\ live' = live \ {s}
    /\ Tear(live \cap {s})
    /\ UNCHANGED <<frontVars, sweeps, backstop, startVars, pending, cancelled, early, page, main, proc, swept>>

(* end_project: the backstop *)
EndProject(p) ==
    /\ Running /\ p \in backstop
    /\ backstop' = backstop \ {p}
    /\ Sweep(InProject(live \cup pending, p))
    /\ UNCHANGED <<frontVars, ends, sweeps, startVars, pending, early, page, main, proc>>

(* end_all: the close of a project *)
EndAll ==
    /\ Running /\ sweeps
    /\ sweeps' = FALSE
    /\ Sweep(Starts)
    /\ UNCHANGED <<frontVars, ends, backstop, startVars, pending, early, page, main, proc>>

(* The end of a teardown: the session's process tree is gone. *)
EndFinishes(s) ==
    /\ Running /\ s \in tearing
    /\ tearing' = tearing \ {s}
    /\ proc' = [proc EXCEPT ![s] = "gone"]
    /\ ending' = ending - 1
    /\ UNCHANGED <<frontVars, askedVars, startVars, live, pending, cancelled, early, page, main, swept>>

(* A shell exits by itself, or while it is being ended. *)
ShellExits(s) ==
    /\ Running /\ proc[s] = "up"
    /\ proc' = [proc EXCEPT ![s] = "exited"]
    /\ UNCHANGED <<frontVars, askedVars, startVars, registryVars, tearing, swept>>

(* on_self_exit, called by the exit watcher.  An exit of a session that is not live
   is remembered: it is still starting, or already being ended.                 *)
SelfExit(s) ==
    /\ Running /\ proc[s] = "exited"
    /\ proc' = [proc EXCEPT ![s] = "told"]
    /\ live' = live \ {s}
    /\ Tear(live \cap {s})
    /\ early' = IF s \in live THEN early
                ELSE {s} \cup (IF Cardinality(early) >= EarlyLimit THEN {} ELSE early)
    /\ UNCHANGED <<frontVars, askedVars, startVars, pending, cancelled, page, main, swept>>

----------------------------------------------------------------------------
(* Page loads and the quit: two critical sections each, on the event loop *)

(* end_all_for_new_page: page += 1.  The scripts of the old page, its tabs and what
   they awaited are gone; commands already asked go on.  Prompt: every command asked
   has begun by now.                                                            *)
PageLoads ==
    /\ main = "idle" /\ page < MaxPages
    /\ Prompt => ~sweeps /\ backstop = {} /\ \A s \in Starts : pc[s] # "asked"
    /\ main' = "loading"
    /\ page' = page + 1
    /\ current' = NoFolder /\ shown' = NoFolder
    /\ tab' = [s \in Starts |-> IF tab[s] = "none" THEN "none" ELSE "gone"]
    /\ UNCHANGED <<ask, opens, askedVars, startVars, live, pending, cancelled, early, ending, processVars>>

(* end_all_for_new_page: take_all *)
PageSweeps ==
    /\ main = "loading"
    /\ main' = "idle"
    /\ Sweep(Starts)
    /\ UNCHANGED <<frontVars, askedVars, startVars, pending, early, page, proc>>

(* quit: state.quitting *)
Quit ==
    /\ main = "idle"
    /\ main' = "quitting"
    /\ UNCHANGED <<frontVars, askedVars, startVars, live, pending, cancelled, early, ending, page, processVars>>

(* quit: take_all *)
QuitSweeps ==
    /\ main = "quitting"
    /\ main' = "waiting"
    /\ Sweep(Starts)
    /\ UNCHANGED <<frontVars, askedVars, startVars, pending, early, page, proc>>

(* Mutant: the quit does not wait for starts in flight. *)
SettledIgnoresStarts == ending = 0
Settled == ending = 0 /\ pending = {}

(* quit: everything settled.  When its budget is over first, the process exits: nothing
   here happens any more.                                                         *)
QuitReturns ==
    /\ main = "waiting" /\ Settled
    /\ main' = "left"
    /\ UNCHANGED <<frontVars, askedVars, startVars, live, pending, cancelled, early, ending, page, processVars>>

----------------------------------------------------------------------------
Init ==
    /\ cap \in Caps
    /\ current = NoFolder /\ shown = NoFolder /\ opens = 0
    /\ tab = [s \in Starts |-> "none"]
    /\ ask = [s \in Starts |-> [folder |-> NoFolder, page |-> 0]]
    /\ ends = {} /\ sweeps = FALSE /\ backstop = {}
    /\ pc = [s \in Starts |-> "idle"]
    /\ seen = [s \in Starts |-> 0]
    /\ live = {} /\ pending = {} /\ cancelled = {} /\ early = {}
    /\ ending = 0 /\ page = 0 /\ main = "idle"
    /\ proc = [s \in Starts |-> "none"]
    /\ tearing = {} /\ swept = {}

Next ==
    /\ cap' = cap
    /\ \/ \E f \in Folders : OpenProject(f)
       \/ ToLauncher \/ CloseProject \/ EndAll
       \/ \E s \in Starts :
           \/ StartSession(s) \/ EndSession(s) \/ HearStart(s)
           \/ Capture(s) \/ Reserve(s) \/ Spawn(s) \/ SpawnFails(s) \/ Register(s)
           \/ EndOne(s) \/ EndFinishes(s) \/ ShellExits(s) \/ SelfExit(s)
       \/ \E p \in backstop : EndProject(p)
       \/ PageLoads \/ PageSweeps \/ Quit \/ QuitSweeps \/ QuitReturns

Spec == Init /\ [][Next]_vars

----------------------------------------------------------------------------
(* Properties *)

(* Type correctness. *)
TypeOK ==
    /\ cap \in Caps
    /\ current \in Folders \cup {NoFolder} /\ shown \in Folders \cup {NoFolder}
    /\ opens \in 0..MaxOpens
    /\ tab \in [Starts -> {"none", "starting", "running", "ended", "gone"}]
    /\ ask \in [Starts -> [folder : Folders \cup {NoFolder}, page : 0..MaxPages]]
    /\ ends \subseteq Starts /\ sweeps \in BOOLEAN
    /\ backstop \subseteq {f.project : f \in Folders}
    /\ pc \in [Starts -> {"idle", "asked", "captured", "reserved", "spawned", "ok",
                          "refused", "done"}]
    /\ seen \in [Starts -> 0..MaxPages]
    /\ live \subseteq Starts /\ pending \subseteq Starts /\ cancelled \subseteq pending
    /\ early \subseteq Starts
    /\ ending \in Int /\ page \in 0..MaxPages
    /\ main \in {"idle", "loading", "quitting", "waiting", "left"}
    /\ proc \in [Starts -> {"none", "up", "exited", "told", "gone"}]
    /\ tearing \subseteq Starts /\ swept \subseteq Starts

(* A start that holds a slot: its shell exists, is being spawned or is being ended. *)
Holds(s) == pc[s] = "reserved" \/ proc[s] \in {"up", "exited", "told"}

(* The caps bound what really runs: shells that exist or are being spawned or ended, in
   all, and those of one project that are not being ended.                        *)
CapsHold ==
    /\ Cardinality({s \in Starts : Holds(s)}) <= cap.total
    /\ \A p \in {f.project : f \in Folders} :
           Cardinality({s \in Starts \ tearing : Holds(s) /\ Project(s) = p}) <= cap.perProject

(* A live session was asked for by the page that is shown, except while a page load has
   yet to sweep: nobody would ever show it.                                       *)
OwnedByItsPage == main # "loading" => \A s \in live : ask[s].page = page

(* A start that was in flight or live when its project closed, the page loaded or the
   quit began is not live afterwards.                                            *)
SweptNeverLive == live \cap swept = {}

(* A shell whose exit the registry was told of is not live: an exit during the start is
   remembered until the session is registered.                                    *)
DeadNeverLive == \A s \in live : proc[s] # "told"

(* A project's live sessions run in one folder. *)
OneFolder == \A s, t \in live : Project(s) = Project(t) => ask[s].folder = ask[t].folder

(* A quit that returns before its deadline leaves no shell behind. *)
QuitLeavesNothing == main = "left" => \A s \in Starts : proc[s] \in {"none", "gone"}

(* A session with a tab stays live until its shell exits, the person or a close drops
   the tab, the page loads or Litria quits: no late command of an earlier project or
   switch ends it.                                                                *)
EndsForAReason ==
    [][\A s \in live \ live' :
           tab[s] = "gone" \/ proc[s] = "exited" \/ main \in {"loading", "quitting"}]_vars

(* A live session whose tab is gone is about to be ended: by a command that was asked,
   by a sweep that is due, or by the window that still waits for its start.      *)
NobodyForgotten ==
    \A s \in live : tab[s] = "gone" =>
        \/ s \in ends \/ sweeps \/ main \in {"loading", "quitting"}
        \/ pc[s] = "ok" /\ ask[s].page = page

============================================================================
