# A TLA+ development of Litria

Litria is a desktop editor that shows a project as a canvas of pieces wired
together.  A Tauri shell in Rust (`src-tauri/src`) owns files, databases,
processes and sockets; a React webview (`src/`) owns the canvas and the text
editor; coding agents reach both through a Project API.  What is hard in it is
what happens *between* those parties: each acts on what it last heard of the
others, any of them may stop, and a project may close, reopen or give way to
another at any step.  This directory models those protocols, model-checks them on
small instances with TLC, and proves theorems about all ten of them with TLAPS.

Paths below are relative to the repository root; `app/`, `project/` and
`editor/` are under `src/`, and Rust files under `src-tauri/src/`.

## Inventory

| Component | State it keeps | Operations | Talks to | Hard part | Correct when |
|---|---|---|---|---|---|
| **Project API bridge** `project_api/bridge.rs`, `app/projectApiBridge.js`, `useProjectApiBridge.js` | attachment, generation counter, pending table; per mount: ready epoch, attached generation, held and answered requests; the reconcile queue | call, emit, reply, attach, detach, mount, dispose, set ready | every Project API operation that needs the editor | asynchronous events both ways, timeouts, remounts, project switches | a caller may rely on what it is told; the editor acts at most once; both sides agree on the attachment |
| **Agent changes** `project_api/changes.rs`, `operations.rs` | plan store (memory), operation records (database), request threads | propose, claim, reject, carry out, standing, recover, report | bridge, database, editor, write manager | crash or switch between any two steps, lost answers, two claimants | records are true after any crash; effects happen once, at home, and files after edits |
| **Position outbox** `project/positionOutbox.js`, `useProjectPersistence.js` | pending moves and their epoch, last seen positions, timers, batch in flight | detect, debounce, flush, retry, requeue, final flush | database commands, launch | React's effects, switches, failed writes, overlapping ids | no move lost, overtaken, or written into another project |
| **Workspace database** `db/*` | the open connection and its epoch | open, close, fenced commands | everything that persists | writes that arrive after a switch | a write reaches the workspace it was made for, or none |
| **Project launch** `app/useProjectLaunch.js`, `terminalEndGate.js` | the open in flight, waiting requests, notice | open, close, exit, confirm | all of the above | newest request wins, notices, failed opens | the last choice of the person is what is open |
| **Terminal sessions** `terminal_session_manager.rs`, `terminal_pty.rs`, `terminal/*` | live, pending, cancelled, ending sessions, early exits, the page; the tabs | start, write, end, end project, end all, page load, quit | launch, MCP sessions | spawning outside the lock, early exits, page reloads, commands of an earlier page | no session outlives its project, its page or its tab; caps hold; a quit leaves no shell |
| **Language servers** `lsp/*` | sessions, start reservations, diagnostics, installs | start, stop, crash, publish, install, cancel | launch, Project API reads | two starts, exits during stops, stale diagnostics, notifications each on a thread of its own | a late crash spares the successor; nothing stale is read as current; the store drops dead servers |
| **MCP connection** `mcp_connection/*` | sessions, tokens, connections | accept, hello, call, end, shut down | terminals, Project API | ends during authentication | an ended session serves nobody, but for one call already checked; a quit cuts no answer off |
| **Filesystem writes** `app/filesystemWriteManager.js`, `write_ops.rs` | operations in progress, each with the render it was asked in; groups promised to folders | create, move, rename, delete, undo | database, canvas, disk | the disk first, the canvas later, from an earlier render; one of several steps fails | pieces name the folders their files are in, also after refusals and changes by others |
| **Groups and folders** `app/groupDomain.js`, `useGroupFolderReconciliation.js` | groups with their folder and members; the pass under way | launch pass, refresh pass, add, remove | filesystem writes, changes on disk | a pass that is dropped, blind, or meets an operation halfway; a first check of the tree that refreshes nothing | one group per folder, its members the pieces of that folder |
| **Editor session and saving** `editor/*` | tabs, dirty text, undo models | open, edit, save, save all, close | disk, outbox of failures | typing during a save, disk changed | a save never overwrites unseen text |
| **Changes on disk** `app/useDiskChanges.js`, `project/diskConflicts.js` | stamps, saves in flight, notices | check, take theirs, keep mine | editor session | checks crossing saves | Litria's own saves are not conflicts |
| **Project creation** `scaffold_runner.rs`, `creation_ownership.rs`, `process_control.rs` | marker, manifest, run control | claim, write, run a step, cancel, clean up | disk, processes | cancel and timeout between steps | cleanup deletes only what is proven its own; the wizard is told the truth; the limits end a run |
| **Undo history** `history/*` | past, future, open group | push, group, undo, redo | canvas | nested groups, merging | redo restores what undo took |
| **Project API reads, crash capture, preferences, canvas domains, interface** | | | | sequential, or no state | unit-tested |

`PROJECT.json` lists every component with its status, and every hazard at
the line where it bites with the properties that cover it, or the reason none
does yet.

## Modules

| Module | What it is |
|---|---|
| `AgentOperations` | agent changes: plan store, request threads, durable records, recovery, and the editor's side of their calls |
| `OperationReceipts` | what the record of an operation promises a reader; implemented by `AgentOperations` |
| `BridgeCalls` | the owner bridge, both sides |
| `BridgeContract` | what a caller may conclude from a call; implemented by `BridgeCalls`, assumed by `AgentOperations` |
| `PositionOutbox` | the position outbox across project switches, with the epoch fence |
| `TerminalSessions` | the registry of terminal sessions, the shells, the tabs, page loads and the quit |
| `LspSessions` | the servers of one language, the store of their diagnostics, the notifications of one document |
| `EditorSaves` | the saves of one tab and the check for changes on disk |
| `ProjectOpens` | requests to open a project or to exit, their queue and the notice about busy terminals |
| `ProjectCreation` | attempts to create a project in a folder, their process, their cancellation and their cleanup |
| `McpSessions` | sessions of the MCP service, the connections they serve, and the shutdown |
| `FolderGroups` | operations on files and folders, their groups on the canvas, the pass that brings them together, another program |
| `AgentOperationsProofs`, `BridgeCallsProofs`, `PositionOutboxProofs`, `TerminalSessionsProofs`, `McpSessionsProofs`, `LspSessionsProofs` | theorems of the modules they are named for |
| `ProjectProofs` | theorems of `ProjectOpens` and of `ProjectCreation` |
| `FileProofs` | theorems of `EditorSaves` and of `FolderGroups` |
| `MC...` | small instances for TLC; `open.cfg`, `mcp.cfg` and `br.cfg` need none |

A definition whose comment begins with *Mutant* is not used by a
specification: it is the form a plausible bug would give the definition after it,
and `PROJECT.json` says which property notices.  A `TypeOK` that no run lists was
checked with its module while it was written.

### AgentOperations

`plans` is `PlanStore` (its ageing is `PlanAges`: "expired" past the time to live,
"old" past the time an expired plan is remembered); `records` is the table
`api_operations` of the project databases; `req` is what a plan's thread asked of
the editor; `pc`, `job`, `journal` and `verdict` are the local state of a request
thread in `execute`/`carry_out`.  The steps of `carry_out` are `Intend`, `Check`,
`AskShow`, `StartEdits`, `AskApply`, `StartFiles`, `AskCreate`, the `Hear...`
actions for their answers, `Finish` (`Journal::finish`) and `Store`
(`PlanStore::finish`).  `Save` stands for every write of the record: it is refused when
another epoch is open, when the project is read-only, or by the disk.  `effect` and
`pill` are history variables.  `Crash` empties the memory, keeps the records and the
files, and starts the epochs over in a new run.

The bridge is abstracted to what `BridgeContract` promises of it: a call is
undelivered (nothing done, now or ever), answered, refused as
`workspaceChanged`, or lost, after which the editor may still act.
`carry_out` treats an answer about other documents than it asked for as unknown;
the model has this as the answer "error".

### BridgeCalls

One action per critical section of `bridge.rs` and per turn of the webview's
thread in `projectApiBridge.js`.  `deliver_reply` is two actions because it sends
after releasing the lock (`DeliverReply`, `SendReply`), and a timed-out waiter is
three (`TimeOut`, `Withdraw`, `TryOnce`).  The attach command reads the open epoch
before it takes the bridge's lock (`AttachReads`, `AttachMints`).  `Handle` is
`handleRequest` with its answer: a request is stale, or lasting (its answer takes
more turns, `Proceed`), or acted upon, or answered without effect.  An
event reaches the bridges that listen when it is emitted, one or more times and
in any order (`MaxDeliveries`).  `tail` and `reconciling` are the queue
of `serializeAttachments`.

### PositionOutbox

A commit of React and the passive effect that looks at it are two steps
(`Move`/`Churn`/`HearRead`, then `RunEffect`).  Commands are synchronous Tauri
commands, so the shell runs them one at a time in the order they were called
(`queue`) and answers in that order (`answers`).  A position is the project it
was made in and a move number, so that "written into another project" and "replaced by an
older one" can be said.  The constant `Prompt` is an assumption about React: its
passive effects run before the answer of an open is heard, and no move is made on a
canvas whose seed run is due.  React does not promise either; *Where the code and its words differ* says
what the code does without them.

### TerminalSessions

One action per critical section of `terminal_session_manager.rs`.  A start captures the
page (`Capture`), takes a slot (`Reserve`), spawns outside the lock and registers;
the sweeps of a close, a page load and the quit mark the starts in flight as cancelled.
A shell that exits before its session is registered is remembered in `early`, which
forgets when it holds `EarlyLimit`.  `ending` counts the teardown threads that the quit
waits for; the quit may give up at its deadline (`main` is then not "left").  The tabs are
those of `terminalDomain.js`; `ends`, `sweeps` and `backstop` are commands that were asked
and have not begun, so that the switch's backstop may run after the next project's
tabs are there.  `Prompt` is an assumption about the order of commands: those a page asked begin
before the next page loads, and the backstop of a switch before later requests.

### LspSessions

`Check`, `Reserve`, `Launch`, `Insert` and `Release` are the steps of a start
between its locks; `server` and `stop` are the reader thread's and the stop's progress
after a session left the registry.  `store` is an entry of `diagnostics_cache.rs` with its
openings and versions.  `lsp_notify` gives each notification to a blocking task of its own, and the
window does not await one before the next (`commands.rs:709-721`, `documentSync.js:42-88`): `notes` are
those that no task has taken up, `Records` takes any of them, looks the session up and records it, and
`Writes` writes any that is recorded, since the two use different locks (`session.rs:809-845`).  A
notification is its place in `asks`, the history of what the window asked for, which the code does not
have; so "current" can be compared with what was recorded last, though versions start over with a page
load.  `jumbled` is the history of openings recorded out of order.

### EditorSaves

`now` is what was set and `seen` what the last render showed: closures read `seen`.
A save is asked, runs in the shell (`Compare`, `Replace`, `Stamp`, with another program's
writes between them) and is heard, in the order asked (`calls`); the check
asks for a stamp on another thread, compares it with the stamp watched, reads the
text and judges it in a later turn.  Three abstractions matter.  `Replace` compares and
renames in one step, so the window that `project_ops.rs:117-121` documents is left out.  A
`Read` takes text and stamp at one moment.  And a check begins on a rendered window, since its interval
is a second and more, while `late` marks behaviours in which a judgement met a render that was due.

### ProjectOpens

`queue` is the chain of `openTurnRef`; `waiting` the one request of `terminalEndGate.js`,
which a newer one settles.  An exit does not queue: it runs beside whatever is under way, and
`crossed` is the history of the requests to which that happened, the exit included.  `db`, `shown`
and `current` are what the shell, the window and the terminals take for the open project.  An open
that fails may leave the old connection, none, or its own (`LeftOpen`): `db_open_project` installs the
new connection before it reads or bootstraps the project, and undoes nothing when that fails.  Closing a
database is taken to succeed.

### ProjectCreation

The folder is a tree of `made`, `files` and `marker`; a text says who wrote it, so
that a cleanup that removes another's text is seen to.  `stage` follows the three runs from the
claim of the folder to the outcome told to the wizard, one step for each thing done on
the disk.  `flagged` is the run's `RunControl`, looked at where the code looks: before each
command and while output is read.  A person may add, change
and remove things between any two steps, and Litria may die between any two, which
leaves the marker, the partial files and the process.  When the loop is left for a cancellation or a
limit, the process is ended and reaped (`TearDown`), and then its readers are joined (`Join`), which waits
for every holder of the pipes: what the process started may have ignored the signal or left its group
(`child` is then "left"), and ends or lets go of the pipes when it likes (`LetsGo`).

### McpSessions

`session`, `of` and `place` are the registry; a connection's thread is `stage`.  Every look
at the registry is two steps, because `open_epoch` is read before the registry is
locked (`ReadEpoch`, then `Authenticate`, `Attach` or `StillHolds`).  Whatever removes a session
cancels the streams of the connections that have a place; a cancelled stream still yields
the lines that had arrived.  A call's thread returns its answer and then writes it, and gives up its
place after that; the shutdown takes new places away and waits for the old ones.
`late` is the history of calls begun after the session was over.

### FolderGroups

An operation is asked in one render (`Ask...`, which keeps `pieces` and `groups` as that render
had them), has its effect on the disk or is refused (`Effect`, `Refused`), and changes the canvas
when the answer has come (`Follow`, `Clear`, `ClearGroup`, `AddGroup`), by what it worked out
from the render it was asked in; `Refresh` is the last step of a move.  Where the code filters or maps
the groups as they are by then, the model does; where it starts from those last rendered, the
two are the same, since a change of the canvas and its render are one step.
`pass` is the effect of `useGroupFolderReconciliation.js`: it lists the tree (`ReadTree`, or
`TreeUnread` when the listing fails) and compares (`Reconcile`); `Rendered` says which
renders cancel it and which start one.  `pend` are the group ids that a manager remembers for
folders (`pendingFolderGroups`), for each render whose manager an operation still
holds.  `Outside` is another program; `TakeStamp`, `CheckTree` and `FollowRename` are what
`useDiskChanges.js` makes of it.  The first check takes the stamp of the tree and refreshes nothing
(`TakeStamp`); only from then on does a moved stamp refresh, and only then are renames followed.

A path is a sequence of names, a file keeps its name, and no two files share one.  The person
begins the operations in a fixed order, which loses nothing, as they differ by
name only.  Four histories say what a property must except: `overlapped` (two operations at
once), `entangled` (a pass changed groups in the middle of an operation, a folder took the
place of another, or an operation began while a piece's folder had no group), `strayed` (files moved by another program and not followed yet, or lost by a deletion
that failed halfway) and `missed` (the last refresh was dropped or could not list the tree, or the first
check found changes that no pass was about to list).
*Where the code and its words differ* says what happens in each.

## Runs

| Run | Bounds | Shows |
|---|---|---|
| `op_crash` | 1 plan (two files, or an opened document and a file), 2 projects, 2 processes with 2 opens each, 1 thread | `RecordIsTrue`, `ReportNamesEveryEffect`, `EffectOnce`, `FilesFollowEdits`, `InterruptedIsFinal`, `KeepsReceipts` |
| `op_claims` | 2 threads, 2 agents and the person, 1 plan (an edit and a file), 1 open | `StandingIsTrue`, `EffectOnce`, `ClaimsEnd` |
| `br` | 1 lasting call, 2 mounts, 2 opens, 2 changes of readiness, 1 slot, 2 deliveries | `TableIsTrue`, `SidesAgree`, `KeepsContract`, `CallsReturn`, `EditorConnects` |
| `box_switch` | projects A, B and C (a read-only copy of A), 2 pieces, 3 opens, 2 moves | `OwnPositions`, `NothingForgotten`, `NeverBack` |
| `box_live` | 1 project, 2 pieces, 3 moves | `MovesSaved` |
| `term` | 2 starts, a project in two folders and another one, 2 opens, 1 page load, three settings of the caps | `CapsHold`, `SweptNeverLive`, `QuitLeavesNothing`, `NobodyForgotten` |
| `lsp` | 1 key, 2 starts with 3 notifications or 1 start with 4, 1 page load | `CurrentIsTrue`, `StoreFollowsSessions`, `CrashSparesSuccessor` |
| `save` | 3 texts, 3 writes of another program, 1 edit, 2 saves | `NeverQuietlyStale`, `CheckBlamesOthers`, `NothingUnseenOverwritten` |
| `open` | 4 requests, opens and exits at any time, 2 projects | `ShownIsOpen`, `LaterChoiceStays`, `RequestsEnd` |
| `create` | 2 files, 2 attempts of any kind, 2 deeds of the person, 1 death | `NothingForeignLost`, `OutcomeIsTrue`, `RunEnds` |
| `mcp` | 1 session, 2 connections, 1 call each, 2 opens, 2 messages | `OneLateCall`, `QuitWaits`, `ConnectionsEnd` |
| `fs` | 2 files, one in a folder below that of the other, 4 folders in 2 levels, 2 operations of any kind, 2 acts of the person or another program | `PiecesFollowFiles`, `EveryFolderDrawn`, `MembersFollowFiles` |

The bounds let the interesting cases happen.

* Two processes with two opens each are the least in which an operation is interrupted
  by a crash, by a switch and by both, and is read in the same run and in a later one.
* Two mounts and two changes, with a dispose between them, let a detach cross an attach
  of another mount while a third reconcile waits; two deliveries repeat an event.  One call
  meets every step of the bridge.  What calls could do to each other is the table and
  its limit, and that is `TableIsTrue`, which `PendingNeverStale` proves for any number
  of calls; `ContractKept` proves the refinement for any number too.
* Three opens let a batch of the first project be in flight past the second.
* Two starts are enough for a cap to refuse one, for one to be ended while the
  other is spawned, and for a session to end in a project that was opened again.  The
  settings of the caps let the total decide, the project decide, and neither.
* Two starts of one key race for the registry and for the store; three notifications with
  a page load make a version number return with another text, and four are the least with which an
  opening out of its order does harm (`CurrentIsTrue` without `jumbled`).
* Three texts tell "what I had", "what another wrote" and "what I saved" apart; two saves
  overlap.
* Four requests are an open in flight, one superseded in the queue, one that waits behind a
  notice, and an exit that crosses them.
* Two attempts are a run and its retry over what the first, or its death, left behind; two files are
  one written and one not.
* Two connections of one session are one more than its limit; two opens end the project a
  session is for and let another begin.  The safety of `mcp` was also checked with two
  sessions (2.7 million states); the theorems below hold for any number.  With one session
  `MAX_SESSIONS` refuses nobody in the run.

* Two acts are two operations at once, or one with another program's change in the middle of it; the pass and
  the follower of renames run beside them.  Two files, one in a folder and one in the folder above it,
  let a folder be moved or deleted with a file of its own and one below it, and one file join or leave
  the other's folder.  `fs` was also checked with one file, three folders and three acts (14.1 million
  states), and with one operation, four folders and two more changes by another program (837 000).

`op_crash`, `term`, `lsp` and `save` declare symmetry: no action tells one
element of the permuted set from another, and these runs check no liveness.
Each property has a mutant of the code that violates it within the bounds of its run.
Deadlock checking is off everywhere, because the bounds let every instance come to
rest: no open, edit, call or message is left.

### Assumptions that runs make

Three constants narrow the environment, and setting each to `FALSE` shows what the code then
does.

* `PositionOutbox!Prompt`: React's passive effects run before the answer of an open is
  heard, and no move is made on a canvas whose seed run is due.  React promises neither.
* `TerminalSessions!Prompt`: commands asked by a page begin before the next page loads.
* `ProjectCreation!Undisturbed`: nobody writes a file between the moment a run looks at it
  and the moment it writes or removes it.

### Fairness

* `AgentOperations!FairSpec`: request threads keep running and each wait of a
  thread ends, by an answer or by its deadline (`recv_timeout`).  The editor owes
  nothing.
* `BridgeCalls!FairSpec`: calling threads run and their deadlines pass; a queued
  reconcile and the commands it awaits run (the promise chain and the shell's
  command loop).  Mounting, readiness, events and answers owe nothing: `EditorConnects` is
  conditional on a mount that stays ready for the workspace that stays open.
* `PositionOutbox!FairSpec`: the shell runs commands; renders, effects, timers and
  answers come.  `SF(RunMoves(TRUE))`: a write tried again and again is not
  refused for ever by the disk.  `computeFlushDelay` caps how long churn may
  postpone a flush, so `WF(FlushTimer)` is not defeated by it.  `SF(HearAnswer)`: the
  event loop serves an answer that has come.
* `ProjectOpens!FairSpec`: commands answer, and the person answers what is on screen;
  nobody need ask for anything.
* `ProjectCreation!FairCreationSpec`: the run's thread runs, reads a line that has come, and its deadline
  passes; the teardown runs, and the readers are joined once nobody holds the pipes (`Join`).  The
  process and what it started owe nothing: they may print for ever, never end, or hold the pipes for ever.
* `McpSessions!FairSpec`: a connection's thread runs and wakes every `TICK`, calls return
  (their operations are bounded) and a write ends (`WRITE_DEADLINE`).  Clients owe nothing.

`TerminalSessions`, `LspSessions`, `EditorSaves` and `FolderGroups` are checked for safety only.

## Where the code and its words differ

No run expects a violation: each of these was found with a model, and is given with the change to
a configuration that shows it.

* **A refused last write** (`AgentOperations`; `operations.rs:209-210`).  When the last write of a record
  is refused while the open goes on, the operation reads as *applying* until the project is
  opened again, though no thread works on it.
* **Positions of another project** (`PositionOutbox` with `Prompt = FALSE`).  A move of A that is
  detected after B's open was heard is stamped with B's epoch and written to B's
  piece of the same id; and a move made before the seed run is taken for a loaded position.
* **Reopening the open project** (`box_live.cfg` with `Reopens = TRUE` and `MaxOpens = 2`:
  `MovesSaved` fails).  The instance id stays the same, so the moves that wait
  keep the old epoch, are refused, and with them every later move
  (`useProjectPersistence.js:633`, `positionOutbox.js:11-12`, `useProjectLaunch.js:452-454`).
* **Two starts of one key** (`lsp.cfg` with `NeverReplaces` as a property).  The
  comment at `session.rs:77-84` says that reservations keep a second start from replacing a
  session; the check of the registry precedes the reservation (`session.rs:401`, `408`), so a start
  that passed the check may insert over a session that was registered meanwhile (`578`).
* **A server that dies in between** (`LspSessions`).  A server that exits between its handshake and
  its insertion stays registered: its exit was handled when it was not there.
* **Late commands of an earlier page** (`term.cfg` with `Prompt = FALSE` and `OwnedByItsPage` as an
  invariant, which fails),
  against `terminal_session_manager.rs:67-69`.
* **Litria's own text as a conflict** (`EditorSaves`).  A second save asked while one is in
  flight carries the old base, and is refused as a conflict with the text Litria itself
  wrote.  Another program that puts Litria's last saved text back is judged a mere touch.
* **Exits do not queue** (`open.cfg` with `Astray` dropped from `ShownIsOpen` or from
  `LaterChoiceStays`).  An exit during an open, or an open during an exit, tears down what the other
  shows, and whichever ends last decides what is in the window.
* **A database behind the launcher** (`open.cfg` with `shown = db` required of the launcher too).
  `db_open_project` may fail when the new connection is there (`db/commands.rs:199-201`, `104-132`).  The
  launcher is then shown (`useProjectLaunch.js:417-428`) with the database of the failed project open,
  until the next open or the end of Litria.  No window shows it and no terminal can start in it
  (`ShownIsOpen`).
* **Notifications in any order** (`lsp.cfg` with `jumbled` dropped from `CurrentIsTrue`: four notes and a
  page load).  `diagnostics_cache.rs:18-20` says that "any race errs toward *not current*".  Each
  notification has a task of its own, and `commands.rs:193-197` says that such commands can start in any
  order.  If a change of the earlier page is recorded after the opening of the next, a publish
  for its text can read as current when the new page's text of the same version is recorded.  And in one
  page, changes recorded in the wrong order make the older text the one that is "sent": what is
  published for it reads as current though the window asked for another since.  `CurrentIsTrue`
  therefore speaks of the text recorded last.
* **The first check of the tree** (`fs.cfg` with `missed' = missed` in `TakeStamp`: `EveryFolderDrawn`
  fails).  It takes the stamp without a refresh (`useDiskChanges.js:270-274`).  A folder that another
  program makes after the launch pass listed the tree, and before that check, stays without a group, and
  a group whose folder it removes stays, until something else refreshes; a rename in that time is never
  followed.
* **A cancel that is too early** (`ProjectCreation`; `NewProjectWizard.jsx:850-853`).  The comment says that a run in
  flight is stopped through the runner.  Before a run is registered (a Python run while its
  files are written, an npm run while it is checked, a Blank run always) `cancel_run`
  returns false, the wizard does not look, and the run goes on to its end.
* **A folder that is not the run's** (`scaffold_runner.rs`).  An npm run takes the folder for its own creation; an
  empty one that the person made between the check and the command is removed by a cancel.
* **Output closed, process alive** (`process_control.rs:406-407`).  The comment takes both pipes closed for
  an exit.  A process that closes them and goes on is waited for without limit, out of
  reach of the deadline and of the cancellation (`ChildCloses`; `RunEnds` excludes it by name).
* **What survives a teardown** (`process_control.rs:342`, `426-431`).  "On any abort the whole tree is
  torn down".  A process of the tree that ignores the signal or left the group lives on: on Unix the
  forced kill finds no group to signal once the process that Litria started is reaped (`308-324`).  While
  the survivor holds the pipes, the readers are joined without limit and the run does not come to its
  end, a cancelled one included (`TearDown`, `Join`; `RunEnds` excludes it by name, in `Awaits`).
* **A reply in the same instant** (`bridge.rs:237-238`) is said to count still.  `deliver_reply` takes the reply off the
  table under the lock and sends it after releasing it, so a waiter that times out in between
  (`DeliverReply`, `TimeOut`, `Withdraw`, `TryOnce`, `SendReply`) misses it.  The caller
  is told that nothing is known, which the contract allows.
* **Reported exactly once** (`operations.rs:246-247`).  An operation is marked as reported before the pill
  is shown, so a crash in between loses it (`pill` is then "lost"): it is reported at most once,
  which is what `InterruptedIsFinal` states.

* **A name that is taken** (`FolderGroups`, `TakesPlace`; `project_ops.rs:325`).  Both
  `filesystem-write-manager-prd.md:462` and `group-nest-merge-prd.md:309` (in `docs/prds`)
  abort a move whose destination exists.  The code renames: an empty folder of that name is
  replaced (so is a file, by a file), and the pieces that a group of that name still held,
  or the members of the folder's own group, end in two groups or in none, against
  `src/utils/groupFolders.js:3-6`.
* **A group that is not removed** (`filesystemWriteManager.js:225-232`, `586-593`;
  `groupDomain.js:13`).  A comment says that a group emptied by a move is filtered
  out by `keepGroup`, and its database row is deleted for that reason.  `keepGroup` keeps every
  group, so the group stays on the canvas without its row.
* **A creation or a deletion that fails** (`useGroupMenuActions.js:74-79`, `264-269`).  The handlers catch an
  exception and stop, but the manager answers `{success: false}` and throws nothing: the group is
  deleted though its folder stays (`ClearGroup`), or added though there is none (`AddGroup`).
  The refresh after it usually mends this.
* **A refresh that comes to nothing** (`useGroupFolderReconciliation.js:86-87`, `233-238`).  Any
  change of the pieces or groups cancels the pass; only the pass of the launch is begun again.
  A drag while the tree is listed leaves new folders without groups, and groups without folders, until
  something else refreshes (`fs.cfg` with `missed` dropped from `EveryFolderDrawn`).
* **A pass between the disk and the canvas** (`fs.cfg` with `entangled` dropped from
  `MembersFollowFiles`).  It removes the group of a folder that was just moved and makes one for the
  new place; the move then finds no group to take along, and its pieces end in none, since the pass does not touch
  the members of a group that has its folder.
* **A group that comes back smaller** (`fs.cfg` with `Ungrouped` dropped from `Begins`: `MembersFollowFiles`
  fails).  A refused deletion has taken a folder's group off the canvas (`ClearGroup`), and a file is
  moved into that folder before the refresh has made the group again.  The move makes a group with
  that file alone (`Homeless`, `buildMembershipPlan`), the pass finds that the folder has its group, and
  the folder's other pieces stay in none.

What else the models showed, without contradicting anything written:

* `removePieces` and `deleteGroup` in one turn (`deletePipeline`) start from the same rendered groups,
  so only the later takes effect on them; the members of other groups below a deleted folder are then left to
  the pass, which removes those groups.
* A folder moved with no piece below it changes no group's folder: the pass removes the group of the old name
  and makes one for the new.
* A folder that vanished while pieces still name it: the pass removes its group, the
  next makes it again, and so on with every refresh, until the pieces are removed or followed.
* A file placed on the canvas in a folder that has a group does not join it (seen in the code; placing is not modelled).

* In the bridge, three checks are defence in depth: the generation checks of
  `detach` and `deliver_reply`, and the check after an attach that it is still
  wanted.  Removing one alone breaks no property, because the serialized queue and
  the random request ids already exclude the case.
* After a final flush (`allowRetry: false`) no retry is scheduled, so moves whose
  debounce timer fired while that batch was in flight wait for the next change
  of the pieces.  `MovesSaved` is therefore checked with one open, and
  `NothingForgotten` counts such moves as kept in the box.
* The MCP sessions of a project that closes are ended by nobody at that moment: each connection
  finds out at its next line or tick, and `Registry::start` sweeps what is left.  A call whose
  check was passed before the close begins after it: one, which is what `OneLateCall` allows.

## Proofs

A theorem holds for every value of the constants that satisfies the module's `ASSUME`: any number of
plans, threads, projects, servers, requests and moves, any limits.  The bounds of the runs
(`MaxRun`, `MaxOpens`, ...) are constants too, so a theorem covers each of their values.  Each component has
an inductive invariant (`IInv`, `CreationInv` with `ForeignInv`, `FolderInv`), which TLC checked on the
component's instance before it was proved; the last lemmas are that the initial states satisfy it and that
every step keeps it, with one lemma for each action.  An assumption about the
environment (`Prompt`, `Undisturbed`) is a hypothesis of the theorems that need it.
Two components share a module of proofs where that saves one; they share no lemma.

### Agent changes

`AgentOperationsProofs` proves, for any plans, changes, proposals, agents, projects and threads:

| Theorem | Statement |
|---|---|
| `Invariant`, `TypeCorrect` | `Spec => []IInv`, `Spec => []TypeOK` |
| `RecordsAreTrue` | `Spec => []RecordIsTrue` |
| `StandingsAreTrue` | `Spec => []StandingIsTrue` |
| `EffectsOnce` | `Spec => []EffectOnce` |
| `FilesFollow` | `Spec => []FilesFollowEdits` |
| `ReportsAreWhole` | `Spec => []ReportNamesEveryEffect` |
| `InterruptedStays` | `Spec => InterruptedIsFinal` |
| `ReceiptsKept` | `Spec => KeepsReceipts`: the operations implement `OperationReceipts` |
| `ReceiptsTruthful` | `Spec => []Receipts!Truthful` |

A change is in one of three conditions: it took effect (`Happened`), it never will (`Untouched`), or the
call that is out may still bring it about (`LiveIn`).  No step moves a change out of the first two, and
that makes "what is said stays true" inductive.  `Minted` tells opens apart by run and epoch, so that only the
open that minted a plan can act for it; `Claimed` makes the thread that carries a plan out its only one;
`Closed` says that what a later open settled belongs to an open that is over.  `Truths` then
states, place by place in `carry_out` (`StageIsTrue`) and for the store, the call and the record
(`PlanIsTrue`), what each says of the three sets.  What makes it hold at a crash is in
`Covered`: a change that is not recorded as started has not happened, because the
write comes before the call.  For the refinement, `Intend` begins a receipt (a plan that is
refused at once begins one that is already settled), the editor's steps act on changes that are live, and every
other write of a record tells; two invariants beside `IInv` serve it: `StillOpen` (the
receipt of a change that may still happen is undecided) and `OwnEffects`.

### The bridge

`BridgeCallsProofs` proves, for every set of bridges, finite set of calls, and
bounds that satisfy `BridgeAssumption`:

| Theorem | Statement |
|---|---|
| `TypesAndTurns` | types, and only the reconcile at the head of the queue runs |
| `TypeCorrect` | `Spec => []TypeOK` |
| `SidesAlwaysAgree` | `Spec => []SidesAgree` |
| `PendingNeverStale` | `Spec => []TableIsTrue` |
| `ContractKept` | `Spec => KeepsContract`: the bridge implements `BridgeContract` |
| `CallersToldTheTruth` | `Spec => []Contract!Honest` |

The argument has four layers, each inductive given the ones before it.

1. **Types and turns.** `Types` is not inductive alone: `Finished` takes the tail of
   the queue, which must not be empty.  `Serialized` (a running reconcile is at the
   head) supplies that.
2. **Sides.** `SidesAgree` speaks only of an empty queue.  `Sides` says what holds
   while reconciles run: at most one mount is live (`OneLive`); a bridge queued
   behind another was mounted after it went (`QueueOrder`); what a bridge believes it is
   attached as, Rust has attached (`BelievesRightly`); an unanswered attach is the
   attachment (`Answering`); and Rust is attached to somebody who knows or is
   about to detach (`AttachedToSomeone`).
3. **Requests.** A pending request is addressed to the attached generation and its
   caller waits (`Waits`, `Passed`); the cardinality bound needs the finiteness of `Calls`.
4. **Promises.** The refinement.  A request not sent is unknown to every bridge
   (`UnsentUnknown`); once a bridge has taken it no other can (`OneTaker`), because
   its generation is known to that bridge alone (`KnowsAlone`, from `Sides`) and
   was minted before any later one (`GenerationsMinted`); a request is acted upon
   at most once, and only by an answer that is on its way or has arrived
   (`ActsOnce`, `AnswersTrue`).  `HandlePromises`, `ProceedPromises` and
   `ReturnPromises` map the three kinds of step that matter to `Act` and `Tell`; all
   others stutter.

### The position outbox

`PositionOutboxProofs` proves, for any projects, copies (`InstanceOf`), read-only databases and piece
ids, with or without `Reopens`:

| Theorem | Statement |
|---|---|
| `Invariant` | `Prompt` gives `Spec => []IInv` |
| `OwnStays` | `Prompt` gives `Spec => []OwnPositions` |
| `NoneForgotten` | `Prompt` gives `Spec => []NothingForgotten` |
| `SavedNeverBack` | `Prompt` gives `Spec => NeverBack` |

`OwnPositions` alone says nothing of the batches on their way.  The key lemma is `WriteIsShown`: when the
fence lets a batch through, the workspace that is open, the project shown, the epoch the frontend
presents, the epoch of the box and that of the batch are one, so the batch was collected from the screen
of that very open.  It rests on the order of calls and answers.  `Orderly` says what can be
under way: one batch, one read and one close or open, the read before the open.  `Aligned` derives from
it which workspace the backend holds at each stage of a switch, and that during an opening its epoch is newer than any
the frontend knows.  `Loading` says that a load not yet rendered is what its database holds, and
that the box is older than it.  `Prompt` is used in three places only: when an open is heard (no effect
is due), and when pieces move or change.  For the other two theorems, `Seen` follows each position last seen
to the box, to a batch that comes back when refused, or to the database, and `Rising`
orders what the fence would let through between the database and what was last seen.  `Fresh` is the
delicate part: a final flush may wait behind a batch (`chained`), and neither it nor the batch may
return moves to a box that has forgotten them.

### Terminal sessions

`TerminalSessionsProofs` proves, for every finite set of starts, any folders, caps and bounds that
satisfy `TerminalAssumption`:

| Theorem | Statement |
|---|---|
| `SweptStaysEnded` | `Spec => []SweptNeverLive` |
| `QuitLeavesNoShell` | `Spec => []QuitLeavesNothing` |
| `CapsAlwaysHold` | `Spec => []CapsHold` |
| `SessionsShareFolder` | `Spec => []OneFolder` |
| `DeadStaysOut` | `Spec => []DeadNeverLive`, if `Cardinality(Starts) <= EarlyLimit` |
| `SessionsOwnedByPage`, `NoSessionForgotten` | `Spec => []OwnedByItsPage` and `Spec => []NobodyForgotten`, if `Prompt` |
| `SessionsEndForAReason` | `Spec => EndsForAReason`, if `Prompt` |

`Life` ties, start by start, the command's place, the registry and the process together:
none of the three says alone which steps are possible.  On it rest `Swept` (a
start that a sweep took is cancelled or on its way out), `Heard` (an exit told before the
session is registered is remembered), `QuitHolds` with `Counted` (the count `ending` is
exactly the number of teardown threads, hence a quit that saw zero saw none), `Slots` (who holds a
slot is counted by the registry), `Wanted` and `Homes` (folders), and, with `Prompt`,
`Pages` and `Tabs`.  `DeadStaysOut` needs its hypothesis: an early exit forgotten for the
number of them leaves a dead session registered.  `OwnedByItsPage` and `EndsForAReason` were checked
with TLC before they were proved and belong to no run now.

### MCP sessions

`McpSessionsProofs` proves, for every finite set of sessions, connections and ids, and any limits:

| Theorem | Statement |
|---|---|
| `InvHolds` | `Spec => []IInv` |
| `AtMostOneLateCall` | `Spec => []OneLateCall` |
| `QuitHasWaited` | `Spec => []QuitWaits` |
| `EndReachesEveryConnection` | `Spec => []EndedAreCut`: who still converses for an ended session has been cancelled |

`OneLateCall` bounds a count and is not inductive.  `Lateness` says why it cannot grow: the connection
that began a late call belongs to a session that is over, and whatever it has read of the
project, the session does not hold for it, so its next look refuses it.  That this lasts
rests on what no step of the registry does (`Ages`: no session is started twice, revived or
moved; `Turns`: the project changes to a newer one or to none), which `OverStays` turns
into "over stays over, refused stays refused".  `CutInv` adds that only
connections of live sessions have a place; the limits themselves are not needed for any of it.

### Language servers

`LspSessionsProofs` proves, for any finite set of starts, any keys and limits:

| Theorem | Statement |
|---|---|
| `StoreFollows` | `Spec => []StoreFollowsSessions` |
| `CurrentTold` | `Spec => []CurrentIsTrue` |
| `CrashSpares` | `Spec => CrashSparesSuccessor` |

`Reservations` makes a start the only one of its key while it holds one, hence (`Kept`) while it is
launched nobody else's diagnostics are kept under that key.

`CurrentIsTrue` compares a publish with the text recorded last.  Notifications are recorded and written in
any order, so nothing can be said of a queue; the argument compares places in the history of what was
asked.  `Asked` says how versions grow along it: within one opening and within the first page, a later text
has a greater version (`Growing`).  `Entered` says of every text that a server was given, is about to be
given, or published about (`Given`) that its version is at most the entry's `highest` and, while the
document is open and no opening was jumbled, that the text belongs to the opening of the entry (`Begun`), or
has a version at most `reused`, or one below that of the opening: in each case an equal version that
counts as current is the same text.  A late write adds nothing new to that, because its note was recorded
in the entry before.  `Ahead` says that of the openings only later ones are still to be recorded, which is
what `jumbled` denies.  With no page load the versions alone tell texts apart, whatever the order.

### Saving, and changes on disk

`FileProofs` proves of `EditorSaves`, for any texts and any number of edits, saves and writes of another program:

| Theorem | Statement |
|---|---|
| `NeverStale` | `Spec => []NeverQuietlyStale` |
| `OnlyOthersBlamed` | `Spec => []CheckBlamesOthers` |
| `NothingUnseen` | `Spec => NothingUnseenOverwritten` |

The window hears of its calls in the order in which the shell ran them.  `CallsTrue` is therefore stated of the
queue as a sequence: what ran is a prefix of it (`InOrder`); what the disk holds, or a read found
there, and is Litria's, is what the last save before that place wrote (`OwnIsLast`, by `WroteLast`); an answer that names
the version on disk names its text (`Answers`); and text and expectation of a save come from the editor
(`FromEditor`).  `Stamped` is the same for the version that the window recorded.

### Opening projects

`ProjectProofs` proves of `ProjectOpens`, for any number of requests and any projects:

| Theorem | Statement |
|---|---|
| `ShownStaysOpen` | `Spec => []ShownIsOpen` |
| `LaterStays` | `Spec => LaterChoiceStays` |

`Queue` says that the opens that have not ended are queued in the order asked and only the first
runs; `Gate` that the notice shown belongs to the request that waits; `Window` what a request past its
questions has left of window, database and terminals (`Behaved`).  An exit does not queue: `Orderly` says
that whoever is under way beside one is crossed, itself included, so that of two requests that run at once
one is an exit and both are crossed (`OneRuns`).  `Later` says that who is not crossed was asked no earlier
than the request whose outcome is shown.

### Project creation

`ProjectProofs` proves of `ProjectCreation`, for any blueprint, kinds of project and number of attempts, deaths and
deeds of the person:

| Theorem | Statement |
|---|---|
| `OutcomesAreTrue` | `CreationSpec => []OutcomeIsTrue` |
| `NothingForeignIsLost` | `Undisturbed` gives `CreationSpec => []NothingForeignLost` |

What a file or a folder holds was written by Litria or its processes (`Ours`) or by the person (`Persons`), and a word says
by whom, so the two never mix.  `OutcomeIsTrue` speaks of the end of a run.
`Progress` carries it there: of the files a run has written, each is its own or was touched by the person since, at
every stage at which it writes or waits, and from `note` on it has written them all.  `Replaced` says that a cleanup which
has moved the run's folder aside did not leave another of a run in its place, which makes "removed" true.
`NothingForeignLost` is not inductive: it says nothing of what a marker or a manifest claims.  `Provable` does: where a
marker says that the run made the folder, and where a manifest in hand says so, it did (`OwnMarker`); a tree that is about
to be deleted was found to hold no word of the person's; and the file about to be removed or filled holds one of
Litria's.  The last is where `Undisturbed` is used (`PersonWritesLoses`, `PersonMakesLoses`), and only there.

### Files, folders and groups

`FileProofs` proves of `FolderGroups`, for any files, finitely many of them, any folders and any number of operations and
of changes by another program:

| Theorem | Statement |
|---|---|
| `FoldersInvariant` | `FoldersSpec => []FolderInv` |
| `PiecesAlwaysFollow` | `FoldersSpec => []PiecesFollowFiles` |
| `FoldersAreDrawn` | `FoldersSpec => []EveryFolderDrawn` |
| `MembersAlwaysFollow` | `FoldersSpec => []MembersFollowFiles` |

All three properties speak of a quiet canvas, so none is inductive.  `FolderInv` says what is true on the way there, in
four parts.

1. **Pieces.** `PiecesInv`: while operations do not overlap, a piece names the folder its file is in, except between an
   operation's effect on the disk and the canvas's; then the file is where the operation will put the piece
   (`Aimed`).  An operation that has not yet come back still sees the pieces as they are (`AsSeen`), which is why what
   it works out from an earlier render is right.
2. **Types and ids.** `FolderTypes`: no two groups share an id, and neither do two of the ids that managers remember for folders.  The lemmas about
   the operators do the work: `SetToSeqIs`, `WithoutIs` and `AllocatedIs` say what listing a set, filtering the
   groups and allocating ids return, as bijections; `SyncedIs` what a move makes of the groups.  The model writes them
   with functions and `SetToSeq`, so no induction over data is needed.
3. **Drawn.** `DrawnControl`: what the pass read is the tree, unless a change was noticed or missed; and once it has run,
   every folder has one group (`Drawn`), until the next operation has changed the canvas and its refresh is due.
   `ReconcileDraws` proves that the pass brings this about from any canvas whatever: it needs no fact about what
   operations have left, so the property holds also when they overlap.
4. **Members.** `MembersInv`, only while nothing met halfway (`Calm`): a group holds no piece of another folder
   (`InOwnGroup`); a shown piece is in a group, or its folder has none and a pass is due (`InSomeGroup`); no folder has two
   groups (`OneGroupEach`).  Three more keep these up.  The tree that was read has the folder of each piece
   (`ReadHolds`, by `PiecesInv`), so the pass takes no piece's group away; a folder that is moved goes where no other group is
   (`RoomMade`), so no two groups meet; and the groups an operation saw are those there still are (`ViewsHold`), so a plan made from
   an earlier render fits.  `NonePending` says that nothing remembered by a manager outlives its operation.

The second disjunct of `InSomeGroup` is why `entangled` counts operations that begin in that state: such a one may
make a group for the folder with its own file alone (*A group that comes back smaller*, above), and no invariant
that excludes it is inductive.

### What is not proved

Every safety property that a run checks is stated by a theorem.  The others stay with TLC: liveness under fairness (`ClaimsEnd`, `CallsReturn`,
`EditorConnects`, `MovesSaved`, `RequestsEnd`, `RunEnds`, `ConnectionsEnd`), which needs `ENABLED`.  Induction over data (what a recursive
definition computes for every input) is out of the prover's reach too; the modules that are proved about declare no recursive
operator.  The theorems about positions, three about pages and tabs, and `NothingForeignIsLost` need hypotheses
on the environment (see *Assumptions that runs make*).  `CurrentIsTrue`, `ShownIsOpen`,
`LaterChoiceStays`, `EveryFolderDrawn` and `MembersFollowFiles` except, by the histories `jumbled`, `crossed`,
`missed`, `overlapped`, `entangled` and `strayed`, what *Where the code and its words differ* describes.

## Plan

Next modules: `ServerInstalls` (installs, cancellation, receipts and the sweep); the saving of all tabs and
the renames of open files in `EditorSaves`; merges, batches and the undo of a delete in `FolderGroups`;
`UndoHistory` against a reference stack; a composition of `ProjectOpens` with `PositionOutbox`, so that
the outbox's switches are the queue's.

## Not modelled

Validation of paths, text and revisions; the formats of messages and records;
limits on sizes; rendering.  They change no protocol state, or decide before a protocol
begins.  Within the modelled parts:

* `EditorSaves`: files that vanish and are renamed, untitled tabs, save all, Monaco's models.
* `LspSessions`: requests to a server, managed installs, the resolver.
* `ProjectCreation`: subfolders, links, the file steps of an npm plan, the dependency audit, the first
  database, a Python project without an environment, and writes that the disk refuses (a death of
  Litria in the same place leaves the same behind).
* `McpSessions`: framing, the handshake of the protocol, the helper's relay, endpoints and the ceilings of
  the dispatcher.  A client beyond a limit changes nothing and is a stutter.
* `FolderGroups`: text, tabs, connections, the index, the database rows, parent links, groups without a folder,
  a drop within the same folder, merging groups, batches, new names of files, files put on
  the canvas, and undo.
* `ProjectOpens`: creating a project from the launcher, recents, and the workers that a teardown ends.

Components with the status `not_modelled` are listed with the reason in `PROJECT.json`.  Coverage is
partial by size: the repository is some 100 000 lines of code, most of them parsing,
rendering and contracts.
