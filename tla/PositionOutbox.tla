---------------------------- MODULE PositionOutbox ----------------------------
(***************************************************************************)
(* The position outbox: how the canvas keeps the positions of its pieces   *)
(* in the project database (src/project/positionOutbox.js and the position *)
(* effects of useProjectPersistence.js), across project switches           *)
(* (useProjectLaunch.js) and against the workspace epoch fence (dbStorage, *)
(* src-tauri/src/db/mod.rs).                                               *)
(*                                                                         *)
(* A position is the project it was made in and a move number.  A commit   *)
(* of React and the effect that looks at the committed pieces are two      *)
(* steps.  Commands are synchronous: the shell runs and answers them one   *)
(* at a time, in the order they were called.  Delays are abstracted to     *)
(* timers that are armed or not.                                           *)
(***************************************************************************)
EXTENDS Naturals, Sequences

CONSTANTS
    Projects,    \* project folders, each with its database
    InstanceOf,  \* the instance id in each database; a folder copy shares it
    ReadOnly,    \* the projects whose database opens read-only
    Pieces,      \* piece ids: they repeat from project to project
    Prompt,      \* external: React runs effects before the next event
                 \* that matters (Rendered, HearOpen)
    Reopens,     \* the person may open the instance that is open again
    MaxOpens,    \* bound: workspaces opened
    MaxMoves,    \* bound: moves the person makes
    None         \* absence

Positions == [home : Projects, n : 0..MaxMoves]
Full      == [Pieces -> Positions]
Boxes     == UNION {[D -> Positions] : D \in SUBSET Pieces}
Batches   == [moves : Boxes, final : BOOLEAN]
Loads     == [home : Projects, epoch : 1..MaxOpens]
Arrivals  == [load : Loads \cup {None}, at : Boxes]
Switches  == [to : Projects \cup {None}, stage : {"closing", "opening"}]

ASSUME OutboxAssumption ==
    /\ InstanceOf \in [Projects -> Projects]
    /\ ReadOnly \subseteq Projects
    /\ {Prompt, Reopens} \subseteq BOOLEAN
    /\ MaxOpens \in Nat /\ MaxMoves \in Nat
    /\ \A S \in {Projects, Batches, Loads, Arrivals, Switches} : None \notin S

VARIABLES
    (* Rust *)
    workspace,  \* the open workspace: its epoch and project, or None
    opens,      \* epochs minted
    db,         \* db[h][x]: the position of piece x in h's database
    queue,      \* commands called and not run yet
    answers,    \* answers not heard yet
    (* the frontend *)
    epoch,      \* the epoch presented to the backend (dbStorage.js)
    switching,  \* the switch in progress: where to, and its stage
    incoming,   \* a load set as project instance and not rendered yet
    shown,      \* the load on the screen, or None: the launcher
    loaded,     \* hasLoadedPiecesRef
    pieces,     \* the pieces on the screen
    due,        \* the position effect of the last commit has yet to run
    last,       \* lastPositionsRef
    box,        \* pendingMovesRef
    boxEpoch,   \* pendingEpochRef
    timer,      \* the debounce timer is armed
    retry,      \* the retry timer is armed
    writing,    \* the batch in flight, or None
    chained,    \* a final flush waits for the batch in flight
    gone,       \* the window unloaded
    moves       \* moves made so far

rustVars   == <<workspace, opens, db>>
switchVars == <<epoch, switching, incoming>>
screenVars == <<shown, loaded, pieces, due, moves>>
boxVars    == <<last, box, boxEpoch, timer, retry, writing, chained>>
vars == <<rustVars, queue, answers, switchVars, screenVars, boxVars, gone>>

NoMoves == [x \in {} |-> None]
Empty(f) == DOMAIN f = {}
(* f, with the entries of g written over it. *)
Merged(f, g) ==
    [x \in DOMAIN f \cup DOMAIN g |-> IF x \in DOMAIN g THEN g[x] ELSE f[x]]

Init ==
    /\ workspace = None /\ opens = 0
    /\ db = [h \in Projects |-> [x \in Pieces |-> [home |-> h, n |-> 0]]]
    /\ queue = <<>> /\ answers = <<>>
    /\ epoch = 0 /\ switching = None /\ incoming = None
    /\ shown = None /\ loaded = FALSE /\ pieces = NoMoves /\ due = FALSE /\ moves = 0
    /\ last = NoMoves /\ box = NoMoves /\ boxEpoch = 0
    /\ timer = FALSE /\ retry = FALSE /\ writing = None /\ chained = FALSE
    /\ gone = FALSE

-----------------------------------------------------------------------------
(* The backend runs the next command. *)

Runs(op) == queue # <<>> /\ Head(queue).op = op /\ queue' = Tail(queue)
Answers(a) == answers' = Append(answers, a)

RunClose ==
    /\ Runs("close")
    /\ workspace' = None
    /\ Answers([op |-> "close"])
    /\ UNCHANGED <<opens, db, switchVars, screenVars, boxVars, gone>>

(* mint_epoch *)
Minted == opens + 1

(* The workspace opens under a fresh epoch and its state is read; or not.  *)
RunOpen ==
    /\ Runs("open")
    /\ LET h == Head(queue).home IN
       \/ /\ opens < MaxOpens
          /\ opens' = opens + 1
          /\ workspace' = [home |-> h, epoch |-> Minted]
          /\ Answers([op |-> "open", load |-> workspace', at |-> db[h]])
       \/ /\ Answers([op |-> "open", load |-> None, at |-> NoMoves])
          /\ UNCHANGED <<workspace, opens>>
    /\ UNCHANGED <<db, switchVars, screenVars, boxVars, gone>>

(* with_workspace_db *)
Fenced(e) == workspace # None /\ workspace.epoch = e

RunMoves(ok) ==
    /\ Runs("moves")
    /\ LET call == Head(queue) IN
       IF ok
       THEN /\ Fenced(call.epoch) /\ workspace.home \notin ReadOnly
            /\ db' = [db EXCEPT ![workspace.home] = Merged(@, call.batch.moves)]
       ELSE UNCHANGED db
    /\ Answers([op |-> "moves", ok |-> ok, batch |-> Head(queue).batch])
    /\ UNCHANGED <<workspace, opens, switchVars, screenVars, boxVars, gone>>

RunRead ==
    /\ Runs("read")
    /\ Answers(Head(queue))
    /\ UNCHANGED <<rustVars, switchVars, screenVars, boxVars, gone>>

-----------------------------------------------------------------------------
(* flushPendingMoves. *)

Call(c) == queue' = Append(queue, c)

(* Mutant: the epoch is asked when the batch leaves. *)
BatchEpochNow == epoch
BatchEpoch == boxEpoch

(* The box `moved` is drained into a batch; `then` is called after it.      *)
SendBatch(moved, final, then) ==
    /\ IF Empty(moved)
       THEN writing' = None /\ queue' = queue \o then
       ELSE /\ writing' = [moves |-> moved, final |-> final]
            /\ queue' = queue \o <<[op |-> "moves", epoch |-> BatchEpoch, batch |-> writing']>> \o then
    /\ box' = NoMoves

(* allowRetry: true.  Nothing while a retry is set or a batch is in flight. *)
(* Mutant: batches are not serialized. *)
MayFlushAnyTime == ~retry'
MayFlush == ~retry' /\ writing = None
Flush ==
    IF MayFlush THEN SendBatch(box, FALSE, <<>>) /\ UNCHANGED chained
                ELSE UNCHANGED <<box, writing, chained, queue>>

(* allowRetry: false.  The last attempt; behind the batch in flight, if any. *)
FlushFinal(then) ==
    /\ retry' = FALSE
    /\ IF writing # None
       THEN chained' = TRUE /\ queue' = queue \o then /\ UNCHANGED <<box, writing>>
       ELSE SendBatch(box, TRUE, then) /\ UNCHANGED chained

FlushTimer ==
    /\ ~gone /\ timer
    /\ timer' = FALSE
    /\ UNCHANGED retry /\ Flush
    /\ UNCHANGED <<rustVars, answers, switchVars, screenVars, last, boxEpoch, gone>>

RetryTimer ==
    /\ ~gone /\ retry
    /\ retry' = FALSE /\ Flush
    /\ UNCHANGED <<rustVars, answers, switchVars, screenVars, last, boxEpoch, timer, gone>>

-----------------------------------------------------------------------------
(* Answers the frontend hears, in order. *)

Hear(op) == ~gone /\ answers # <<>> /\ Head(answers).op = op /\ answers' = Tail(answers)

(* requeueFailed *)
Requeued(failed) == Merged(failed, box)

(* Mutant: a failed batch waits for the next move. *)
RetriesOnSuccess(ok) == retry \/ (ok /\ ~Empty(box))
(* After a batch that may be retried: a retry, if it failed or more waits. *)
Retries(ok) == retry \/ ~ok \/ ~Empty(box)

HearMoves ==
    /\ Hear("moves")
    /\ LET ok    == Head(answers).ok
           batch == Head(answers).batch
           rest  == IF ok \/ batch.final THEN box ELSE Requeued(batch.moves)
       IN IF chained
          THEN /\ chained' = FALSE /\ retry' = FALSE
               /\ SendBatch(rest, TRUE, <<>>)
          ELSE /\ box' = rest
               /\ writing' = IF writing = batch THEN None ELSE writing
               /\ retry' = IF batch.final THEN retry ELSE Retries(ok)
               /\ UNCHANGED <<chained, queue>>
    /\ UNCHANGED <<rustVars, switchVars, screenVars, last, boxEpoch, timer, gone>>

HearClose ==
    /\ Hear("close")
    /\ IF switching.to = None
       THEN /\ incoming' = [load |-> None, at |-> NoMoves]
            /\ switching' = None
            /\ UNCHANGED queue
       ELSE /\ Call([op |-> "open", home |-> switching.to])
            /\ switching' = [switching EXCEPT !.stage = "opening"]
            /\ UNCHANGED incoming
    /\ UNCHANGED <<rustVars, epoch, screenVars, boxVars, gone>>

(* The open returned: its epoch is presented from now on, and the project   *)
(* instance is set; or the launcher is, when it failed.                     *)
HearOpen ==
    /\ Hear("open")
    /\ Prompt => ~due
    /\ LET a == Head(answers) IN
       /\ epoch' = IF a.load = None THEN epoch ELSE a.load.epoch
       /\ incoming' = [load |-> a.load, at |-> a.at]
    /\ switching' = None
    /\ UNCHANGED <<rustVars, queue, screenVars, boxVars, gone>>

(* The files of the load on the screen were read: its positions are set     *)
(* again, as they were loaded.  The answer of an earlier load is dropped.   *)
HearRead ==
    /\ Hear("read")
    /\ IF shown # None /\ Head(answers).epoch = shown.epoch
       THEN loaded' = TRUE /\ pieces' = Head(answers).at /\ due' = TRUE
       ELSE UNCHANGED <<loaded, pieces, due>>
    /\ UNCHANGED <<rustVars, queue, switchVars, shown, moves, boxVars, gone>>

-----------------------------------------------------------------------------
(* Switching projects. *)

Home(load) == IF load = None THEN None ELSE load.home
Instance(load) == IF load = None THEN None ELSE InstanceOf[load.home]

(* Opens run one at a time; whatever is open is closed first.               *)
Switch(h) ==
    /\ ~gone /\ switching = None /\ incoming = None
    /\ h = None => shown # None
    /\ shown # None /\ h # None /\ ~Reopens => InstanceOf[h] # Instance(shown)
    /\ IF shown # None
       THEN Call([op |-> "close"]) /\ switching' = [to |-> h, stage |-> "closing"]
       ELSE Call([op |-> "open", home |-> h]) /\ switching' = [to |-> h, stage |-> "opening"]
    /\ UNCHANGED <<rustVars, answers, epoch, incoming, screenVars, boxVars, gone>>

(* The render of the incoming load, once the effects of the last one ran:  *)
(* the cleanup of an instance that goes flushes for good and forgets, and   *)
(* the hydration shows the load and reads its files.                        *)
Install ==
    /\ ~gone /\ incoming # None /\ ~due
    /\ LET load == incoming.load
           read == IF load = None THEN <<>>
                   ELSE <<[op |-> "read", epoch |-> load.epoch, at |-> incoming.at]>>
       IN /\ IF Instance(load) # Instance(shown)
             THEN FlushFinal(read) /\ last' = NoMoves
             ELSE /\ queue' = queue \o read
                  /\ UNCHANGED <<last, box, retry, writing, chained>>
          /\ shown' = load
          /\ loaded' = (load = None /\ loaded)
    /\ pieces' = incoming.at
    /\ incoming' = None
    /\ timer' = FALSE
    /\ UNCHANGED <<rustVars, answers, epoch, switching, due, moves, boxEpoch, gone>>

-----------------------------------------------------------------------------
(* The canvas. *)

(* Prompt: a move meets neither a load that is set and not rendered, nor one  *)
(* whose seed run is due.                                                    *)
Rendered == Prompt => incoming = None /\ ~(due /\ loaded /\ Empty(last))

Move(x) ==
    /\ ~gone /\ Rendered
    /\ x \in DOMAIN pieces /\ moves < MaxMoves
    /\ moves' = moves + 1
    /\ pieces' = [pieces EXCEPT ![x] = [home |-> shown.home, n |-> moves + 1]]
    /\ due' = TRUE
    /\ UNCHANGED <<rustVars, queue, answers, switchVars, shown, loaded, boxVars, gone>>

(* The pieces change and none moves. *)
Churn ==
    /\ ~gone /\ Rendered /\ shown # None /\ ~due
    /\ due' = TRUE
    /\ UNCHANGED <<rustVars, queue, answers, switchVars, shown, loaded, pieces, moves, boxVars, gone>>

CanPersist == shown # None /\ shown.home \notin ReadOnly

(* diffPositions *)
Moved == {x \in DOMAIN pieces : x \notin DOMAIN last \/ last[x] # pieces[x]}

(* Mutant: what was detected earlier is only in its timer. *)
CollectedLatest(new) == new
(* mergeIntoPending *)
Collected(new) == Merged(box, new)

(* The position effect: detect moves, unless this is the seed run; arm the  *)
(* debounce timer in place of the previous run's.                           *)
RunEffect ==
    /\ ~gone /\ due
    /\ due' = FALSE
    /\ IF CanPersist /\ loaded
       THEN /\ last' = pieces
            /\ IF Empty(last) \/ Moved = {}
               THEN UNCHANGED <<box, boxEpoch>>
               ELSE /\ box' = Collected([x \in Moved |-> pieces[x]])
                    /\ boxEpoch' = IF Empty(box) THEN epoch ELSE boxEpoch
            /\ timer' = (~Empty(box') /\ ~retry)
       ELSE timer' = FALSE /\ UNCHANGED <<last, box, boxEpoch>>
    /\ UNCHANGED <<rustVars, queue, answers, switchVars, shown, loaded, pieces, moves,
                   retry, writing, chained, gone>>

(* The window goes. *)
Unload ==
    /\ ~gone /\ gone' = TRUE
    /\ FlushFinal(<<>>)
    /\ UNCHANGED <<rustVars, answers, switchVars, screenVars, last, boxEpoch, timer>>

-----------------------------------------------------------------------------
Backend == RunClose \/ RunOpen \/ RunRead \/ \E ok \in BOOLEAN : RunMoves(ok)

HearAnswer == HearMoves \/ HearClose \/ HearOpen \/ HearRead

Next ==
    \/ Backend \/ HearAnswer \/ Install \/ RunEffect \/ FlushTimer \/ RetryTimer
    \/ Churn \/ Unload
    \/ \E x \in Pieces : Move(x)
    \/ \E h \in Projects \cup {None} : Switch(h)

Spec == Init /\ [][Next]_vars

(* The shell runs commands, and a write tried again and again is not        *)
(* refused for ever by the disk; answers, renders, effects and timers come. *)
(* computeFlushDelay caps how long churn may postpone the flush.            *)
FairSpec ==
    /\ Spec
    /\ WF_vars(Backend) /\ SF_vars(RunMoves(TRUE))
    /\ SF_vars(HearAnswer) /\ WF_vars(Install) /\ WF_vars(RunEffect)
    /\ WF_vars(FlushTimer) /\ WF_vars(RetryTimer)

-----------------------------------------------------------------------------
(* Commands in the queue, and what the backend answers. *)
Closes   == [op : {"close"}]
Reads    == [op : {"read"}, epoch : 1..MaxOpens, at : Full]
Calls    == [op : {"open"}, home : Projects]
Opened   == [op : {"open"}, load : Loads \cup {None}, at : Boxes]
Sends    == [op : {"moves"}, epoch : 0..MaxOpens, batch : Batches]
Written  == [op : {"moves"}, ok : BOOLEAN, batch : Batches]
Commands == Closes \cup Reads \cup Calls \cup Sends
Replies  == Closes \cup Reads \cup Opened \cup Written

TypeOK ==
    /\ opens \in 0..MaxOpens /\ moves \in 0..MaxMoves
    /\ epoch \in 0..opens /\ boxEpoch \in 0..epoch
    /\ workspace \in Loads \cup {None} /\ shown \in Loads \cup {None}
    /\ db \in [Projects -> Full]
    /\ queue \in Seq(Commands) /\ answers \in Seq(Replies)
    /\ switching \in Switches \cup {None} /\ incoming \in Arrivals \cup {None}
    /\ writing \in Batches \cup {None}
    /\ pieces \in Boxes /\ last \in Full \cup {NoMoves} /\ box \in Boxes
    /\ loaded \in BOOLEAN /\ due \in BOOLEAN /\ timer \in BOOLEAN
    /\ retry \in BOOLEAN /\ chained \in BOOLEAN /\ gone \in BOOLEAN

(* No project's database ever holds a position made in another project,     *)
(* though piece ids repeat and batches leave after the next project opened  *)
(* (useProjectPersistence.js, the comment on the flush at a switch).        *)
OwnPositions ==
    \A h \in Projects, x \in Pieces : db[h][x].home = h

(* Every position on the screen is saved, in the box, in the batch in       *)
(* flight, or about to be detected: cancelled timers, failed batches and    *)
(* moves made meanwhile lose none (positionOutbox.js).                      *)
Kept(x) ==
    IF x \in DOMAIN box THEN box[x] = pieces[x]
    ELSE \/ writing # None /\ x \in DOMAIN writing.moves /\ writing.moves[x] = pieces[x]
         \/ db[shown.home][x] = pieces[x]

NothingForgotten ==
    CanPersist /\ loaded /\ ~due /\ ~gone => \A x \in Pieces : Kept(x)

(* A saved position is never replaced by an older one (requeueFailed).      *)
NeverBack ==
    [][\A h \in Projects, x \in Pieces : db'[h][x].n >= db[h][x].n]_vars

(* While a project stays open, everything on its canvas is saved in the     *)
(* end, though writes fail (positionOutbox.js:11-12).                       *)
Settled == CanPersist /\ switching = None /\ incoming = None /\ ~gone

MovesSaved == <>[]Settled => <>[](Settled /\ db[shown.home] = pieces)
=============================================================================
