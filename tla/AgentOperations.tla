--------------------------- MODULE AgentOperations ---------------------------
(***************************************************************************)
(* Agent changes of the Project API: the in-memory plan store, the threads *)
(* that carry a claimed plan out, the durable record of each operation in  *)
(* the project database, and the editor's side of the calls they make      *)
(* (src-tauri/src/project_api/changes.rs and operations.rs,                *)
(* src/app/projectApiBridge.js).                                           *)
(*                                                                         *)
(* A plan is a set of changes.  Edits of held documents and edits that     *)
(* open a document land together or not at all, in the editor; then each   *)
(* new file is created on disk.  The process may die, and the project may  *)
(* close, reopen or give way to another, between any two steps.  Text,     *)
(* paths and revisions are abstracted: a change is an element of Changes.  *)
(* The bridge between Rust and the editor is abstracted to what a caller   *)
(* learns of a call (BridgeCalls models the bridge itself).                *)
(***************************************************************************)
EXTENDS Naturals, Sequences, FiniteSets

CONSTANTS
    PlanIds,     \* plan ids, never reused (128 random bits in the code)
    Changes,     \* the changes a plan may hold
    KindOf,      \* what each change does: "edit", "open" or "create"
    Proposals,   \* the sets of changes an agent may propose
    Principals,  \* the agents
    Person,      \* the person, through the review seam
    Projects,    \* the project folders
    Threads,     \* request threads that may apply plans
    Policy,      \* "agentApproval" or "personReview"
    MaxPending,  \* plans one agent may have waiting
    MaxRun,      \* bound: processes started (a crash starts the next)
    MaxEpoch,    \* bound: opens within one process
    None         \* absence

Opens == [run : Nat, epoch : Nat, home : Projects, ro : BOOLEAN]

ASSUME ConstantsAssumption ==
    /\ KindOf \in [Changes -> {"edit", "open", "create"}]
    /\ Proposals \subseteq SUBSET Changes
    /\ {} \notin Proposals
    /\ Person \notin Principals
    /\ Policy \in {"agentApproval", "personReview"}
    /\ MaxPending \in Nat
    /\ MaxRun \in Nat
    /\ MaxEpoch \in Nat
    /\ None \notin Opens

VARIABLES
    run,        \* the running process (run_id)
    nextEpoch,  \* the next workspace epoch of this process
    open,       \* the workspace the backend has open, or None
    js,         \* the open whose requests the editor answers, or None
    taken,      \* take_interrupted was asked for this open
    proposal,   \* what each plan id was minted for; None until it is
    plans,      \* the in-memory plan store
    pc,         \* where each request thread is
    job,        \* the plan a thread works on, and for whom
    journal,    \* a thread's copy of its operation's record
    verdict,    \* the state and the outcomes a thread knows so far
    req,        \* the call a plan's thread made of the editor
    records,    \* api_operations, in the project databases
    effect,     \* history: the projects in which each change took effect
    pill        \* history: what the person was told of interrupted operations

backendVars == <<run, nextEpoch, open, taken>>
storeVars   == <<proposal, plans>>
threadVars  == <<pc, job, journal, verdict>>
vars == <<run, nextEpoch, open, js, taken, proposal, plans, pc, job, journal,
          verdict, req, records, effect, pill>>

-----------------------------------------------------------------------------
Phases   == {"intended", "started", "confirmed"}
Outcomes == {"applied", "created", "ready", "conflict", "exists", "failed", "refused"}
Pending  == "pending"     \* an outcome not known (yet)
Waiting  == {"prepared", "pendingReview"}
Finals   == {"applied", "partial", "conflict", "failed", "needsReview"}
(* Mutant: no deadline on the creation of files. *)
AwaitingEdits == {"awaitShow", "awaitApply"}
Awaiting == {"awaitShow", "awaitApply", "awaitCreate"}
PCs      == {"idle", "called", "claimed", "check", "show", "start", "apply",
             "startFiles", "create", "finish", "store"} \cup Awaiting

(* What the variables hold besides None.  A vector gives each of some changes a word. *)
Known      == Outcomes \cup {Pending}
Vectors(W) == UNION {[S -> W] : S \in SUBSET Changes}
Proposed   == [owner : Principals, open : Opens, changes : Proposals]
Jobs       == [plan : PlanIds, who : Principals \cup {Person}]
Plans      == [state : Waiting \cup Finals \cup {"applying", "rejected"},
               age : {"live", "expired", "old"}, outcome : Vectors(Known)]
Journals   == [phase : Vectors(Phases), outcome : Vectors(Known)]
Verdicts   == [state : Finals \cup {"applying"}, outcome : Vectors(Known)]
Requests   == [op : {"show", "apply", "create"},
               status : {"sent", "working", "ignored", "result", "changed", "error"},
               ans : Vectors(Known \cup {"creating"}), root : Projects \cup {None}]
Rows       == [run : Nat, epoch : Nat, state : Finals \cup {"applying"},
               phase : Vectors(Phases), outcome : Vectors(Known),
               interrupted : BOOLEAN, reported : BOOLEAN, old : BOOLEAN]

ASSUME NoneAssumption ==
    None \notin Proposed \cup Jobs \cup Plans \cup Requests \cup Rows

Contents(p) == proposal[p].changes
Creates(p)  == {c \in Contents(p) : KindOf[c] = "create"}
OpensOf(p)  == {c \in Contents(p) : KindOf[c] = "open"}
(* Mutant: the documents an edit opens are left out. *)
BufferHeldOnly(p) == {c \in Contents(p) : KindOf[c] = "edit"}
Buffer(p)   == Contents(p) \ Creates(p)
Home(p)     == proposal[p].open.home

(* The open (its run and epoch) that minted plan p is the one open now. *)
ThisOpen(p) == open # None /\ open.run = proposal[p].open.run
                           /\ open.epoch = proposal[p].open.epoch

(* A thread works on plan p. *)
Working(p) == \E t \in Threads : job[t] # None /\ job[t].plan = p

AllOf(S, v) == [c \in S |-> v]
(* f with the known entries of g written over it. *)
Over(f, g)  == [c \in DOMAIN f |->
                  IF c \in DOMAIN g /\ g[c] # Pending THEN g[c] ELSE f[c]]

Landed(o) == o \in {"applied", "created"}

(* The state a plan ends in once the outcome of every change is known. *)
SettledState(out) ==
    IF \A c \in DOMAIN out : Landed(out[c]) THEN "applied"
    ELSE IF \E c \in DOMAIN out : Landed(out[c]) THEN "partial"
    ELSE IF \E c \in DOMAIN out : out[c] \in {"exists", "conflict"} THEN "conflict"
    ELSE "failed"

Init ==
    /\ run = 1 /\ nextEpoch = 1
    /\ open = None /\ js = None /\ taken = FALSE
    /\ proposal = [p \in PlanIds |-> None]
    /\ plans = [p \in PlanIds |-> None]
    /\ pc = [t \in Threads |-> "idle"]
    /\ job = [t \in Threads |-> None]
    /\ journal = [t \in Threads |-> None]
    /\ verdict = [t \in Threads |-> None]
    /\ req = [p \in PlanIds |-> None]
    /\ records = [p \in PlanIds |-> None]
    /\ effect = [p \in PlanIds |-> [c \in Changes |-> <<>>]]
    /\ pill = [p \in PlanIds |-> "none"]

-----------------------------------------------------------------------------
(* The workspace: open_workspace_db, close_workspace_db, and the process.  *)

(* Opening replaces whatever is open, under a fresh epoch. *)
OpenProject(h, ro) ==
    /\ nextEpoch <= MaxEpoch
    /\ open' = [run |-> run, epoch |-> nextEpoch, home |-> h, ro |-> ro]
    /\ nextEpoch' = nextEpoch + 1
    /\ taken' = FALSE
    /\ UNCHANGED <<run, js, storeVars, threadVars, req, records, effect, pill>>

CloseProject ==
    /\ open # None
    /\ open' = None
    /\ UNCHANGED <<run, nextEpoch, js, taken, storeVars, threadVars, req, records, effect, pill>>

(* The editor finished loading the open project: it answers for it now. *)
EditorReady ==
    /\ open # None /\ js # open
    /\ js' = open
    /\ UNCHANGED <<backendVars, storeVars, threadVars, req, records, effect, pill>>

(* The editor moves on: the epoch its last load was ready for is over. *)
EditorLeaves ==
    /\ js # None
    /\ js' = None
    /\ UNCHANGED <<backendVars, storeVars, threadVars, req, records, effect, pill>>

(* The process dies and starts again: everything in memory is gone and the *)
(* epochs start over.  Records and created files stay.                     *)
Crash ==
    /\ run < MaxRun
    /\ run' = run + 1
    /\ nextEpoch' = 1
    /\ open' = None /\ js' = None /\ taken' = FALSE
    /\ plans' = [p \in PlanIds |-> None]
    /\ pc' = [t \in Threads |-> "idle"]
    /\ job' = [t \in Threads |-> None]
    /\ journal' = [t \in Threads |-> None]
    /\ verdict' = [t \in Threads |-> None]
    /\ req' = [p \in PlanIds |-> None]
    /\ pill' = [p \in PlanIds |-> IF pill[p] = "answering" THEN "lost" ELSE pill[p]]
    /\ UNCHANGED <<proposal, records, effect>>

-----------------------------------------------------------------------------
(* The plan store (PlanStore).  age: "live", "expired" (past its time to   *)
(* live), "old" (past the time an expired plan is remembered).             *)

Remembered(p) == plans[p] # None /\ plans[p].age # "old"

(* Mutant: any plan past its time reads as expired. *)
StateNowByAge(p) ==
    IF plans[p] = None THEN "unknown"
    ELSE IF plans[p].age # "live" THEN "expired" ELSE plans[p].state

(* Where plan p of the store stands now (Plan::state). *)
StateNow(p) ==
    IF plans[p] = None THEN "unknown"
    ELSE IF plans[p].state \in Waiting /\ plans[p].age # "live" THEN "expired"
    ELSE plans[p].state

(* The waiting plans of agent a in the workspace open now. *)
PendingOf(a) ==
    {p \in PlanIds : /\ Remembered(p) /\ proposal[p].owner = a /\ ThisOpen(p)
                     /\ StateNow(p) \in Waiting}

Forgotten == [p \in PlanIds |-> IF Remembered(p) THEN plans[p] ELSE None]

(* Agent edits are off while the project is open read-only. *)
MayPrepare == open # None /\ ~open.ro

(* litria_changes_prepare, every change ready: a new plan. *)
Propose(p, a, S) ==
    /\ MayPrepare
    /\ proposal[p] = None
    /\ \A q \in PendingOf(a) : Contents(q) # S
    /\ Cardinality(PendingOf(a)) < MaxPending
    /\ proposal' = [proposal EXCEPT ![p] = [owner |-> a, open |-> open, changes |-> S]]
    /\ plans' = [Forgotten EXCEPT ![p] =
           [state |-> IF Policy = "agentApproval" THEN "prepared" ELSE "pendingReview",
            age |-> "live", outcome |-> AllOf(S, Pending)]]
    /\ UNCHANGED <<backendVars, js, threadVars, req, records, effect, pill>>

(* The same changes again, or too many waiting: nothing is minted. *)
ProposeNothing(a, S) ==
    /\ MayPrepare
    /\ \/ \E q \in PendingOf(a) : Contents(q) = S
       \/ Cardinality(PendingOf(a)) >= MaxPending
    /\ plans' = Forgotten
    /\ UNCHANGED <<backendVars, js, proposal, threadVars, req, records, effect, pill>>

(* Time passes for a plan: ten minutes, then an hour.  No plan is applied  *)
(* for an hour: its three calls have deadlines.                            *)
PlanAges(p) ==
    /\ Remembered(p)
    /\ \/ plans[p].age = "live"
          /\ plans' = [plans EXCEPT ![p].age = "expired"]
       \/ /\ plans[p].age = "expired" /\ ~Working(p)
          /\ plans' = [plans EXCEPT ![p].age = "old"]
    /\ UNCHANGED <<backendVars, js, proposal, threadVars, req, records, effect, pill>>

Reject(p) ==
    /\ open # None /\ proposal[p] # None /\ ThisOpen(p)
    /\ StateNow(p) \in Waiting
    /\ plans' = [plans EXCEPT ![p].state = "rejected"]
    /\ UNCHANGED <<backendVars, js, proposal, threadVars, req, records, effect, pill>>

(* litria_changes_apply or a person's approval, past the workspace fence. *)
Call(t, p, who) ==
    /\ pc[t] = "idle"
    /\ proposal[p] # None /\ ThisOpen(p)
    /\ pc' = [pc EXCEPT ![t] = "called"]
    /\ job' = [job EXCEPT ![t] = [plan |-> p, who |-> who]]
    /\ UNCHANGED <<backendVars, js, storeVars, journal, verdict, req, records, effect, pill>>

(* Mutant: whoever owns the plan may claim it, wherever it stands. *)
MayClaimOwned(p, who) == plans[p] # None /\ who \in {Person, proposal[p].owner}
MayClaim(p, who) ==
    IF who = Person THEN StateNow(p) \in Waiting
    ELSE proposal[p].owner = who /\ StateNow(p) = "prepared"

Leave(t) ==
    /\ pc' = [pc EXCEPT ![t] = "idle"]
    /\ job' = [job EXCEPT ![t] = None]
    /\ journal' = [journal EXCEPT ![t] = None]
    /\ verdict' = [verdict EXCEPT ![t] = None]

(* The store's claim: at most one wins, the others only read. *)
Claim(t) ==
    /\ pc[t] = "called"
    /\ LET p == job[t].plan IN
       \/ /\ MayClaim(p, job[t].who)
          /\ plans' = [plans EXCEPT ![p].state = "applying"]
          /\ pc' = [pc EXCEPT ![t] = "claimed"]
          /\ journal' = [journal EXCEPT ![t] =
                 [phase |-> AllOf(Contents(p), "intended"),
                  outcome |-> AllOf(Contents(p), Pending)]]
          /\ verdict' = [verdict EXCEPT ![t] =
                 [state |-> "applying", outcome |-> AllOf(Contents(p), Pending)]]
          /\ UNCHANGED job
       \/ /\ ~MayClaim(p, job[t].who)
          /\ Leave(t)
          /\ UNCHANGED plans
    /\ UNCHANGED <<backendVars, js, proposal, req, records, effect, pill>>

-----------------------------------------------------------------------------
(* The durable record: written only through the database of the open that  *)
(* minted the plan, and a write the database refuses changes nothing.      *)

(* Mutant: the fence compares folders, not epochs. *)
DbOpenForFolder(p) == open # None /\ open.home = Home(p) /\ ~open.ro
DbOpenFor(p) == ThisOpen(p) /\ ~open.ro

(* Mutant: nothing is marked. *)
StartedInForgotten(jr, S) == jr
(* The journal jr as Journal::start leaves it: the changes in S started. *)
StartedIn(jr, S) ==
    [jr EXCEPT !.phase = [c \in DOMAIN jr.phase |-> IF c \in S THEN "started" ELSE jr.phase[c]]]

(* The journal jr with the known outcomes confirmed. *)
ConfirmedIn(jr, out) ==
    [phase   |-> [c \in DOMAIN jr.phase |-> IF out[c] # Pending THEN "confirmed" ELSE jr.phase[c]],
     outcome |-> Over(jr.outcome, out)]

(* The row of plan p: inserted, or its state and changes updated. *)
Row(p, state, jr) ==
    [run |-> proposal[p].open.run, epoch |-> proposal[p].open.epoch,
     state |-> state, phase |-> jr.phase, outcome |-> jr.outcome,
     interrupted |-> records[p] # None /\ records[p].interrupted,
     reported    |-> records[p] # None /\ records[p].reported,
     old         |-> FALSE]

(* Rows past retention in the open project's database. *)
Prunable(q) == records[q] # None /\ records[q].old /\ open # None /\ Home(q) = open.home
Pruned == [q \in PlanIds |-> IF Prunable(q) THEN None ELSE records[q]]

Save(p, state, jr) ==
    /\ DbOpenFor(p)
    /\ records' = [records EXCEPT ![p] = Row(p, state, jr)]

Goto(t, label) == pc' = [pc EXCEPT ![t] = label]

(* Give up or conclude: `out` is what is known, and the thread records it. *)
Conclude(t, state, out) ==
    /\ Goto(t, "finish")
    /\ verdict' = [verdict EXCEPT ![t] = [state |-> state, outcome |-> out]]

NothingKnown(p) == AllOf(Contents(p), Pending)

(* Journal::intend: the intent is recorded before anything is done. *)
Intend(t) ==
    /\ pc[t] = "claimed"
    /\ LET p == job[t].plan IN
       \/ /\ DbOpenFor(p)
          /\ records' = [Pruned EXCEPT ![p] = Row(p, "applying", journal[t])]
          /\ Goto(t, "check")
          /\ UNCHANGED verdict
       \/ /\ Conclude(t, "failed", NothingKnown(p))
          /\ UNCHANGED records
    /\ UNCHANGED <<backendVars, js, storeVars, job, journal, req, effect, pill>>

(* New names and opened documents are judged again, on disk; one that is   *)
(* not as planned and nothing lands.                                       *)
Check(t) ==
    /\ pc[t] = "check"
    /\ LET p == job[t].plan
           onDisk == Creates(p) \cup OpensOf(p)
       IN \/ /\ onDisk = {} \/ ThisOpen(p)
             /\ Goto(t, IF OpensOf(p) = {} THEN "start" ELSE "show")
             /\ UNCHANGED verdict
          \/ /\ onDisk # {} /\ ~ThisOpen(p)
             /\ Conclude(t, "failed", NothingKnown(p))
          \/ /\ ThisOpen(p)
             /\ \E B \in (SUBSET onDisk) \ {{}} :
                \E why \in [B -> {"exists", "conflict", "refused"}] :
                   /\ \A c \in B : why[c] = "exists" => KindOf[c] = "create"
                   /\ \A c \in B : why[c] = "conflict" => KindOf[c] = "open"
                   /\ Conclude(t, "conflict", Over(AllOf(Contents(p), "ready"), why))
    /\ UNCHANGED <<backendVars, js, storeVars, job, journal, req, records, effect, pill>>

(* Ask the editor: the request reaches it, or the call fails before.       *)
Ask(t, op, asked, next) ==
    /\ req' = [req EXCEPT ![job[t].plan] =
           [op |-> op, status |-> "sent", ans |-> AllOf(asked, Pending), root |-> None]]
    /\ Goto(t, next)
    /\ UNCHANGED verdict

AskShow(t) ==
    /\ pc[t] = "show"
    /\ LET p == job[t].plan IN
       \/ Ask(t, "show", OpensOf(p), "awaitShow")
       \/ Conclude(t, "failed", NothingKnown(p)) /\ UNCHANGED req
    /\ UNCHANGED <<backendVars, js, storeVars, job, journal, records, effect, pill>>

(* Journal::start for the edits: recorded as started, or not asked for. *)
StartEdits(t) ==
    /\ pc[t] = "start"
    /\ LET p == job[t].plan
           jr == StartedIn(journal[t], Buffer(p))
       IN \/ /\ Buffer(p) = {}
             /\ Goto(t, "startFiles")
             /\ UNCHANGED <<journal, verdict, records>>
          \/ /\ Buffer(p) # {}
             /\ journal' = [journal EXCEPT ![t] = jr]
             /\ \/ /\ Save(p, "applying", jr)
                   /\ Goto(t, "apply")
                   /\ UNCHANGED verdict
                \/ /\ Conclude(t, "failed", NothingKnown(p))
                   /\ UNCHANGED records
    /\ UNCHANGED <<backendVars, js, storeVars, job, req, effect, pill>>

AskApply(t) ==
    /\ pc[t] = "apply"
    /\ LET p == job[t].plan IN
       \/ Ask(t, "apply", Buffer(p), "awaitApply")
       \/ Conclude(t, "failed", NothingKnown(p)) /\ UNCHANGED req
    /\ UNCHANGED <<backendVars, js, storeVars, job, journal, records, effect, pill>>

(* The outcome vector of a plan none of whose files was created. *)
FilesFailed(t) == Over(verdict[t].outcome, AllOf(Creates(job[t].plan), "failed"))

(* What is known is confirmed; then Journal::start for the new files: not  *)
(* recorded as started, so none is created.                                *)
StartFiles(t) ==
    /\ pc[t] = "startFiles"
    /\ LET p     == job[t].plan
           known == verdict[t].outcome
           jr    == StartedIn(ConfirmedIn(journal[t], known), Creates(p))
       IN \/ /\ Creates(p) = {}
             /\ journal' = [journal EXCEPT ![t] = ConfirmedIn(journal[t], known)]
             /\ Conclude(t, SettledState(known), known)
             /\ UNCHANGED records
          \/ /\ Creates(p) # {}
             /\ journal' = [journal EXCEPT ![t] = jr]
             /\ \/ /\ Save(p, "applying", jr)
                   /\ Goto(t, "create")
                   /\ UNCHANGED verdict
                \/ /\ Conclude(t, SettledState(FilesFailed(t)), FilesFailed(t))
                   /\ UNCHANGED records
    /\ UNCHANGED <<backendVars, js, storeVars, job, req, effect, pill>>

AskCreate(t) ==
    /\ pc[t] = "create"
    /\ \/ Ask(t, "create", Creates(job[t].plan), "awaitCreate")
       \/ Conclude(t, SettledState(FilesFailed(t)), FilesFailed(t)) /\ UNCHANGED req
    /\ UNCHANGED <<backendVars, js, storeVars, job, journal, records, effect, pill>>

-----------------------------------------------------------------------------
(* The editor (projectApiBridge.js).  It acts only while the request's open *)
(* is the one it answers for, and knows nothing of Rust's deadlines.        *)

(* Mutant: some project is ready, whichever. *)
CurrentAny(p) == js # None
Current(p) == js # None /\ js.run = proposal[p].open.run
                        /\ js.epoch = proposal[p].open.epoch

InWait(p) == \E t \in Threads : job[t] # None /\ job[t].plan = p /\ pc[t] \in Awaiting

(* A reply nobody waits for is dropped. *)
Answer(p, status, ans) ==
    req' = [req EXCEPT ![p] =
        IF InWait(p) THEN [@ EXCEPT !.status = status, !.ans = ans] ELSE None]

Asked(p, op, status) == req[p] # None /\ req[p].op = op /\ req[p].status = status

Lands(p, S) ==
    effect' = [effect EXCEPT ![p] =
        [c \in Changes |-> IF c \in S THEN Append(@[c], js.home) ELSE @[c]]]

(* Not for the open the editor answers for: refused before anything is done. *)
EditorRefuses(p) ==
    /\ req[p] # None /\ req[p].status = "sent" /\ ~Current(p)
    /\ Answer(p, "changed", req[p].ans)
    /\ UNCHANGED <<backendVars, js, storeVars, threadVars, records, effect, pill>>

(* Addressed to a generation that is over: never answered. *)
EditorIgnores(p) ==
    /\ req[p] # None /\ req[p].status = "sent"
    /\ req' = [req EXCEPT ![p] = IF InWait(p) THEN [@ EXCEPT !.status = "ignored"] ELSE None]
    /\ UNCHANGED <<backendVars, js, storeVars, threadVars, records, effect, pill>>

(* canvas.showFiles: a piece for each document, or not; no change lands. *)
EditorShows(p) ==
    /\ Asked(p, "show", "sent") /\ Current(p)
    /\ \E ans \in [OpensOf(p) -> {"ready", "refused"}] : Answer(p, "result", ans)
    /\ UNCHANGED <<backendVars, js, storeVars, threadVars, records, effect, pill>>

(* editor.applyChanges, in one turn: all of them; or none, saying why; or a *)
(* failure part of the way.                                                 *)
EditorApplies(p) ==
    /\ Asked(p, "apply", "sent") /\ Current(p)
    /\ \/ /\ Lands(p, Buffer(p))
          /\ Answer(p, "result", AllOf(Buffer(p), "applied"))
       \/ /\ \E ans \in [Buffer(p) -> {"ready", "conflict", "refused"}] :
                /\ \E c \in Buffer(p) : ans[c] # "ready"
                /\ Answer(p, "result", ans)
          /\ UNCHANGED effect
       \/ /\ \E S \in (SUBSET Buffer(p)) \ {Buffer(p)} : Lands(p, S)
          /\ Answer(p, "error", req[p].ans)
    /\ UNCHANGED <<backendVars, js, storeVars, threadVars, records, pill>>

(* files.create: one file after the other, the open checked before each.    *)
EditorBeginsFiles(p) ==
    /\ Asked(p, "create", "sent") /\ Current(p)
    /\ req' = [req EXCEPT ![p].status = "working"]
    /\ UNCHANGED <<backendVars, js, storeVars, threadVars, records, effect, pill>>

NextFile(p, c) ==
    /\ Asked(p, "create", "working")
    /\ req[p].ans[c] = Pending
    /\ \A d \in DOMAIN req[p].ans : req[p].ans[d] # "creating"

(* No longer current, or the session holds the name: not created. *)
EditorSkipsFile(p, c) ==
    /\ NextFile(p, c)
    /\ req' = [req EXCEPT ![p].ans[c] = IF Current(p) THEN "exists" ELSE "failed"]
    /\ UNCHANGED <<backendVars, js, storeVars, threadVars, records, effect, pill>>

(* The create leaves for the disk, in the folder the editor has open. *)
EditorCreatesFile(p, c) ==
    /\ NextFile(p, c) /\ Current(p)
    /\ req' = [req EXCEPT ![p].ans[c] = "creating", ![p].root = js.home]
    /\ UNCHANGED <<backendVars, js, storeVars, threadVars, records, effect, pill>>

(* The disk answers, whatever the editor has open by then. *)
FileAnswered(p, c) ==
    /\ Asked(p, "create", "working") /\ req[p].ans[c] = "creating"
    /\ \/ /\ req' = [req EXCEPT ![p].ans[c] = "created"]
          /\ effect' = [effect EXCEPT ![p][c] = Append(@, req[p].root)]
       \/ /\ \E ans \in {"exists", "failed"} : req' = [req EXCEPT ![p].ans[c] = ans]
          /\ UNCHANGED effect
    /\ UNCHANGED <<backendVars, js, storeVars, threadVars, records, pill>>

EditorAnswersFiles(p) ==
    /\ Asked(p, "create", "working")
    /\ \A c \in DOMAIN req[p].ans : req[p].ans[c] \in Outcomes
    /\ Answer(p, "result", req[p].ans)
    /\ UNCHANGED <<backendVars, js, storeVars, threadVars, records, effect, pill>>

(* Any other failure of the answer, with no file on its way to the disk.    *)
EditorFails(p) ==
    /\ Asked(p, "show", "sent") \/ Asked(p, "create", "sent") \/ Asked(p, "create", "working")
    /\ \A d \in DOMAIN req[p].ans : req[p].ans[d] # "creating"
    /\ Answer(p, "error", req[p].ans)
    /\ UNCHANGED <<backendVars, js, storeVars, threadVars, records, effect, pill>>

-----------------------------------------------------------------------------
(* What the thread makes of the answer, or of none. *)

Answered(p) == req[p] # None /\ req[p].status \in {"result", "changed", "error"}

HearShow(t) ==
    /\ pc[t] = "awaitShow"
    /\ LET p == job[t].plan IN
       /\ Answered(p)
       /\ \/ /\ req[p].status = "result" /\ \A c \in OpensOf(p) : req[p].ans[c] = "ready"
             /\ Goto(t, "start")
             /\ UNCHANGED verdict
          \/ /\ req[p].status = "result" /\ \E c \in OpensOf(p) : req[p].ans[c] # "ready"
             /\ Conclude(t, "failed", Over(AllOf(Contents(p), "ready"), req[p].ans))
          \/ /\ req[p].status # "result"
             /\ Conclude(t, "failed", NothingKnown(p))
       /\ req' = [req EXCEPT ![p] = None]
    /\ UNCHANGED <<backendVars, js, storeVars, job, journal, records, effect, pill>>

(* Edits: applied; none applied; refused before acting; or unknown, for good. *)
HearApply(t) ==
    /\ pc[t] = "awaitApply"
    /\ LET p   == job[t].plan
           out == Over(verdict[t].outcome, req[p].ans)
       IN /\ Answered(p)
          /\ \/ /\ req[p].status = "result" /\ \A c \in Buffer(p) : req[p].ans[c] = "applied"
                /\ Goto(t, "startFiles")
                /\ verdict' = [verdict EXCEPT ![t].outcome = out]
             \/ /\ req[p].status = "result" /\ \E c \in Buffer(p) : req[p].ans[c] # "applied"
                /\ Conclude(t, "conflict", Over(out, AllOf(Creates(p), "ready")))
             \/ /\ req[p].status = "changed"
                /\ Conclude(t, "failed", NothingKnown(p))
             \/ /\ req[p].status = "error"
                /\ Conclude(t, "needsReview", verdict[t].outcome)
          /\ req' = [req EXCEPT ![p] = None]
    /\ UNCHANGED <<backendVars, js, storeVars, job, journal, records, effect, pill>>

HearCreate(t) ==
    /\ pc[t] = "awaitCreate"
    /\ LET p   == job[t].plan
           out == Over(verdict[t].outcome, req[p].ans)
       IN /\ Answered(p)
          /\ \/ /\ req[p].status = "result"
                /\ Conclude(t, SettledState(out), out)
             \/ /\ req[p].status = "changed"
                /\ Conclude(t, SettledState(FilesFailed(t)), FilesFailed(t))
             \/ /\ req[p].status = "error"
                /\ Conclude(t, "needsReview", verdict[t].outcome)
          /\ req' = [req EXCEPT ![p] = None]
    /\ UNCHANGED <<backendVars, js, storeVars, job, journal, records, effect, pill>>

(* The deadline, or the bridge's generation, ends first.  A request the     *)
(* editor has may still be acted on.                                        *)
GiveUp(t) ==
    /\ pc[t] \in Awaiting
    /\ LET p == job[t].plan IN
       /\ IF pc[t] = "awaitShow" THEN Conclude(t, "failed", NothingKnown(p))
          ELSE Conclude(t, "needsReview", verdict[t].outcome)
       /\ req' = [req EXCEPT ![p] =
              IF @ # None /\ @.status \in {"sent", "working"} THEN @ ELSE None]
    /\ UNCHANGED <<backendVars, js, storeVars, job, journal, records, effect, pill>>

(* Journal::finish: a refused write leaves the record as far as it got. *)
Finish(t) ==
    /\ pc[t] = "finish"
    /\ LET p  == job[t].plan
           jr == ConfirmedIn(journal[t], verdict[t].outcome)
       IN /\ journal' = [journal EXCEPT ![t] = jr]
          /\ Save(p, verdict[t].state, jr) \/ UNCHANGED records
    /\ Goto(t, "store")
    /\ UNCHANGED <<backendVars, js, storeVars, job, verdict, req, effect, pill>>

(* PlanStore::finish: the outcome of the claim that won. *)
Store(t) ==
    /\ pc[t] = "store"
    /\ LET p == job[t].plan IN
       plans' = IF plans[p] # None /\ plans[p].state = "applying"
                THEN [plans EXCEPT ![p].state = verdict[t].state, ![p].outcome = verdict[t].outcome]
                ELSE plans
    /\ Leave(t)
    /\ UNCHANGED <<backendVars, js, proposal, req, records, effect, pill>>

-----------------------------------------------------------------------------
(* After a restart (operations.rs). *)

(* Started and never confirmed: its owner may have acted. *)
Uncertain(rec, c) == rec.phase[c] = "started" /\ rec.outcome[c] = Pending

(* Mutant: what was started counts as not done, too. *)
SettledOutcomeAll(rec) ==
    [c \in DOMAIN rec.outcome |-> IF rec.outcome[c] = Pending THEN "ready" ELSE rec.outcome[c]]
(* The outcomes of a record cut short: a change never started did nothing. *)
SettledOutcome(rec) ==
    [c \in DOMAIN rec.outcome |->
        IF rec.outcome[c] = Pending /\ rec.phase[c] = "intended" THEN "ready" ELSE rec.outcome[c]]

InterruptedState(rec) ==
    IF \E c \in DOMAIN rec.phase : Uncertain(rec, c) THEN "needsReview"
    ELSE SettledState(SettledOutcome(rec))

(* Mutant: only what is known to have landed. *)
ReportOfLanded(rec) == {c \in DOMAIN rec.phase : Landed(rec.outcome[c])}
(* What an interrupted operation may have left behind. *)
ReportOf(rec) ==
    {c \in DOMAIN rec.phase : Uncertain(rec, c) \/ Landed(rec.outcome[c])}

Stranded(q) ==
    records[q] # None /\ Home(q) = open.home /\ ~records[q].old
    /\ records[q].state = "applying" /\ ~ThisOpen(q)

Recovered(q) ==
    IF Prunable(q) THEN None
    ELSE IF Stranded(q)
         THEN [records[q] EXCEPT !.state = InterruptedState(records[q]),
                                 !.outcome = SettledOutcome(records[q]),
                                 !.interrupted = TRUE, !.old = FALSE]
    ELSE records[q]

Unreported(q) ==
    Recovered(q) # None /\ Home(q) = open.home /\ Recovered(q).interrupted
    /\ ~Recovered(q).reported /\ ~ThisOpen(q)

(* take_interrupted, in one transaction: prune, settle, report each once.   *)
TakeInterrupted ==
    /\ open # None /\ ~taken
    /\ taken' = TRUE
    /\ \/ /\ ~open.ro
          /\ records' = [q \in PlanIds |->
                 IF Unreported(q) THEN [Recovered(q) EXCEPT !.reported = TRUE] ELSE Recovered(q)]
          /\ pill' = [q \in PlanIds |->
                 IF Unreported(q) /\ ReportOf(Recovered(q)) # {} THEN "answering" ELSE pill[q]]
       \/ UNCHANGED <<records, pill>>   \* read-only, or the database refused
    /\ UNCHANGED <<run, nextEpoch, open, js, storeVars, threadVars, req, effect>>

ShowPill(p) ==
    /\ pill[p] = "answering"
    /\ pill' = [pill EXCEPT ![p] = "shown"]
    /\ UNCHANGED <<backendVars, js, storeVars, threadVars, req, records, effect>>

(* Thirty days pass after a record's last change; no request of the editor *)
(* is still on its way.                                                     *)
RecordAges(p) ==
    /\ records[p] # None /\ ~records[p].old /\ ~Working(p) /\ req[p] = None
    /\ records' = [records EXCEPT ![p].old = TRUE]
    /\ UNCHANGED <<backendVars, js, storeVars, threadVars, req, effect, pill>>

-----------------------------------------------------------------------------
ThreadStep(t) ==
    \/ Claim(t) \/ Intend(t) \/ Check(t) \/ AskShow(t) \/ StartEdits(t) \/ AskApply(t)
    \/ StartFiles(t) \/ AskCreate(t) \/ HearShow(t) \/ HearApply(t) \/ HearCreate(t)
    \/ GiveUp(t) \/ Finish(t) \/ Store(t)

EditorStep(p) ==
    \/ EditorRefuses(p) \/ EditorIgnores(p) \/ EditorShows(p) \/ EditorApplies(p)
    \/ EditorBeginsFiles(p) \/ EditorAnswersFiles(p) \/ EditorFails(p)
    \/ \E c \in Creates(p) :
          EditorSkipsFile(p, c) \/ EditorCreatesFile(p, c) \/ FileAnswered(p, c)

Next ==
    \/ \E h \in Projects, ro \in BOOLEAN : OpenProject(h, ro)
    \/ CloseProject \/ EditorReady \/ EditorLeaves \/ Crash \/ TakeInterrupted
    \/ \E p \in PlanIds, a \in Principals, S \in Proposals : Propose(p, a, S)
    \/ \E a \in Principals, S \in Proposals : ProposeNothing(a, S)
    \/ \E p \in PlanIds : PlanAges(p) \/ Reject(p) \/ ShowPill(p) \/ RecordAges(p)
    \/ \E t \in Threads, p \in PlanIds, who \in Principals \cup {Person} : Call(t, p, who)
    \/ \E t \in Threads : ThreadStep(t)
    \/ \E p \in PlanIds : proposal[p] # None /\ EditorStep(p)

Spec == Init /\ [][Next]_vars

(* Threads run, and every wait has a deadline. *)
FairSpec == Spec /\ \A t \in Threads : WF_vars(ThreadStep(t))

-----------------------------------------------------------------------------
(* Where an operation stands, as a reader learns it. *)

(* The record of p read in another open than its own (operations::standing *)
(* with a record still applying: it was interrupted).                      *)
AfterRestart(p) ==
    LET rec == records[p] IN
    IF rec.state = "applying"
    THEN [state |-> InterruptedState(rec), outcome |-> SettledOutcome(rec)]
    ELSE [state |-> rec.state, outcome |-> rec.outcome]

(* standing_of: the plan this open holds, else its record, else unknown. *)
StandingOf(p) ==
    IF plans[p] # None /\ ThisOpen(p)
    THEN [state |-> StateNow(p), outcome |-> plans[p].outcome]
    ELSE IF records[p] = None THEN [state |-> "unknown", outcome |-> NothingKnown(p)]
    ELSE IF ThisOpen(p) THEN [state |-> records[p].state, outcome |-> records[p].outcome]
    ELSE AfterRestart(p)

(* What is said of plan p is true of what happened. *)
SaysTheTruth(p, said) ==
    /\ \A c \in Contents(p) :
         /\ Landed(said.outcome[c]) => effect[p][c] # <<>>
         /\ said.outcome[c] \in Outcomes /\ ~Landed(said.outcome[c]) => effect[p][c] = <<>>
    /\ said.state \in {"failed", "conflict", "rejected", "expired"} \cup Waiting =>
         \A c \in Contents(p) : effect[p][c] = <<>>
    /\ said.state = "applied" => \A c \in Contents(p) : effect[p][c] # <<>>
    /\ said.state = "partial" => \E c \in Contents(p) : effect[p][c] # <<>>

-----------------------------------------------------------------------------
TypeOK ==
    /\ run \in Nat /\ nextEpoch \in Nat
    /\ open \in Opens \cup {None} /\ js \in Opens \cup {None}
    /\ taken \in BOOLEAN
    /\ proposal \in [PlanIds -> Proposed \cup {None}]
    /\ plans \in [PlanIds -> Plans \cup {None}]
    /\ pc \in [Threads -> PCs]
    /\ job \in [Threads -> Jobs \cup {None}]
    /\ journal \in [Threads -> Journals \cup {None}]
    /\ verdict \in [Threads -> Verdicts \cup {None}]
    /\ req \in [PlanIds -> Requests \cup {None}]
    /\ records \in [PlanIds -> Rows \cup {None}]
    /\ effect \in [PlanIds -> [Changes -> Seq(Projects)]]
    /\ pill \in [PlanIds -> {"none", "answering", "shown", "lost"}]

(* If the process died now, the next open would read nothing untrue of any *)
(* operation: what its record settles is what happened (operations.rs:6-9, *)
(* "tells a verified outcome from an uncertain one").                       *)
RecordIsTrue ==
    \A p \in PlanIds : records[p] # None => SaysTheTruth(p, AfterRestart(p))

(* Whoever asks where an operation stands, at any moment and in any open,  *)
(* is told nothing untrue (changes.rs standing_of).                        *)
StandingIsTrue ==
    \A p \in PlanIds : proposal[p] # None => SaysTheTruth(p, StandingOf(p))

(* Whatever crashes, timeouts and late answers do, a change takes effect   *)
(* at most once, and only in the project it was proposed for.              *)
EffectOnce ==
    \A p \in PlanIds, c \in Changes : effect[p][c] # <<>> => effect[p][c] = <<Home(p)>>

(* A plan's files follow its edits: none is created unless every edit of   *)
(* the plan landed (changes.rs carry_out).                                 *)
FilesFollowEdits ==
    \A p \in PlanIds : proposal[p] # None =>
        \A f \in Creates(p), c \in Contents(p) \ Creates(p) :
            effect[p][f] # <<>> => effect[p][c] # <<>>

(* What the reopen pill reports of an interrupted operation names every    *)
(* change that took effect, even one that lands after the report was made  *)
(* (operations.rs report).                                                 *)
ReportNamesEveryEffect ==
    \A p \in PlanIds : records[p] # None /\ records[p].interrupted =>
        {c \in Contents(p) : effect[p][c] # <<>>} \subseteq ReportOf(records[p])

(* An interrupted operation is settled for good and reported at most once: *)
(* its record only ages out, and its pill is never asked for again.        *)
InterruptedIsFinal ==
    [][\A p \in PlanIds :
         /\ records[p] # None /\ records[p].interrupted =>
              records'[p] \in {None, records[p], [records[p] EXCEPT !.old = TRUE]}
         /\ pill'[p] = "answering" /\ pill[p] # "answering" => pill[p] = "none"]_vars

(* The receipt an operation's durable record is: see OperationReceipts. *)
Word(p, c) ==
    IF records[p] = None \/ c \notin DOMAIN records[p].phase THEN "none"
    ELSE IF records[p].state = "applying" /\ ThisOpen(p) THEN "open"
    ELSE IF Landed(records[p].outcome[c]) THEN "landed"
    ELSE IF Uncertain(records[p], c) /\ records[p].state # "failed" THEN "maybe"
    ELSE "not"

Receipts == INSTANCE OperationReceipts WITH
    Operations <- PlanIds,
    acted <- [p \in PlanIds |-> {c \in Changes : effect[p][c] # <<>>}],
    told <- [p \in PlanIds |-> [c \in Changes |-> Word(p, c)]]

(* The detailed operations keep every promise of the abstract receipt. *)
KeepsReceipts == Receipts!Spec

(* Every claimed plan comes to an end in its thread, whatever the editor   *)
(* and the database do.                                                    *)
ClaimsEnd == \A t \in Threads : (pc[t] = "claimed") ~> (pc[t] = "idle")
=============================================================================
