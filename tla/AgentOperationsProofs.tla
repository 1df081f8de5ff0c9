----------------------- MODULE AgentOperationsProofs -----------------------
(***************************************************************************)
(* Theorems of AgentOperations, for any plans, changes, agents, projects,  *)
(* threads and bounds.                                                     *)
(***************************************************************************)
EXTENDS AgentOperations, TLAPS

----------------------------------------------------------------------------
(* The inductive invariant *)

(* A thread carries plan p out: it won the claim and has not told the store yet. *)
Carries(t, p) == pc[t] \notin {"idle", "called"} /\ job[t].plan = p

(* Every vector speaks of the changes of its plan, a call of those it is about. *)
AskedOf(p, op) == IF op = "show" THEN OpensOf(p) ELSE IF op = "apply" THEN Buffer(p) ELSE Creates(p)
ThreadShape(t) ==
    /\ pc[t] # "idle" => job[t] # None /\ proposal[job[t].plan] # None
    /\ pc[t] \notin {"idle", "called"} =>
         /\ journal[t] \in Journals /\ verdict[t] \in Verdicts
         /\ DOMAIN journal[t].phase = Contents(job[t].plan)
         /\ DOMAIN journal[t].outcome = Contents(job[t].plan)
         /\ DOMAIN verdict[t].outcome = Contents(job[t].plan)
PlanShape(p) ==
    /\ plans[p] # None => proposal[p] # None /\ DOMAIN plans[p].outcome = Contents(p)
    /\ records[p] # None =>
         /\ proposal[p] # None
         /\ DOMAIN records[p].phase = Contents(p) /\ DOMAIN records[p].outcome = Contents(p)
    /\ req[p] # None => proposal[p] # None /\ DOMAIN req[p].ans = AskedOf(p, req[p].op)
    /\ proposal[p] = None => \A c \in Changes : effect[p][c] = <<>>

Types == TypeOK /\ (\A t \in Threads : ThreadShape(t)) /\ (\A p \in PlanIds : PlanShape(p))

(* Opens are told apart by their run and epoch. *)
Past(o) == o.run <= run /\ (o.run = run => o.epoch < nextEpoch)
Twins(o, u) == o.run = u.run /\ o.epoch = u.epoch => o = u
Minted ==
    /\ open # None => Past(open) /\ open.run = run
    /\ js # None => Past(js) /\ js.run = run
    /\ open # None /\ js # None => Twins(open, js)
    /\ \A p \in PlanIds : proposal[p] # None =>
         /\ Past(proposal[p].open)
         /\ open # None => Twins(proposal[p].open, open)
         /\ js # None => Twins(proposal[p].open, js)

(* A record that a later open settled, and a pill, belong to an open that is over. *)
Closed ==
    \A p \in PlanIds :
        /\ records[p] # None /\ records[p].interrupted =>
             ~ThisOpen(p) /\ records[p].state # "applying" /\ records[p].reported
        /\ pill[p] # "none" => /\ proposal[p] # None /\ ~ThisOpen(p)
                               /\ records[p] # None => records[p].interrupted

(* A claim is won once: who carries a plan out does so alone, on a plan that stays. *)
Claimed ==
    /\ \A t, u \in Threads, p \in PlanIds : Carries(t, p) /\ Carries(u, p) => t = u
    /\ \A t \in Threads, p \in PlanIds : Carries(t, p) =>
         plans[p] # None /\ plans[p].state = "applying" /\ plans[p].age # "old"

(* The changes that the call q may still make take effect; B are the edits of its plan
   and F its new files.                                                           *)
LiveIn(q, B, F) ==
    {c \in B : q # None /\ q.op = "apply" /\ q.status = "sent"} \cup
    {c \in F : q # None /\ q.op = "create" /\
               (q.status = "sent" \/ (q.status = "working" /\ q.ans[c] \in {Pending, "creating"}))}

(* The changes of plan p that took effect, and those that did not and never will. *)
Happened(p)  == {c \in Contents(p) : effect[p][c] # <<>>}
Untouched(p) == Contents(p) \ (Happened(p) \cup LiveIn(req[p], Buffer(p), Creates(p)))

(* What a state and the outcomes of the changes C say is true, and stays so: the changes H
   took effect, those of U never will.                                            *)
True(state, out, C, H, U) ==
    /\ \A c \in C : Landed(out[c]) => c \in H
    /\ \A c \in C : out[c] # Pending /\ ~Landed(out[c]) => c \in U
    /\ state \in {"failed", "conflict"} => C \subseteq U
    /\ state = "applied" => C \subseteq H
    /\ state = "partial" => C \cap H # {}

(* What was not recorded as started is not done; what is confirmed is known. *)
Covered(phase, out, C, U) ==
    \A c \in C : /\ phase[c] = "intended" /\ out[c] = Pending => c \in U
                 /\ phase[c] = "confirmed" => out[c] # Pending

RecordTrue(rec, C, H, U) ==
    rec # None => True(rec.state, rec.outcome, C, H, U) /\ Covered(rec.phase, rec.outcome, C, U)

(* Nothing was done for a plan that waits or was rejected, and no call made. *)
PlanTrue(plan, rec, q, C, H, U) ==
    plan # None =>
        /\ plan.state \in Waiting \cup {"rejected"} => rec = None /\ q = None /\ H = {}
        /\ plan.state \in Waiting \cup {"rejected", "applying"} =>
             \A c \in C : plan.outcome[c] = Pending
        /\ True(plan.state, plan.outcome, C, H, U)

(* What a call says of itself is what happened. *)
RequestTrue(q, rec, home, B, F, H) ==
    q # None =>
        /\ rec # None /\ ~rec.old
        /\ q.op = "show" =>
             /\ H = {} /\ q.status # "working"
             /\ \A c \in DOMAIN q.ans : q.ans[c] \in {Pending, "ready", "refused"}
        /\ q.op # "create" => \A c \in DOMAIN q.ans : q.ans[c] # "creating"
        /\ q.op = "apply" =>
             /\ H \subseteq B
             /\ q.status # "working"
             /\ q.status \in {"sent", "ignored", "changed"} => H = {}
             /\ q.status = "result" =>
                  \/ H = B /\ \A c \in B : q.ans[c] = "applied"
                  \/ /\ H = {} /\ \A c \in B : q.ans[c] \in {"ready", "conflict", "refused"}
                     /\ \E c \in B : q.ans[c] # "applied"
        /\ q.op = "create" =>
             /\ B \subseteq H
             /\ \A c \in F :
                  /\ q.ans[c] \in {Pending, "creating", "created", "exists", "failed"}
                  /\ c \in H <=> q.ans[c] = "created"
                  /\ q.status \in {"sent", "ignored", "changed"} => q.ans[c] = Pending
                  /\ q.status = "result" => q.ans[c] \notin {Pending, "creating"}
                  /\ q.ans[c] = "creating" => q.status = "working" /\ q.root = home

(* The changes S are recorded as started, so that they may be asked for. *)
Recorded(jr, rec, S) ==
    \A c \in S : /\ jr.phase[c] = "started" /\ jr.outcome[c] = Pending
                 /\ rec.phase[c] = "started" /\ rec.outcome[c] = Pending
                 /\ rec.state \in {"applying", "needsReview"}

BeforeEdits == {"claimed", "check", "show", "awaitShow", "start", "apply", "awaitApply"}
AfterEdits  == {"startFiles", "create", "awaitCreate"}

(* What a thread at the place at, with its journal and verdict, knows of its plan. *)
Stage(at, jr, say, rec, q, B, F, H, U) ==
    LET C == B \cup F IN
    /\ at \in BeforeEdits \cup AfterEdits => say.state = "applying"
    /\ at \in BeforeEdits => \A c \in C : say.outcome[c] = Pending /\ jr.outcome[c] = Pending
    /\ at \in AfterEdits =>
         /\ B \subseteq H /\ \A c \in B : say.outcome[c] = "applied"
         /\ \A c \in F : say.outcome[c] = Pending /\ jr.outcome[c] = Pending
    /\ at \in BeforeEdits \ {"awaitApply"} => H = {}
    /\ at \in {"startFiles", "create"} => F \cap H = {}
    /\ at \in (BeforeEdits \cup AfterEdits) \ Awaiting => q = None
    /\ at = "awaitShow" => q # None /\ q.op = "show"
    /\ at = "awaitApply" => q # None /\ q.op = "apply"
    /\ at = "awaitCreate" => q # None /\ q.op = "create"
    /\ at = "claimed" => rec = None
    /\ at \in (BeforeEdits \cup AfterEdits) \ {"claimed"} => rec # None
    /\ rec # None => ~rec.old
    /\ at = "apply" => Recorded(jr, rec, B)
    /\ at = "create" => Recorded(jr, rec, F)
    /\ at \in {"finish", "store"} => say.state # "applying"
    /\ at = "finish" /\ rec = None => say.state = "failed"
    /\ True(say.state, say.outcome, C, H, U)
    /\ True("applying", jr.outcome, C, H, U)
    /\ Covered(jr.phase, jr.outcome, C, U)

StageIsTrue(t, p) ==
    Carries(t, p) => Stage(pc[t], journal[t], verdict[t], records[p], req[p],
                           Buffer(p), Creates(p), Happened(p), Untouched(p))
PlanIsTrue(p) ==
    proposal[p] # None =>
        /\ RecordTrue(records[p], Contents(p), Happened(p), Untouched(p))
        /\ PlanTrue(plans[p], records[p], req[p], Contents(p), Happened(p), Untouched(p))
        /\ RequestTrue(req[p], records[p], Home(p), Buffer(p), Creates(p), Happened(p))

Truths == (\A t \in Threads, p \in PlanIds : StageIsTrue(t, p)) /\ (\A p \in PlanIds : PlanIsTrue(p))

IInv == Types /\ Minted /\ Closed /\ Claimed /\ Truths /\ EffectOnce /\ FilesFollowEdits

(* The record of a plan that is still being carried out is open, unless a later open
   settled it.                                                                    *)
StillOpen ==
    \A t \in Threads, p \in PlanIds :
        Carries(t, p) /\ pc[t] # "store" /\ records[p] # None /\ ~records[p].interrupted
            => records[p].state = "applying"

(* What took effect for a plan is one of its changes. *)
OwnEffects ==
    \A p \in PlanIds, c \in Changes :
        effect[p][c] # <<>> => proposal[p] # None /\ c \in Contents(p)

----------------------------------------------------------------------------
(* Vectors *)

(* The journals of the changes S, and of plan p. *)
JournalOf(S) == [phase : [S -> Phases], outcome : [S -> Known]]
Written(p)   == JournalOf(Contents(p))

LEMMA VectorIn == ASSUME NEW W, NEW S \in SUBSET Changes, NEW f \in [S -> W]
                  PROVE  f \in Vectors(W)
BY DEF Vectors

LEMMA VectorOf == ASSUME NEW W, NEW f \in Vectors(W)
                  PROVE  f \in [DOMAIN f -> W] /\ DOMAIN f \subseteq Changes
BY DEF Vectors

LEMMA OverOf == ASSUME NEW S, NEW W, NEW f \in [S -> W], NEW g,
                       \A c \in S \cap DOMAIN g : g[c] # Pending => g[c] \in W
                PROVE  Over(f, g) \in [S -> W]
BY DEF Over

LEMMA SettledOf == ASSUME NEW out PROVE SettledState(out) \in Finals
BY DEF SettledState, Finals

LEMMA JournalIn == ASSUME NEW S \in SUBSET Changes,
                          NEW jr \in JournalOf(S)
                   PROVE  jr \in Journals
BY VectorIn DEF Journals, JournalOf

LEMMA StartedOf == ASSUME NEW S, NEW R,
                          NEW jr \in JournalOf(S)
                   PROVE  StartedIn(jr, R) \in JournalOf(S)
BY DEF StartedIn, Phases, JournalOf

LEMMA ConfirmedOf == ASSUME NEW S, NEW out \in [S -> Known],
                            NEW jr \in JournalOf(S)
                     PROVE  ConfirmedIn(jr, out) \in JournalOf(S)
<1>1. Over(jr.outcome, out) \in [S -> Known]
  BY OverOf DEF JournalOf
<1> QED BY <1>1 DEF ConfirmedIn, Phases, JournalOf

(* The row of a plan whose journal or settled record has the plan's shape *)
LEMMA RowOf == ASSUME Types, NEW p \in PlanIds, proposal[p] # None,
                      NEW state \in Finals \cup {"applying"},
                      NEW jr \in JournalOf(Contents(p))
               PROVE  Row(p, state, jr) \in Rows
<1>1. proposal[p] \in Proposed /\ Contents(p) \in SUBSET Changes
  BY ConstantsAssumption DEF Types, TypeOK, Proposed, Contents
<1>2. jr.phase \in Vectors(Phases) /\ jr.outcome \in Vectors(Known)
  BY <1>1, VectorIn DEF JournalOf
<1>3. records[p] # None => records[p] \in Rows
  BY DEF Types, TypeOK
<1> QED BY <1>1, <1>2, <1>3 DEF Row, Rows, Proposed, Opens

----------------------------------------------------------------------------
(* What the types say of one plan, and of the thread that carries it out *)

LEMMA PlanTyped ==
    ASSUME Types, NEW p \in PlanIds, proposal[p] # None
    PROVE  /\ proposal[p] \in Proposed
           /\ Contents(p) \in SUBSET Changes /\ Contents(p) = Buffer(p) \cup Creates(p)
           /\ Buffer(p) \cap Creates(p) = {} /\ OpensOf(p) \subseteq Buffer(p)
           /\ plans[p] # None => plans[p] \in Plans /\ plans[p].outcome \in [Contents(p) -> Known]
           /\ records[p] # None => /\ records[p] \in Rows
                                   /\ records[p].phase \in [Contents(p) -> Phases]
                                   /\ records[p].outcome \in [Contents(p) -> Known]
           /\ req[p] # None =>
                /\ req[p] \in Requests
                /\ req[p].ans \in [AskedOf(p, req[p].op) -> Known \cup {"creating"}]
<1>1. proposal[p] \in Proposed
  BY DEF Types, TypeOK
<1>2. Contents(p) \in SUBSET Changes /\ Contents(p) = Buffer(p) \cup Creates(p)
      /\ Buffer(p) \cap Creates(p) = {} /\ OpensOf(p) \subseteq Buffer(p)
  BY <1>1, ConstantsAssumption DEF Proposed, Contents, Buffer, Creates, OpensOf
<1>3. plans[p] # None => plans[p] \in Plans /\ plans[p].outcome \in [Contents(p) -> Known]
  BY VectorOf DEF Types, TypeOK, PlanShape, Plans
<1>4. records[p] # None => /\ records[p] \in Rows
                           /\ records[p].phase \in [Contents(p) -> Phases]
                           /\ records[p].outcome \in [Contents(p) -> Known]
  BY VectorOf DEF Types, TypeOK, PlanShape, Rows
<1>5. req[p] # None =>
        /\ req[p] \in Requests
        /\ req[p].ans \in [AskedOf(p, req[p].op) -> Known \cup {"creating"}]
  BY VectorOf DEF Types, TypeOK, PlanShape, Requests
<1> QED BY <1>1, <1>2, <1>3, <1>4, <1>5

LEMMA CarrierTyped ==
    ASSUME Types, NEW t \in Threads, pc[t] \notin {"idle", "called"}
    PROVE  /\ job[t] \in Jobs /\ job[t].plan \in PlanIds /\ proposal[job[t].plan] # None
           /\ Carries(t, job[t].plan) /\ Working(job[t].plan)
           /\ journal[t] \in Journals /\ journal[t] \in Written(job[t].plan)
           /\ verdict[t] \in Verdicts /\ verdict[t].outcome \in [Contents(job[t].plan) -> Known]
<1>1. job[t] \in Jobs /\ proposal[job[t].plan] # None /\ job[t] # None
  BY DEF Types, TypeOK, ThreadShape
<1>2. journal[t] \in Journals /\ verdict[t] \in Verdicts
  BY DEF Types, TypeOK, ThreadShape
<1>3. journal[t].phase \in [Contents(job[t].plan) -> Phases]
  BY <1>2, VectorOf DEF Types, ThreadShape, Journals
<1>4. journal[t].outcome \in [Contents(job[t].plan) -> Known]
  BY <1>2, VectorOf DEF Types, ThreadShape, Journals
<1>5. verdict[t].outcome \in [Contents(job[t].plan) -> Known]
  BY <1>2, VectorOf DEF Types, ThreadShape, Verdicts
<1> QED BY <1>1, <1>2, <1>3, <1>4, <1>5 DEF Jobs, Carries, Working, Written, JournalOf, Journals

(* The step Goto with a verdict kept or concluded keeps the types of the threads. *)
LEMMA ThreadTypes ==
    ASSUME Types, NEW t \in Threads, pc[t] \notin {"idle", "called"},
           NEW at \in PCs, Goto(t, at),
           UNCHANGED <<proposal, job>>,
           \/ UNCHANGED journal
           \/ \E jr \in Written(job[t].plan) : journal' = [journal EXCEPT ![t] = jr],
           \/ UNCHANGED verdict
           \/ \E state \in Finals \cup {"applying"}, out \in [Contents(job[t].plan) -> Known] :
                  verdict' = [verdict EXCEPT ![t] = [state |-> state, outcome |-> out]]
    PROVE  /\ pc' \in [Threads -> PCs] /\ job' \in [Threads -> Jobs \cup {None}]
           /\ journal' \in [Threads -> Journals \cup {None}]
           /\ verdict' \in [Threads -> Verdicts \cup {None}]
           /\ \A u \in Threads : ThreadShape(u)'
           /\ \A u \in Threads : u # t => /\ pc'[u] = pc[u] /\ journal'[u] = journal[u]
                                          /\ verdict'[u] = verdict[u]
           /\ pc'[t] = at
<1>1. /\ job[t] \in Jobs /\ job[t].plan \in PlanIds /\ proposal[job[t].plan] # None
      /\ journal[t] \in Journals /\ verdict[t] \in Verdicts
      /\ Contents(job[t].plan) \in SUBSET Changes
  BY CarrierTyped, PlanTyped
<1>2. pc \in [Threads -> PCs] /\ job \in [Threads -> Jobs \cup {None}]
      /\ journal \in [Threads -> Journals \cup {None}] /\ verdict \in [Threads -> Verdicts \cup {None}]
      /\ \A u \in Threads : ThreadShape(u)
  BY DEF Types, TypeOK
<1>3. pc' \in [Threads -> PCs] /\ pc'[t] = at /\ \A u \in Threads : u # t => pc'[u] = pc[u]
  BY <1>2 DEF Goto
<1>4. /\ journal' \in [Threads -> Journals \cup {None}]
      /\ \A u \in Threads : u # t => journal'[u] = journal[u]
      /\ journal'[t] \in Journals /\ DOMAIN journal'[t].phase = Contents(job[t].plan)
      /\ DOMAIN journal'[t].outcome = Contents(job[t].plan)
  <2>1. CASE UNCHANGED journal
    BY <1>2, <2>1 DEF ThreadShape
  <2>2. CASE \E jr \in Written(job[t].plan) : journal' = [journal EXCEPT ![t] = jr]
    <3>1. PICK jr \in Written(job[t].plan) : journal' = [journal EXCEPT ![t] = jr]
      BY <2>2
    <3>2. jr \in Journals
      BY <1>1, JournalIn DEF Written, JournalOf
    <3> QED BY <1>2, <3>1, <3>2 DEF Written, JournalOf
  <2> QED BY <2>1, <2>2
<1>5. /\ verdict' \in [Threads -> Verdicts \cup {None}]
      /\ \A u \in Threads : u # t => verdict'[u] = verdict[u]
      /\ verdict'[t] \in Verdicts /\ DOMAIN verdict'[t].outcome = Contents(job[t].plan)
  <2>1. CASE UNCHANGED verdict
    BY <1>2, <2>1 DEF ThreadShape
  <2>2. CASE \E state \in Finals \cup {"applying"}, out \in [Contents(job[t].plan) -> Known] :
                 verdict' = [verdict EXCEPT ![t] = [state |-> state, outcome |-> out]]
    <3>1. PICK state \in Finals \cup {"applying"}, out \in [Contents(job[t].plan) -> Known] :
                 verdict' = [verdict EXCEPT ![t] = [state |-> state, outcome |-> out]]
      BY <2>2
    <3>2. [state |-> state, outcome |-> out] \in Verdicts
      BY <1>1, VectorIn DEF Verdicts
    <3> QED BY <1>2, <3>1, <3>2
  <2> QED BY <2>1, <2>2
<1>6. \A u \in Threads : ThreadShape(u)'
  <2> SUFFICES ASSUME NEW u \in Threads PROVE ThreadShape(u)'
    OBVIOUS
  <2>1. CASE u = t
    BY <2>1, <1>1, <1>2, <1>4, <1>5 DEF ThreadShape, Contents
  <2>2. CASE u # t
    BY <2>2, <1>2, <1>3, <1>4, <1>5 DEF ThreadShape, Contents
  <2> QED BY <2>1, <2>2
<1> QED BY <1>2, <1>3, <1>4, <1>5, <1>6

----------------------------------------------------------------------------
(* What is true stays true while more happens and less may happen *)

LEMMA TrueGrows ==
    ASSUME NEW C, NEW H, NEW U, NEW G, NEW V, H \subseteq G, U \subseteq V,
           NEW state, NEW out, True(state, out, C, H, U)
    PROVE  True(state, out, C, G, V)
BY DEF True

LEMMA CoveredGrows ==
    ASSUME NEW C, NEW U, NEW V, U \subseteq V, NEW phase, NEW out, Covered(phase, out, C, U)
    PROVE  Covered(phase, out, C, V)
BY DEF Covered

(* Nothing is said before anything is known. *)
LEMMA NothingSaid ==
    ASSUME NEW C, NEW H, NEW U, NEW out, \A c \in C : out[c] = Pending
    PROVE  /\ True("applying", out, C, H, U) /\ True("needsReview", out, C, H, U)
           /\ C \subseteq U => True("failed", out, C, H, U)
BY DEF True, Landed, Pending

(* A plan that is being carried out says nothing yet. *)
LEMMA ApplyingSaysNothing ==
    ASSUME IInv, NEW t \in Threads, NEW p \in PlanIds, Carries(t, p)
    PROVE  /\ proposal[p] # None /\ plans[p] # None
           /\ \A rec, q, C, H, U : C = Contents(p) => PlanTrue(plans[p], rec, q, C, H, U)
<1>1. plans[p] # None /\ plans[p].state = "applying"
  BY DEF IInv, Claimed
<1>2. proposal[p] # None
  BY <1>1 DEF IInv, Types, PlanShape
<1>3. \A c \in Contents(p) : plans[p].outcome[c] = Pending
  BY <1>1, <1>2 DEF IInv, Truths, PlanIsTrue, PlanTrue
<1> QED BY <1>1, <1>2, <1>3, NothingSaid DEF PlanTrue, Waiting

(* A step of the thread that carries plan p out, to a place where it still does. *)
LEMMA CarrierStep ==
    ASSUME IInv, NEW t \in Threads, pc[t] \notin {"idle", "called"},
           NEW p \in PlanIds, p = job[t].plan,
           NEW at \in PCs \ {"idle", "called"}, Goto(t, at),
           UNCHANGED <<backendVars, js, storeVars, job, effect, pill>>,
           \/ UNCHANGED journal
           \/ \E jr \in Written(p) : journal' = [journal EXCEPT ![t] = jr],
           \/ UNCHANGED verdict
           \/ \E state \in Finals \cup {"applying"}, out \in [Contents(p) -> Known] :
                  verdict' = [verdict EXCEPT ![t] = [state |-> state, outcome |-> out]],
           req' \in [PlanIds -> Requests \cup {None}],
           records' \in [PlanIds -> Rows \cup {None}],
           \A q \in PlanIds \ {p} :
               /\ req'[q] = req[q]
               /\ records'[q] = records[q] \/ (records'[q] = None /\ Prunable(q)),
           req'[p] # None => DOMAIN req'[p].ans = AskedOf(p, req'[p].op),
           records'[p] # None => /\ DOMAIN records'[p].phase = Contents(p)
                                 /\ DOMAIN records'[p].outcome = Contents(p),
           \/ records'[p] = records[p]
           \/ records'[p] # None /\ ~records'[p].interrupted /\ ThisOpen(p),
           Stage(at, journal'[t], verdict'[t], records'[p], req'[p],
                 Buffer(p), Creates(p), Happened(p), Untouched(p)'),
           RecordTrue(records'[p], Contents(p), Happened(p), Untouched(p)'),
           RequestTrue(req'[p], records'[p], Home(p), Buffer(p), Creates(p), Happened(p))
    PROVE  IInv'
<1> DEFINE same(q) == /\ Contents(q)' = Contents(q) /\ Buffer(q)' = Buffer(q)
                      /\ Creates(q)' = Creates(q) /\ Home(q)' = Home(q)
                      /\ Happened(q)' = Happened(q) /\ ThisOpen(q)' = ThisOpen(q)
<1>1. /\ job[t] \in Jobs /\ proposal[p] # None /\ Carries(t, p)
  BY CarrierTyped DEF IInv
<1>2. \A q \in PlanIds : same(q)
  BY DEF Contents, Buffer, Creates, Home, Happened, ThisOpen, storeVars, backendVars
<1>3. /\ pc' \in [Threads -> PCs] /\ job' \in [Threads -> Jobs \cup {None}]
      /\ journal' \in [Threads -> Journals \cup {None}]
      /\ verdict' \in [Threads -> Verdicts \cup {None}]
      /\ \A u \in Threads : ThreadShape(u)'
      /\ \A u \in Threads : u # t => /\ pc'[u] = pc[u] /\ journal'[u] = journal[u]
                                     /\ verdict'[u] = verdict[u]
      /\ pc'[t] = at
  BY ThreadTypes DEF IInv, storeVars
<1>4. \A q \in PlanIds : PlanShape(q)'
  <2> SUFFICES ASSUME NEW q \in PlanIds PROVE PlanShape(q)'
    OBVIOUS
  <2>1. PlanShape(q)
    BY DEF IInv, Types
  <2>2. \A op : AskedOf(q, op)' = AskedOf(q, op)
    BY DEF AskedOf, OpensOf, Contents, Buffer, Creates, storeVars
  <2> QED BY <1>1, <1>2, <2>1, <2>2 DEF PlanShape, storeVars, AskedOf, OpensOf
<1>5. Types'
  BY <1>3, <1>4 DEF IInv, Types, TypeOK, storeVars, backendVars
<1>6. Minted'
  BY DEF IInv, Minted, Past, Twins, backendVars, storeVars
<1>7. Closed'
  BY <1>1, <1>2 DEF IInv, Closed, storeVars
<1>8. \A u \in Threads, q \in PlanIds : Carries(u, q)' <=> Carries(u, q)
  BY <1>1, <1>3 DEF Carries
<1>9. Claimed'
  BY <1>8 DEF IInv, Claimed, storeVars
<1>10. EffectOnce' /\ FilesFollowEdits'
  BY <1>2 DEF IInv, EffectOnce, FilesFollowEdits, storeVars
<1>11. ASSUME NEW q \in PlanIds, q # p
       PROVE  /\ req'[q] = req[q] /\ Untouched(q)' = Untouched(q)
              /\ records'[q] = records[q] \/ (records'[q] = None /\ records[q] # None /\ records[q].old)
  BY <1>2, <1>11 DEF Untouched, Prunable
<1>12. \A u \in Threads, q \in PlanIds : StageIsTrue(u, q)'
  <2> SUFFICES ASSUME NEW u \in Threads, NEW q \in PlanIds, Carries(u, q)' PROVE StageIsTrue(u, q)'
    BY DEF StageIsTrue
  <2>1. Carries(u, q) /\ StageIsTrue(u, q)
    BY <1>8 DEF IInv, Truths
  <2>2. CASE u = t
    BY <1>1, <1>2, <1>3, <2>1, <2>2 DEF StageIsTrue, Carries
  <2>3. CASE u # t
    <3>1. q # p
      BY <1>1, <2>1, <2>3 DEF IInv, Claimed
    <3>2. records[q] # None => ~records[q].old
      BY <2>1 DEF StageIsTrue, Stage
    <3>3. records'[q] = records[q] /\ req'[q] = req[q] /\ Untouched(q)' = Untouched(q)
      BY <1>11, <3>1, <3>2
    <3> QED BY <1>2, <1>3, <2>1, <2>3, <3>3 DEF StageIsTrue
  <2> QED BY <2>2, <2>3
<1>13. \A q \in PlanIds : PlanIsTrue(q)'
  <2> SUFFICES ASSUME NEW q \in PlanIds, proposal[q] # None PROVE PlanIsTrue(q)'
    BY DEF PlanIsTrue, storeVars
  <2>1. PlanIsTrue(q)
    BY DEF IInv, Truths
  <2>2. CASE q = p
    <3>1. PlanTrue(plans[p], records'[p], req'[p], Contents(p), Happened(p), Untouched(p)')
      BY <1>1, ApplyingSaysNothing
    <3> QED BY <1>2, <2>2, <3>1 DEF PlanIsTrue, storeVars
  <2>3. CASE q # p /\ records'[q] = records[q]
    BY <1>2, <1>11, <2>1, <2>3 DEF PlanIsTrue, storeVars
  <2>4. CASE q # p /\ records'[q] = None /\ records[q] # None /\ records[q].old
    <3>1. req'[q] = req[q] /\ Untouched(q)' = Untouched(q) /\ plans'[q] = plans[q]
      BY <1>11, <2>4 DEF storeVars
    <3>2. req[q] = None
      BY <2>1, <2>4 DEF PlanIsTrue, RequestTrue
    <3>3. RecordTrue(records'[q], Contents(q), Happened(q), Untouched(q))
      BY <2>4 DEF RecordTrue
    <3>4. PlanTrue(plans[q], records'[q], req[q], Contents(q), Happened(q), Untouched(q))
      BY <2>1, <2>4 DEF PlanIsTrue, PlanTrue
    <3>5. RequestTrue(req[q], records'[q], Home(q), Buffer(q), Creates(q), Happened(q))
      BY <3>2 DEF RequestTrue
    <3> QED BY <1>2, <3>1, <3>3, <3>4, <3>5 DEF PlanIsTrue
  <2> QED BY <1>11, <2>2, <2>3, <2>4
<1> QED BY <1>5, <1>6, <1>7, <1>9, <1>10, <1>12, <1>13 DEF IInv, Truths

----------------------------------------------------------------------------
(* The steps of the thread that carries a plan out *)

LEMMA CarrierFacts ==
    ASSUME IInv, NEW t \in Threads, pc[t] \notin {"idle", "called"}, NEW p, p = job[t].plan
    PROVE  /\ p \in PlanIds /\ proposal[p] # None /\ Carries(t, p) /\ job[t] \in Jobs
           /\ journal[t] \in Journals /\ journal[t] \in Written(p)
           /\ verdict[t] \in Verdicts /\ verdict[t].outcome \in [Contents(p) -> Known]
           /\ Contents(p) \in SUBSET Changes /\ Contents(p) = Buffer(p) \cup Creates(p)
           /\ Buffer(p) \cap Creates(p) = {} /\ OpensOf(p) \subseteq Buffer(p)
           /\ Happened(p) \subseteq Contents(p) /\ Untouched(p) \subseteq Contents(p)
           /\ Happened(p) \cap Untouched(p) = {}
           /\ Stage(pc[t], journal[t], verdict[t], records[p], req[p],
                    Buffer(p), Creates(p), Happened(p), Untouched(p))
           /\ RecordTrue(records[p], Contents(p), Happened(p), Untouched(p))
           /\ RequestTrue(req[p], records[p], Home(p), Buffer(p), Creates(p), Happened(p))
<1>1. /\ p \in PlanIds /\ proposal[p] # None /\ Carries(t, p) /\ job[t] \in Jobs
      /\ journal[t] \in Journals /\ journal[t] \in Written(p)
      /\ verdict[t] \in Verdicts /\ verdict[t].outcome \in [Contents(p) -> Known]
  BY CarrierTyped DEF IInv
<1>2. /\ Contents(p) \in SUBSET Changes /\ Contents(p) = Buffer(p) \cup Creates(p)
      /\ Buffer(p) \cap Creates(p) = {} /\ OpensOf(p) \subseteq Buffer(p)
  BY <1>1, PlanTyped DEF IInv
<1>3. StageIsTrue(t, p) /\ PlanIsTrue(p)
  BY <1>1 DEF IInv, Truths
<1> QED BY <1>1, <1>2, <1>3 DEF StageIsTrue, PlanIsTrue, Happened, Untouched

(* A step that only moves the thread on, or lets it conclude, changes nothing for others. *)
LEMMA CarrierMoves ==
    ASSUME IInv, NEW t \in Threads, pc[t] \notin {"idle", "called"}, NEW p, p = job[t].plan,
           NEW at \in PCs \ {"idle", "called"}, Goto(t, at),
           UNCHANGED <<backendVars, js, storeVars, job, req, records, effect, pill>>,
           \/ UNCHANGED journal
           \/ \E jr \in Written(p) : journal' = [journal EXCEPT ![t] = jr],
           \/ UNCHANGED verdict
           \/ \E state \in Finals \cup {"applying"}, out \in [Contents(p) -> Known] :
                  verdict' = [verdict EXCEPT ![t] = [state |-> state, outcome |-> out]],
           Stage(at, journal'[t], verdict'[t], records[p], req[p],
                 Buffer(p), Creates(p), Happened(p), Untouched(p))
    PROVE  IInv'
<1>1. p \in PlanIds /\ proposal[p] # None
  BY CarrierFacts
<1>2. Types /\ PlanShape(p)
  BY <1>1 DEF IInv, Types
<1>3. Untouched(p)' = Untouched(p)
  BY DEF Untouched, Happened, Buffer, Creates, Contents, storeVars
<1>4. /\ RecordTrue(records[p], Contents(p), Happened(p), Untouched(p))
      /\ RequestTrue(req[p], records[p], Home(p), Buffer(p), Creates(p), Happened(p))
  BY CarrierFacts
<1>5. req' \in [PlanIds -> Requests \cup {None}] /\ records' \in [PlanIds -> Rows \cup {None}]
  BY <1>2 DEF Types, TypeOK
<1> QED BY <1>1, <1>2, <1>3, <1>4, <1>5, CarrierStep DEF PlanShape

(* The thread concludes, with or without its journal changed on the way. *)
LEMMA Concludes ==
    ASSUME IInv, NEW t \in Threads, pc[t] \notin {"idle", "called"}, NEW p, p = job[t].plan,
           NEW state \in Finals, NEW out \in [Contents(p) -> Known], Conclude(t, state, out),
           UNCHANGED <<backendVars, js, storeVars, job, req, records, effect, pill>>,
           NEW jr \in Written(p), journal' = [journal EXCEPT ![t] = jr],
           Stage("finish", jr, [state |-> state, outcome |-> out], records[p], req[p],
                 Buffer(p), Creates(p), Happened(p), Untouched(p))
    PROVE  IInv'
<1>1. /\ journal'[t] = jr /\ verdict'[t] = [state |-> state, outcome |-> out]
      /\ verdict' = [verdict EXCEPT ![t] = [state |-> state, outcome |-> out]]
      /\ Goto(t, "finish")
  BY DEF IInv, Types, TypeOK, Conclude
<1>2. Stage("finish", journal'[t], verdict'[t], records[p], req[p],
            Buffer(p), Creates(p), Happened(p), Untouched(p))
  BY <1>1
<1>3. "finish" \in PCs \ {"idle", "called"}
  BY DEF PCs
<1> QED BY <1>1, <1>2, <1>3, CarrierMoves

(* Giving up before anything was asked: nothing is known, and nothing was done. *)
LEMMA GivesUpWith ==
    ASSUME IInv, NEW t \in Threads, NEW p, p = job[t].plan,
           pc[t] \in {"claimed", "check", "show", "start", "apply"},
           Conclude(t, "failed", NothingKnown(p)),
           UNCHANGED <<backendVars, js, storeVars, job, req, records, effect, pill>>,
           NEW jr \in Written(p), journal' = [journal EXCEPT ![t] = jr],
           True("applying", jr.outcome, Contents(p), Happened(p), Untouched(p)),
           Covered(jr.phase, jr.outcome, Contents(p), Untouched(p))
    PROVE  IInv'
<1> DEFINE stage(at, j, say) == Stage(at, j, say, records[p], req[p],
                                      Buffer(p), Creates(p), Happened(p), Untouched(p))
<1>0. /\ stage(pc[t], journal[t], verdict[t]) /\ pc[t] \notin {"idle", "called"}
      /\ Contents(p) = Buffer(p) \cup Creates(p)
  BY CarrierFacts
<1>1. NothingKnown(p) \in [Contents(p) -> Known] /\ "failed" \in Finals
  BY DEF NothingKnown, AllOf, Known, Finals
<1>2. \A c \in Contents(p) : NothingKnown(p)[c] = Pending
  BY DEF NothingKnown, AllOf
<1>3. Contents(p) \subseteq Untouched(p)
  <2>1. req[p] = None /\ Happened(p) = {}
    BY <1>0 DEF Stage, BeforeEdits, AfterEdits, Awaiting
  <2> QED BY <2>1 DEF Untouched, LiveIn
<1>4. True("failed", NothingKnown(p), Contents(p), Happened(p), Untouched(p))
  BY <1>2, <1>3, NothingSaid
<1>5. stage("finish", jr, [state |-> "failed", outcome |-> NothingKnown(p)])
  BY <1>0, <1>4 DEF Stage, BeforeEdits, AfterEdits, Awaiting
<1> QED BY <1>0, <1>1, <1>5, Concludes

LEMMA GivesUp ==
    ASSUME IInv, NEW t \in Threads, NEW p, p = job[t].plan,
           pc[t] \in {"claimed", "check", "show", "start", "apply"},
           Conclude(t, "failed", NothingKnown(p)),
           UNCHANGED <<backendVars, js, storeVars, job, journal, req, records, effect, pill>>
    PROVE  IInv'
<1>1. /\ Stage(pc[t], journal[t], verdict[t], records[p], req[p],
               Buffer(p), Creates(p), Happened(p), Untouched(p))
      /\ journal[t] \in Written(p) /\ Contents(p) = Buffer(p) \cup Creates(p)
  BY CarrierFacts
<1>2. journal' = [journal EXCEPT ![t] = journal[t]]
  BY DEF IInv, Types, TypeOK
<1>3. /\ True("applying", journal[t].outcome, Contents(p), Happened(p), Untouched(p))
      /\ Covered(journal[t].phase, journal[t].outcome, Contents(p), Untouched(p))
  BY <1>1 DEF Stage
<1> QED BY <1>1, <1>2, <1>3, GivesUpWith

(* A write of the record of an open plan. *)
LEMMA RowFacts ==
    ASSUME IInv, NEW p \in PlanIds, proposal[p] # None, ThisOpen(p),
           NEW state \in Finals \cup {"applying"}, NEW jr \in Written(p),
           NEW row, row = Row(p, state, jr)
    PROVE  /\ row \in Rows /\ row # None /\ row.state = state
           /\ row.phase = jr.phase /\ row.outcome = jr.outcome
           /\ ~row.interrupted /\ ~row.old
<1>1. row \in Rows
  BY RowOf DEF IInv, Written
<1>2. ~(records[p] # None /\ records[p].interrupted)
  BY DEF IInv, Closed
<1>3. row # None
  BY <1>1, NoneAssumption
<1> QED BY <1>1, <1>2, <1>3 DEF Row

LEMMA CarrierSaves ==
    ASSUME IInv, NEW t \in Threads, pc[t] \notin {"idle", "called"}, NEW p, p = job[t].plan,
           NEW at \in PCs \ {"idle", "called"}, Goto(t, at), DbOpenFor(p),
           UNCHANGED <<backendVars, js, storeVars, job, verdict, req, effect, pill>>,
           NEW state \in Finals \cup {"applying"}, NEW jr \in Written(p),
           NEW row, row = Row(p, state, jr),
           \/ records' = [records EXCEPT ![p] = row]
           \/ records' = [Pruned EXCEPT ![p] = row],
           journal' = [journal EXCEPT ![t] = jr],
           True(state, jr.outcome, Contents(p), Happened(p), Untouched(p)),
           Covered(jr.phase, jr.outcome, Contents(p), Untouched(p)),
           Stage(at, jr, verdict[t], row, req[p],
                 Buffer(p), Creates(p), Happened(p), Untouched(p))
    PROVE  IInv'
<1>0. p \in PlanIds /\ proposal[p] # None /\ ThisOpen(p)
  BY CarrierFacts DEF DbOpenFor
<1>1. /\ row \in Rows /\ row # None /\ row.state = state /\ row.phase = jr.phase
      /\ row.outcome = jr.outcome /\ ~row.interrupted /\ ~row.old
  BY <1>0, RowFacts
<1>2. /\ records \in [PlanIds -> Rows \cup {None}] /\ req \in [PlanIds -> Requests \cup {None}]
      /\ journal \in [Threads -> Journals \cup {None}] /\ PlanShape(p)
  BY <1>0 DEF IInv, Types, TypeOK
<1>3. Pruned \in [PlanIds -> Rows \cup {None}]
  BY <1>2 DEF Pruned
<1>4. /\ records' \in [PlanIds -> Rows \cup {None}] /\ records'[p] = row
      /\ \A q \in PlanIds \ {p} :
            records'[q] = records[q] \/ (records'[q] = None /\ Prunable(q))
  <2>1. CASE records' = [records EXCEPT ![p] = row]
    BY <1>0, <1>1, <1>2, <2>1
  <2>2. CASE records' = [Pruned EXCEPT ![p] = row]
    BY <1>0, <1>1, <1>3, <2>2 DEF Pruned
  <2> QED BY <2>1, <2>2
<1>5. journal'[t] = jr
  BY <1>2
<1>6. Untouched(p)' = Untouched(p)
  BY DEF Untouched, Happened, Buffer, Creates, Contents, storeVars
<1>7. RecordTrue(row, Contents(p), Happened(p), Untouched(p))
  BY <1>1 DEF RecordTrue
<1>8. RequestTrue(req[p], row, Home(p), Buffer(p), Creates(p), Happened(p))
  <2>1. RequestTrue(req[p], records[p], Home(p), Buffer(p), Creates(p), Happened(p))
    BY CarrierFacts
  <2> QED BY <2>1, <1>1 DEF RequestTrue
<1>9. DOMAIN row.phase = Contents(p) /\ DOMAIN row.outcome = Contents(p)
  BY <1>1 DEF Written, JournalOf
<1>10. /\ Stage(at, journal'[t], verdict'[t], records'[p], req'[p],
                Buffer(p), Creates(p), Happened(p), Untouched(p)')
       /\ RecordTrue(records'[p], Contents(p), Happened(p), Untouched(p)')
       /\ RequestTrue(req'[p], records'[p], Home(p), Buffer(p), Creates(p), Happened(p))
  BY <1>4, <1>5, <1>6, <1>7, <1>8, Zenon
<1>11. /\ req' \in [PlanIds -> Requests \cup {None}]
       /\ req'[p] # None => DOMAIN req'[p].ans = AskedOf(p, req'[p].op)
       /\ \A q \in PlanIds \ {p} :
            /\ req'[q] = req[q]
            /\ records'[q] = records[q] \/ (records'[q] = None /\ Prunable(q))
  BY <1>2, <1>4 DEF PlanShape
<1>12. /\ records'[p] # None => /\ DOMAIN records'[p].phase = Contents(p)
                                /\ DOMAIN records'[p].outcome = Contents(p)
       /\ records'[p] # None /\ ~records'[p].interrupted /\ ThisOpen(p)
  BY <1>0, <1>1, <1>4, <1>9
<1>13. \E j \in Written(p) : journal' = [journal EXCEPT ![t] = j]
  OBVIOUS
<1>14. UNCHANGED <<backendVars, js, storeVars, job, effect, pill>> /\ UNCHANGED verdict
  OBVIOUS
<1> QED BY <1>0, <1>4, <1>10, <1>11, <1>12, <1>13, <1>14, CarrierStep, ZenonT(60)

LEMMA IntendStep == ASSUME IInv, NEW t \in Threads, Intend(t) PROVE IInv'
<1>1. PICK p : p = job[t].plan
  OBVIOUS
<1>2. PICK jr : jr = journal[t]
  OBVIOUS
<1> DEFINE stage(at, rec) == Stage(at, jr, verdict[t], rec, req[p],
                                   Buffer(p), Creates(p), Happened(p), Untouched(p))
<1>3. pc[t] = "claimed"
  BY DEF Intend
<1>4. /\ stage("claimed", records[p]) /\ Contents(p) = Buffer(p) \cup Creates(p)
      /\ jr \in Written(p) /\ p \in PlanIds /\ proposal[p] # None
  BY <1>1, <1>2, <1>3, CarrierFacts
<1>5. CASE DbOpenFor(p) /\ records' = [Pruned EXCEPT ![p] = Row(p, "applying", jr)]
           /\ Goto(t, "check") /\ UNCHANGED verdict
  <2>1. PICK row : row = Row(p, "applying", jr)
    OBVIOUS
  <2>2. row # None /\ ~row.old
    BY <1>4, <1>5, <2>1, RowFacts DEF DbOpenFor
  <2>3. stage("check", row)
    BY <1>4, <2>2 DEF Stage, BeforeEdits, AfterEdits, Awaiting
  <2>4. /\ True("applying", jr.outcome, Contents(p), Happened(p), Untouched(p))
        /\ Covered(jr.phase, jr.outcome, Contents(p), Untouched(p))
    BY <1>4 DEF Stage
  <2>5. journal' = [journal EXCEPT ![t] = jr]
    BY <1>2 DEF Intend, IInv, Types, TypeOK
  <2>6. UNCHANGED <<backendVars, js, storeVars, job, verdict, req, effect, pill>>
    BY <1>5 DEF Intend
  <2>7. "check" \in PCs \ {"idle", "called"} /\ "applying" \in Finals \cup {"applying"}
    BY DEF PCs
  <2> QED BY <1>1, <1>3, <1>4, <1>5, <2>1, <2>3, <2>4, <2>5, <2>6, <2>7, CarrierSaves
<1>6. CASE Conclude(t, "failed", NothingKnown(p)) /\ UNCHANGED records
  <2>1. UNCHANGED <<backendVars, js, storeVars, job, journal, req, records, effect, pill>>
    BY <1>6 DEF Intend
  <2> QED BY <1>1, <1>3, <1>6, <2>1, GivesUp
<1> QED BY <1>1, <1>2, <1>5, <1>6 DEF Intend

LEMMA CheckStep == ASSUME IInv, NEW t \in Threads, Check(t) PROVE IInv'
<1>1. PICK p : p = job[t].plan
  OBVIOUS
<1> DEFINE stage(at, say) == Stage(at, journal[t], say, records[p], req[p],
                                   Buffer(p), Creates(p), Happened(p), Untouched(p))
<1>2. /\ pc[t] = "check"
      /\ UNCHANGED <<backendVars, js, storeVars, job, journal, req, records, effect, pill>>
  BY DEF Check
<1>3. /\ stage("check", verdict[t]) /\ Contents(p) = Buffer(p) \cup Creates(p)
      /\ OpensOf(p) \subseteq Buffer(p)
  BY <1>1, <1>2, CarrierFacts
<1>4. CASE Goto(t, IF OpensOf(p) = {} THEN "start" ELSE "show") /\ UNCHANGED verdict
  <2>1. PICK at : at = IF OpensOf(p) = {} THEN "start" ELSE "show"
    OBVIOUS
  <2>2. at \in PCs \ {"idle", "called"} /\ Goto(t, at)
    BY <1>4, <2>1 DEF PCs
  <2>3. stage(at, verdict'[t])
    BY <1>3, <1>4, <2>1 DEF Stage, BeforeEdits, AfterEdits, Awaiting
  <2> QED BY <1>1, <1>2, <1>4, <2>2, <2>3, CarrierMoves
<1>5. CASE Conclude(t, "failed", NothingKnown(p))
  BY <1>1, <1>2, <1>5, GivesUp
<1>6. ASSUME NEW Bad \in (SUBSET (Creates(p) \cup OpensOf(p))) \ {{}},
             NEW why \in [Bad -> {"exists", "conflict", "refused"}],
             Conclude(t, "conflict", Over(AllOf(Contents(p), "ready"), why))
      PROVE  IInv'
  <2>1. PICK out : out = Over(AllOf(Contents(p), "ready"), why)
    OBVIOUS
  <2>2. /\ out \in [Contents(p) -> Known]
        /\ \A c \in Contents(p) : out[c] # Pending /\ ~Landed(out[c])
    BY <2>1 DEF Over, AllOf, Known, Outcomes, Pending, Landed
  <2>3. verdict' = [verdict EXCEPT ![t] = [state |-> "conflict", outcome |-> out]]
        /\ Goto(t, "finish")
    BY <1>6, <2>1 DEF Conclude
  <2>4. verdict'[t] = [state |-> "conflict", outcome |-> out]
    BY <2>3 DEF IInv, Types, TypeOK
  <2>5. Contents(p) = Untouched(p)
    <3>1. req[p] = None /\ Happened(p) = {}
      BY <1>3 DEF Stage, BeforeEdits, AfterEdits, Awaiting
    <3> QED BY <3>1 DEF Untouched, LiveIn
  <2>6. True("conflict", out, Contents(p), Happened(p), Untouched(p))
    BY <2>2, <2>5 DEF True
  <2>7. stage("finish", verdict'[t])
    BY <1>3, <2>4, <2>6 DEF Stage, BeforeEdits, AfterEdits, Awaiting
  <2>8. "finish" \in PCs \ {"idle", "called"} /\ "conflict" \in Finals
    BY DEF PCs, Finals
  <2> QED BY <1>1, <1>2, <2>2, <2>3, <2>7, <2>8, CarrierMoves
<1>7. \/ Goto(t, IF OpensOf(p) = {} THEN "start" ELSE "show") /\ UNCHANGED verdict
      \/ Conclude(t, "failed", NothingKnown(p))
      \/ \E Bad \in (SUBSET (Creates(p) \cup OpensOf(p))) \ {{}} :
         \E why \in [Bad -> {"exists", "conflict", "refused"}] :
               Conclude(t, "conflict", Over(AllOf(Contents(p), "ready"), why))
  BY <1>1 DEF Check
<1> QED BY <1>4, <1>5, <1>6, <1>7

(* What was recorded as started may be asked for: nothing said so far denies it. *)
LEMMA MayBeAsked ==
    ASSUME NEW C, NEW H, NEW U, NEW S, NEW jr, NEW rec, Recorded(jr, rec, S), S \subseteq C,
           RecordTrue(rec, C, H, U), Covered(jr.phase, jr.outcome, C, U)
    PROVE  RecordTrue(rec, C, H, U \ S) /\ Covered(jr.phase, jr.outcome, C, U \ S)
BY DEF Recorded, RecordTrue, True, Covered, Pending, Landed

LEMMA PendingMayBeAsked ==
    ASSUME NEW C, NEW H, NEW U, NEW S, NEW out, True("applying", out, C, H, U),
           \A c \in S : out[c] = Pending
    PROVE  True("applying", out, C, H, U \ S)
BY DEF True, Pending

LEMMA AskStep ==
    ASSUME IInv, NEW t \in Threads, NEW p, p = job[t].plan, NEW op, NEW at, NEW asked,
           \/ pc[t] = "show" /\ op = "show" /\ at = "awaitShow" /\ asked = OpensOf(p)
           \/ pc[t] = "apply" /\ op = "apply" /\ at = "awaitApply" /\ asked = Buffer(p)
           \/ pc[t] = "create" /\ op = "create" /\ at = "awaitCreate" /\ asked = Creates(p),
           Ask(t, op, asked, at),
           UNCHANGED <<backendVars, js, storeVars, job, journal, records, effect, pill>>
    PROVE  IInv'
<1> DEFINE C == Contents(p)
           H == Happened(p)
           S == IF op = "show" THEN {} ELSE asked
           q == [op |-> op, status |-> "sent", ans |-> AllOf(asked, Pending), root |-> None]
<1>1. /\ p \in PlanIds /\ proposal[p] # None /\ pc[t] \notin {"idle", "called"}
      /\ C \in SUBSET Changes /\ C = Buffer(p) \cup Creates(p) /\ OpensOf(p) \subseteq Buffer(p)
      /\ Buffer(p) \cap Creates(p) = {}
      /\ Stage(pc[t], journal[t], verdict[t], records[p], req[p], Buffer(p), Creates(p), H, Untouched(p))
      /\ RecordTrue(records[p], C, H, Untouched(p))
  BY CarrierFacts
<1>2. /\ req \in [PlanIds -> Requests \cup {None}] /\ records \in [PlanIds -> Rows \cup {None}]
      /\ PlanShape(p)
  BY <1>1 DEF IInv, Types, TypeOK
<1>3. q \in Requests
  <2>1. AllOf(asked, Pending) \in [asked -> Known \cup {"creating"}] /\ asked \in SUBSET Changes
    BY <1>1 DEF AllOf, Known
  <2> QED BY <2>1, VectorIn DEF Requests
<1>4. q # None
  BY <1>3, NoneAssumption
<1>5. req'[p] = q /\ req' \in [PlanIds -> Requests \cup {None}]
      /\ \A o \in PlanIds \ {p} : req'[o] = req[o]
  BY <1>1, <1>2, <1>3 DEF Ask
<1>6. Untouched(p)' = Untouched(p) \ S
  <2>1. req[p] = None
    BY <1>1 DEF Stage, BeforeEdits, AfterEdits, Awaiting
  <2>2. LiveIn(q, Buffer(p), Creates(p)) = S
    BY <1>1, <1>4 DEF LiveIn, AllOf
  <2>3. LiveIn(req[p], Buffer(p), Creates(p)) = {}
    BY <2>1 DEF LiveIn
  <2>4. Untouched(p)' = C \ (H \cup LiveIn(q, Buffer(p), Creates(p)))
    BY <1>5 DEF Untouched, Happened, Buffer, Creates, Contents, storeVars
  <2> QED BY <2>2, <2>3, <2>4 DEF Untouched
<1>7. /\ Recorded(journal[t], records[p], S) /\ S \subseteq C
      /\ \A c \in S : verdict[t].outcome[c] = Pending /\ journal[t].outcome[c] = Pending
  BY <1>1 DEF Stage, Recorded, BeforeEdits, AfterEdits, Awaiting
<1>8. verdict[t].state = "applying"
  BY <1>1 DEF Stage, BeforeEdits, AfterEdits
<1>9. RecordTrue(records[p], C, H, Untouched(p)')
  BY <1>1, <1>6, <1>7, MayBeAsked DEF Stage
<1>10. /\ Covered(journal[t].phase, journal[t].outcome, C, Untouched(p)')
       /\ True("applying", journal[t].outcome, C, H, Untouched(p)')
       /\ True("applying", verdict[t].outcome, C, H, Untouched(p)')
  <2> DEFINE U == Untouched(p)
  <2>1. /\ Covered(journal[t].phase, journal[t].outcome, C, U)
        /\ True("applying", journal[t].outcome, C, H, U)
        /\ True("applying", verdict[t].outcome, C, H, U)
    BY <1>1, <1>8 DEF Stage
  <2> HIDE DEF U, C, H, S
  <2>2. Covered(journal[t].phase, journal[t].outcome, C, U \ S)
    BY <1>1, <1>7, <2>1, MayBeAsked DEF U
  <2>3. /\ True("applying", journal[t].outcome, C, H, U \ S)
        /\ True("applying", verdict[t].outcome, C, H, U \ S)
    BY <1>7, <2>1, PendingMayBeAsked
  <2> QED BY <1>6, <2>2, <2>3 DEF U
<1>11. Stage(at, journal[t], verdict[t], records[p], q, Buffer(p), Creates(p), H, Untouched(p)')
  BY <1>1, <1>4, <1>8, <1>10 DEF Stage, BeforeEdits, AfterEdits, Awaiting
<1>12. RequestTrue(q, records[p], Home(p), Buffer(p), Creates(p), H)
  <2>1. records[p] # None /\ ~records[p].old
    BY <1>1 DEF Stage, BeforeEdits, AfterEdits, Awaiting
  <2>2. CASE op = "show"
    <3>1. H = {}
      BY <1>1, <2>2 DEF Stage, BeforeEdits, AfterEdits, Awaiting
    <3> QED BY <2>1, <2>2, <3>1 DEF RequestTrue, AllOf, Pending
  <2>3. CASE op = "apply"
    <3>1. H = {}
      BY <1>1, <2>3 DEF Stage, BeforeEdits, AfterEdits, Awaiting
    <3> QED BY <2>1, <2>3, <3>1 DEF RequestTrue, AllOf, Pending
  <2>4. CASE op = "create"
    <3>1. Buffer(p) \subseteq H /\ Creates(p) \cap H = {} /\ asked = Creates(p)
      BY <1>1, <2>4 DEF Stage, BeforeEdits, AfterEdits, Awaiting
    <3> QED BY <2>1, <2>4, <3>1 DEF RequestTrue, AllOf, Pending
  <2> QED BY <2>2, <2>3, <2>4
<1>13. DOMAIN q.ans = AskedOf(p, op)
  BY DEF AllOf, AskedOf
<1>14. at \in PCs \ {"idle", "called"} /\ Goto(t, at) /\ UNCHANGED verdict
  BY DEF PCs, Awaiting, Ask
<1> HIDE DEF q, S
<1>15. Stage(at, journal'[t], verdict'[t], records'[p], req'[p], Buffer(p), Creates(p), H, Untouched(p)')
  BY <1>5, <1>11, <1>14
<1>16. /\ RecordTrue(records'[p], C, H, Untouched(p)')
       /\ RequestTrue(req'[p], records'[p], Home(p), Buffer(p), Creates(p), H)
  BY <1>5, <1>9, <1>12
<1>17. /\ req'[p] # None => DOMAIN req'[p].ans = AskedOf(p, req'[p].op)
       /\ records'[p] # None => /\ DOMAIN records'[p].phase = C /\ DOMAIN records'[p].outcome = C
       /\ records' \in [PlanIds -> Rows \cup {None}]
       /\ \A o \in PlanIds \ {p} : records'[o] = records[o]
       /\ records'[p] = records[p]
  BY <1>2, <1>5, <1>13 DEF PlanShape, q
<1> QED BY <1>1, <1>5, <1>14, <1>15, <1>16, <1>17, CarrierStep

LEMMA AskShowStep == ASSUME IInv, NEW t \in Threads, AskShow(t) PROVE IInv'
<1>1. PICK p : p = job[t].plan
  OBVIOUS
<1>2. /\ pc[t] = "show"
      /\ UNCHANGED <<backendVars, js, storeVars, job, journal, records, effect, pill>>
      /\ \/ Ask(t, "show", OpensOf(p), "awaitShow")
         \/ Conclude(t, "failed", NothingKnown(p)) /\ UNCHANGED req
  BY <1>1 DEF AskShow
<1>3. CASE Ask(t, "show", OpensOf(p), "awaitShow")
  BY <1>1, <1>2, <1>3, AskStep
<1>4. CASE Conclude(t, "failed", NothingKnown(p)) /\ UNCHANGED req
  BY <1>1, <1>2, <1>4, GivesUp
<1> QED BY <1>2, <1>3, <1>4

LEMMA AskApplyStep == ASSUME IInv, NEW t \in Threads, AskApply(t) PROVE IInv'
<1>1. PICK p : p = job[t].plan
  OBVIOUS
<1>2. /\ pc[t] = "apply"
      /\ UNCHANGED <<backendVars, js, storeVars, job, journal, records, effect, pill>>
      /\ \/ Ask(t, "apply", Buffer(p), "awaitApply")
         \/ Conclude(t, "failed", NothingKnown(p)) /\ UNCHANGED req
  BY <1>1 DEF AskApply
<1>3. CASE Ask(t, "apply", Buffer(p), "awaitApply")
  BY <1>1, <1>2, <1>3, AskStep
<1>4. CASE Conclude(t, "failed", NothingKnown(p)) /\ UNCHANGED req
  BY <1>1, <1>2, <1>4, GivesUp
<1> QED BY <1>2, <1>3, <1>4

(* The state a plan ends in says no more than its outcomes do. *)
LEMMA SettledTrue ==
    ASSUME NEW C, NEW H, NEW U, NEW out, DOMAIN out = C,
           \A c \in C : (Landed(out[c]) /\ c \in H) \/ (~Landed(out[c]) /\ c \in U)
    PROVE  True(SettledState(out), out, C, H, U)
<1>1. CASE \A c \in C : Landed(out[c])
  <2>1. SettledState(out) = "applied"
    BY <1>1 DEF SettledState
  <2> QED BY <1>1, <2>1 DEF True
<1>2. CASE (\E c \in C : ~Landed(out[c])) /\ (\E c \in C : Landed(out[c]))
  <2>1. SettledState(out) = "partial"
    BY <1>2 DEF SettledState
  <2> QED BY <1>2, <2>1 DEF True
<1>3. CASE (\E c \in C : ~Landed(out[c])) /\ (\A c \in C : ~Landed(out[c]))
  <2>1. SettledState(out) \in {"conflict", "failed"}
    BY <1>3 DEF SettledState
  <2> QED BY <1>3, <2>1 DEF True
<1> QED BY <1>1, <1>2, <1>3

(* Marking changes as started covers more; confirming what is known says what is known. *)
LEMMA StartedMarks ==
    ASSUME NEW C, NEW S, NEW jr \in JournalOf(C)
    PROVE  /\ StartedIn(jr, S).outcome = jr.outcome
           /\ StartedIn(jr, S).phase = [c \in C |-> IF c \in S THEN "started" ELSE jr.phase[c]]
BY DEF StartedIn, JournalOf

LEMMA StartedCovers ==
    ASSUME NEW C, NEW U, NEW S, NEW jr \in JournalOf(C), Covered(jr.phase, jr.outcome, C, U)
    PROVE  Covered(StartedIn(jr, S).phase, StartedIn(jr, S).outcome, C, U)
<1>1. /\ StartedIn(jr, S).outcome = jr.outcome
      /\ StartedIn(jr, S).phase = [c \in C |-> IF c \in S THEN "started" ELSE jr.phase[c]]
  BY DEF StartedIn, JournalOf
<1> QED BY <1>1 DEF Covered

LEMMA ConfirmedTrue ==
    ASSUME NEW C, NEW H, NEW U, NEW state, NEW out \in [C -> Known], True(state, out, C, H, U),
           NEW jr \in JournalOf(C), True("applying", jr.outcome, C, H, U)
    PROVE  True(state, ConfirmedIn(jr, out).outcome, C, H, U)
<1>1. ConfirmedIn(jr, out).outcome =
           [c \in C |-> IF out[c] = Pending THEN jr.outcome[c] ELSE out[c]]
  BY DEF ConfirmedIn, Over, JournalOf
<1> QED BY <1>1 DEF True

LEMMA ConfirmedCovers ==
    ASSUME NEW C, NEW U, NEW out \in [C -> Known], NEW jr \in JournalOf(C),
           Covered(jr.phase, jr.outcome, C, U)
    PROVE  Covered(ConfirmedIn(jr, out).phase, ConfirmedIn(jr, out).outcome, C, U)
<1>1. /\ ConfirmedIn(jr, out).outcome =
           [c \in C |-> IF out[c] = Pending THEN jr.outcome[c] ELSE out[c]]
      /\ ConfirmedIn(jr, out).phase =
           [c \in C |-> IF out[c] # Pending THEN "confirmed" ELSE jr.phase[c]]
  BY DEF ConfirmedIn, Over, JournalOf
<1> HIDE DEF ConfirmedIn
<1> QED BY <1>1 DEF Covered

LEMMA StartEditsStep == ASSUME IInv, NEW t \in Threads, StartEdits(t) PROVE IInv'
<1>1. PICK p : p = job[t].plan
  OBVIOUS
<1>2. PICK jr : jr = StartedIn(journal[t], Buffer(p))
  OBVIOUS
<1> DEFINE stage(at, j, rec) == Stage(at, j, verdict[t], rec, req[p],
                                      Buffer(p), Creates(p), Happened(p), Untouched(p))
<1>3. /\ pc[t] = "start"
      /\ UNCHANGED <<backendVars, js, storeVars, job, req, effect, pill>>
      /\ \/ Buffer(p) = {} /\ Goto(t, "startFiles") /\ UNCHANGED <<journal, verdict, records>>
         \/ /\ journal' = [journal EXCEPT ![t] = jr]
            /\ \/ Save(p, "applying", jr) /\ Goto(t, "apply") /\ UNCHANGED verdict
               \/ Conclude(t, "failed", NothingKnown(p)) /\ UNCHANGED records
  BY <1>1, <1>2 DEF StartEdits
<1>4. /\ stage("start", journal[t], records[p]) /\ Contents(p) = Buffer(p) \cup Creates(p)
      /\ journal[t] \in Written(p) /\ p \in PlanIds /\ proposal[p] # None
  <2>1. pc[t] \notin {"idle", "called"}
    BY <1>3
  <2>2. Stage(pc[t], journal[t], verdict[t], records[p], req[p],
              Buffer(p), Creates(p), Happened(p), Untouched(p))
    BY <1>1, <2>1, CarrierFacts
  <2> QED BY <1>1, <1>3, <2>1, <2>2, CarrierFacts
<1>5. jr \in Written(p)
  BY <1>2, <1>4, StartedOf DEF Written
<1>6. /\ Covered(jr.phase, jr.outcome, Contents(p), Untouched(p))
      /\ jr.outcome = journal[t].outcome /\ \A c \in Buffer(p) : jr.phase[c] = "started"
  <2>1. Covered(journal[t].phase, journal[t].outcome, Contents(p), Untouched(p))
    BY <1>4 DEF Stage
  <2>2. /\ journal[t] \in JournalOf(Contents(p))
        /\ \A c \in Buffer(p) : c \in Contents(p)
    BY <1>4 DEF Written
  <2>3. Covered(jr.phase, jr.outcome, Contents(p), Untouched(p))
    BY <1>2, <2>1, <2>2, StartedCovers
  <2>4. /\ jr.outcome = journal[t].outcome
        /\ jr.phase = [c \in Contents(p) |-> IF c \in Buffer(p) THEN "started" ELSE journal[t].phase[c]]
    BY <1>2, <2>2, StartedMarks
  <2> QED BY <2>2, <2>3, <2>4
<1>7. True("applying", jr.outcome, Contents(p), Happened(p), Untouched(p))
  BY <1>4, <1>6 DEF Stage
<1>8. CASE Buffer(p) = {} /\ Goto(t, "startFiles") /\ UNCHANGED <<journal, verdict, records>>
  <2>1. stage("startFiles", journal[t], records[p])
    BY <1>4, <1>8 DEF Stage, BeforeEdits, AfterEdits, Awaiting
  <2>2. "startFiles" \in PCs \ {"idle", "called"}
    BY DEF PCs
  <2> QED BY <1>1, <1>3, <1>8, <2>1, <2>2, CarrierMoves
<1>9. CASE journal' = [journal EXCEPT ![t] = jr] /\ Save(p, "applying", jr) /\ Goto(t, "apply")
           /\ UNCHANGED verdict
  <2>1. PICK row : row = Row(p, "applying", jr)
    OBVIOUS
  <2>2. DbOpenFor(p) /\ records' = [records EXCEPT ![p] = row]
    BY <1>9, <2>1 DEF Save
  <2>3. row # None /\ ~row.old /\ row.state = "applying" /\ row.phase = jr.phase
        /\ row.outcome = jr.outcome
    BY <1>4, <1>5, <2>1, <2>2, RowFacts DEF DbOpenFor
  <2>4. \A c \in Buffer(p) : jr.outcome[c] = Pending
    BY <1>4, <1>6 DEF Stage, BeforeEdits
  <2>5. Recorded(jr, row, Buffer(p))
    BY <1>6, <2>3, <2>4 DEF Recorded
  <2>6. stage("apply", jr, row)
    BY <1>4, <1>6, <1>7, <2>3, <2>5 DEF Stage, BeforeEdits, AfterEdits, Awaiting
  <2>7. "apply" \in PCs \ {"idle", "called"} /\ "applying" \in Finals \cup {"applying"}
    BY DEF PCs
  <2> QED BY <1>1, <1>3, <1>5, <1>6, <1>7, <1>9, <2>1, <2>2, <2>6, <2>7, CarrierSaves
<1>10. CASE journal' = [journal EXCEPT ![t] = jr] /\ Conclude(t, "failed", NothingKnown(p))
            /\ UNCHANGED records
  BY <1>1, <1>3, <1>5, <1>6, <1>7, <1>10, GivesUpWith
<1> QED BY <1>3, <1>8, <1>9, <1>10

(* None of the new files was asked for: what landed is the edits. *)
LEMMA FilesGivenUp ==
    ASSUME IInv, NEW t \in Threads, NEW p, p = job[t].plan, pc[t] \in {"startFiles", "create"},
           NEW out, out = FilesFailed(t), Conclude(t, SettledState(out), out),
           UNCHANGED <<backendVars, js, storeVars, job, req, records, effect, pill>>,
           NEW jr \in Written(p), journal' = [journal EXCEPT ![t] = jr],
           True("applying", jr.outcome, Contents(p), Happened(p), Untouched(p)),
           Covered(jr.phase, jr.outcome, Contents(p), Untouched(p))
    PROVE  IInv'
<1> DEFINE stage(at, j, say) == Stage(at, j, say, records[p], req[p],
                                      Buffer(p), Creates(p), Happened(p), Untouched(p))
<1>1. pc[t] \notin {"idle", "called"}
  OBVIOUS
<1>2. /\ stage(pc[t], journal[t], verdict[t]) /\ verdict[t].outcome \in [Contents(p) -> Known]
      /\ Contents(p) = Buffer(p) \cup Creates(p) /\ Buffer(p) \cap Creates(p) = {}
  BY <1>1, CarrierFacts
<1>3. out = [c \in Contents(p) |-> IF c \in Creates(p) THEN "failed" ELSE verdict[t].outcome[c]]
  BY <1>2 DEF FilesFailed, Over, AllOf, Pending
<1>4. \A c \in Buffer(p) : verdict[t].outcome[c] = "applied" /\ c \in Happened(p)
  BY <1>2 DEF Stage, AfterEdits, BeforeEdits
<1>5. \A c \in Contents(p) : c \in Creates(p) => c \in Untouched(p)
  <2>1. req[p] = None /\ Creates(p) \cap Happened(p) = {}
    BY <1>2 DEF Stage, BeforeEdits, AfterEdits, Awaiting
  <2> QED BY <2>1 DEF Untouched, LiveIn
<1>6. /\ out \in [Contents(p) -> Known] /\ SettledState(out) \in Finals
      /\ \A c \in Contents(p) : (Landed(out[c]) /\ c \in Happened(p))
                                \/ (~Landed(out[c]) /\ c \in Untouched(p))
  BY <1>2, <1>3, <1>4, <1>5, SettledOf DEF Known, Outcomes, Landed
<1>7. True(SettledState(out), out, Contents(p), Happened(p), Untouched(p))
  BY <1>6, SettledTrue
<1>8. SettledState(out) # "applying"
  BY <1>6 DEF Finals
<1>9. records[p] # None /\ ~records[p].old
  BY <1>2 DEF Stage, BeforeEdits, AfterEdits, Awaiting
<1>10. stage("finish", jr, [state |-> SettledState(out), outcome |-> out])
  BY <1>2, <1>7, <1>8, <1>9 DEF Stage, BeforeEdits, AfterEdits, Awaiting
<1> QED BY <1>1, <1>6, <1>10, Concludes

LEMMA AskCreateStep == ASSUME IInv, NEW t \in Threads, AskCreate(t) PROVE IInv'
<1>1. PICK p : p = job[t].plan
  OBVIOUS
<1>2. /\ pc[t] = "create"
      /\ UNCHANGED <<backendVars, js, storeVars, job, journal, records, effect, pill>>
      /\ \/ Ask(t, "create", Creates(p), "awaitCreate")
         \/ Conclude(t, SettledState(FilesFailed(t)), FilesFailed(t)) /\ UNCHANGED req
  BY <1>1 DEF AskCreate
<1>3. CASE Ask(t, "create", Creates(p), "awaitCreate")
  BY <1>1, <1>2, <1>3, AskStep
<1>4. CASE Conclude(t, SettledState(FilesFailed(t)), FilesFailed(t)) /\ UNCHANGED req
  <2>1. /\ Stage(pc[t], journal[t], verdict[t], records[p], req[p],
                 Buffer(p), Creates(p), Happened(p), Untouched(p))
        /\ journal[t] \in Written(p) /\ Contents(p) = Buffer(p) \cup Creates(p)
    BY <1>1, <1>2, CarrierFacts
  <2>2. journal' = [journal EXCEPT ![t] = journal[t]]
    BY <1>2 DEF IInv, Types, TypeOK
  <2>3. /\ True("applying", journal[t].outcome, Contents(p), Happened(p), Untouched(p))
        /\ Covered(journal[t].phase, journal[t].outcome, Contents(p), Untouched(p))
    BY <2>1 DEF Stage
  <2> QED BY <1>1, <1>2, <1>4, <2>1, <2>2, <2>3, FilesGivenUp
<1> QED BY <1>2, <1>3, <1>4

LEMMA StartFilesStep == ASSUME IInv, NEW t \in Threads, StartFiles(t) PROVE IInv'
<1>1. PICK p : p = job[t].plan
  OBVIOUS
<1>2. PICK known : known = verdict[t].outcome
  OBVIOUS
<1>3. PICK jc : jc = ConfirmedIn(journal[t], known)
  OBVIOUS
<1>4. PICK jr : jr = StartedIn(jc, Creates(p))
  OBVIOUS
<1> DEFINE stage(at, j, rec) == Stage(at, j, verdict[t], rec, req[p],
                                      Buffer(p), Creates(p), Happened(p), Untouched(p))
<1>5. /\ pc[t] = "startFiles" /\ pc[t] \notin {"idle", "called"}
      /\ UNCHANGED <<backendVars, js, storeVars, job, req, effect, pill>>
      /\ \/ /\ Creates(p) = {} /\ journal' = [journal EXCEPT ![t] = jc]
            /\ Conclude(t, SettledState(known), known) /\ UNCHANGED records
         \/ /\ journal' = [journal EXCEPT ![t] = jr]
            /\ \/ Save(p, "applying", jr) /\ Goto(t, "create") /\ UNCHANGED verdict
               \/ Conclude(t, SettledState(FilesFailed(t)), FilesFailed(t)) /\ UNCHANGED records
  BY <1>1, <1>2, <1>3, <1>4 DEF StartFiles
<1>6. /\ stage("startFiles", journal[t], records[p]) /\ Contents(p) = Buffer(p) \cup Creates(p)
      /\ Buffer(p) \cap Creates(p) = {} /\ journal[t] \in Written(p)
      /\ known \in [Contents(p) -> Known] /\ p \in PlanIds /\ proposal[p] # None
  <2>1. Stage(pc[t], journal[t], verdict[t], records[p], req[p],
              Buffer(p), Creates(p), Happened(p), Untouched(p))
    BY <1>1, <1>5, CarrierFacts
  <2> QED BY <1>1, <1>2, <1>5, <2>1, CarrierFacts
<1>7. jc \in Written(p) /\ jr \in Written(p)
  BY <1>3, <1>4, <1>6, ConfirmedOf, StartedOf DEF Written
<1>8. /\ verdict[t].state = "applying" /\ \A c \in Creates(p) : known[c] = Pending /\ journal[t].outcome[c] = Pending
      /\ True("applying", known, Contents(p), Happened(p), Untouched(p))
      /\ True("applying", journal[t].outcome, Contents(p), Happened(p), Untouched(p))
      /\ Covered(journal[t].phase, journal[t].outcome, Contents(p), Untouched(p))
  BY <1>2, <1>6 DEF Stage, BeforeEdits, AfterEdits
<1>9. /\ True("applying", jc.outcome, Contents(p), Happened(p), Untouched(p))
      /\ Covered(jc.phase, jc.outcome, Contents(p), Untouched(p))
      /\ \A c \in Creates(p) : jc.outcome[c] = Pending
  <2>1. journal[t] \in JournalOf(Contents(p))
    BY <1>6 DEF Written
  <2>2. True("applying", jc.outcome, Contents(p), Happened(p), Untouched(p))
    BY <1>3, <1>6, <1>8, <2>1, ConfirmedTrue
  <2>3. Covered(jc.phase, jc.outcome, Contents(p), Untouched(p))
    BY <1>3, <1>6, <1>8, <2>1, ConfirmedCovers
  <2>4. jc.outcome = [c \in Contents(p) |-> IF known[c] = Pending THEN journal[t].outcome[c] ELSE known[c]]
    BY <1>3, <1>6, <2>1 DEF ConfirmedIn, Over, JournalOf
  <2> QED BY <1>6, <1>8, <2>2, <2>3, <2>4
<1>10. /\ True("applying", jr.outcome, Contents(p), Happened(p), Untouched(p))
       /\ Covered(jr.phase, jr.outcome, Contents(p), Untouched(p))
       /\ \A c \in Creates(p) : jr.outcome[c] = Pending /\ jr.phase[c] = "started"
  <2>1. jc \in JournalOf(Contents(p))
    BY <1>7 DEF Written
  <2>2. Covered(jr.phase, jr.outcome, Contents(p), Untouched(p))
    BY <1>4, <1>9, <2>1, StartedCovers
  <2>3. /\ jr.outcome = jc.outcome
        /\ jr.phase = [c \in Contents(p) |-> IF c \in Creates(p) THEN "started" ELSE jc.phase[c]]
    BY <1>4, <2>1, StartedMarks
  <2> QED BY <1>6, <1>9, <2>2, <2>3
<1>11. CASE Creates(p) = {} /\ journal' = [journal EXCEPT ![t] = jc]
            /\ Conclude(t, SettledState(known), known) /\ UNCHANGED records
  <2>1. known = FilesFailed(t)
    BY <1>1, <1>2, <1>6, <1>11 DEF FilesFailed, Over, AllOf
  <2> QED BY <1>1, <1>5, <1>7, <1>9, <1>11, <2>1, FilesGivenUp
<1>12. CASE journal' = [journal EXCEPT ![t] = jr] /\ Save(p, "applying", jr) /\ Goto(t, "create")
            /\ UNCHANGED verdict
  <2>1. PICK row : row = Row(p, "applying", jr)
    OBVIOUS
  <2>2. DbOpenFor(p) /\ records' = [records EXCEPT ![p] = row]
    BY <1>12, <2>1 DEF Save
  <2>3. row # None /\ ~row.old /\ row.state = "applying" /\ row.phase = jr.phase
        /\ row.outcome = jr.outcome
    BY <1>6, <1>7, <2>1, <2>2, RowFacts DEF DbOpenFor
  <2>4. Recorded(jr, row, Creates(p))
    BY <1>10, <2>3 DEF Recorded
  <2>5. stage("create", jr, row)
    BY <1>6, <1>8, <1>10, <2>3, <2>4 DEF Stage, BeforeEdits, AfterEdits, Awaiting
  <2>6. "create" \in PCs \ {"idle", "called"} /\ "applying" \in Finals \cup {"applying"}
    BY DEF PCs
  <2> QED BY <1>1, <1>5, <1>7, <1>10, <1>12, <2>1, <2>2, <2>5, <2>6, CarrierSaves
<1>13. CASE journal' = [journal EXCEPT ![t] = jr] /\ UNCHANGED records
            /\ Conclude(t, SettledState(FilesFailed(t)), FilesFailed(t))
  BY <1>1, <1>5, <1>7, <1>10, <1>13, FilesGivenUp
<1> QED BY <1>5, <1>11, <1>12, <1>13

----------------------------------------------------------------------------
(* What the thread hears, and the end of its plan *)

(* The call is over, or left to the editor as it is. *)
LEMMA Hears ==
    ASSUME IInv, NEW t \in Threads, pc[t] \in Awaiting, NEW p, p = job[t].plan,
           NEW q, \/ q = req[p]
                  \/ q = None /\ LiveIn(req[p], Buffer(p), Creates(p)) = {},
           req' = [req EXCEPT ![p] = q],
           UNCHANGED <<backendVars, js, storeVars, job, journal, records, effect, pill>>,
           NEW at \in PCs \ {"idle", "called"}, Goto(t, at),
           NEW state \in Finals \cup {"applying"}, NEW out \in [Contents(p) -> Known],
           verdict' = [verdict EXCEPT ![t] = [state |-> state, outcome |-> out]],
           Stage(at, journal[t], [state |-> state, outcome |-> out], records[p], q,
                 Buffer(p), Creates(p), Happened(p), Untouched(p))
    PROVE  IInv'
<1>1. /\ p \in PlanIds /\ proposal[p] # None /\ pc[t] \notin {"idle", "called"}
      /\ RecordTrue(records[p], Contents(p), Happened(p), Untouched(p))
      /\ RequestTrue(req[p], records[p], Home(p), Buffer(p), Creates(p), Happened(p))
  <2>1. pc[t] \notin {"idle", "called"}
    BY DEF Awaiting
  <2> QED BY <2>1, CarrierFacts
<1>2. /\ req \in [PlanIds -> Requests \cup {None}] /\ records \in [PlanIds -> Rows \cup {None}]
      /\ verdict \in [Threads -> Verdicts \cup {None}] /\ PlanShape(p)
  BY <1>1 DEF IInv, Types, TypeOK
<1>3. /\ req'[p] = q /\ req' \in [PlanIds -> Requests \cup {None}]
      /\ \A o \in PlanIds \ {p} : req'[o] = req[o]
  BY <1>1, <1>2
<1>4. Untouched(p)' = Untouched(p)
  <2>1. LiveIn(q, Buffer(p), Creates(p)) = LiveIn(req[p], Buffer(p), Creates(p))
    BY DEF LiveIn
  <2>2. Untouched(p)' = Contents(p) \ (Happened(p) \cup LiveIn(q, Buffer(p), Creates(p)))
    BY <1>3 DEF Untouched, Happened, Buffer, Creates, Contents, storeVars
  <2> QED BY <2>1, <2>2 DEF Untouched
<1>5. RequestTrue(q, records[p], Home(p), Buffer(p), Creates(p), Happened(p))
  <2>1. CASE q = req[p]
    BY <1>1, <2>1
  <2>2. CASE q = None
    BY <2>2 DEF RequestTrue
  <2> QED BY <2>1, <2>2
<1>6. journal'[t] = journal[t] /\ verdict'[t] = [state |-> state, outcome |-> out]
  BY <1>2
<1>7. /\ Stage(at, journal'[t], verdict'[t], records'[p], req'[p],
               Buffer(p), Creates(p), Happened(p), Untouched(p)')
      /\ RecordTrue(records'[p], Contents(p), Happened(p), Untouched(p)')
      /\ RequestTrue(req'[p], records'[p], Home(p), Buffer(p), Creates(p), Happened(p))
  BY <1>1, <1>3, <1>4, <1>5, <1>6
<1>8. /\ req'[p] # None => DOMAIN req'[p].ans = AskedOf(p, req'[p].op)
      /\ records'[p] # None => /\ DOMAIN records'[p].phase = Contents(p)
                               /\ DOMAIN records'[p].outcome = Contents(p)
      /\ records' \in [PlanIds -> Rows \cup {None}]
      /\ \A o \in PlanIds \ {p} : records'[o] = records[o]
      /\ records'[p] = records[p] /\ UNCHANGED journal
  BY <1>2, <1>3 DEF PlanShape
<1> QED BY <1>1, <1>3, <1>7, <1>8, CarrierStep

LEMMA HearsTheEnd ==
    ASSUME IInv, NEW t \in Threads, pc[t] \in Awaiting, NEW p, p = job[t].plan,
           NEW q, \/ q = req[p]
                  \/ q = None /\ LiveIn(req[p], Buffer(p), Creates(p)) = {},
           req' = [req EXCEPT ![p] = q],
           UNCHANGED <<backendVars, js, storeVars, job, journal, records, effect, pill>>,
           NEW state \in Finals, NEW out \in [Contents(p) -> Known], Conclude(t, state, out),
           True(state, out, Contents(p), Happened(p), Untouched(p))
    PROVE  IInv'
<1> DEFINE say == [state |-> state, outcome |-> out]
<1>1. /\ Stage(pc[t], journal[t], verdict[t], records[p], req[p],
               Buffer(p), Creates(p), Happened(p), Untouched(p))
      /\ Contents(p) = Buffer(p) \cup Creates(p)
  <2>1. pc[t] \notin {"idle", "called"}
    BY DEF Awaiting
  <2> QED BY <2>1, CarrierFacts
<1>2. Stage("finish", journal[t], say, records[p], q,
            Buffer(p), Creates(p), Happened(p), Untouched(p))
  <2>1. records[p] # None /\ ~records[p].old
    BY <1>1 DEF Stage, BeforeEdits, AfterEdits, Awaiting
  <2>2. state # "applying"
    BY DEF Finals
  <2> QED BY <1>1, <2>1, <2>2 DEF Stage, BeforeEdits, AfterEdits, Awaiting
<1>3. Goto(t, "finish") /\ verdict' = [verdict EXCEPT ![t] = say]
      /\ "finish" \in PCs \ {"idle", "called"}
  BY DEF Conclude, PCs
<1> QED BY <1>2, <1>3, Hears

LEMMA NothingKnownTrue ==
    ASSUME NEW p, NEW H, NEW U
    PROVE  /\ NothingKnown(p) \in [Contents(p) -> Known]
           /\ Contents(p) \subseteq U => True("failed", NothingKnown(p), Contents(p), H, U)
BY DEF NothingKnown, AllOf, Known, True, Landed, Pending

LEMMA HearShowStep == ASSUME IInv, NEW t \in Threads, HearShow(t) PROVE IInv'
<1>1. PICK p : p = job[t].plan
  OBVIOUS
<1> DEFINE stage(at, say, q) == Stage(at, journal[t], say, records[p], q,
                                      Buffer(p), Creates(p), Happened(p), Untouched(p))
           out == Over(AllOf(Contents(p), "ready"), req[p].ans)
<1>2. /\ pc[t] = "awaitShow" /\ pc[t] \in Awaiting /\ pc[t] \notin {"idle", "called"}
      /\ Answered(p) /\ req' = [req EXCEPT ![p] = None]
      /\ UNCHANGED <<backendVars, js, storeVars, job, journal, records, effect, pill>>
      /\ \/ Goto(t, "start") /\ UNCHANGED verdict
         \/ Conclude(t, "failed", out)
         \/ Conclude(t, "failed", NothingKnown(p))
  BY <1>1 DEF HearShow, Awaiting
<1>3. /\ stage(pc[t], verdict[t], req[p]) /\ Contents(p) = Buffer(p) \cup Creates(p)
      /\ RequestTrue(req[p], records[p], Home(p), Buffer(p), Creates(p), Happened(p))
      /\ verdict[t] \in Verdicts /\ verdict[t].outcome \in [Contents(p) -> Known]
  BY <1>1, <1>2, CarrierFacts
<1>4. req[p] # None /\ req[p].op = "show" /\ Happened(p) = {}
  BY <1>2, <1>3 DEF Stage, BeforeEdits, AfterEdits, Awaiting
<1>5. LiveIn(req[p], Buffer(p), Creates(p)) = {} /\ Untouched(p) = Contents(p)
  BY <1>4 DEF Untouched, LiveIn
<1>6. CASE Goto(t, "start") /\ UNCHANGED verdict
  <2>1. verdict[t] = [state |-> verdict[t].state, outcome |-> verdict[t].outcome]
        /\ verdict[t].state \in Finals \cup {"applying"}
    BY <1>3 DEF Verdicts
  <2>2. verdict' = [verdict EXCEPT ![t] = verdict[t]]
    BY <1>6 DEF IInv, Types, TypeOK
  <2>3. stage("start", verdict[t], None)
    BY <1>2, <1>3, <1>4 DEF Stage, BeforeEdits, AfterEdits, Awaiting
  <2>4. "start" \in PCs \ {"idle", "called"}
    BY DEF PCs
  <2>5. PICK state, said : /\ verdict[t] = [state |-> state, outcome |-> said]
                           /\ state \in Finals \cup {"applying"} /\ said \in [Contents(p) -> Known]
    BY <1>3, <2>1
  <2>6. /\ verdict' = [verdict EXCEPT ![t] = [state |-> state, outcome |-> said]]
        /\ stage("start", [state |-> state, outcome |-> said], None)
    BY <2>2, <2>3, <2>5
  <2> QED BY <1>1, <1>2, <1>5, <1>6, <2>4, <2>5, <2>6, Hears
<1>7. CASE Conclude(t, "failed", out)
  <2>1. /\ out \in [Contents(p) -> Known]
        /\ \A c \in Contents(p) : out[c] # Pending /\ ~Landed(out[c])
    BY <1>3, <1>4 DEF RequestTrue, Over, AllOf, Known, Outcomes, Pending, Landed
  <2>2. True("failed", out, Contents(p), Happened(p), Untouched(p))
    BY <1>5, <2>1 DEF True
  <2>3. "failed" \in Finals
    BY DEF Finals
  <2> QED BY <1>1, <1>2, <1>5, <1>7, <2>1, <2>2, <2>3, HearsTheEnd
<1>8. CASE Conclude(t, "failed", NothingKnown(p))
  <2>1. "failed" \in Finals
    BY DEF Finals
  <2> QED BY <1>1, <1>2, <1>5, <1>8, <2>1, NothingKnownTrue, HearsTheEnd
<1> QED BY <1>2, <1>6, <1>7, <1>8

LEMMA HearApplyStep == ASSUME IInv, NEW t \in Threads, HearApply(t) PROVE IInv'
<1>1. PICK p : p = job[t].plan
  OBVIOUS
<1>2. PICK out : out = Over(verdict[t].outcome, req[p].ans)
  OBVIOUS
<1> DEFINE stage(at, say, q) == Stage(at, journal[t], say, records[p], q,
                                      Buffer(p), Creates(p), Happened(p), Untouched(p))
           none == Over(out, AllOf(Creates(p), "ready"))
<1>3. /\ pc[t] = "awaitApply" /\ pc[t] \in Awaiting /\ pc[t] \notin {"idle", "called"}
      /\ Answered(p) /\ req' = [req EXCEPT ![p] = None]
      /\ UNCHANGED <<backendVars, js, storeVars, job, journal, records, effect, pill>>
      /\ \/ /\ req[p].status = "result" /\ \A c \in Buffer(p) : req[p].ans[c] = "applied"
            /\ Goto(t, "startFiles") /\ verdict' = [verdict EXCEPT ![t].outcome = out]
         \/ /\ req[p].status = "result" /\ \E c \in Buffer(p) : req[p].ans[c] # "applied"
            /\ Conclude(t, "conflict", none)
         \/ req[p].status = "changed" /\ Conclude(t, "failed", NothingKnown(p))
         \/ Conclude(t, "needsReview", verdict[t].outcome)
  BY <1>1, <1>2 DEF HearApply, Awaiting
<1>4. /\ Contents(p) = Buffer(p) \cup Creates(p) /\ Buffer(p) \cap Creates(p) = {}
      /\ stage(pc[t], verdict[t], req[p]) /\ p \in PlanIds /\ proposal[p] # None
      /\ RequestTrue(req[p], records[p], Home(p), Buffer(p), Creates(p), Happened(p))
      /\ verdict[t] \in Verdicts /\ verdict[t].outcome \in [Contents(p) -> Known]
  BY <1>1, <1>3, CarrierFacts
<1>5. /\ req[p] # None /\ req[p].op = "apply" /\ verdict[t].state = "applying"
      /\ \A c \in Contents(p) : verdict[t].outcome[c] = Pending
  BY <1>3, <1>4 DEF Stage, BeforeEdits, AfterEdits, Awaiting
<1>6. /\ DOMAIN req[p].ans = Buffer(p)
      /\ req[p].status \in {"result", "changed", "error"}
      /\ req[p].ans \in [Buffer(p) -> Known \cup {"creating"}]
  BY <1>3, <1>4, <1>5, PlanTyped DEF Answered, IInv, AskedOf
<1>7. LiveIn(req[p], Buffer(p), Creates(p)) = {} /\ Untouched(p) = Contents(p) \ Happened(p)
  BY <1>5, <1>6 DEF Untouched, LiveIn
<1>8. CASE /\ req[p].status = "result" /\ \A c \in Buffer(p) : req[p].ans[c] = "applied"
           /\ Goto(t, "startFiles") /\ verdict' = [verdict EXCEPT ![t].outcome = out]
  <2>1. out = [c \in Contents(p) |-> IF c \in Buffer(p) THEN "applied" ELSE Pending]
    BY <1>2, <1>4, <1>5, <1>6, <1>8 DEF Over, Pending
  <2>2. Happened(p) = Buffer(p)
    BY <1>4, <1>5, <1>8 DEF RequestTrue
  <2>3. out \in [Contents(p) -> Known] /\ True("applying", out, Contents(p), Happened(p), Untouched(p))
    BY <1>4, <2>1, <2>2 DEF Known, Outcomes, True, Landed, Pending
  <2>4. verdict' = [verdict EXCEPT ![t] = [state |-> "applying", outcome |-> out]]
    <3>1. [verdict[t] EXCEPT !.outcome = out] = [state |-> "applying", outcome |-> out]
      BY <1>4, <1>5 DEF Verdicts
    <3> QED BY <1>8, <3>1
  <2>5. stage("startFiles", [state |-> "applying", outcome |-> out], None)
    BY <1>3, <1>4, <2>1, <2>2, <2>3 DEF Stage, BeforeEdits, AfterEdits, Awaiting
  <2>6. "startFiles" \in PCs \ {"idle", "called"} /\ "applying" \in Finals \cup {"applying"}
    BY DEF PCs
  <2> QED BY <1>1, <1>3, <1>7, <1>8, <2>3, <2>4, <2>5, <2>6, Hears
<1>9. CASE /\ req[p].status = "result" /\ \E c \in Buffer(p) : req[p].ans[c] # "applied"
           /\ Conclude(t, "conflict", none)
  <2>1. Happened(p) = {} /\ \A c \in Buffer(p) : req[p].ans[c] \in {"ready", "conflict", "refused"}
    BY <1>4, <1>5, <1>9 DEF RequestTrue
  <2>2. out = [c \in Contents(p) |-> IF c \in Buffer(p) THEN req[p].ans[c] ELSE Pending]
    BY <1>2, <1>4, <1>5, <1>6, <2>1 DEF Over, Pending
  <2>3. none = [c \in Contents(p) |-> IF c \in Creates(p) THEN "ready" ELSE req[p].ans[c]]
    BY <1>4, <2>2 DEF Over, AllOf, Pending
  <2>4. /\ none \in [Contents(p) -> Known]
        /\ \A c \in Contents(p) : none[c] # Pending /\ ~Landed(none[c])
    BY <1>4, <2>1, <2>3 DEF Known, Outcomes, Pending, Landed
  <2>5. True("conflict", none, Contents(p), Happened(p), Untouched(p))
    BY <1>7, <2>1, <2>4 DEF True
  <2>6. "conflict" \in Finals
    BY DEF Finals
  <2> QED BY <1>1, <1>3, <1>7, <1>9, <2>4, <2>5, <2>6, HearsTheEnd
<1>10. CASE req[p].status = "changed" /\ Conclude(t, "failed", NothingKnown(p))
  <2>1. Contents(p) \subseteq Untouched(p)
    BY <1>4, <1>5, <1>7, <1>10 DEF RequestTrue
  <2>2. "failed" \in Finals
    BY DEF Finals
  <2> QED BY <1>1, <1>3, <1>7, <1>10, <2>1, <2>2, NothingKnownTrue, HearsTheEnd
<1>11. CASE Conclude(t, "needsReview", verdict[t].outcome)
  <2>1. True("needsReview", verdict[t].outcome, Contents(p), Happened(p), Untouched(p))
    BY <1>5, NothingSaid
  <2>2. "needsReview" \in Finals
    BY DEF Finals
  <2> QED BY <1>1, <1>3, <1>4, <1>7, <1>11, <2>1, <2>2, HearsTheEnd
<1> QED BY <1>3, <1>8, <1>9, <1>10, <1>11

(* A verdict that is still open says as much when it is left for review. *)
LEMMA ReviewSaysNoMore ==
    ASSUME NEW C, NEW H, NEW U, NEW out, True("applying", out, C, H, U)
    PROVE  True("needsReview", out, C, H, U)
BY DEF True

LEMMA HearCreateStep == ASSUME IInv, NEW t \in Threads, HearCreate(t) PROVE IInv'
<1>1. PICK p : p = job[t].plan
  OBVIOUS
<1>2. PICK out : out = Over(verdict[t].outcome, req[p].ans)
  OBVIOUS
<1>3. PICK bad : bad = FilesFailed(t)
  OBVIOUS
<1> DEFINE stage(at, say, q) == Stage(at, journal[t], say, records[p], q,
                                      Buffer(p), Creates(p), Happened(p), Untouched(p))
<1>4. /\ pc[t] = "awaitCreate" /\ pc[t] \in Awaiting /\ pc[t] \notin {"idle", "called"}
      /\ Answered(p) /\ req' = [req EXCEPT ![p] = None]
      /\ UNCHANGED <<backendVars, js, storeVars, job, journal, records, effect, pill>>
      /\ \/ req[p].status = "result" /\ Conclude(t, SettledState(out), out)
         \/ req[p].status = "changed" /\ Conclude(t, SettledState(bad), bad)
         \/ Conclude(t, "needsReview", verdict[t].outcome)
  BY <1>1, <1>2, <1>3 DEF HearCreate, Awaiting
<1>5. /\ Contents(p) = Buffer(p) \cup Creates(p) /\ Buffer(p) \cap Creates(p) = {}
      /\ stage(pc[t], verdict[t], req[p]) /\ p \in PlanIds /\ proposal[p] # None
      /\ RequestTrue(req[p], records[p], Home(p), Buffer(p), Creates(p), Happened(p))
      /\ verdict[t] \in Verdicts /\ verdict[t].outcome \in [Contents(p) -> Known]
      /\ Happened(p) \subseteq Contents(p)
  BY <1>1, <1>4, CarrierFacts
<1>6. /\ req[p] # None /\ req[p].op = "create" /\ verdict[t].state = "applying"
      /\ Buffer(p) \subseteq Happened(p)
      /\ \A c \in Buffer(p) : verdict[t].outcome[c] = "applied"
      /\ \A c \in Creates(p) : verdict[t].outcome[c] = Pending
      /\ True("applying", verdict[t].outcome, Contents(p), Happened(p), Untouched(p))
  BY <1>4, <1>5 DEF Stage, BeforeEdits, AfterEdits, Awaiting
<1>7. /\ DOMAIN req[p].ans = Creates(p)
      /\ req[p].status \in {"result", "changed", "error"}
      /\ req[p].ans \in [Creates(p) -> Known \cup {"creating"}]
  BY <1>4, <1>5, <1>6, PlanTyped DEF Answered, IInv, AskedOf
<1>8. /\ \A c \in Creates(p) : c \in Happened(p) <=> req[p].ans[c] = "created"
      /\ req[p].status = "changed" => \A c \in Creates(p) : req[p].ans[c] = Pending
      /\ req[p].status = "result" => \A c \in Creates(p) : req[p].ans[c] \in {"created", "exists", "failed"}
  BY <1>5, <1>6 DEF RequestTrue
<1>9. LiveIn(req[p], Buffer(p), Creates(p)) = {} /\ Untouched(p) = Contents(p) \ Happened(p)
  BY <1>6, <1>7 DEF Untouched, LiveIn
<1>10. CASE req[p].status = "result" /\ Conclude(t, SettledState(out), out)
  <2>1. out = [c \in Contents(p) |-> IF c \in Buffer(p) THEN "applied" ELSE req[p].ans[c]]
    BY <1>2, <1>5, <1>6, <1>7, <1>8, <1>10 DEF Over, Pending
  <2>2. /\ out \in [Contents(p) -> Known] /\ DOMAIN out = Contents(p)
        /\ \A c \in Contents(p) : (Landed(out[c]) /\ c \in Happened(p))
                                  \/ (~Landed(out[c]) /\ c \in Untouched(p))
    BY <1>5, <1>6, <1>8, <1>9, <1>10, <2>1 DEF Known, Outcomes, Landed
  <2>3. True(SettledState(out), out, Contents(p), Happened(p), Untouched(p))
    BY <2>2, SettledTrue
  <2> QED BY <1>1, <1>4, <1>9, <1>10, <2>2, <2>3, SettledOf, HearsTheEnd
<1>11. CASE req[p].status = "changed" /\ Conclude(t, SettledState(bad), bad)
  <2>1. bad = [c \in Contents(p) |-> IF c \in Buffer(p) THEN "applied" ELSE "failed"]
    BY <1>1, <1>3, <1>5, <1>6 DEF FilesFailed, AllOf, Over, Pending
  <2>2. /\ bad \in [Contents(p) -> Known] /\ DOMAIN bad = Contents(p)
        /\ \A c \in Contents(p) : (Landed(bad[c]) /\ c \in Happened(p))
                                  \/ (~Landed(bad[c]) /\ c \in Untouched(p))
    BY <1>5, <1>6, <1>8, <1>9, <1>11, <2>1 DEF Known, Outcomes, Landed, Pending
  <2>3. True(SettledState(bad), bad, Contents(p), Happened(p), Untouched(p))
    BY <2>2, SettledTrue
  <2> QED BY <1>1, <1>4, <1>9, <1>11, <2>2, <2>3, SettledOf, HearsTheEnd
<1>12. CASE Conclude(t, "needsReview", verdict[t].outcome)
  <2>1. "needsReview" \in Finals
    BY DEF Finals
  <2> QED BY <1>1, <1>4, <1>5, <1>6, <1>9, <1>12, <2>1, ReviewSaysNoMore, HearsTheEnd
<1> QED BY <1>4, <1>10, <1>11, <1>12

LEMMA GiveUpStep == ASSUME IInv, NEW t \in Threads, GiveUp(t) PROVE IInv'
<1>1. PICK p : p = job[t].plan
  OBVIOUS
<1>2. PICK q : q = IF req[p] # None /\ req[p].status \in {"sent", "working"} THEN req[p] ELSE None
  OBVIOUS
<1>3. /\ pc[t] \in Awaiting /\ pc[t] \notin {"idle", "called"}
      /\ IF pc[t] = "awaitShow" THEN Conclude(t, "failed", NothingKnown(p))
         ELSE Conclude(t, "needsReview", verdict[t].outcome)
      /\ UNCHANGED <<backendVars, js, storeVars, job, journal, records, effect, pill>>
  BY <1>1 DEF GiveUp, Awaiting
<1>4. /\ Contents(p) = Buffer(p) \cup Creates(p) /\ p \in PlanIds
      /\ Stage(pc[t], journal[t], verdict[t], records[p], req[p],
               Buffer(p), Creates(p), Happened(p), Untouched(p))
      /\ verdict[t].outcome \in [Contents(p) -> Known]
  BY <1>1, <1>3, CarrierFacts
<1>5. req' = [req EXCEPT ![p] = q]
  BY <1>1, <1>2, <1>4 DEF GiveUp, IInv, Types, TypeOK
<1>6. q = req[p] \/ (q = None /\ LiveIn(req[p], Buffer(p), Creates(p)) = {})
  BY <1>2 DEF LiveIn
<1>7. CASE pc[t] = "awaitShow"
  <2>1. Contents(p) \subseteq Untouched(p)
    BY <1>4, <1>7 DEF Stage, BeforeEdits, AfterEdits, Awaiting, Untouched, LiveIn
  <2>2. "failed" \in Finals
    BY DEF Finals
  <2> QED BY <1>1, <1>3, <1>5, <1>6, <1>7, <2>1, <2>2, NothingKnownTrue, HearsTheEnd
<1>8. CASE pc[t] # "awaitShow"
  <2>1. True("applying", verdict[t].outcome, Contents(p), Happened(p), Untouched(p))
    BY <1>3, <1>4 DEF Stage, BeforeEdits, AfterEdits, Awaiting
  <2>2. True("needsReview", verdict[t].outcome, Contents(p), Happened(p), Untouched(p))
    BY <2>1, ReviewSaysNoMore
  <2>3. "needsReview" \in Finals
    BY DEF Finals
  <2> QED BY <1>1, <1>3, <1>4, <1>5, <1>6, <1>8, <2>2, <2>3, HearsTheEnd
<1> QED BY <1>7, <1>8

(* Journal::finish: what is known is confirmed, in the record if it can be written. *)
LEMMA FinishStep == ASSUME IInv, NEW t \in Threads, Finish(t) PROVE IInv'
<1>1. PICK p : p = job[t].plan
  OBVIOUS
<1>2. PICK jr : jr = ConfirmedIn(journal[t], verdict[t].outcome)
  OBVIOUS
<1>3. PICK state : state = verdict[t].state
  OBVIOUS
<1> DEFINE stage(at, j, rec) == Stage(at, j, verdict[t], rec, req[p],
                                      Buffer(p), Creates(p), Happened(p), Untouched(p))
<1>4. /\ pc[t] = "finish" /\ pc[t] \notin {"idle", "called"} /\ Goto(t, "store")
      /\ journal' = [journal EXCEPT ![t] = jr]
      /\ Save(p, state, jr) \/ UNCHANGED records
      /\ UNCHANGED <<backendVars, js, storeVars, job, verdict, req, effect, pill>>
  BY <1>1, <1>2, <1>3 DEF Finish
<1>5. /\ Contents(p) = Buffer(p) \cup Creates(p)
      /\ stage(pc[t], journal[t], records[p]) /\ p \in PlanIds /\ proposal[p] # None
      /\ journal[t] \in JournalOf(Contents(p))
      /\ verdict[t] \in Verdicts /\ verdict[t].outcome \in [Contents(p) -> Known]
  BY <1>1, <1>4, CarrierFacts DEF Written
<1>6. /\ True(state, verdict[t].outcome, Contents(p), Happened(p), Untouched(p))
      /\ True("applying", journal[t].outcome, Contents(p), Happened(p), Untouched(p))
      /\ Covered(journal[t].phase, journal[t].outcome, Contents(p), Untouched(p))
      /\ state # "applying" /\ (records[p] # None => ~records[p].old)
  BY <1>3, <1>4, <1>5 DEF Stage
<1>7. /\ jr \in Written(p)
      /\ True(state, jr.outcome, Contents(p), Happened(p), Untouched(p))
      /\ Covered(jr.phase, jr.outcome, Contents(p), Untouched(p))
  BY <1>2, <1>5, <1>6, ConfirmedOf, ConfirmedTrue, ConfirmedCovers DEF Written
<1>8. True("applying", jr.outcome, Contents(p), Happened(p), Untouched(p))
  BY <1>7 DEF True
<1>9. state \in Finals \cup {"applying"} /\ "store" \in PCs \ {"idle", "called"}
  BY <1>3, <1>5 DEF Verdicts, PCs
<1>10. CASE Save(p, state, jr)
  <2>1. PICK row : row = Row(p, state, jr)
    OBVIOUS
  <2>2. DbOpenFor(p) /\ records' = [records EXCEPT ![p] = row]
    BY <1>10, <2>1 DEF Save
  <2>3. row # None /\ ~row.old
    <3>1. ThisOpen(p)
      BY <2>2 DEF DbOpenFor
    <3>2. state \in Finals \cup {"applying"} /\ jr \in Written(p) /\ p \in PlanIds /\ proposal[p] # None
      BY <1>5, <1>7, <1>9
    <3> QED BY <2>1, <3>1, <3>2, RowFacts
  <2>4. stage("store", jr, row)
    BY <1>3, <1>5, <1>6, <1>7, <1>8, <2>3 DEF Stage, BeforeEdits, AfterEdits, Awaiting
  <2> QED BY <1>1, <1>4, <1>7, <1>9, <2>1, <2>2, <2>4, CarrierSaves
<1>11. CASE UNCHANGED records
  <2>1. stage("store", jr, records[p])
    BY <1>3, <1>5, <1>6, <1>7, <1>8 DEF Stage, BeforeEdits, AfterEdits, Awaiting
  <2>2. journal'[t] = jr
    BY <1>4 DEF IInv, Types, TypeOK
  <2> QED BY <1>1, <1>4, <1>7, <1>9, <1>11, <2>1, <2>2, CarrierMoves
<1> QED BY <1>4, <1>10, <1>11

----------------------------------------------------------------------------
(* Steps that leave what is known of every plan as it was *)

(* A thread that lets its plan go tells the others nothing. *)
LEMMA LeavesTyped ==
    ASSUME Types, NEW t \in Threads, Leave(t), UNCHANGED proposal
    PROVE  /\ pc' \in [Threads -> PCs] /\ job' \in [Threads -> Jobs \cup {None}]
           /\ journal' \in [Threads -> Journals \cup {None}]
           /\ verdict' \in [Threads -> Verdicts \cup {None}]
           /\ \A u \in Threads : ThreadShape(u)'
           /\ \A u \in Threads : u # t => /\ pc'[u] = pc[u] /\ journal'[u] = journal[u]
                                          /\ verdict'[u] = verdict[u] /\ job'[u] = job[u]
           /\ pc'[t] = "idle" /\ job'[t] = None
<1>1. /\ pc \in [Threads -> PCs] /\ job \in [Threads -> Jobs \cup {None}]
      /\ journal \in [Threads -> Journals \cup {None}] /\ verdict \in [Threads -> Verdicts \cup {None}]
      /\ \A u \in Threads : ThreadShape(u)
  BY DEF Types, TypeOK
<1>2. "idle" \in PCs
  BY DEF PCs
<1>3. /\ pc' \in [Threads -> PCs] /\ job' \in [Threads -> Jobs \cup {None}]
      /\ journal' \in [Threads -> Journals \cup {None}]
      /\ verdict' \in [Threads -> Verdicts \cup {None}]
      /\ \A u \in Threads : u # t => /\ pc'[u] = pc[u] /\ journal'[u] = journal[u]
                                     /\ verdict'[u] = verdict[u] /\ job'[u] = job[u]
      /\ pc'[t] = "idle" /\ job'[t] = None
  BY <1>1, <1>2 DEF Leave
<1>4. \A u \in Threads : ThreadShape(u)'
  <2> SUFFICES ASSUME NEW u \in Threads PROVE ThreadShape(u)'
    OBVIOUS
  <2>1. CASE u = t
    BY <1>3, <2>1 DEF ThreadShape
  <2>2. CASE u # t
    BY <1>1, <1>3, <2>2 DEF ThreadShape, Contents
  <2> QED BY <2>1, <2>2
<1> QED BY <1>3, <1>4

(* The plan store and the thread t may change; every other plan and thread stays. *)
LEMMA StoreChanges ==
    ASSUME IInv, NEW t \in Threads, NEW p \in PlanIds, proposal[p] # None,
           UNCHANGED <<backendVars, js, proposal, req, records, effect, pill>>,
           pc' \in [Threads -> PCs], job' \in [Threads -> Jobs \cup {None}],
           journal' \in [Threads -> Journals \cup {None}],
           verdict' \in [Threads -> Verdicts \cup {None}],
           \A u \in Threads : ThreadShape(u)',
           \A u \in Threads : u # t => /\ pc'[u] = pc[u] /\ journal'[u] = journal[u]
                                       /\ verdict'[u] = verdict[u] /\ job'[u] = job[u],
           plans' \in [PlanIds -> Plans \cup {None}],
           \A q \in PlanIds \ {p} : plans'[q] = plans[q],
           plans'[p] # None => DOMAIN plans'[p].outcome = Contents(p),
           \A u \in Threads \ {t} : Carries(u, p) => plans'[p] = plans[p],
           Carries(t, p)' => /\ plans'[p] # None /\ plans'[p].state = "applying"
                             /\ plans'[p].age # "old"
                             /\ \A u \in Threads \ {t} : ~Carries(u, p),
           \A q \in PlanIds \ {p} : ~Carries(t, q)',
           StageIsTrue(t, p)',
           PlanTrue(plans'[p], records[p], req[p], Contents(p), Happened(p), Untouched(p))
    PROVE  IInv'
<1> DEFINE same(q) == /\ Contents(q)' = Contents(q) /\ Buffer(q)' = Buffer(q)
                      /\ Creates(q)' = Creates(q) /\ Home(q)' = Home(q)
                      /\ Happened(q)' = Happened(q) /\ Untouched(q)' = Untouched(q)
                      /\ ThisOpen(q)' = ThisOpen(q)
<1>1. \A q \in PlanIds : same(q)
  BY DEF Contents, Buffer, Creates, Home, Happened, Untouched, ThisOpen, backendVars
<1>2. \A q \in PlanIds : PlanShape(q)'
  <2> SUFFICES ASSUME NEW q \in PlanIds PROVE PlanShape(q)'
    OBVIOUS
  <2>1. PlanShape(q)
    BY DEF IInv, Types
  <2>2. \A op : AskedOf(q, op)' = AskedOf(q, op)
    BY DEF AskedOf, OpensOf, Contents, Buffer, Creates
  <2> QED BY <1>1, <2>1, <2>2 DEF PlanShape
<1>3. Types'
  BY <1>2 DEF IInv, Types, TypeOK, backendVars
<1>4. Minted'
  BY DEF IInv, Minted, Past, Twins, backendVars
<1>5. Closed'
  BY <1>1 DEF IInv, Closed
<1>6. \A u \in Threads, q \in PlanIds : u # t => (Carries(u, q)' <=> Carries(u, q))
  BY DEF Carries
<1>7. Claimed'
  <2>1. \A u, v \in Threads, q \in PlanIds : Carries(u, q)' /\ Carries(v, q)' => u = v
    BY <1>6 DEF IInv, Claimed
  <2>2. ASSUME NEW u \in Threads, NEW q \in PlanIds, Carries(u, q)'
        PROVE  plans'[q] # None /\ plans'[q].state = "applying" /\ plans'[q].age # "old"
    <3>1. CASE u = t
      BY <2>2, <3>1
    <3>2. CASE u # t
      BY <1>6, <2>2, <3>2 DEF IInv, Claimed
    <3> QED BY <3>1, <3>2
  <2> QED BY <2>1, <2>2 DEF Claimed
<1>8. EffectOnce' /\ FilesFollowEdits'
  BY <1>1 DEF IInv, EffectOnce, FilesFollowEdits
<1>9. \A u \in Threads, q \in PlanIds : StageIsTrue(u, q)'
  <2> SUFFICES ASSUME NEW u \in Threads, NEW q \in PlanIds PROVE StageIsTrue(u, q)'
    OBVIOUS
  <2>1. CASE u = t
    BY <2>1 DEF StageIsTrue
  <2>2. CASE u # t
    BY <1>1, <1>6, <2>2 DEF IInv, Truths, StageIsTrue
  <2> QED BY <2>1, <2>2
<1>10. \A q \in PlanIds : PlanIsTrue(q)'
  <2> SUFFICES ASSUME NEW q \in PlanIds, proposal[q] # None PROVE PlanIsTrue(q)'
    BY DEF PlanIsTrue
  <2>1. PlanIsTrue(q)
    BY DEF IInv, Truths
  <2>2. CASE q = p
    BY <1>1, <2>1, <2>2 DEF PlanIsTrue
  <2>3. CASE q # p
    BY <1>1, <2>1, <2>3 DEF PlanIsTrue
  <2> QED BY <2>2, <2>3
<1> QED BY <1>3, <1>4, <1>5, <1>7, <1>8, <1>9, <1>10 DEF IInv, Truths

(* PlanStore::finish: the store is told what the thread found. *)
LEMMA StoreStep == ASSUME IInv, NEW t \in Threads, Store(t) PROVE IInv'
<1>1. PICK p : p = job[t].plan
  OBVIOUS
<1> DEFINE told == [plans[p] EXCEPT !.state = verdict[t].state, !.outcome = verdict[t].outcome]
<1>2. /\ pc[t] = "store" /\ pc[t] \notin {"idle", "called"} /\ Leave(t)
      /\ UNCHANGED <<backendVars, js, proposal, req, records, effect, pill>>
  BY DEF Store
<1>3. /\ p \in PlanIds /\ proposal[p] # None /\ Carries(t, p)
      /\ verdict[t] \in Verdicts /\ verdict[t].outcome \in [Contents(p) -> Known]
      /\ Contents(p) \in SUBSET Changes /\ Contents(p) = Buffer(p) \cup Creates(p)
      /\ Stage(pc[t], journal[t], verdict[t], records[p], req[p],
               Buffer(p), Creates(p), Happened(p), Untouched(p))
  BY <1>1, <1>2, CarrierFacts
<1>4. /\ plans \in [PlanIds -> Plans \cup {None}] /\ plans[p] # None
      /\ plans[p].state = "applying" /\ plans[p] \in Plans
  BY <1>3 DEF IInv, Types, TypeOK, Claimed
<1>5. plans' = [plans EXCEPT ![p] = told]
  BY <1>1, <1>4 DEF Store
<1>6. /\ told \in Plans /\ told # None /\ told.state = verdict[t].state
      /\ told.outcome = verdict[t].outcome
  <2>1. verdict[t].outcome \in Vectors(Known)
    BY <1>3, VectorIn
  <2>2. told \in Plans
    BY <1>3, <1>4, <2>1 DEF Plans, Verdicts, Finals
  <2> QED BY <1>4, <2>2, NoneAssumption DEF Plans
<1>7. /\ plans' \in [PlanIds -> Plans \cup {None}] /\ plans'[p] = told
      /\ \A q \in PlanIds \ {p} : plans'[q] = plans[q]
  BY <1>3, <1>4, <1>5, <1>6
<1>8. PlanTrue(told, records[p], req[p], Contents(p), Happened(p), Untouched(p))
  <2>1. True(told.state, told.outcome, Contents(p), Happened(p), Untouched(p))
    BY <1>3, <1>6 DEF Stage
  <2>2. told.state \in Finals
    BY <1>2, <1>3, <1>6 DEF Stage, Verdicts
  <2> QED BY <2>1, <2>2 DEF PlanTrue, Finals, Waiting
<1>9. /\ pc' \in [Threads -> PCs] /\ job' \in [Threads -> Jobs \cup {None}]
      /\ journal' \in [Threads -> Journals \cup {None}]
      /\ verdict' \in [Threads -> Verdicts \cup {None}]
      /\ \A u \in Threads : ThreadShape(u)'
      /\ \A u \in Threads : u # t => /\ pc'[u] = pc[u] /\ journal'[u] = journal[u]
                                     /\ verdict'[u] = verdict[u] /\ job'[u] = job[u]
      /\ pc'[t] = "idle"
  BY <1>2, LeavesTyped DEF IInv
<1>10. \A u \in Threads \ {t} : ~Carries(u, p)
  BY <1>3 DEF IInv, Claimed
<1>11. \A q : ~Carries(t, q)'
  BY <1>9 DEF Carries
<1>12. StageIsTrue(t, p)'
  BY <1>11 DEF StageIsTrue
<1>13. plans'[p] # None => DOMAIN plans'[p].outcome = Contents(p)
  BY <1>3, <1>6, <1>7
<1>14. PlanTrue(plans'[p], records[p], req[p], Contents(p), Happened(p), Untouched(p))
  BY <1>7, <1>8
<1> QED BY <1>2, <1>3, <1>7, <1>9, <1>10, <1>11, <1>12, <1>13, <1>14, StoreChanges

(* The store's claim. *)
LEMMA ClaimStep == ASSUME IInv, NEW t \in Threads, Claim(t) PROVE IInv'
<1>1. PICK p : p = job[t].plan
  OBVIOUS
<1>2. /\ pc[t] = "called" /\ UNCHANGED <<backendVars, js, proposal, req, records, effect, pill>>
  BY DEF Claim
<1>3. /\ pc \in [Threads -> PCs] /\ job \in [Threads -> Jobs \cup {None}]
      /\ journal \in [Threads -> Journals \cup {None}] /\ verdict \in [Threads -> Verdicts \cup {None}]
      /\ plans \in [PlanIds -> Plans \cup {None}] /\ \A u \in Threads : ThreadShape(u)
  BY DEF IInv, Types, TypeOK
<1>4. /\ job[t] \in Jobs /\ p \in PlanIds /\ proposal[p] # None /\ PlanIsTrue(p)
      /\ Contents(p) \in SUBSET Changes /\ Contents(p) = Buffer(p) \cup Creates(p)
      /\ plans[p] # None => plans[p] \in Plans /\ DOMAIN plans[p].outcome = Contents(p)
  <2>1. job[t] \in Jobs /\ proposal[p] # None /\ p \in PlanIds
    BY <1>1, <1>2, <1>3 DEF ThreadShape, Jobs
  <2> QED BY <2>1, PlanTyped DEF IInv, Types, PlanShape, Truths
<1>5. \A q : ~Carries(t, q)
  BY <1>2 DEF Carries
<1>6. CASE Leave(t) /\ UNCHANGED plans
  <2>1. /\ pc' \in [Threads -> PCs] /\ job' \in [Threads -> Jobs \cup {None}]
        /\ journal' \in [Threads -> Journals \cup {None}]
        /\ verdict' \in [Threads -> Verdicts \cup {None}]
        /\ \A u \in Threads : ThreadShape(u)'
        /\ \A u \in Threads : u # t => /\ pc'[u] = pc[u] /\ journal'[u] = journal[u]
                                       /\ verdict'[u] = verdict[u] /\ job'[u] = job[u]
        /\ pc'[t] = "idle"
    BY <1>2, <1>6, LeavesTyped DEF IInv
  <2>2. \A q : ~Carries(t, q)'
    BY <2>1 DEF Carries
  <2>3. StageIsTrue(t, p)'
    BY <2>2 DEF StageIsTrue
  <2>4. /\ PlanTrue(plans'[p], records[p], req[p], Contents(p), Happened(p), Untouched(p))
        /\ plans'[p] # None => DOMAIN plans'[p].outcome = Contents(p)
        /\ plans' \in [PlanIds -> Plans \cup {None}]
    BY <1>3, <1>4, <1>6 DEF PlanIsTrue
  <2> QED BY <1>2, <1>4, <1>6, <2>1, <2>2, <2>3, <2>4, StoreChanges
<1>7. CASE /\ MayClaim(p, job[t].who)
           /\ plans' = [plans EXCEPT ![p].state = "applying"]
           /\ pc' = [pc EXCEPT ![t] = "claimed"]
           /\ journal' = [journal EXCEPT ![t] = [phase |-> AllOf(Contents(p), "intended"),
                                                 outcome |-> AllOf(Contents(p), Pending)]]
           /\ verdict' = [verdict EXCEPT ![t] = [state |-> "applying",
                                                 outcome |-> AllOf(Contents(p), Pending)]]
           /\ UNCHANGED job
  <2> DEFINE jr == [phase |-> AllOf(Contents(p), "intended"), outcome |-> AllOf(Contents(p), Pending)]
             say == [state |-> "applying", outcome |-> AllOf(Contents(p), Pending)]
             plan == [plans[p] EXCEPT !.state = "applying"]
  <2>1. plans[p] # None /\ plans[p].state \in Waiting /\ plans[p].age = "live"
    <3>1. StateNow(p) \in Waiting
      BY <1>7 DEF MayClaim, Waiting
    <3> QED BY <3>1 DEF StateNow, Waiting
  <2>2. /\ plans[p] \in Plans /\ plan \in Plans /\ plan # None /\ plan.state = "applying"
        /\ plan.age = "live" /\ plan.outcome = plans[p].outcome
    <3>1. plans[p] \in Plans /\ plan \in Plans
      BY <1>4, <2>1 DEF Plans
    <3> QED BY <2>1, <3>1, NoneAssumption DEF Plans
  <2>3. /\ plans' \in [PlanIds -> Plans \cup {None}] /\ plans'[p] = plan
        /\ \A q \in PlanIds \ {p} : plans'[q] = plans[q]
    BY <1>3, <1>4, <1>7, <2>2
  <2>4. jr \in Journals /\ say \in Verdicts
    <3>1. /\ AllOf(Contents(p), "intended") \in [Contents(p) -> Phases]
          /\ AllOf(Contents(p), Pending) \in [Contents(p) -> Known]
      BY DEF AllOf, Phases, Known
    <3>2. AllOf(Contents(p), "intended") \in Vectors(Phases) /\ AllOf(Contents(p), Pending) \in Vectors(Known)
      BY <1>4, <3>1, VectorIn
    <3> QED BY <3>2 DEF Journals, Verdicts
  <2>5. /\ pc' \in [Threads -> PCs] /\ job' \in [Threads -> Jobs \cup {None}]
        /\ journal' \in [Threads -> Journals \cup {None}]
        /\ verdict' \in [Threads -> Verdicts \cup {None}]
        /\ \A u \in Threads : u # t => /\ pc'[u] = pc[u] /\ journal'[u] = journal[u]
                                       /\ verdict'[u] = verdict[u] /\ job'[u] = job[u]
        /\ pc'[t] = "claimed" /\ journal'[t] = jr /\ verdict'[t] = say /\ job'[t] = job[t]
    BY <1>3, <1>7, <2>4 DEF PCs
  <2>6. \A u \in Threads : ThreadShape(u)'
    <3> SUFFICES ASSUME NEW u \in Threads PROVE ThreadShape(u)'
      OBVIOUS
    <3>1. CASE u = t
      <4>1. DOMAIN jr.phase = Contents(p) /\ DOMAIN jr.outcome = Contents(p)
            /\ DOMAIN say.outcome = Contents(p)
        BY DEF AllOf
      <4>2. job'[t] = job[t] /\ job[t] # None /\ job'[t].plan = p
        BY <1>1, <1>2, <1>3, <2>5 DEF ThreadShape
      <4>3. journal'[t] = jr /\ verdict'[t] = say /\ pc'[t] = "claimed"
        BY <2>5
      <4>4. Contents(p)' = Contents(p) /\ proposal'[p] # None
        BY <1>2, <1>4 DEF Contents
      <4> HIDE DEF jr, say
      <4> QED BY <2>4, <3>1, <4>1, <4>2, <4>3, <4>4 DEF ThreadShape
    <3>2. CASE u # t
      BY <1>2, <1>3, <2>5, <3>2 DEF ThreadShape, Contents
    <3> QED BY <3>1, <3>2
  <2>7. \A u \in Threads : ~Carries(u, p)
    BY <1>4, <2>1 DEF IInv, Claimed, Waiting
  <2>8. \A q \in PlanIds : Carries(t, q)' => q = p
    BY <1>1, <2>5 DEF Carries
  <2>9. records[p] = None /\ req[p] = None /\ Happened(p) = {} /\ Untouched(p) = Contents(p)
    <3>1. records[p] = None /\ req[p] = None /\ Happened(p) = {}
      BY <1>4, <2>1 DEF PlanIsTrue, PlanTrue
    <3> QED BY <3>1 DEF Untouched, LiveIn
  <2>10. Stage("claimed", jr, say, records[p], req[p], Buffer(p), Creates(p), Happened(p), Untouched(p))
    <3>1. \A c \in Contents(p) : say.outcome[c] = Pending /\ jr.outcome[c] = Pending
      BY DEF AllOf
    <3>2. /\ True("applying", say.outcome, Contents(p), Happened(p), Untouched(p))
          /\ True("applying", jr.outcome, Contents(p), Happened(p), Untouched(p))
      BY <3>1, NothingSaid
    <3>3. Covered(jr.phase, jr.outcome, Contents(p), Untouched(p))
      BY <2>9 DEF Covered, AllOf
    <3> HIDE DEF jr
    <3>4. say.state = "applying"
      OBVIOUS
    <3> HIDE DEF say
    <3> QED BY <1>4, <2>9, <3>1, <3>2, <3>3, <3>4 DEF Stage, BeforeEdits, AfterEdits, Awaiting
  <2>11. StageIsTrue(t, p)'
    <3>1. /\ Buffer(p)' = Buffer(p) /\ Creates(p)' = Creates(p)
          /\ Happened(p)' = Happened(p) /\ Untouched(p)' = Untouched(p)
      BY <1>2 DEF Contents, Buffer, Creates, Happened, Untouched
    <3> QED BY <1>2, <2>5, <2>10, <3>1 DEF StageIsTrue
  <2>12. PlanTrue(plans'[p], records[p], req[p], Contents(p), Happened(p), Untouched(p))
    <3>1. \A c \in Contents(p) : plan.outcome[c] = Pending
      BY <1>4, <2>1, <2>2 DEF PlanIsTrue, PlanTrue
    <3>2. True("applying", plan.outcome, Contents(p), Happened(p), Untouched(p))
      BY <3>1, NothingSaid
    <3> QED BY <2>2, <2>3, <3>1, <3>2 DEF PlanTrue, Waiting
  <2>13. plans'[p] # None => DOMAIN plans'[p].outcome = Contents(p)
    BY <1>4, <2>1, <2>2, <2>3
  <2>14. /\ plans'[p] # None /\ plans'[p].state = "applying" /\ plans'[p].age # "old"
    BY <2>2, <2>3
  <2> QED BY <1>2, <1>4, <2>3, <2>5, <2>6, <2>7, <2>8, <2>11, <2>12, <2>13, <2>14, StoreChanges
<1> QED BY <1>1, <1>6, <1>7 DEF Claim

LEMMA CallStep ==
    ASSUME IInv, NEW t \in Threads, NEW p \in PlanIds, NEW who \in Principals \cup {Person},
           Call(t, p, who)
    PROVE  IInv'
<1>1. /\ pc[t] = "idle" /\ proposal[p] # None
      /\ pc' = [pc EXCEPT ![t] = "called"]
      /\ job' = [job EXCEPT ![t] = [plan |-> p, who |-> who]]
      /\ UNCHANGED <<journal, verdict>>
      /\ UNCHANGED <<backendVars, js, storeVars, req, records, effect, pill>>
  BY DEF Call
<1>2. /\ pc \in [Threads -> PCs] /\ job \in [Threads -> Jobs \cup {None}]
      /\ journal \in [Threads -> Journals \cup {None}] /\ verdict \in [Threads -> Verdicts \cup {None}]
      /\ plans \in [PlanIds -> Plans \cup {None}] /\ \A u \in Threads : ThreadShape(u)
  BY DEF IInv, Types, TypeOK
<1>3. PlanIsTrue(p) /\ PlanShape(p)
  BY DEF IInv, Truths, Types
<1>4. [plan |-> p, who |-> who] \in Jobs /\ [plan |-> p, who |-> who] # None
  <2>1. [plan |-> p, who |-> who] \in Jobs
    BY DEF Jobs
  <2> QED BY <2>1, NoneAssumption
<1>5. /\ pc' \in [Threads -> PCs] /\ job' \in [Threads -> Jobs \cup {None}]
      /\ journal' \in [Threads -> Journals \cup {None}]
      /\ verdict' \in [Threads -> Verdicts \cup {None}]
      /\ \A u \in Threads : u # t => /\ pc'[u] = pc[u] /\ journal'[u] = journal[u]
                                     /\ verdict'[u] = verdict[u] /\ job'[u] = job[u]
      /\ pc'[t] = "called" /\ job'[t] # None /\ job'[t].plan = p
  BY <1>1, <1>2, <1>4 DEF PCs
<1>6. \A u \in Threads : ThreadShape(u)'
  <2> SUFFICES ASSUME NEW u \in Threads PROVE ThreadShape(u)'
    OBVIOUS
  <2>1. CASE u = t
    BY <1>1, <1>5, <2>1 DEF ThreadShape, storeVars
  <2>2. CASE u # t
    BY <1>1, <1>2, <1>5, <2>2 DEF ThreadShape, Contents, storeVars
  <2> QED BY <2>1, <2>2
<1>7. (\A q : ~Carries(t, q)') /\ StageIsTrue(t, p)'
  BY <1>5 DEF Carries, StageIsTrue
<1>8. PlanTrue(plans[p], records[p], req[p], Contents(p), Happened(p), Untouched(p))
      /\ (plans[p] # None => DOMAIN plans[p].outcome = Contents(p))
  BY <1>1, <1>3 DEF PlanIsTrue, PlanShape
<1>9. UNCHANGED <<backendVars, js, proposal, req, records, effect, pill>> /\ plans' = plans
  BY <1>1 DEF storeVars
<1> QED BY <1>1, <1>2, <1>5, <1>6, <1>7, <1>8, <1>9, StoreChanges

(* Only the store changes, and forgets, ages or turns down no plan that is being carried out. *)
LEMMA PlansChange ==
    ASSUME IInv, UNCHANGED <<backendVars, js, proposal, threadVars, req, records, effect, pill>>,
           plans' \in [PlanIds -> Plans \cup {None}],
           \A p \in PlanIds : plans'[p] # None =>
               plans[p] # None /\ DOMAIN plans'[p].outcome = DOMAIN plans[p].outcome,
           \A t \in Threads, p \in PlanIds : Carries(t, p) =>
               plans'[p] # None /\ plans'[p].state = "applying" /\ plans'[p].age # "old",
           \A p \in PlanIds : proposal[p] # None =>
               PlanTrue(plans'[p], records[p], req[p], Contents(p), Happened(p), Untouched(p))
    PROVE  IInv'
<1>1. \A p : /\ Contents(p)' = Contents(p) /\ Buffer(p)' = Buffer(p)
             /\ Creates(p)' = Creates(p) /\ Home(p)' = Home(p) /\ OpensOf(p)' = OpensOf(p)
             /\ Happened(p)' = Happened(p) /\ Untouched(p)' = Untouched(p)
             /\ ThisOpen(p)' = ThisOpen(p)
  BY DEF Contents, Buffer, Creates, Home, OpensOf, Happened, Untouched, ThisOpen, backendVars
<1>2. \A t, p : Carries(t, p)' = Carries(t, p)
  BY DEF Carries, threadVars
<1>3. \A p \in PlanIds : PlanShape(p)'
  BY <1>1 DEF IInv, Types, PlanShape, AskedOf
<1>4. \A t \in Threads : ThreadShape(t)'
  BY <1>1 DEF IInv, Types, ThreadShape, threadVars
<1>5. Types'
  BY <1>3, <1>4 DEF IInv, Types, TypeOK, backendVars, threadVars
<1>6. Minted'
  BY DEF IInv, Minted, Past, Twins, backendVars
<1>7. Closed'
  BY <1>1 DEF IInv, Closed
<1>8. Claimed'
  BY <1>2 DEF IInv, Claimed
<1>9. EffectOnce' /\ FilesFollowEdits'
  BY <1>1 DEF IInv, EffectOnce, FilesFollowEdits
<1>10. \A t \in Threads, p \in PlanIds : StageIsTrue(t, p)'
  BY <1>1, <1>2 DEF IInv, Truths, StageIsTrue, threadVars
<1>11. \A p \in PlanIds : PlanIsTrue(p)'
  BY <1>1 DEF IInv, Truths, PlanIsTrue
<1> QED BY <1>5, <1>6, <1>7, <1>8, <1>9, <1>10, <1>11 DEF IInv, Truths

LEMMA ForgottenKeeps ==
    ASSUME IInv
    PROVE  /\ Forgotten \in [PlanIds -> Plans \cup {None}]
           /\ \A p \in PlanIds : Forgotten[p] # None => Forgotten[p] = plans[p]
           /\ \A t \in Threads, p \in PlanIds : Carries(t, p) => Forgotten[p] = plans[p]
<1>1. plans \in [PlanIds -> Plans \cup {None}]
  BY DEF IInv, Types, TypeOK
<1>2. \A t \in Threads, p \in PlanIds : Carries(t, p) => Remembered(p)
  BY DEF IInv, Claimed, Remembered
<1> QED BY <1>1, <1>2 DEF Forgotten

LEMMA ProposeNothingStep ==
    ASSUME IInv, NEW a \in Principals, NEW S \in Proposals, ProposeNothing(a, S)
    PROVE  IInv'
<1>1. /\ plans' = Forgotten
      /\ UNCHANGED <<backendVars, js, proposal, threadVars, req, records, effect, pill>>
  BY DEF ProposeNothing
<1>2. \A t \in Threads, p \in PlanIds : Carries(t, p) =>
          plans'[p] # None /\ plans'[p].state = "applying" /\ plans'[p].age # "old"
  BY <1>1, ForgottenKeeps DEF IInv, Claimed
<1>3. \A p \in PlanIds : proposal[p] # None =>
          PlanTrue(plans'[p], records[p], req[p], Contents(p), Happened(p), Untouched(p))
  <2> SUFFICES ASSUME NEW p \in PlanIds, proposal[p] # None
               PROVE  PlanTrue(plans'[p], records[p], req[p], Contents(p), Happened(p), Untouched(p))
    OBVIOUS
  <2>1. PlanTrue(plans[p], records[p], req[p], Contents(p), Happened(p), Untouched(p))
    BY DEF IInv, Truths, PlanIsTrue
  <2> QED BY <1>1, <2>1, ForgottenKeeps DEF PlanTrue
<1> QED BY <1>1, <1>2, <1>3, ForgottenKeeps, PlansChange

LEMMA PlanAgesStep == ASSUME IInv, NEW p \in PlanIds, PlanAges(p) PROVE IInv'
<1>1. PICK age \in {"expired", "old"} :
          /\ plans' = [plans EXCEPT ![p].age = age] /\ plans[p] # None
          /\ age = "old" => ~Working(p)
  BY DEF PlanAges, Remembered
<1>2. UNCHANGED <<backendVars, js, proposal, threadVars, req, records, effect, pill>>
  BY DEF PlanAges
<1>3. plans \in [PlanIds -> Plans \cup {None}] /\ plans[p] \in Plans
  BY <1>1 DEF IInv, Types, TypeOK
<1> DEFINE plan == [plans[p] EXCEPT !.age = age]
<1>4. /\ plan \in Plans /\ plan # None /\ plan.state = plans[p].state /\ plan.age = age
      /\ plan.outcome = plans[p].outcome
  <2>1. plan \in Plans
    BY <1>1, <1>3 DEF Plans
  <2> QED BY <1>3, <2>1, NoneAssumption DEF Plans
<1>5. /\ plans' \in [PlanIds -> Plans \cup {None}] /\ plans'[p] = plan
      /\ \A q \in PlanIds \ {p} : plans'[q] = plans[q]
  BY <1>1, <1>3, <1>4
<1> HIDE DEF plan
<1>6. \A t \in Threads, q \in PlanIds : Carries(t, q) =>
          plans'[q] # None /\ plans'[q].state = "applying" /\ plans'[q].age # "old"
  <2> SUFFICES ASSUME NEW t \in Threads, NEW q \in PlanIds, Carries(t, q)
               PROVE  plans'[q] # None /\ plans'[q].state = "applying" /\ plans'[q].age # "old"
    OBVIOUS
  <2>1. plans[q] # None /\ plans[q].state = "applying" /\ plans[q].age # "old"
    BY DEF IInv, Claimed
  <2>2. Working(q)
    BY DEF Carries, Working, IInv, Types, ThreadShape
  <2>3. CASE q = p
    BY <1>1, <1>4, <1>5, <2>1, <2>2, <2>3
  <2> QED BY <1>5, <2>1, <2>3
<1>7. \A q \in PlanIds : proposal[q] # None =>
          PlanTrue(plans'[q], records[q], req[q], Contents(q), Happened(q), Untouched(q))
  <2> SUFFICES ASSUME NEW q \in PlanIds, proposal[q] # None
               PROVE  PlanTrue(plans'[q], records[q], req[q], Contents(q), Happened(q), Untouched(q))
    OBVIOUS
  <2>1. PlanTrue(plans[q], records[q], req[q], Contents(q), Happened(q), Untouched(q))
    BY DEF IInv, Truths, PlanIsTrue
  <2>2. CASE q = p
    BY <1>1, <1>4, <1>5, <2>1, <2>2 DEF PlanTrue
  <2> QED BY <1>5, <2>1, <2>2
<1>8. \A q \in PlanIds : plans'[q] # None =>
          plans[q] # None /\ DOMAIN plans'[q].outcome = DOMAIN plans[q].outcome
  BY <1>1, <1>4, <1>5
<1> QED BY <1>2, <1>5, <1>6, <1>7, <1>8, PlansChange

LEMMA RejectStep == ASSUME IInv, NEW p \in PlanIds, Reject(p) PROVE IInv'
<1>1. /\ plans' = [plans EXCEPT ![p].state = "rejected"]
      /\ plans[p] # None /\ plans[p].state \in Waiting /\ proposal[p] # None
      /\ UNCHANGED <<backendVars, js, proposal, threadVars, req, records, effect, pill>>
  BY DEF Reject, StateNow, Waiting
<1>2. plans \in [PlanIds -> Plans \cup {None}] /\ plans[p] \in Plans
  BY <1>1 DEF IInv, Types, TypeOK
<1> DEFINE plan == [plans[p] EXCEPT !.state = "rejected"]
<1>3. plan \in Plans /\ plan # None /\ plan.state = "rejected" /\ plan.outcome = plans[p].outcome
  <2>1. plan \in Plans
    BY <1>2 DEF Plans
  <2> QED BY <1>2, <2>1, NoneAssumption DEF Plans
<1>4. /\ plans' \in [PlanIds -> Plans \cup {None}] /\ plans'[p] = plan
      /\ \A q \in PlanIds \ {p} : plans'[q] = plans[q]
  BY <1>1, <1>2, <1>3
<1> HIDE DEF plan
<1>5. \A t \in Threads, q \in PlanIds : Carries(t, q) =>
          plans'[q] # None /\ plans'[q].state = "applying" /\ plans'[q].age # "old"
  BY <1>1, <1>4 DEF IInv, Claimed, Waiting
<1>6. \A q \in PlanIds : proposal[q] # None =>
          PlanTrue(plans'[q], records[q], req[q], Contents(q), Happened(q), Untouched(q))
  <2> SUFFICES ASSUME NEW q \in PlanIds, proposal[q] # None
               PROVE  PlanTrue(plans'[q], records[q], req[q], Contents(q), Happened(q), Untouched(q))
    OBVIOUS
  <2>1. PlanTrue(plans[q], records[q], req[q], Contents(q), Happened(q), Untouched(q))
    BY DEF IInv, Truths, PlanIsTrue
  <2>2. CASE q = p
    BY <1>1, <1>3, <1>4, <2>1, <2>2 DEF PlanTrue, True
  <2> QED BY <1>4, <2>1, <2>2
<1>7. \A q \in PlanIds : plans'[q] # None =>
          plans[q] # None /\ DOMAIN plans'[q].outcome = DOMAIN plans[q].outcome
  BY <1>1, <1>3, <1>4
<1> QED BY <1>1, <1>4, <1>5, <1>6, <1>7, PlansChange

(* A new plan: nothing was done, recorded or asked for it before. *)
LEMMA ProposeStep ==
    ASSUME IInv, NEW p \in PlanIds, NEW a \in Principals, NEW S \in Proposals, Propose(p, a, S)
    PROVE  IInv'
<1> DEFINE minted == [owner |-> a, open |-> open, changes |-> S]
           plan == [state |-> IF Policy = "agentApproval" THEN "prepared" ELSE "pendingReview",
                    age |-> "live", outcome |-> AllOf(S, Pending)]
<1>1. /\ open # None /\ proposal[p] = None
      /\ proposal' = [proposal EXCEPT ![p] = minted]
      /\ plans' = [Forgotten EXCEPT ![p] = plan]
      /\ UNCHANGED <<backendVars, js, threadVars, req, records, effect, pill>>
  BY DEF Propose, MayPrepare
<1>2. /\ proposal \in [PlanIds -> Proposed \cup {None}] /\ open \in Opens
      /\ S \in SUBSET Changes
  BY <1>1, ConstantsAssumption DEF IInv, Types, TypeOK
<1>3. minted \in Proposed /\ minted # None
  <2>1. minted \in Proposed
    BY <1>2 DEF Proposed
  <2> QED BY <2>1, NoneAssumption
<1>4. /\ plan \in Plans /\ plan # None /\ plan.state \in Waiting
      /\ DOMAIN plan.outcome = S /\ \A c \in S : plan.outcome[c] = Pending
  <2>1. plan.outcome \in [S -> Known] /\ plan.outcome \in Vectors(Known)
    <3>1. AllOf(S, Pending) \in [S -> Known]
      BY DEF AllOf, Known
    <3> QED BY <1>2, <3>1, VectorIn
  <2>2. plan \in Plans
    BY <2>1 DEF Plans, Waiting
  <2> QED BY <2>2, NoneAssumption DEF Waiting, AllOf
<1>5. /\ proposal' \in [PlanIds -> Proposed \cup {None}] /\ proposal'[p] = minted
      /\ \A q \in PlanIds : q # p => proposal'[q] = proposal[q]
  BY <1>1, <1>2, <1>3
<1>6. /\ plans' \in [PlanIds -> Plans \cup {None}] /\ plans'[p] = plan
      /\ \A q \in PlanIds : q # p => plans'[q] = Forgotten[q]
  BY <1>1, <1>4, ForgottenKeeps
<1>7. /\ plans[p] = None /\ records[p] = None /\ req[p] = None /\ pill[p] = "none"
      /\ \A c \in Changes : effect[p][c] = <<>>
  BY <1>1 DEF IInv, Types, PlanShape, Closed
<1>8. minted.changes = S /\ minted.open = open
  OBVIOUS
<1> HIDE DEF minted, plan
<1>9. \A q \in PlanIds : q # p =>
          /\ Contents(q)' = Contents(q) /\ Buffer(q)' = Buffer(q)
          /\ Creates(q)' = Creates(q) /\ Home(q)' = Home(q) /\ OpensOf(q)' = OpensOf(q)
          /\ Happened(q)' = Happened(q) /\ Untouched(q)' = Untouched(q)
          /\ ThisOpen(q)' = ThisOpen(q)
  <2> SUFFICES ASSUME NEW q \in PlanIds, q # p
               PROVE  /\ Contents(q)' = Contents(q) /\ Buffer(q)' = Buffer(q)
                      /\ Creates(q)' = Creates(q) /\ Home(q)' = Home(q) /\ OpensOf(q)' = OpensOf(q)
                      /\ Happened(q)' = Happened(q) /\ Untouched(q)' = Untouched(q)
                      /\ ThisOpen(q)' = ThisOpen(q)
    OBVIOUS
  <2>1. proposal'[q] = proposal[q]
    BY <1>5
  <2> QED BY <1>1, <2>1 DEF Contents, Buffer, Creates, Home, OpensOf, Happened, Untouched, ThisOpen,
                             backendVars
<1>10. Contents(p)' = S /\ Happened(p)' = {} /\ proposal'[p] # None
  <2>1. Contents(p)' = S
    BY <1>5, <1>8 DEF Contents
  <2> QED BY <1>1, <1>2, <1>3, <1>5, <1>7, <2>1 DEF Happened
<1>11. \A t \in Threads, q \in PlanIds : /\ Carries(t, q)' = Carries(t, q)
                                         /\ Carries(t, q) => q # p
  BY <1>1 DEF Carries, threadVars, IInv, Types, ThreadShape
<1>12. \A q \in PlanIds : PlanShape(q)'
  <2> SUFFICES ASSUME NEW q \in PlanIds PROVE PlanShape(q)'
    OBVIOUS
  <2>1. PlanShape(q)
    BY DEF IInv, Types
  <2>2. CASE q = p
    BY <1>1, <1>4, <1>6, <1>7, <1>10, <2>2 DEF PlanShape
  <2>3. CASE q # p
    <3>1. proposal'[q] = proposal[q] /\ (plans'[q] # None => plans'[q] = plans[q])
      BY <1>5, <1>6, <2>3, ForgottenKeeps
    <3>2. \A op : AskedOf(q, op)' = AskedOf(q, op)
      BY <1>9, <2>3 DEF AskedOf
    <3> QED BY <1>1, <1>9, <2>1, <2>3, <3>1, <3>2 DEF PlanShape
  <2> QED BY <2>2, <2>3
<1>13. \A t \in Threads : ThreadShape(t)'
  <2> SUFFICES ASSUME NEW t \in Threads PROVE ThreadShape(t)'
    OBVIOUS
  <2>1. ThreadShape(t) /\ (pc[t] # "idle" => job[t] \in Jobs)
    BY DEF IInv, Types, TypeOK, ThreadShape
  <2>2. pc[t] # "idle" => /\ job[t].plan \in PlanIds /\ job[t].plan # p
                          /\ Contents(job[t].plan)' = Contents(job[t].plan)
                          /\ proposal'[job[t].plan] = proposal[job[t].plan]
    BY <1>1, <1>5, <1>9, <2>1 DEF ThreadShape, Jobs, threadVars
  <2> QED BY <1>1, <2>1, <2>2 DEF ThreadShape, threadVars
<1>14. Types'
  BY <1>1, <1>5, <1>6, <1>12, <1>13 DEF IInv, Types, TypeOK, backendVars, threadVars
<1>15. Minted'
  <2>1. /\ open' = open /\ js' = js /\ run' = run /\ nextEpoch' = nextEpoch
        /\ Past(open) /\ (js # None => Past(js) /\ Twins(open, js))
    BY <1>1 DEF IInv, Minted, backendVars
  <2>2. \A o : Past(o)' = Past(o)
    BY <2>1 DEF Past
  <2>3. \A q \in PlanIds : proposal'[q] # None =>
          /\ Past(proposal'[q].open)
          /\ Twins(proposal'[q].open, open)
          /\ js # None => Twins(proposal'[q].open, js)
    <3> SUFFICES ASSUME NEW q \in PlanIds, proposal'[q] # None
                 PROVE  /\ Past(proposal'[q].open)
                        /\ Twins(proposal'[q].open, open)
                        /\ js # None => Twins(proposal'[q].open, js)
      OBVIOUS
    <3>1. CASE q = p
      BY <1>5, <1>8, <2>1, <3>1 DEF Twins
    <3>2. CASE q # p
      BY <1>1, <1>5, <3>2 DEF IInv, Minted
    <3> QED BY <3>1, <3>2
  <2> QED BY <1>1, <2>1, <2>2, <2>3 DEF IInv, Minted
<1>16. Closed'
  BY <1>1, <1>5, <1>7, <1>9 DEF IInv, Closed
<1>17. Claimed'
  <2>1. ASSUME NEW t \in Threads, NEW q \in PlanIds, Carries(t, q)
        PROVE  plans'[q] # None /\ plans'[q].state = "applying" /\ plans'[q].age # "old"
    <3>1. plans'[q] = plans[q]
      BY <1>6, <1>11, <2>1, ForgottenKeeps
    <3> QED BY <2>1, <3>1 DEF IInv, Claimed
  <2> QED BY <1>11, <2>1 DEF IInv, Claimed
<1>18. EffectOnce'
  <2> SUFFICES ASSUME NEW q \in PlanIds, NEW c \in Changes, effect[q][c] # <<>>
               PROVE  effect[q][c] = <<Home(q)'>>
    BY <1>1 DEF EffectOnce
  <2> QED BY <1>7, <1>9 DEF IInv, EffectOnce
<1>19. FilesFollowEdits'
  <2> SUFFICES ASSUME NEW q \in PlanIds, proposal'[q] # None,
                      NEW f \in Creates(q)', NEW c \in Contents(q)' \ Creates(q)', effect[q][f] # <<>>
               PROVE  effect[q][c] # <<>>
    BY <1>1 DEF FilesFollowEdits
  <2>1. CASE q = p
    BY <1>2, <1>7, <1>10, <2>1 DEF Creates
  <2>2. CASE q # p
    BY <1>5, <1>9, <2>2 DEF IInv, FilesFollowEdits
  <2> QED BY <2>1, <2>2
<1>20. \A t \in Threads, q \in PlanIds : StageIsTrue(t, q)'
  BY <1>1, <1>9, <1>11 DEF IInv, Truths, StageIsTrue, threadVars
<1>21. \A q \in PlanIds : PlanIsTrue(q)'
  <2> SUFFICES ASSUME NEW q \in PlanIds, proposal'[q] # None PROVE PlanIsTrue(q)'
    BY DEF PlanIsTrue
  <2>1. CASE q = p
    <3>1. /\ plans'[p] = plan /\ records'[p] = None /\ req'[p] = None
      BY <1>1, <1>6, <1>7
    <3>2. True(plan.state, plan.outcome, Contents(p)', Happened(p)', Untouched(p)')
      BY <1>4, <1>10 DEF True, Landed, Pending, Waiting
    <3>3. PlanTrue(plan, None, None, Contents(p)', Happened(p)', Untouched(p)')
      BY <1>4, <1>10, <3>2 DEF PlanTrue
    <3>4. /\ RecordTrue(None, Contents(p)', Happened(p)', Untouched(p)')
          /\ RequestTrue(None, None, Home(p)', Buffer(p)', Creates(p)', Happened(p)')
      BY DEF RecordTrue, RequestTrue
    <3> QED BY <2>1, <3>1, <3>3, <3>4 DEF PlanIsTrue
  <2>2. CASE q # p
    <3>1. PlanIsTrue(q) /\ proposal[q] # None
      BY <1>5, <2>2 DEF IInv, Truths
    <3>2. PlanTrue(plans'[q], records[q], req[q], Contents(q), Happened(q), Untouched(q))
      BY <1>6, <2>2, <3>1, ForgottenKeeps DEF PlanIsTrue, PlanTrue
    <3> QED BY <1>1, <1>9, <2>2, <3>1, <3>2 DEF PlanIsTrue
  <2> QED BY <2>1, <2>2
<1> QED BY <1>14, <1>15, <1>16, <1>17, <1>18, <1>19, <1>20, <1>21 DEF IInv, Truths

----------------------------------------------------------------------------
(* Opens *)

LEMMA OpensChange ==
    ASSUME IInv, UNCHANGED <<run, storeVars, threadVars, req, records, effect, pill>>,
           nextEpoch' \in Nat, open' \in Opens \cup {None}, js' \in Opens \cup {None},
           taken' \in BOOLEAN, Minted',
           \A p \in PlanIds : proposal[p] # None /\ ThisOpen(p)' => ThisOpen(p)
    PROVE  IInv'
<1>1. \A p : /\ Contents(p)' = Contents(p) /\ Buffer(p)' = Buffer(p)
             /\ Creates(p)' = Creates(p) /\ Home(p)' = Home(p) /\ OpensOf(p)' = OpensOf(p)
             /\ Happened(p)' = Happened(p) /\ Untouched(p)' = Untouched(p)
  BY DEF Contents, Buffer, Creates, Home, OpensOf, Happened, Untouched, storeVars
<1>2. \A t, p : Carries(t, p)' = Carries(t, p)
  BY DEF Carries, threadVars
<1>3. \A p \in PlanIds : PlanShape(p)'
  BY <1>1 DEF IInv, Types, PlanShape, AskedOf, storeVars
<1>4. \A t \in Threads : ThreadShape(t)'
  BY <1>1 DEF IInv, Types, ThreadShape, threadVars, storeVars
<1>5. Types'
  BY <1>3, <1>4 DEF IInv, Types, TypeOK, storeVars, threadVars
<1>6. Closed'
  <2>1. \A p \in PlanIds : records[p] # None => proposal[p] # None
    BY DEF IInv, Types, PlanShape
  <2> QED BY <2>1 DEF IInv, Closed, storeVars
<1>7. Claimed'
  BY <1>2 DEF IInv, Claimed, storeVars
<1>8. EffectOnce' /\ FilesFollowEdits'
  BY <1>1 DEF IInv, EffectOnce, FilesFollowEdits, storeVars
<1>9. \A t \in Threads, p \in PlanIds : StageIsTrue(t, p)'
  BY <1>1, <1>2 DEF IInv, Truths, StageIsTrue, threadVars
<1>10. \A p \in PlanIds : PlanIsTrue(p)'
  BY <1>1 DEF IInv, Truths, PlanIsTrue, storeVars
<1> QED BY <1>5, <1>6, <1>7, <1>8, <1>9, <1>10 DEF IInv, Truths

LEMMA OpenProjectStep ==
    ASSUME IInv, NEW h \in Projects, NEW ro \in BOOLEAN, OpenProject(h, ro)
    PROVE  IInv'
<1>1. PICK o : o = [run |-> run, epoch |-> nextEpoch, home |-> h, ro |-> ro]
  OBVIOUS
<1>2. /\ open' = o /\ nextEpoch' = nextEpoch + 1 /\ taken' = FALSE
      /\ js' = js /\ run' = run /\ proposal' = proposal
      /\ UNCHANGED <<run, storeVars, threadVars, req, records, effect, pill>>
  BY <1>1 DEF OpenProject, storeVars
<1>3. run \in Nat /\ nextEpoch \in Nat /\ js \in Opens \cup {None}
      /\ proposal \in [PlanIds -> Proposed \cup {None}]
  BY DEF IInv, Types, TypeOK
<1>4. o \in Opens /\ o.run = run /\ o.epoch = nextEpoch /\ o # None
  BY <1>1, <1>3, ConstantsAssumption DEF Opens
<1>5. ASSUME NEW x \in Opens, Past(x)
      PROVE  Past(x)' /\ ~(x.run = run /\ x.epoch = nextEpoch) /\ Twins(x, o) /\ Twins(o, x)
  <2>1. x.run \in Nat /\ x.epoch \in Nat
    BY DEF Opens
  <2> QED BY <1>2, <1>3, <1>4, <1>5, <2>1 DEF Past, Twins
<1>6. \A p \in PlanIds : proposal[p] # None =>
          proposal[p].open \in Opens /\ Past(proposal[p].open)
  BY <1>3 DEF IInv, Minted, Proposed
<1>7. js # None => js \in Opens /\ Past(js) /\ js.run = run
  BY <1>3 DEF IInv, Minted
<1>8. Minted'
  <2>1. Past(o)'
    BY <1>2, <1>3, <1>4 DEF Past
  <2>2. js # None => Past(js)' /\ js.run = run /\ Twins(o, js)
    BY <1>2, <1>5, <1>7
  <2>3. \A p \in PlanIds : proposal[p] # None =>
          /\ Past(proposal[p].open)' /\ Twins(proposal[p].open, o)
          /\ js # None => Twins(proposal[p].open, js)
    BY <1>2, <1>5, <1>6 DEF IInv, Minted
  <2> QED BY <1>2, <1>4, <2>1, <2>2, <2>3 DEF Minted, Past
<1>9. \A p \in PlanIds : proposal[p] # None /\ ThisOpen(p)' => ThisOpen(p)
  BY <1>2, <1>4, <1>5, <1>6 DEF ThisOpen
<1>10. nextEpoch' \in Nat
  BY <1>2, <1>3
<1>11. js' \in Opens \cup {None} /\ open' \in Opens \cup {None} /\ taken' \in BOOLEAN
  BY <1>2, <1>3, <1>4
<1> QED BY <1>2, <1>8, <1>9, <1>10, <1>11, OpensChange

LEMMA CloseProjectStep == ASSUME IInv, CloseProject PROVE IInv'
<1>1. /\ open' = None
      /\ UNCHANGED <<run, nextEpoch, js, taken, storeVars, threadVars, req, records, effect, pill>>
  BY DEF CloseProject
<1>2. Minted'
  BY <1>1 DEF IInv, Minted, Past, Twins, storeVars
<1>3. \A p \in PlanIds : ~ThisOpen(p)'
  BY <1>1 DEF ThisOpen
<1>4. nextEpoch' \in Nat /\ js' \in Opens \cup {None} /\ taken' \in BOOLEAN
  BY <1>1 DEF IInv, Types, TypeOK
<1> QED BY <1>1, <1>2, <1>3, <1>4, OpensChange

LEMMA EditorReadyStep == ASSUME IInv, EditorReady PROVE IInv'
<1>1. /\ open # None /\ js' = open
      /\ UNCHANGED <<backendVars, storeVars, threadVars, req, records, effect, pill>>
  BY DEF EditorReady
<1>2. Minted'
  BY <1>1 DEF IInv, Minted, Past, Twins, storeVars, backendVars
<1>3. \A p \in PlanIds : ThisOpen(p)' => ThisOpen(p)
  BY <1>1 DEF ThisOpen, backendVars, storeVars
<1>4. nextEpoch' \in Nat /\ open' \in Opens \cup {None} /\ js' \in Opens \cup {None}
      /\ taken' \in BOOLEAN /\ run' = run
  BY <1>1 DEF IInv, Types, TypeOK, backendVars
<1> QED BY <1>1, <1>2, <1>3, <1>4, OpensChange

LEMMA EditorLeavesStep == ASSUME IInv, EditorLeaves PROVE IInv'
<1>1. /\ js' = None
      /\ UNCHANGED <<backendVars, storeVars, threadVars, req, records, effect, pill>>
  BY DEF EditorLeaves
<1>2. Minted'
  BY <1>1 DEF IInv, Minted, Past, Twins, storeVars, backendVars
<1>3. \A p \in PlanIds : ThisOpen(p)' => ThisOpen(p)
  BY <1>1 DEF ThisOpen, backendVars, storeVars
<1>4. nextEpoch' \in Nat /\ open' \in Opens \cup {None} /\ js' \in Opens \cup {None}
      /\ taken' \in BOOLEAN /\ run' = run
  BY <1>1 DEF IInv, Types, TypeOK, backendVars
<1> QED BY <1>1, <1>2, <1>3, <1>4, OpensChange

----------------------------------------------------------------------------
(* Records and pills, outside the operation *)

LEMMA RecordsChange ==
    ASSUME IInv, UNCHANGED <<run, nextEpoch, open, js, storeVars, threadVars, req, effect>>,
           taken' \in BOOLEAN, records' \in [PlanIds -> Rows \cup {None}],
           pill' \in [PlanIds -> {"none", "answering", "shown", "lost"}], Closed',
           \A p \in PlanIds : records'[p] # None =>
               /\ records[p] # None
               /\ DOMAIN records'[p].phase = DOMAIN records[p].phase
               /\ DOMAIN records'[p].outcome = DOMAIN records[p].outcome,
           \A p \in PlanIds : proposal[p] # None =>
               RecordTrue(records'[p], Contents(p), Happened(p), Untouched(p)),
           \A p \in PlanIds : req[p] # None /\ records[p] # None /\ ~records[p].old =>
               records'[p] # None /\ ~records'[p].old,
           \A t \in Threads, p \in PlanIds :
               Carries(t, p) /\ records[p] # None /\ ~records[p].old =>
                   /\ records'[p] # None /\ ~records'[p].old
                   /\ \A S : S \subseteq Contents(p) /\ Recorded(journal[t], records[p], S)
                             => Recorded(journal[t], records'[p], S)
    PROVE  IInv'
<1>1. \A p : /\ Contents(p)' = Contents(p) /\ Buffer(p)' = Buffer(p)
             /\ Creates(p)' = Creates(p) /\ Home(p)' = Home(p) /\ OpensOf(p)' = OpensOf(p)
             /\ Happened(p)' = Happened(p) /\ Untouched(p)' = Untouched(p)
             /\ ThisOpen(p)' = ThisOpen(p)
  BY DEF Contents, Buffer, Creates, Home, OpensOf, Happened, Untouched, ThisOpen, storeVars
<1>2. \A t, p : Carries(t, p)' = Carries(t, p)
  BY DEF Carries, threadVars
<1>3. \A p \in PlanIds : PlanShape(p)'
  BY <1>1 DEF IInv, Types, PlanShape, AskedOf, storeVars
<1>4. \A t \in Threads : ThreadShape(t)'
  BY <1>1 DEF IInv, Types, ThreadShape, threadVars, storeVars
<1>5. Types'
  BY <1>3, <1>4 DEF IInv, Types, TypeOK, storeVars, threadVars
<1>6. Minted'
  BY DEF IInv, Minted, Past, Twins, storeVars
<1>7. Claimed'
  BY <1>2 DEF IInv, Claimed, storeVars
<1>8. EffectOnce' /\ FilesFollowEdits'
  BY <1>1 DEF IInv, EffectOnce, FilesFollowEdits, storeVars
<1>9. \A p \in PlanIds : PlanIsTrue(p)'
  <2> SUFFICES ASSUME NEW p \in PlanIds, proposal[p] # None PROVE PlanIsTrue(p)'
    BY DEF PlanIsTrue, storeVars
  <2>1. PlanIsTrue(p)
    BY DEF IInv, Truths
  <2>2. PlanTrue(plans[p], records'[p], req[p], Contents(p), Happened(p), Untouched(p))
    BY <2>1 DEF PlanIsTrue, PlanTrue
  <2>3. RequestTrue(req[p], records'[p], Home(p), Buffer(p), Creates(p), Happened(p))
    <3>1. req[p] # None => records'[p] # None /\ ~records'[p].old
      BY <2>1 DEF PlanIsTrue, RequestTrue
    <3> QED BY <2>1, <3>1 DEF PlanIsTrue, RequestTrue
  <2> QED BY <1>1, <2>2, <2>3 DEF PlanIsTrue, storeVars
<1>10. \A t \in Threads, p \in PlanIds : StageIsTrue(t, p)'
  <2> SUFFICES ASSUME NEW t \in Threads, NEW p \in PlanIds, Carries(t, p) PROVE StageIsTrue(t, p)'
    BY <1>2 DEF StageIsTrue
  <2> DEFINE stage(rec) == Stage(pc[t], journal[t], verdict[t], rec, req[p],
                                 Buffer(p), Creates(p), Happened(p), Untouched(p))
  <2>1. stage(records[p]) /\ Contents(p) = Buffer(p) \cup Creates(p)
    <3>1. pc[t] \notin {"idle", "called"} /\ p = job[t].plan
      BY DEF Carries
    <3> QED BY <3>1, CarrierFacts
  <2>2. CASE records[p] = None
    <3>1. records'[p] = None
      BY <2>2
    <3> QED BY <1>1, <2>1, <2>2, <3>1 DEF StageIsTrue, threadVars
  <2>3. CASE records[p] # None
    <3>1. ~records[p].old
      BY <2>1, <2>3 DEF Stage
    <3>2. /\ records'[p] # None /\ ~records'[p].old
          /\ Recorded(journal[t], records[p], Buffer(p)) => Recorded(journal[t], records'[p], Buffer(p))
          /\ Recorded(journal[t], records[p], Creates(p)) => Recorded(journal[t], records'[p], Creates(p))
      BY <2>1, <2>3, <3>1
    <3>3. stage(records'[p])
      BY <2>1, <2>3, <3>2 DEF Stage, BeforeEdits, AfterEdits, Awaiting
    <3> QED BY <1>1, <3>3 DEF StageIsTrue, threadVars
  <2> QED BY <2>2, <2>3
<1> QED BY <1>5, <1>6, <1>7, <1>8, <1>9, <1>10 DEF IInv, Truths

LEMMA ShowPillStep == ASSUME IInv, NEW p \in PlanIds, ShowPill(p) PROVE IInv'
<1>1. /\ pill[p] = "answering" /\ pill' = [pill EXCEPT ![p] = "shown"]
      /\ UNCHANGED <<backendVars, js, storeVars, threadVars, req, records, effect>>
  BY DEF ShowPill
<1>2. /\ pill \in [PlanIds -> {"none", "answering", "shown", "lost"}]
      /\ records' \in [PlanIds -> Rows \cup {None}] /\ taken' \in BOOLEAN
  BY <1>1 DEF IInv, Types, TypeOK, backendVars
<1>3. \A q \in PlanIds : pill'[q] # "none" => pill[q] # "none"
  BY <1>1, <1>2
<1>4. \A q : ThisOpen(q)' = ThisOpen(q)
  BY <1>1 DEF ThisOpen, backendVars, storeVars
<1>5. Closed'
  BY <1>1, <1>3, <1>4 DEF IInv, Closed, storeVars
<1>6. pill' \in [PlanIds -> {"none", "answering", "shown", "lost"}]
  BY <1>1, <1>2
<1>7. \A q \in PlanIds : proposal[q] # None =>
          RecordTrue(records'[q], Contents(q), Happened(q), Untouched(q))
  BY <1>1 DEF IInv, Truths, PlanIsTrue
<1>8. UNCHANGED <<run, nextEpoch, open, js, storeVars, threadVars, req, effect>> /\ records' = records
  BY <1>1 DEF backendVars
<1> QED BY <1>2, <1>5, <1>6, <1>7, <1>8, RecordsChange

LEMMA RecordAgesStep == ASSUME IInv, NEW p \in PlanIds, RecordAges(p) PROVE IInv'
<1> DEFINE rec == [records[p] EXCEPT !.old = TRUE]
<1>1. /\ records[p] # None /\ ~Working(p) /\ req[p] = None
      /\ records' = [records EXCEPT ![p] = rec]
      /\ UNCHANGED <<backendVars, js, storeVars, threadVars, req, effect, pill>>
  BY DEF RecordAges
<1>2. records \in [PlanIds -> Rows \cup {None}] /\ records[p] \in Rows
  BY <1>1 DEF IInv, Types, TypeOK
<1>3. /\ rec \in Rows /\ rec # None /\ rec.state = records[p].state
      /\ rec.phase = records[p].phase /\ rec.outcome = records[p].outcome
      /\ rec.interrupted = records[p].interrupted /\ rec.reported = records[p].reported
  <2>1. rec \in Rows
    BY <1>2 DEF Rows
  <2> QED BY <1>2, <2>1, NoneAssumption DEF Rows
<1>4. /\ records' \in [PlanIds -> Rows \cup {None}] /\ records'[p] = rec
      /\ \A q \in PlanIds : q # p => records'[q] = records[q]
  BY <1>1, <1>2, <1>3
<1> HIDE DEF rec
<1>5. \A q : ThisOpen(q)' = ThisOpen(q)
  BY <1>1 DEF ThisOpen, backendVars, storeVars
<1>6. Closed'
  <2>1. \A q \in PlanIds : records'[q] # None =>
          /\ records[q] # None /\ records'[q].interrupted = records[q].interrupted
          /\ records'[q].state = records[q].state /\ records'[q].reported = records[q].reported
    BY <1>1, <1>3, <1>4
  <2> QED BY <1>1, <1>5, <2>1 DEF IInv, Closed, storeVars
<1>7. \A q \in PlanIds : proposal[q] # None =>
          RecordTrue(records'[q], Contents(q), Happened(q), Untouched(q))
  <2> SUFFICES ASSUME NEW q \in PlanIds, proposal[q] # None
               PROVE  RecordTrue(records'[q], Contents(q), Happened(q), Untouched(q))
    OBVIOUS
  <2>1. RecordTrue(records[q], Contents(q), Happened(q), Untouched(q))
    BY DEF IInv, Truths, PlanIsTrue
  <2>2. CASE q = p
    BY <1>1, <1>3, <1>4, <2>1, <2>2 DEF RecordTrue
  <2> QED BY <1>4, <2>1, <2>2
<1>8. \A q \in PlanIds : records'[q] # None =>
          /\ records[q] # None
          /\ DOMAIN records'[q].phase = DOMAIN records[q].phase
          /\ DOMAIN records'[q].outcome = DOMAIN records[q].outcome
  BY <1>1, <1>3, <1>4
<1>9. \A q \in PlanIds : req[q] # None => records'[q] = records[q]
  BY <1>1, <1>4
<1>10. \A t \in Threads, q \in PlanIds : Carries(t, q) => records'[q] = records[q]
  <2>1. \A t \in Threads, q \in PlanIds : Carries(t, q) => Working(q)
    BY DEF Carries, Working, IInv, Types, ThreadShape
  <2> QED BY <1>1, <1>4, <2>1
<1>11. UNCHANGED <<run, nextEpoch, open, js, storeVars, threadVars, req, effect>>
       /\ pill' \in [PlanIds -> {"none", "answering", "shown", "lost"}] /\ taken' \in BOOLEAN
  BY <1>1 DEF IInv, Types, TypeOK, backendVars
<1> QED BY <1>4, <1>6, <1>7, <1>8, <1>9, <1>10, <1>11, RecordsChange

(* What a restart settles of a record cut short is as true as the record. *)
LEMMA SettledRecord ==
    ASSUME NEW C, NEW H, NEW U, NEW rec, RecordTrue(rec, C, H, U), rec # None,
           rec.phase \in [C -> Phases], rec.outcome \in [C -> Known]
    PROVE  /\ SettledOutcome(rec) \in [C -> Known]
           /\ True(InterruptedState(rec), SettledOutcome(rec), C, H, U)
           /\ \A c \in C : rec.phase[c] # "intended" \/ rec.outcome[c] # Pending
                              => SettledOutcome(rec)[c] = rec.outcome[c]
           /\ InterruptedState(rec) \in Finals
           /\ (\E c \in C : Uncertain(rec, c)) => InterruptedState(rec) = "needsReview"
<1>1. SettledOutcome(rec) = [c \in C |-> IF rec.outcome[c] = Pending /\ rec.phase[c] = "intended"
                                         THEN "ready" ELSE rec.outcome[c]]
  BY DEF SettledOutcome
<1>2. SettledOutcome(rec) \in [C -> Known]
  BY <1>1 DEF Known, Outcomes
<1> HIDE DEF SettledOutcome
<1>3. \A c \in C : /\ Landed(SettledOutcome(rec)[c]) => c \in H
                   /\ SettledOutcome(rec)[c] # Pending /\ ~Landed(SettledOutcome(rec)[c]) => c \in U
  BY <1>1 DEF RecordTrue, True, Covered, Landed, Pending
<1>4. CASE \E c \in C : Uncertain(rec, c)
  <2>1. InterruptedState(rec) = "needsReview"
    BY <1>4 DEF InterruptedState
  <2> QED BY <1>1, <1>2, <1>3, <2>1 DEF True, Finals
<1>5. CASE \A c \in C : ~Uncertain(rec, c)
  <2>1. InterruptedState(rec) = SettledState(SettledOutcome(rec))
    BY <1>5 DEF InterruptedState
  <2>2. \A c \in C : SettledOutcome(rec)[c] # Pending
    BY <1>1, <1>5 DEF Uncertain, RecordTrue, Covered, Phases, Pending
  <2>3. True(SettledState(SettledOutcome(rec)), SettledOutcome(rec), C, H, U)
    BY <1>2, <1>3, <2>2, SettledTrue
  <2> QED BY <1>1, <1>2, <1>5, <2>1, <2>3, SettledOf
<1> QED BY <1>4, <1>5

LEMMA RecoveredFacts ==
    ASSUME IInv, open # None, NEW p \in PlanIds, records[p] # None, proposal[p] # None,
           NEW rec, rec = Recovered(p), ~Prunable(p)
    PROVE  /\ rec \in Rows /\ rec # None /\ rec.old = records[p].old
           /\ rec.phase = records[p].phase /\ rec.outcome \in [Contents(p) -> Known]
           /\ rec.reported = records[p].reported
           /\ RecordTrue(rec, Contents(p), Happened(p), Untouched(p))
           /\ rec.interrupted /\ ~records[p].interrupted => ~ThisOpen(p) /\ Home(p) = open.home
           /\ records[p].interrupted => rec = records[p]
           /\ rec.interrupted => rec.state # "applying"
           /\ \A jr, S : S \subseteq Contents(p) /\ Recorded(jr, records[p], S) => Recorded(jr, rec, S)
<1>1. PICK old : old = records[p]
  OBVIOUS
<1>2. /\ old \in Rows /\ old # None /\ old.phase \in [Contents(p) -> Phases]
      /\ old.outcome \in [Contents(p) -> Known] /\ Contents(p) \in SUBSET Changes
  BY <1>1, PlanTyped DEF IInv
<1>3. RecordTrue(old, Contents(p), Happened(p), Untouched(p))
  BY <1>1 DEF IInv, Truths, PlanIsTrue
<1>4. old.interrupted => old.state # "applying" /\ old.reported
  BY <1>1 DEF IInv, Closed
<1>5. CASE Stranded(p)
  <2> DEFINE st == InterruptedState(old)
             out == SettledOutcome(old)
  <2>1. rec = [old EXCEPT !.state = st, !.outcome = out, !.interrupted = TRUE, !.old = FALSE]
    BY <1>1, <1>5 DEF Recovered
  <2>2. /\ ~old.old /\ old.state = "applying" /\ ~ThisOpen(p) /\ Home(p) = open.home
    BY <1>1, <1>5 DEF Stranded
  <2>3. /\ out \in [Contents(p) -> Known] /\ st \in Finals
        /\ True(st, out, Contents(p), Happened(p), Untouched(p))
        /\ \A c \in Contents(p) : old.phase[c] # "intended" \/ old.outcome[c] # Pending
                                     => out[c] = old.outcome[c]
        /\ (\E c \in Contents(p) : Uncertain(old, c)) => st = "needsReview"
    BY <1>2, <1>3, SettledRecord
  <2> HIDE DEF st, out
  <2>4. out \in Vectors(Known)
    BY <1>2, <2>3, VectorIn
  <2>5. /\ rec \in Rows /\ rec.state = st /\ rec.outcome = out /\ rec.phase = old.phase
        /\ rec.interrupted /\ ~rec.old /\ rec.reported = old.reported
    BY <1>2, <2>1, <2>3, <2>4 DEF Rows
  <2>6. rec # None
    BY <2>5, NoneAssumption
  <2>7. Covered(rec.phase, rec.outcome, Contents(p), Untouched(p))
    <3>1. Covered(old.phase, old.outcome, Contents(p), Untouched(p))
      BY <1>2, <1>3 DEF RecordTrue
    <3>2. \A c \in Contents(p) : rec.phase[c] = old.phase[c]
      BY <2>5
    <3>3. \A c \in Contents(p) : rec.outcome[c] = Pending => old.outcome[c] = Pending
      BY <2>3, <2>5
    <3>4. \A c \in Contents(p) : old.phase[c] = "confirmed" => out[c] = old.outcome[c]
      BY <2>3
    <3> QED BY <2>5, <3>1, <3>2, <3>3, <3>4 DEF Covered
  <2>8. ASSUME NEW jr, NEW S, S \subseteq Contents(p), Recorded(jr, old, S)
        PROVE  Recorded(jr, rec, S)
    <3>1. ASSUME NEW c \in S
          PROVE  /\ jr.phase[c] = "started" /\ jr.outcome[c] = Pending
                 /\ rec.phase[c] = "started" /\ rec.outcome[c] = Pending
                 /\ rec.state \in {"applying", "needsReview"}
      <4>1. /\ jr.phase[c] = "started" /\ jr.outcome[c] = Pending
            /\ old.phase[c] = "started" /\ old.outcome[c] = Pending
        BY <2>8, <3>1 DEF Recorded
      <4>2. c \in Contents(p) /\ Uncertain(old, c)
        BY <2>8, <3>1, <4>1 DEF Uncertain
      <4> QED BY <2>3, <2>5, <4>1, <4>2
    <3> QED BY <3>1 DEF Recorded
  <2>9. RecordTrue(rec, Contents(p), Happened(p), Untouched(p))
    BY <2>3, <2>5, <2>7 DEF RecordTrue
  <2>10. ~old.interrupted /\ st # "applying" /\ rec.old = old.old
    BY <1>2, <1>4, <2>2, <2>3, <2>5 DEF Finals, Rows
  <2> QED BY <1>1, <2>2, <2>3, <2>5, <2>6, <2>8, <2>9, <2>10
<1>6. CASE ~Stranded(p)
  <2>1. rec = old
    BY <1>1, <1>6 DEF Recovered
  <2> QED BY <1>1, <1>2, <1>3, <1>4, <2>1
<1> QED BY <1>5, <1>6

LEMMA TakeInterruptedStep == ASSUME IInv, TakeInterrupted PROVE IInv'
<1>1. /\ open # None /\ taken' = TRUE
      /\ UNCHANGED <<run, nextEpoch, open, js, storeVars, threadVars, req, effect>>
      /\ \/ /\ records' = [q \in PlanIds |->
                   IF Unreported(q) THEN [Recovered(q) EXCEPT !.reported = TRUE] ELSE Recovered(q)]
            /\ pill' = [q \in PlanIds |->
                   IF Unreported(q) /\ ReportOf(Recovered(q)) # {} THEN "answering" ELSE pill[q]]
         \/ UNCHANGED <<records, pill>>
  BY DEF TakeInterrupted
<1>2. /\ records \in [PlanIds -> Rows \cup {None}]
      /\ pill \in [PlanIds -> {"none", "answering", "shown", "lost"}]
      /\ \A q \in PlanIds : PlanShape(q)
  BY DEF IInv, Types, TypeOK
<1>3. \A q : ThisOpen(q)' = ThisOpen(q) /\ Home(q)' = Home(q)
  BY <1>1 DEF ThisOpen, Home, storeVars
<1>4. CASE UNCHANGED <<records, pill>>
  <2>1. Closed'
    BY <1>1, <1>3, <1>4 DEF IInv, Closed, storeVars
  <2>2. \A q \in PlanIds : proposal[q] # None =>
            RecordTrue(records'[q], Contents(q), Happened(q), Untouched(q))
    BY <1>4 DEF IInv, Truths, PlanIsTrue
  <2>3. records' = records /\ pill' = pill /\ taken' \in BOOLEAN
    BY <1>1, <1>4
  <2> QED BY <1>1, <1>2, <2>1, <2>2, <2>3, RecordsChange
<1>5. CASE /\ records' = [q \in PlanIds |->
                 IF Unreported(q) THEN [Recovered(q) EXCEPT !.reported = TRUE] ELSE Recovered(q)]
           /\ pill' = [q \in PlanIds |->
                 IF Unreported(q) /\ ReportOf(Recovered(q)) # {} THEN "answering" ELSE pill[q]]
  <2>1. ASSUME NEW q \in PlanIds
        PROVE  \/ records'[q] = None /\ ~Unreported(q) /\ (records[q] = None \/ records[q].old)
               \/ /\ records[q] # None /\ records'[q] # None /\ records'[q] \in Rows
                  /\ records'[q].old = records[q].old /\ proposal[q] # None
                  /\ records'[q].phase = records[q].phase
                  /\ records'[q].outcome \in [Contents(q) -> Known]
                  /\ RecordTrue(records'[q], Contents(q), Happened(q), Untouched(q))
                  /\ records[q].interrupted => records'[q].interrupted /\ ~Unreported(q)
                  /\ records'[q].interrupted =>
                       ~ThisOpen(q) /\ records'[q].state # "applying" /\ records'[q].reported
                  /\ Unreported(q) => records'[q].interrupted
                  /\ \A jr, S : S \subseteq Contents(q) /\ Recorded(jr, records[q], S)
                                => Recorded(jr, records'[q], S)
    <3>1. CASE Prunable(q)
      <4>1. Recovered(q) = None
        BY <3>1 DEF Recovered
      <4>2. records'[q] = None /\ ~Unreported(q)
        BY <1>5, <4>1 DEF Unreported
      <4> QED BY <3>1, <4>2 DEF Prunable
    <3>2. CASE records[q] = None
      <4>1. Recovered(q) = None
        BY <3>2 DEF Recovered, Stranded
      <4> QED BY <1>5, <3>2, <4>1 DEF Unreported
    <3>3. CASE records[q] # None /\ ~Prunable(q)
      <4>1. PICK rec : rec = Recovered(q)
        OBVIOUS
      <4>2. proposal[q] # None
        BY <1>2, <3>3 DEF PlanShape
      <4>3. /\ rec \in Rows /\ rec # None /\ rec.old = records[q].old
            /\ rec.phase = records[q].phase /\ rec.outcome \in [Contents(q) -> Known]
            /\ rec.reported = records[q].reported
            /\ RecordTrue(rec, Contents(q), Happened(q), Untouched(q))
            /\ rec.interrupted /\ ~records[q].interrupted => ~ThisOpen(q) /\ Home(q) = open.home
            /\ records[q].interrupted => rec = records[q]
            /\ rec.interrupted => rec.state # "applying"
            /\ \A jr, S : S \subseteq Contents(q) /\ Recorded(jr, records[q], S) => Recorded(jr, rec, S)
        BY <1>1, <3>3, <4>1, <4>2, RecoveredFacts
      <4>4. records[q].interrupted => ~ThisOpen(q) /\ records[q].reported
        BY <3>3 DEF IInv, Closed
      <4>5. CASE Unreported(q)
        <5>1. records'[q] = [rec EXCEPT !.reported = TRUE]
          BY <1>5, <4>1, <4>5
        <5>2. rec.interrupted /\ ~rec.reported /\ ~ThisOpen(q)
          BY <4>1, <4>5 DEF Unreported
        <5>3. /\ records'[q] \in Rows /\ records'[q].state = rec.state
              /\ records'[q].phase = rec.phase /\ records'[q].outcome = rec.outcome
              /\ records'[q].old = rec.old /\ records'[q].interrupted = rec.interrupted
              /\ records'[q].reported
          BY <4>3, <5>1 DEF Rows
        <5>4. records'[q] # None
          BY <5>3, NoneAssumption
        <5>5. RecordTrue(records'[q], Contents(q), Happened(q), Untouched(q))
          BY <4>3, <5>3 DEF RecordTrue
        <5>6. \A jr, S : S \subseteq Contents(q) /\ Recorded(jr, records[q], S)
                            => Recorded(jr, records'[q], S)
          <6>1. \A jr, S : Recorded(jr, rec, S) => Recorded(jr, records'[q], S)
            BY <5>3 DEF Recorded
          <6> QED BY <4>3, <6>1
        <5>7. ~records[q].interrupted
          BY <4>3, <4>4, <5>2
        <5> QED BY <3>3, <4>2, <4>3, <5>2, <5>3, <5>4, <5>5, <5>6, <5>7
      <4>6. CASE ~Unreported(q)
        <5>1. records'[q] = rec
          BY <1>5, <4>1, <4>6
        <5>2. rec.interrupted => ~ThisOpen(q) /\ rec.reported
          <6>1. CASE records[q].interrupted
            BY <4>3, <4>4, <6>1
          <6>2. CASE ~records[q].interrupted
            BY <4>1, <4>3, <4>6, <6>2 DEF Unreported
          <6> QED BY <6>1, <6>2
        <5> QED BY <3>3, <4>2, <4>3, <4>6, <5>1, <5>2
      <4> QED BY <4>5, <4>6
    <3> QED BY <3>1, <3>2, <3>3
  <2>2. /\ records' \in [PlanIds -> Rows \cup {None}]
        /\ pill' \in [PlanIds -> {"none", "answering", "shown", "lost"}]
    <3>1. \A q \in PlanIds : records'[q] \in Rows \cup {None}
      BY <2>1
    <3>2. DOMAIN records' = PlanIds /\ records' = [q \in DOMAIN records' |-> records'[q]]
      BY <1>5
    <3> QED BY <1>2, <1>5, <3>1, <3>2
  <2>3. Closed'
    <3> SUFFICES ASSUME NEW q \in PlanIds
                 PROVE  /\ records'[q] # None /\ records'[q].interrupted =>
                             ~ThisOpen(q) /\ records'[q].state # "applying" /\ records'[q].reported
                        /\ pill'[q] # "none" => /\ proposal[q] # None /\ ~ThisOpen(q)
                                                /\ records'[q] # None => records'[q].interrupted
      BY <1>1, <1>3 DEF Closed, storeVars
    <3>1. pill'[q] = pill[q] \/ Unreported(q)
      BY <1>5
    <3>2. pill[q] # "none" => /\ proposal[q] # None /\ ~ThisOpen(q)
                              /\ records[q] # None => records[q].interrupted
      BY DEF IInv, Closed
    <3> QED BY <2>1, <3>1, <3>2
  <2>4. \A q \in PlanIds : records'[q] # None =>
            /\ records[q] # None
            /\ DOMAIN records'[q].phase = DOMAIN records[q].phase
            /\ DOMAIN records'[q].outcome = DOMAIN records[q].outcome
    BY <1>2, <2>1 DEF PlanShape
  <2>5. \A q \in PlanIds : proposal[q] # None =>
            RecordTrue(records'[q], Contents(q), Happened(q), Untouched(q))
    BY <2>1 DEF RecordTrue
  <2>6. \A q \in PlanIds : records[q] # None /\ ~records[q].old =>
            /\ records'[q] # None /\ ~records'[q].old
            /\ \A jr, S : S \subseteq Contents(q) /\ Recorded(jr, records[q], S)
                              => Recorded(jr, records'[q], S)
    BY <2>1
  <2>7. taken' \in BOOLEAN
    BY <1>1
  <2> QED BY <1>1, <2>2, <2>3, <2>4, <2>5, <2>6, <2>7, RecordsChange
<1> QED BY <1>1, <1>4, <1>5

(* The process dies: no thread carries a plan any more, no call is under way, *)
(* and what the records say stays true.                                       *)
LEMMA CrashStep == ASSUME IInv, Crash PROVE IInv'
<1>1. /\ run' = run + 1 /\ nextEpoch' = 1 /\ open' = None /\ js' = None /\ taken' = FALSE
      /\ plans' = [p \in PlanIds |-> None] /\ pc' = [t \in Threads |-> "idle"]
      /\ job' = [t \in Threads |-> None] /\ journal' = [t \in Threads |-> None]
      /\ verdict' = [t \in Threads |-> None] /\ req' = [p \in PlanIds |-> None]
      /\ pill' = [p \in PlanIds |-> IF pill[p] = "answering" THEN "lost" ELSE pill[p]]
      /\ proposal' = proposal /\ records' = records /\ effect' = effect
  BY DEF Crash
<1>2. /\ run \in Nat /\ proposal \in [PlanIds -> Proposed \cup {None}]
      /\ pill \in [PlanIds -> {"none", "answering", "shown", "lost"}]
  BY DEF IInv, Types, TypeOK
<1>3. \A p \in PlanIds :
        /\ Contents(p)' = Contents(p) /\ Creates(p)' = Creates(p) /\ Buffer(p)' = Buffer(p)
        /\ Home(p)' = Home(p) /\ Happened(p)' = Happened(p) /\ Untouched(p) \subseteq Untouched(p)'
        /\ ~ThisOpen(p)' /\ plans'[p] = None /\ req'[p] = None
  BY <1>1 DEF Contents, Creates, Buffer, Home, Happened, Untouched, LiveIn, ThisOpen
<1>4. \A t \in Threads : \A p : ~Carries(t, p)'
  BY <1>1 DEF Carries
<1>5. \A p \in PlanIds : PlanShape(p)'
  BY <1>1, <1>3 DEF IInv, Types, PlanShape
<1>6. \A t \in Threads : ThreadShape(t)'
  BY <1>1 DEF ThreadShape
<1>7. TypeOK'
  <2>1. pc' \in [Threads -> PCs]
    BY <1>1 DEF PCs
  <2>2. run' \in Nat /\ nextEpoch' \in Nat
    BY <1>1, <1>2
  <2>3. pill' \in [PlanIds -> {"none", "answering", "shown", "lost"}]
    BY <1>1, <1>2
  <2> QED BY <1>1, <2>1, <2>2, <2>3 DEF IInv, Types, TypeOK
<1>8. Minted'
  <2>1. \A p \in PlanIds : proposal[p] # None => proposal[p].open \in Opens /\ Past(proposal[p].open)
    BY <1>2 DEF IInv, Minted, Proposed
  <2>2. \A p \in PlanIds : proposal[p] # None =>
            /\ proposal[p].open.run <= run + 1
            /\ (proposal[p].open.run = run + 1 => proposal[p].open.epoch < 1)
    BY <1>2, <2>1 DEF Past, Opens
  <2> QED BY <1>1, <2>2 DEF Minted, Past
<1>9. Closed'
  <2>1. \A p \in PlanIds : pill'[p] # "none" => pill[p] # "none"
    BY <1>1
  <2> QED BY <1>1, <1>3, <2>1 DEF IInv, Closed
<1>10. Claimed'
  BY <1>4 DEF Claimed
<1>11. EffectOnce' /\ FilesFollowEdits'
  BY <1>1, <1>3 DEF IInv, EffectOnce, FilesFollowEdits
<1>12. \A t \in Threads, p \in PlanIds : StageIsTrue(t, p)'
  BY <1>4 DEF StageIsTrue
<1>13. \A p \in PlanIds : PlanIsTrue(p)'
  <2> SUFFICES ASSUME NEW p \in PlanIds, proposal[p] # None PROVE PlanIsTrue(p)'
    BY <1>1 DEF PlanIsTrue
  <2>1. RecordTrue(records[p], Contents(p), Happened(p), Untouched(p))
    BY DEF IInv, Truths, PlanIsTrue
  <2>2. RecordTrue(records[p], Contents(p), Happened(p), Untouched(p)')
    BY <1>3, <2>1, TrueGrows, CoveredGrows DEF RecordTrue
  <2> QED BY <1>1, <1>3, <2>2 DEF PlanIsTrue, PlanTrue, RequestTrue
<1> QED BY <1>5, <1>6, <1>7, <1>8, <1>9, <1>10, <1>11, <1>12, <1>13 DEF IInv, Truths, Types

----------------------------------------------------------------------------
(* The editor *)

(* The call of plan p moves on, or is dropped when nobody waits; more took effect, *)
(* none of it that could not.                                                      *)
LEMMA EditorActs ==
    ASSUME IInv, NEW p \in PlanIds, proposal[p] # None, req[p] # None,
           UNCHANGED <<backendVars, js, storeVars, threadVars, records, pill>>,
           NEW q, req' = [req EXCEPT ![p] = q],
           \/ q = None /\ ~InWait(p)
           \/ q \in Requests /\ q.op = req[p].op /\ DOMAIN q.ans = AskedOf(p, q.op),
           effect' \in [PlanIds -> [Changes -> Seq(Projects)]],
           \A o \in PlanIds \ {p} : effect'[o] = effect[o],
           \A c \in Changes : effect'[p][c] # <<>> => effect'[p][c] = <<Home(p)>>,
           NEW H, H = Happened(p)', Happened(p) \subseteq H,
           H \cup LiveIn(q, Buffer(p), Creates(p))
               \subseteq Happened(p) \cup LiveIn(req[p], Buffer(p), Creates(p)),
           Creates(p) \cap H # {} => Buffer(p) \subseteq H,
           RequestTrue(q, records[p], Home(p), Buffer(p), Creates(p), H)
    PROVE  IInv'
<1>1. /\ req \in [PlanIds -> Requests \cup {None}] /\ effect \in [PlanIds -> [Changes -> Seq(Projects)]]
      /\ Contents(p) = Buffer(p) \cup Creates(p) /\ Contents(p) \in SUBSET Changes
  BY PlanTyped DEF IInv, Types, TypeOK
<1>2. /\ req'[p] = q /\ \A o \in PlanIds \ {p} : req'[o] = req[o]
      /\ req' \in [PlanIds -> Requests \cup {None}]
  BY <1>1
<1>3. \A o \in PlanIds : /\ Contents(o)' = Contents(o) /\ Buffer(o)' = Buffer(o)
                         /\ Creates(o)' = Creates(o) /\ Home(o)' = Home(o)
                         /\ OpensOf(o)' = OpensOf(o) /\ ThisOpen(o)' = ThisOpen(o)
  BY DEF Contents, Buffer, Creates, Home, OpensOf, ThisOpen, storeVars, backendVars
<1>4. \A o \in PlanIds \ {p} : Happened(o)' = Happened(o) /\ Untouched(o)' = Untouched(o)
  BY <1>2, <1>3 DEF Happened, Untouched
<1>5. Untouched(p) \subseteq Untouched(p)'
  <2>1. Untouched(p)' = Contents(p) \ (H \cup LiveIn(q, Buffer(p), Creates(p)))
    BY <1>2, <1>3 DEF Untouched
  <2> QED BY <2>1 DEF Untouched
<1>6. \A t, o : Carries(t, o)' = Carries(t, o)
  BY DEF Carries, threadVars
<1>7. \A o \in PlanIds : PlanShape(o)'
  <2> SUFFICES ASSUME NEW o \in PlanIds PROVE PlanShape(o)'
    OBVIOUS
  <2>1. PlanShape(o)
    BY DEF IInv, Types
  <2>2. \A op : AskedOf(o, op)' = AskedOf(o, op)
    BY <1>3 DEF AskedOf
  <2>3. req'[o] # None => proposal[o] # None /\ DOMAIN req'[o].ans = AskedOf(o, req'[o].op)
    BY <1>2, <2>1 DEF PlanShape
  <2>4. proposal[o] = None => \A c \in Changes : effect'[o][c] = <<>>
    BY <2>1 DEF PlanShape
  <2> QED BY <1>3, <2>1, <2>2, <2>3, <2>4 DEF PlanShape, storeVars
<1>8. \A t \in Threads : ThreadShape(t)'
  BY <1>3 DEF IInv, Types, ThreadShape, threadVars, storeVars, TypeOK, Contents
<1>9. Types'
  BY <1>2, <1>7, <1>8 DEF IInv, Types, TypeOK, storeVars, threadVars, backendVars
<1>10. Minted'
  BY DEF IInv, Minted, Past, Twins, storeVars, backendVars
<1>11. Closed'
  BY <1>3 DEF IInv, Closed, storeVars
<1>12. Claimed'
  BY <1>6 DEF IInv, Claimed, storeVars
<1>13. EffectOnce'
  <2> SUFFICES ASSUME NEW o \in PlanIds, NEW c \in Changes, effect'[o][c] # <<>>
               PROVE  effect'[o][c] = <<Home(o)>>
    BY <1>3 DEF EffectOnce
  <2> QED BY DEF IInv, EffectOnce
<1>14. FilesFollowEdits'
  <2> SUFFICES ASSUME NEW o \in PlanIds, proposal'[o] # None, NEW f \in Creates(o)',
                      NEW c \in Contents(o)' \ Creates(o)', effect'[o][f] # <<>>
               PROVE  effect'[o][c] # <<>>
    BY DEF FilesFollowEdits
  <2>1. CASE o = p
    BY <1>1, <1>3, <2>1 DEF Happened, Buffer
  <2>2. CASE o # p
    <3>1. /\ proposal[o] # None /\ f \in Creates(o) /\ c \in Contents(o) \ Creates(o)
          /\ effect'[o] = effect[o]
      BY <1>3, <2>2 DEF storeVars
    <3>2. effect[o][f] # <<>> => effect[o][c] # <<>>
      BY <3>1 DEF IInv, FilesFollowEdits
    <3> QED BY <3>1, <3>2
  <2> QED BY <2>1, <2>2
<1>15. \A t \in Threads, o \in PlanIds : StageIsTrue(t, o)'
  <2> SUFFICES ASSUME NEW t \in Threads, NEW o \in PlanIds, Carries(t, o) PROVE StageIsTrue(t, o)'
    BY <1>6 DEF StageIsTrue
  <2>1. StageIsTrue(t, o)
    BY DEF IInv, Truths
  <2>2. CASE o # p
    BY <1>2, <1>3, <1>4, <1>6, <2>1, <2>2 DEF StageIsTrue, threadVars
  <2>3. CASE o = p
    <3>1. Stage(pc[t], journal[t], verdict[t], records[p], req[p],
                Buffer(p), Creates(p), Happened(p), Untouched(p))
      BY <2>1, <2>3 DEF StageIsTrue
    <3>2. pc[t] \in Awaiting => InWait(p)
      BY <2>3 DEF InWait, Carries, IInv, Types, ThreadShape
    <3>3. pc[t] \in Awaiting \/ pc[t] \notin BeforeEdits \cup AfterEdits
      BY <3>1 DEF Stage
    <3>4. pc[t] \in Awaiting => q # None /\ q.op = req[p].op
      BY <3>2, NoneAssumption
    <3>5. pc[t] = "awaitShow" => H = {}
      BY <3>1, <3>4 DEF Stage, RequestTrue, Awaiting
    <3>6. /\ True(verdict[t].state, verdict[t].outcome, Contents(p), H, Untouched(p)')
          /\ True("applying", journal[t].outcome, Contents(p), H, Untouched(p)')
          /\ Covered(journal[t].phase, journal[t].outcome, Contents(p), Untouched(p)')
      <4>1. /\ True(verdict[t].state, verdict[t].outcome, Contents(p), Happened(p), Untouched(p))
            /\ True("applying", journal[t].outcome, Contents(p), Happened(p), Untouched(p))
            /\ Covered(journal[t].phase, journal[t].outcome, Contents(p), Untouched(p))
        BY <1>1, <3>1 DEF Stage
      <4> QED BY <1>5, <4>1, TrueGrows, CoveredGrows, SMTT(30)
    <3>7. Stage(pc[t], journal[t], verdict[t], records[p], q,
                Buffer(p), Creates(p), H, Untouched(p)')
      <4>1. CASE pc[t] \in Awaiting
        BY <1>1, <3>1, <3>4, <3>5, <3>6, <4>1 DEF Stage, BeforeEdits, AfterEdits, Awaiting
      <4>2. CASE pc[t] \notin BeforeEdits \cup AfterEdits
        <5>1. pc[t] \notin {"awaitShow", "awaitApply", "awaitCreate", "startFiles", "create",
                             "claimed", "apply"}
          BY <4>2 DEF BeforeEdits, AfterEdits
        <5> QED BY <1>1, <3>1, <3>6, <4>2, <5>1 DEF Stage
      <4> QED BY <3>3, <4>1, <4>2
    <3> QED BY <1>2, <1>3, <2>3, <3>7 DEF StageIsTrue, threadVars
  <2> QED BY <2>2, <2>3
<1>16. \A o \in PlanIds : PlanIsTrue(o)'
  <2> SUFFICES ASSUME NEW o \in PlanIds, proposal[o] # None PROVE PlanIsTrue(o)'
    BY DEF PlanIsTrue, storeVars
  <2>1. PlanIsTrue(o)
    BY DEF IInv, Truths
  <2>2. CASE o # p
    BY <1>2, <1>3, <1>4, <2>1, <2>2 DEF PlanIsTrue, storeVars
  <2>3. CASE o = p
    <3>1. RecordTrue(records[p], Contents(p), H, Untouched(p)')
      BY <1>5, <2>1, <2>3, TrueGrows, CoveredGrows DEF PlanIsTrue, RecordTrue
    <3>2. PlanTrue(plans[p], records[p], q, Contents(p), H, Untouched(p)')
      <4>1. PlanTrue(plans[p], records[p], req[p], Contents(p), Happened(p), Untouched(p))
        BY <2>1, <2>3 DEF PlanIsTrue
      <4>2. plans[p] # None => True(plans[p].state, plans[p].outcome, Contents(p), H, Untouched(p)')
        BY <1>5, <4>1, TrueGrows DEF PlanTrue
      <4> QED BY <4>1, <4>2 DEF PlanTrue
    <3> QED BY <1>2, <1>3, <2>3, <3>1, <3>2 DEF PlanIsTrue, storeVars
  <2> QED BY <2>2, <2>3
<1> QED BY <1>9, <1>10, <1>11, <1>12, <1>13, <1>14, <1>15, <1>16 DEF IInv, Truths

(* The editor answers or moves on, and nothing takes effect. *)
LEMMA EditorSays ==
    ASSUME IInv, NEW p \in PlanIds, proposal[p] # None, req[p] # None,
           UNCHANGED <<backendVars, js, storeVars, threadVars, records, effect, pill>>,
           NEW q, req' = [req EXCEPT ![p] = q],
           \/ q = None /\ ~InWait(p)
           \/ q \in Requests /\ q.op = req[p].op /\ DOMAIN q.ans = AskedOf(p, q.op),
           LiveIn(q, Buffer(p), Creates(p)) \subseteq LiveIn(req[p], Buffer(p), Creates(p)),
           RequestTrue(q, records[p], Home(p), Buffer(p), Creates(p), Happened(p))
    PROVE  IInv'
<1>1. Happened(p)' = Happened(p)
  BY DEF Happened, Contents, storeVars
<1>2. \A c \in Changes : effect[p][c] # <<>> => effect[p][c] = <<Home(p)>>
  BY DEF IInv, EffectOnce
<1>3. Creates(p) \cap Happened(p) # {} => Buffer(p) \subseteq Happened(p)
  BY DEF IInv, FilesFollowEdits, Happened, Buffer
<1>4. effect' \in [PlanIds -> [Changes -> Seq(Projects)]]
  BY DEF IInv, Types, TypeOK
<1> QED BY <1>1, <1>2, <1>3, <1>4, EditorActs

(* What the editor finds when it takes up a call. *)
LEMMA EditorFacts ==
    ASSUME IInv, NEW p \in PlanIds, proposal[p] # None, req[p] # None
    PROVE  /\ RequestTrue(req[p], records[p], Home(p), Buffer(p), Creates(p), Happened(p))
           /\ req[p] \in Requests
           /\ DOMAIN req[p].ans = AskedOf(p, req[p].op)
           /\ req[p].ans \in [AskedOf(p, req[p].op) -> Known \cup {"creating"}]
           /\ Contents(p) \in SUBSET Changes /\ Contents(p) = Buffer(p) \cup Creates(p)
           /\ Buffer(p) \cap Creates(p) = {} /\ OpensOf(p) \subseteq Buffer(p)
           /\ Happened(p) \subseteq Contents(p)
           /\ Current(p) => js \in Opens /\ js.home = Home(p)
<1>1. RequestTrue(req[p], records[p], Home(p), Buffer(p), Creates(p), Happened(p))
  BY DEF IInv, Truths, PlanIsTrue
<1>2. Current(p) => js \in Opens /\ js.home = Home(p)
  BY DEF IInv, Minted, Twins, Current, Home, Types, TypeOK
<1>3. Happened(p) \subseteq Contents(p)
  BY DEF Happened
<1>4. DOMAIN req[p].ans = AskedOf(p, req[p].op)
  BY DEF IInv, Types, PlanShape
<1> QED BY <1>1, <1>2, <1>3, <1>4, PlanTyped DEF IInv

(* The next state of a call that is answered. *)
AnswerTo(p, status, ans) == IF InWait(p) THEN [req[p] EXCEPT !.status = status, !.ans = ans] ELSE None

LEMMA AnswerFacts ==
    ASSUME IInv, NEW p \in PlanIds, proposal[p] # None, req[p] # None,
           NEW status \in {"ignored", "result", "changed", "error"},
           NEW ans \in [AskedOf(p, req[p].op) -> Known \cup {"creating"}],
           NEW q, q = AnswerTo(p, status, ans)
    PROVE  /\ \/ q = None /\ ~InWait(p)
              \/ q \in Requests /\ q.op = req[p].op /\ DOMAIN q.ans = AskedOf(p, q.op)
           /\ q # None => /\ q.op = req[p].op /\ q.status = status /\ q.ans = ans
                          /\ q.root = req[p].root
           /\ LiveIn(q, Buffer(p), Creates(p)) = {}
<1>1. req[p] \in Requests /\ Contents(p) \in SUBSET Changes /\ req \in [PlanIds -> Requests \cup {None}]
      /\ OpensOf(p) \subseteq Contents(p) /\ Buffer(p) \subseteq Contents(p) /\ Creates(p) \subseteq Contents(p)
  BY EditorFacts DEF IInv, Types, TypeOK
<1>2. AskedOf(p, req[p].op) \in SUBSET Changes
  BY <1>1 DEF AskedOf
<1>3. ans \in Vectors(Known \cup {"creating"})
  BY <1>2, VectorIn
<1>4. CASE InWait(p)
  <2>1. q = [req[p] EXCEPT !.status = status, !.ans = ans]
    BY <1>4 DEF AnswerTo
  <2>2. q \in Requests /\ q.op = req[p].op /\ q.status = status /\ q.ans = ans /\ q.root = req[p].root
    BY <1>1, <1>3, <2>1 DEF Requests
  <2>3. LiveIn(q, Buffer(p), Creates(p)) = {}
    BY <2>2 DEF LiveIn
  <2> QED BY <2>2, <2>3
<1>5. CASE ~InWait(p)
  BY <1>1, <1>5 DEF AnswerTo, LiveIn
<1> QED BY <1>4, <1>5

LEMMA Answering ==
    ASSUME IInv, NEW p \in PlanIds, NEW status, NEW ans, Answer(p, status, ans)
    PROVE  req' = [req EXCEPT ![p] = AnswerTo(p, status, ans)]
BY DEF Answer, AnswerTo, IInv, Types, TypeOK

LEMMA EditorRefusesStep ==
    ASSUME IInv, NEW p \in PlanIds, proposal[p] # None, EditorRefuses(p) PROVE IInv'
<1>1. /\ req[p] # None /\ req[p].status = "sent" /\ Answer(p, "changed", req[p].ans)
      /\ UNCHANGED <<backendVars, js, storeVars, threadVars, records, effect, pill>>
  BY DEF EditorRefuses
<1>2. /\ RequestTrue(req[p], records[p], Home(p), Buffer(p), Creates(p), Happened(p))
      /\ req[p].ans \in [AskedOf(p, req[p].op) -> Known \cup {"creating"}]
  BY <1>1, EditorFacts
<1>3. PICK q : q = AnswerTo(p, "changed", req[p].ans)
  OBVIOUS
<1>4. /\ \/ q = None /\ ~InWait(p)
         \/ q \in Requests /\ q.op = req[p].op /\ DOMAIN q.ans = AskedOf(p, q.op)
      /\ q # None => /\ q.op = req[p].op /\ q.status = "changed" /\ q.ans = req[p].ans
      /\ LiveIn(q, Buffer(p), Creates(p)) = {}
  BY <1>1, <1>2, <1>3, AnswerFacts
<1>5. req' = [req EXCEPT ![p] = q]
  BY <1>1, <1>3, Answering
<1>6. RequestTrue(q, records[p], Home(p), Buffer(p), Creates(p), Happened(p))
  BY <1>1, <1>2, <1>4 DEF RequestTrue, Pending
<1> QED BY <1>1, <1>4, <1>5, <1>6, EditorSays

LEMMA EditorIgnoresStep ==
    ASSUME IInv, NEW p \in PlanIds, proposal[p] # None, EditorIgnores(p) PROVE IInv'
<1>1. /\ req[p] # None /\ req[p].status = "sent"
      /\ req' = [req EXCEPT ![p] = IF InWait(p) THEN [@ EXCEPT !.status = "ignored"] ELSE None]
      /\ UNCHANGED <<backendVars, js, storeVars, threadVars, records, effect, pill>>
  BY DEF EditorIgnores
<1>2. /\ RequestTrue(req[p], records[p], Home(p), Buffer(p), Creates(p), Happened(p))
      /\ req[p].ans \in [AskedOf(p, req[p].op) -> Known \cup {"creating"}]
      /\ req[p] \in Requests /\ req \in [PlanIds -> Requests \cup {None}]
  BY <1>1, EditorFacts DEF IInv, Types, TypeOK
<1>3. PICK q : q = AnswerTo(p, "ignored", req[p].ans)
  OBVIOUS
<1>4. /\ \/ q = None /\ ~InWait(p)
         \/ q \in Requests /\ q.op = req[p].op /\ DOMAIN q.ans = AskedOf(p, q.op)
      /\ q # None => /\ q.op = req[p].op /\ q.status = "ignored" /\ q.ans = req[p].ans
      /\ LiveIn(q, Buffer(p), Creates(p)) = {}
  BY <1>1, <1>2, <1>3, AnswerFacts
<1>5. req' = [req EXCEPT ![p] = q]
  <2>1. [req[p] EXCEPT !.status = "ignored", !.ans = req[p].ans] = [req[p] EXCEPT !.status = "ignored"]
    BY <1>2 DEF Requests
  <2>2. q = IF InWait(p) THEN [req[p] EXCEPT !.status = "ignored"] ELSE None
    BY <1>3, <2>1 DEF AnswerTo
  <2> QED BY <1>1, <1>2, <2>2
<1>6. RequestTrue(q, records[p], Home(p), Buffer(p), Creates(p), Happened(p))
  BY <1>1, <1>2, <1>4 DEF RequestTrue, Pending
<1> QED BY <1>1, <1>4, <1>5, <1>6, EditorSays

LEMMA EditorShowsStep ==
    ASSUME IInv, NEW p \in PlanIds, proposal[p] # None, EditorShows(p) PROVE IInv'
<1>1. /\ req[p] # None /\ req[p].op = "show" /\ req[p].status = "sent"
      /\ UNCHANGED <<backendVars, js, storeVars, threadVars, records, effect, pill>>
  BY DEF EditorShows, Asked
<1>2. PICK ans \in [OpensOf(p) -> {"ready", "refused"}] : Answer(p, "result", ans)
  BY DEF EditorShows
<1>3. /\ RequestTrue(req[p], records[p], Home(p), Buffer(p), Creates(p), Happened(p))
      /\ ans \in [AskedOf(p, req[p].op) -> Known \cup {"creating"}]
  BY <1>1, <1>2, EditorFacts DEF AskedOf, Known, Outcomes
<1>4. PICK q : q = AnswerTo(p, "result", ans)
  OBVIOUS
<1>5. /\ \/ q = None /\ ~InWait(p)
         \/ q \in Requests /\ q.op = req[p].op /\ DOMAIN q.ans = AskedOf(p, q.op)
      /\ q # None => /\ q.op = req[p].op /\ q.status = "result" /\ q.ans = ans
      /\ LiveIn(q, Buffer(p), Creates(p)) = {}
  BY <1>1, <1>3, <1>4, AnswerFacts
<1>6. req' = [req EXCEPT ![p] = q]
  BY <1>2, <1>4, Answering
<1>7. RequestTrue(q, records[p], Home(p), Buffer(p), Creates(p), Happened(p))
  BY <1>1, <1>2, <1>3, <1>5 DEF RequestTrue
<1> QED BY <1>1, <1>5, <1>6, <1>7, EditorSays

(* Edits that land, land in the project of the plan, and once. *)
LEMMA LandsFacts ==
    ASSUME IInv, NEW p \in PlanIds, proposal[p] # None, Current(p), req[p] # None, Happened(p) = {},
           NEW S \in SUBSET Contents(p), Lands(p, S),
           UNCHANGED <<storeVars>>
    PROVE  /\ effect' \in [PlanIds -> [Changes -> Seq(Projects)]]
           /\ \A o \in PlanIds \ {p} : effect'[o] = effect[o]
           /\ \A c \in Changes : effect'[p][c] # <<>> => effect'[p][c] = <<Home(p)>>
           /\ Happened(p)' = S
<1>1. /\ effect \in [PlanIds -> [Changes -> Seq(Projects)]] /\ js.home \in Projects
      /\ js.home = Home(p) /\ Contents(p) \in SUBSET Changes
  BY EditorFacts DEF IInv, Types, TypeOK, Opens
<1>2. \A c \in Changes : effect[p][c] # <<>> => effect[p][c] = <<Home(p)>>
  BY DEF IInv, EffectOnce
<1>3. \A c \in Contents(p) : effect[p][c] = <<>>
  BY DEF Happened
<1>4. /\ effect'[p] = [c \in Changes |-> IF c \in S THEN Append(effect[p][c], Home(p)) ELSE effect[p][c]]
      /\ \A o \in PlanIds \ {p} : effect'[o] = effect[o]
      /\ DOMAIN effect' = PlanIds
  BY <1>1 DEF Lands
<1>5. \A c \in Changes : effect'[p][c] = IF c \in S THEN <<Home(p)>> ELSE effect[p][c]
  <2> SUFFICES ASSUME NEW c \in Changes
               PROVE  effect'[p][c] = IF c \in S THEN <<Home(p)>> ELSE effect[p][c]
    OBVIOUS
  <2>1. CASE c \in S
    <3>1. effect[p][c] = <<>>
      BY <1>3, <2>1
    <3>2. Append(<<>>, Home(p)) = <<Home(p)>>
      BY <1>1
    <3> QED BY <1>4, <2>1, <3>1, <3>2
  <2>2. CASE c \notin S
    BY <1>4, <2>2
  <2> QED BY <2>1, <2>2
<1>6. effect'[p] \in [Changes -> Seq(Projects)]
  <2>1. <<Home(p)>> \in Seq(Projects)
    BY <1>1
  <2>2. \A c \in Changes : effect'[p][c] \in Seq(Projects)
    BY <1>1, <1>5, <2>1
  <2> QED BY <1>4, <2>2
<1>7. effect' \in [PlanIds -> [Changes -> Seq(Projects)]]
  <2>1. effect' = [effect EXCEPT ![p] = effect'[p]]
    BY <1>1, <1>4 DEF Lands
  <2> QED BY <1>1, <1>6, <2>1
<1>8. Happened(p)' = S
  <2>1. Happened(p)' = {c \in Contents(p) : effect'[p][c] # <<>>}
    BY DEF Happened, Contents, storeVars
  <2>2. <<Home(p)>> # <<>>
    OBVIOUS
  <2> QED BY <1>1, <1>3, <1>5, <2>1, <2>2
<1> QED BY <1>2, <1>4, <1>5, <1>7, <1>8

LEMMA EditorAppliesStep ==
    ASSUME IInv, NEW p \in PlanIds, proposal[p] # None, EditorApplies(p) PROVE IInv'
<1>1. /\ req[p] # None /\ req[p].op = "apply" /\ req[p].status = "sent" /\ Current(p)
      /\ UNCHANGED <<backendVars, js, storeVars, threadVars, records, pill>>
      /\ \/ Lands(p, Buffer(p)) /\ Answer(p, "result", AllOf(Buffer(p), "applied"))
         \/ /\ UNCHANGED effect
            /\ \E ans \in [Buffer(p) -> {"ready", "conflict", "refused"}] :
                 /\ \E c \in Buffer(p) : ans[c] # "ready"
                 /\ Answer(p, "result", ans)
         \/ /\ \E S \in (SUBSET Buffer(p)) \ {Buffer(p)} : Lands(p, S)
            /\ Answer(p, "error", req[p].ans)
  BY DEF EditorApplies, Asked
<1>2. /\ RequestTrue(req[p], records[p], Home(p), Buffer(p), Creates(p), Happened(p))
      /\ req[p].ans \in [Buffer(p) -> Known \cup {"creating"}]
      /\ Contents(p) \in SUBSET Changes /\ Contents(p) = Buffer(p) \cup Creates(p)
      /\ Buffer(p) \cap Creates(p) = {} /\ AskedOf(p, req[p].op) = Buffer(p)
  BY <1>1, EditorFacts DEF AskedOf
<1>3. Happened(p) = {} /\ LiveIn(req[p], Buffer(p), Creates(p)) = Buffer(p)
      /\ records[p] # None /\ ~records[p].old
      /\ \A c \in Buffer(p) : req[p].ans[c] # "creating"
  BY <1>1, <1>2 DEF RequestTrue, LiveIn
<1>4. ASSUME NEW S \in SUBSET Buffer(p), Lands(p, S), NEW status \in {"result", "error"},
             NEW ans \in [Buffer(p) -> Known \cup {"creating"}], Answer(p, status, ans),
             \A c \in Buffer(p) : ans[c] # "creating",
             status = "result" => S = Buffer(p) /\ \A c \in Buffer(p) : ans[c] = "applied"
      PROVE  IInv'
  <2>1. PICK q : q = AnswerTo(p, status, ans)
    OBVIOUS
  <2>2. /\ \/ q = None /\ ~InWait(p)
           \/ q \in Requests /\ q.op = req[p].op /\ DOMAIN q.ans = AskedOf(p, q.op)
        /\ q # None => /\ q.op = req[p].op /\ q.status = status /\ q.ans = ans
        /\ LiveIn(q, Buffer(p), Creates(p)) = {}
    BY <1>1, <1>2, <1>4, <2>1, AnswerFacts
  <2>6. req' = [req EXCEPT ![p] = q]
    BY <1>4, <2>1, Answering
  <2>3. /\ effect' \in [PlanIds -> [Changes -> Seq(Projects)]]
        /\ \A o \in PlanIds \ {p} : effect'[o] = effect[o]
        /\ \A c \in Changes : effect'[p][c] # <<>> => effect'[p][c] = <<Home(p)>>
        /\ Happened(p)' = S
    <3>1. S \in SUBSET Contents(p) /\ UNCHANGED storeVars
      BY <1>1, <1>2
    <3> QED BY <1>1, <1>3, <1>4, <3>1, LandsFacts
  <2>4. RequestTrue(q, records[p], Home(p), Buffer(p), Creates(p), S)
    BY <1>1, <1>2, <1>3, <1>4, <2>2 DEF RequestTrue, AskedOf
  <2>5. /\ Happened(p) \subseteq S /\ (Creates(p) \cap S # {} => Buffer(p) \subseteq S)
        /\ S \cup LiveIn(q, Buffer(p), Creates(p))
             \subseteq Happened(p) \cup LiveIn(req[p], Buffer(p), Creates(p))
    BY <1>2, <1>3, <2>2
  <2> QED BY <1>1, <2>2, <2>3, <2>4, <2>5, <2>6, EditorActs
<1>5. CASE Lands(p, Buffer(p)) /\ Answer(p, "result", AllOf(Buffer(p), "applied"))
  <2>1. /\ AllOf(Buffer(p), "applied") \in [Buffer(p) -> Known \cup {"creating"}]
        /\ \A c \in Buffer(p) : AllOf(Buffer(p), "applied")[c] = "applied"
    BY DEF AllOf, Known, Outcomes
  <2> QED BY <1>4, <1>5, <2>1
<1>6. ASSUME UNCHANGED effect, NEW ans, ans \in [Buffer(p) -> {"ready", "conflict", "refused"}],
             \E c \in Buffer(p) : ans[c] # "ready", Answer(p, "result", ans)
      PROVE  IInv'
  <2>1. PICK q : q = AnswerTo(p, "result", ans)
    OBVIOUS
  <2>2. ans \in [AskedOf(p, req[p].op) -> Known \cup {"creating"}]
    BY <1>2, <1>6 DEF Known, Outcomes
  <2>3. /\ \/ q = None /\ ~InWait(p)
           \/ q \in Requests /\ q.op = req[p].op /\ DOMAIN q.ans = AskedOf(p, q.op)
        /\ q # None => /\ q.op = req[p].op /\ q.status = "result" /\ q.ans = ans
        /\ LiveIn(q, Buffer(p), Creates(p)) = {}
    BY <1>1, <2>1, <2>2, AnswerFacts
  <2>4. RequestTrue(q, records[p], Home(p), Buffer(p), Creates(p), Happened(p))
    BY <1>1, <1>2, <1>3, <1>6, <2>3 DEF RequestTrue
  <2>5. req' = [req EXCEPT ![p] = q]
    BY <1>6, <2>1, Answering
  <2> QED BY <1>1, <1>6, <2>3, <2>4, <2>5, EditorSays
<1>7. CASE (\E S \in (SUBSET Buffer(p)) \ {Buffer(p)} : Lands(p, S)) /\ Answer(p, "error", req[p].ans)
  BY <1>2, <1>3, <1>4, <1>7
<1> QED BY <1>1, <1>5, <1>6, <1>7

(* The call for the files of plan p, with one more file decided. *)
Filed(p, c, w, root) == [req[p] EXCEPT !.ans[c] = w, !.root = root]

LEMMA FileFacts ==
    ASSUME IInv, NEW p \in PlanIds, proposal[p] # None, NEW c \in Creates(p), Asked(p, "create", "working"),
           NEW w \in Known \cup {"creating"}, NEW root \in Projects \cup {None},
           NEW q, q = Filed(p, c, w, root)
    PROVE  /\ q \in Requests /\ q.op = "create" /\ q.status = "working" /\ q.root = root
           /\ DOMAIN q.ans = Creates(p) /\ DOMAIN q.ans = AskedOf(p, q.op)
           /\ q.ans[c] = w /\ \A d \in Creates(p) \ {c} : q.ans[d] = req[p].ans[d]
<1>1. /\ req[p] \in Requests /\ req[p].op = "create" /\ req[p].status = "working"
      /\ req[p].ans \in [Creates(p) -> Known \cup {"creating"}]
      /\ Creates(p) \in SUBSET Changes
  <2>1. /\ req[p] # None /\ req[p].op = "create" /\ req[p].status = "working"
    BY DEF Asked
  <2> QED BY <2>1, EditorFacts DEF AskedOf
<1>2. PICK ans : ans = [req[p].ans EXCEPT ![c] = w]
  OBVIOUS
<1>3. /\ ans \in [Creates(p) -> Known \cup {"creating"}]
      /\ ans[c] = w /\ \A d \in Creates(p) \ {c} : ans[d] = req[p].ans[d]
  BY <1>1, <1>2
<1>4. ans \in Vectors(Known \cup {"creating"})
  BY <1>1, <1>3, VectorIn
<1>5. q = [req[p] EXCEPT !.ans = ans, !.root = root]
  BY <1>1, <1>2 DEF Requests, Filed
<1>6. /\ q \in Requests /\ q.op = "create" /\ q.status = "working" /\ q.root = root /\ q.ans = ans
  BY <1>1, <1>4, <1>5 DEF Requests
<1> QED BY <1>3, <1>6 DEF AskedOf

(* What is known of a call for files that the editor works on *)
LEMMA FilesInHand ==
    ASSUME IInv, NEW p \in PlanIds, proposal[p] # None, Asked(p, "create", "working")
    PROVE  /\ req[p] # None /\ records[p] # None /\ ~records[p].old
           /\ Buffer(p) \subseteq Happened(p) /\ Happened(p) \subseteq Buffer(p) \cup Creates(p)
           /\ \A c \in Creates(p) :
                /\ req[p].ans[c] \in {Pending, "creating", "created", "exists", "failed"}
                /\ c \in Happened(p) <=> req[p].ans[c] = "created"
                /\ req[p].ans[c] = "creating" => req[p].root = Home(p)
           /\ LiveIn(req[p], Buffer(p), Creates(p))
                = {c \in Creates(p) : req[p].ans[c] \in {Pending, "creating"}}
           /\ DOMAIN req[p].ans = Creates(p)
           /\ req[p].root \in Projects \cup {None} /\ Home(p) \in Projects
<1>1. req[p] # None /\ req[p].op = "create" /\ req[p].status = "working"
  BY DEF Asked
<1>2. RequestTrue(req[p], records[p], Home(p), Buffer(p), Creates(p), Happened(p))
  BY <1>1, EditorFacts
<1>3. Happened(p) \subseteq Buffer(p) \cup Creates(p) /\ req[p] \in Requests
      /\ DOMAIN req[p].ans = Creates(p)
  BY <1>1, EditorFacts DEF AskedOf
<1>4. Home(p) \in Projects
  BY PlanTyped DEF IInv, Home, Proposed, Opens
<1>5. req[p].root \in Projects \cup {None}
  BY <1>3 DEF Requests
<1> QED BY <1>1, <1>2, <1>3, <1>4, <1>5 DEF RequestTrue, LiveIn

LEMMA EditorBeginsFilesStep ==
    ASSUME IInv, NEW p \in PlanIds, proposal[p] # None, EditorBeginsFiles(p) PROVE IInv'
<1>1. /\ req[p] # None /\ req[p].op = "create" /\ req[p].status = "sent"
      /\ req' = [req EXCEPT ![p].status = "working"]
      /\ UNCHANGED <<backendVars, js, storeVars, threadVars, records, effect, pill>>
  BY DEF EditorBeginsFiles, Asked
<1>2. /\ RequestTrue(req[p], records[p], Home(p), Buffer(p), Creates(p), Happened(p))
      /\ req[p] \in Requests /\ DOMAIN req[p].ans = AskedOf(p, req[p].op)
  BY <1>1, EditorFacts
<1>3. PICK q : q = [req[p] EXCEPT !.status = "working"]
  OBVIOUS
<1>4. /\ q \in Requests /\ q.op = req[p].op /\ q.ans = req[p].ans /\ q.status = "working"
  BY <1>2, <1>3 DEF Requests
<1>5. req' = [req EXCEPT ![p] = q]
  BY <1>1, <1>3
<1>6. LiveIn(q, Buffer(p), Creates(p)) \subseteq LiveIn(req[p], Buffer(p), Creates(p))
  BY <1>1, <1>4 DEF LiveIn
<1>7. RequestTrue(q, records[p], Home(p), Buffer(p), Creates(p), Happened(p))
  BY <1>1, <1>2, <1>4 DEF RequestTrue, Pending
<1> QED BY <1>1, <1>2, <1>4, <1>5, <1>6, <1>7, EditorSays

(* A file is decided, or leaves for the disk, and nothing takes effect yet. *)
LEMMA FileDecided ==
    ASSUME IInv, NEW p \in PlanIds, proposal[p] # None, NEW c \in Creates(p), Asked(p, "create", "working"),
           req[p].ans[c] \in {Pending, "creating"},
           NEW w \in {"creating", "exists", "failed"},
           NEW root \in Projects \cup {None},
           w = "creating" => root = Home(p),
           w # "creating" => root = req[p].root,
           w = "creating" => \A d \in Creates(p) : req[p].ans[d] # "creating",
           req' = [req EXCEPT ![p].ans[c] = w, ![p].root = root],
           UNCHANGED <<backendVars, js, storeVars, threadVars, records, effect, pill>>
    PROVE  IInv'
<1>1. PICK q : q = Filed(p, c, w, root)
  OBVIOUS
<1>2. w \in Known \cup {"creating"}
  BY DEF Known, Outcomes
<1>3. /\ q \in Requests /\ q.op = "create" /\ q.status = "working" /\ q.root = root
      /\ DOMAIN q.ans = AskedOf(p, q.op)
      /\ q.ans[c] = w /\ \A d \in Creates(p) \ {c} : q.ans[d] = req[p].ans[d]
  BY <1>1, <1>2, FileFacts
<1>4. req' = [req EXCEPT ![p] = q] /\ req[p].op = "create"
  BY <1>1 DEF IInv, Types, TypeOK, Asked, Filed
<1>5. LiveIn(q, Buffer(p), Creates(p)) \subseteq LiveIn(req[p], Buffer(p), Creates(p))
  BY <1>3, FilesInHand DEF LiveIn
<1>6. RequestTrue(q, records[p], Home(p), Buffer(p), Creates(p), Happened(p))
  BY <1>3, FilesInHand DEF RequestTrue, Pending
<1>7. req[p] # None
  BY DEF Asked
<1>8. q \in Requests /\ q.op = req[p].op /\ DOMAIN q.ans = AskedOf(p, q.op)
  BY <1>3, <1>4
<1>9. req' = [req EXCEPT ![p] = q]
  BY <1>4
<1> HIDE DEF Filed
<1> QED BY <1>5, <1>6, <1>7, <1>8, <1>9, EditorSays

LEMMA EditorSkipsFileStep ==
    ASSUME IInv, NEW p \in PlanIds, proposal[p] # None, NEW c \in Creates(p), EditorSkipsFile(p, c)
    PROVE  IInv'
<1>1. /\ Asked(p, "create", "working") /\ req[p].ans[c] = Pending
      /\ UNCHANGED <<backendVars, js, storeVars, threadVars, records, effect, pill>>
  BY DEF EditorSkipsFile, NextFile
<1>2. PICK w \in {"exists", "failed"} : req' = [req EXCEPT ![p].ans[c] = w]
  BY DEF EditorSkipsFile
<1>3. req \in [PlanIds -> Requests \cup {None}] /\ req[p] \in Requests
      /\ req[p].root \in Projects \cup {None}
  BY <1>1, EditorFacts, FilesInHand DEF IInv, Types, TypeOK, Asked
<1>4. req' = [req EXCEPT ![p].ans[c] = w, ![p].root = req[p].root]
  BY <1>2, <1>3 DEF Requests
<1> QED BY <1>1, <1>2, <1>3, <1>4, FileDecided, ZenonT(30)

LEMMA EditorCreatesFileStep ==
    ASSUME IInv, NEW p \in PlanIds, proposal[p] # None, NEW c \in Creates(p), EditorCreatesFile(p, c)
    PROVE  IInv'
<1>1. /\ Asked(p, "create", "working") /\ req[p].ans[c] = Pending /\ Current(p)
      /\ req' = [req EXCEPT ![p].ans[c] = "creating", ![p].root = js.home]
      /\ \A d \in DOMAIN req[p].ans : req[p].ans[d] # "creating"
      /\ UNCHANGED <<backendVars, js, storeVars, threadVars, records, effect, pill>>
  BY DEF EditorCreatesFile, NextFile
<1>2. js.home = Home(p) /\ Home(p) \in Projects /\ DOMAIN req[p].ans = Creates(p)
  BY <1>1, EditorFacts, FilesInHand DEF Asked
<1>3. req' = [req EXCEPT ![p].ans[c] = "creating", ![p].root = Home(p)]
  BY <1>1, <1>2
<1> QED BY <1>1, <1>2, <1>3, FileDecided

LEMMA FileAnsweredStep ==
    ASSUME IInv, NEW p \in PlanIds, proposal[p] # None, NEW c \in Creates(p), FileAnswered(p, c)
    PROVE  IInv'
<1>1. /\ Asked(p, "create", "working") /\ req[p].ans[c] = "creating"
      /\ UNCHANGED <<backendVars, js, storeVars, threadVars, records, pill>>
      /\ \/ /\ req' = [req EXCEPT ![p].ans[c] = "created"]
            /\ effect' = [effect EXCEPT ![p][c] = Append(@, req[p].root)]
         \/ /\ \E ans \in {"exists", "failed"} : req' = [req EXCEPT ![p].ans[c] = ans]
            /\ UNCHANGED effect
  BY DEF FileAnswered
<1>2. /\ req \in [PlanIds -> Requests \cup {None}] /\ req[p] \in Requests /\ req[p] # None
      /\ req[p].root \in Projects \cup {None} /\ req[p].root = Home(p) /\ Home(p) \in Projects
      /\ effect \in [PlanIds -> [Changes -> Seq(Projects)]] /\ c \in Changes
      /\ c \notin Happened(p) /\ effect[p][c] = <<>>
  <2>1. c \in Changes /\ c \in Contents(p)
    BY PlanTyped DEF IInv
  <2>2. c \notin Happened(p) /\ req[p].root = Home(p) /\ Home(p) \in Projects
    BY <1>1, FilesInHand
  <2> QED BY <1>1, <2>1, <2>2, EditorFacts DEF IInv, Types, TypeOK, Asked, Happened
<1>3. \A w : [req EXCEPT ![p].ans[c] = w] = [req EXCEPT ![p].ans[c] = w, ![p].root = req[p].root]
  BY <1>2 DEF Requests
<1>4. CASE /\ req' = [req EXCEPT ![p].ans[c] = "created"]
           /\ effect' = [effect EXCEPT ![p][c] = Append(@, req[p].root)]
  <2>1. PICK q : q = Filed(p, c, "created", req[p].root)
    OBVIOUS
  <2>2. "created" \in Known \cup {"creating"}
    BY DEF Known, Outcomes
  <2>3. /\ q \in Requests /\ q.op = "create" /\ q.status = "working" /\ q.root = req[p].root
        /\ DOMAIN q.ans = AskedOf(p, q.op)
        /\ q.ans[c] = "created" /\ \A d \in Creates(p) \ {c} : q.ans[d] = req[p].ans[d]
    BY <1>1, <1>2, <2>1, <2>2, FileFacts
  <2>4. req' = [req EXCEPT ![p] = q] /\ req[p].op = "create"
    BY <1>1, <1>2, <1>3, <1>4, <2>1 DEF Asked, Filed
  <2>5. /\ effect' = [effect EXCEPT ![p][c] = <<Home(p)>>]
        /\ <<Home(p)>> \in Seq(Projects) /\ <<Home(p)>> # <<>>
    BY <1>2, <1>4
  <2>6. /\ effect' \in [PlanIds -> [Changes -> Seq(Projects)]]
        /\ \A o \in PlanIds \ {p} : effect'[o] = effect[o]
        /\ \A d \in Changes : effect'[p][d] = IF d = c THEN <<Home(p)>> ELSE effect[p][d]
    BY <1>2, <2>5
  <2>7. \A d \in Changes : effect'[p][d] # <<>> => effect'[p][d] = <<Home(p)>>
    BY <2>6 DEF IInv, EffectOnce
  <2>8. PICK H : H = Happened(p) \cup {c}
    OBVIOUS
  <2>9. H = Happened(p)'
    <3>1. Happened(p)' = {d \in Contents(p) : effect'[p][d] # <<>>}
      BY <1>1 DEF Happened, Contents, storeVars
    <3>2. c \in Contents(p) /\ Contents(p) \subseteq Changes
      BY PlanTyped DEF IInv
    <3> QED BY <2>5, <2>6, <2>8, <3>1, <3>2 DEF Happened
  <2>10. H \cup LiveIn(q, Buffer(p), Creates(p))
            \subseteq Happened(p) \cup LiveIn(req[p], Buffer(p), Creates(p))
    BY <1>1, <2>3, <2>8, FilesInHand DEF LiveIn
  <2>11. RequestTrue(q, records[p], Home(p), Buffer(p), Creates(p), H)
    BY <1>1, <1>2, <2>3, <2>8, FilesInHand DEF RequestTrue, Pending
  <2>12. Happened(p) \subseteq H /\ Buffer(p) \subseteq H
    BY <1>1, <2>8, FilesInHand
  <2> QED BY <1>1, <1>2, <2>3, <2>4, <2>6, <2>7, <2>9, <2>10, <2>11, <2>12, EditorActs
<1>5. CASE /\ \E ans \in {"exists", "failed"} : req' = [req EXCEPT ![p].ans[c] = ans]
           /\ UNCHANGED effect
  <2>1. PICK w \in {"exists", "failed"} : req' = [req EXCEPT ![p].ans[c] = w, ![p].root = req[p].root]
    BY <1>3, <1>5
  <2> QED BY <1>1, <1>2, <1>5, <2>1, FileDecided
<1> QED BY <1>1, <1>4, <1>5

LEMMA EditorAnswersFilesStep ==
    ASSUME IInv, NEW p \in PlanIds, proposal[p] # None, EditorAnswersFiles(p) PROVE IInv'
<1>1. /\ req[p] # None /\ req[p].op = "create" /\ req[p].status = "working"
      /\ Asked(p, "create", "working")
      /\ \A c \in DOMAIN req[p].ans : req[p].ans[c] \in Outcomes
      /\ Answer(p, "result", req[p].ans)
      /\ UNCHANGED <<backendVars, js, storeVars, threadVars, records, effect, pill>>
  BY DEF EditorAnswersFiles, Asked
<1>2. req[p].ans \in [AskedOf(p, req[p].op) -> Known \cup {"creating"}]
  BY <1>1, EditorFacts
<1>3. PICK q : q = AnswerTo(p, "result", req[p].ans)
  OBVIOUS
<1>4. /\ \/ q = None /\ ~InWait(p)
         \/ q \in Requests /\ q.op = req[p].op /\ DOMAIN q.ans = AskedOf(p, q.op)
      /\ q # None => /\ q.op = req[p].op /\ q.status = "result" /\ q.ans = req[p].ans
      /\ LiveIn(q, Buffer(p), Creates(p)) = {}
  BY <1>1, <1>2, <1>3, AnswerFacts
<1>5. req' = [req EXCEPT ![p] = q]
  BY <1>1, <1>3, Answering
<1>6. RequestTrue(q, records[p], Home(p), Buffer(p), Creates(p), Happened(p))
  BY <1>1, <1>4, FilesInHand DEF RequestTrue, Pending, Outcomes
<1> QED BY <1>1, <1>4, <1>5, <1>6, EditorSays

LEMMA EditorFailsStep ==
    ASSUME IInv, NEW p \in PlanIds, proposal[p] # None, EditorFails(p) PROVE IInv'
<1>1. /\ req[p] # None /\ req[p].status \in {"sent", "working"} /\ req[p].op \in {"show", "create"}
      /\ \A c \in DOMAIN req[p].ans : req[p].ans[c] # "creating"
      /\ Answer(p, "error", req[p].ans)
      /\ UNCHANGED <<backendVars, js, storeVars, threadVars, records, effect, pill>>
  BY DEF EditorFails, Asked
<1>2. /\ RequestTrue(req[p], records[p], Home(p), Buffer(p), Creates(p), Happened(p))
      /\ req[p].ans \in [AskedOf(p, req[p].op) -> Known \cup {"creating"}]
  BY <1>1, EditorFacts
<1>3. PICK q : q = AnswerTo(p, "error", req[p].ans)
  OBVIOUS
<1>4. /\ \/ q = None /\ ~InWait(p)
         \/ q \in Requests /\ q.op = req[p].op /\ DOMAIN q.ans = AskedOf(p, q.op)
      /\ q # None => /\ q.op = req[p].op /\ q.status = "error" /\ q.ans = req[p].ans
      /\ LiveIn(q, Buffer(p), Creates(p)) = {}
  BY <1>1, <1>2, <1>3, AnswerFacts
<1>5. req' = [req EXCEPT ![p] = q]
  BY <1>1, <1>3, Answering
<1>6. RequestTrue(q, records[p], Home(p), Buffer(p), Creates(p), Happened(p))
  BY <1>1, <1>2, <1>4 DEF RequestTrue, AskedOf
<1> QED BY <1>1, <1>4, <1>5, <1>6, EditorSays

----------------------------------------------------------------------------
(* The invariant holds of every behaviour *)

LEMMA InitStep == Init => IInv
<1> SUFFICES ASSUME Init PROVE IInv
  OBVIOUS
<1>1. /\ run = 1 /\ nextEpoch = 1 /\ open = None /\ js = None /\ taken = FALSE
      /\ proposal = [p \in PlanIds |-> None] /\ plans = [p \in PlanIds |-> None]
      /\ pc = [t \in Threads |-> "idle"] /\ job = [t \in Threads |-> None]
      /\ journal = [t \in Threads |-> None] /\ verdict = [t \in Threads |-> None]
      /\ req = [p \in PlanIds |-> None] /\ records = [p \in PlanIds |-> None]
      /\ effect = [p \in PlanIds |-> [c \in Changes |-> <<>>]]
      /\ pill = [p \in PlanIds |-> "none"]
  BY DEF Init
<1>2. TypeOK
  <2>1. effect \in [PlanIds -> [Changes -> Seq(Projects)]]
    <3>1. <<>> \in Seq(Projects)
      OBVIOUS
    <3>2. [c \in Changes |-> <<>>] \in [Changes -> Seq(Projects)]
      BY <3>1
    <3> QED BY <1>1, <3>2
  <2>2. pc \in [Threads -> PCs] /\ run \in Nat /\ nextEpoch \in Nat /\ taken \in BOOLEAN
    BY <1>1 DEF PCs
  <2>3. /\ open \in Opens \cup {None} /\ js \in Opens \cup {None}
        /\ proposal \in [PlanIds -> Proposed \cup {None}]
        /\ plans \in [PlanIds -> Plans \cup {None}]
        /\ job \in [Threads -> Jobs \cup {None}]
        /\ journal \in [Threads -> Journals \cup {None}]
        /\ verdict \in [Threads -> Verdicts \cup {None}]
        /\ req \in [PlanIds -> Requests \cup {None}]
        /\ records \in [PlanIds -> Rows \cup {None}]
        /\ pill \in [PlanIds -> {"none", "answering", "shown", "lost"}]
    BY <1>1
  <2> QED BY <2>1, <2>2, <2>3 DEF TypeOK
<1>3. (\A t \in Threads : ThreadShape(t)) /\ (\A p \in PlanIds : PlanShape(p))
  BY <1>1 DEF ThreadShape, PlanShape
<1>4. Minted /\ Closed /\ Claimed
  BY <1>1 DEF Minted, Closed, Claimed, Carries
<1>5. Truths
  BY <1>1 DEF Truths, StageIsTrue, PlanIsTrue, Carries
<1>6. EffectOnce /\ FilesFollowEdits
  BY <1>1 DEF EffectOnce, FilesFollowEdits
<1> QED BY <1>2, <1>3, <1>4, <1>5, <1>6 DEF IInv, Types

LEMMA ThreadSteps == ASSUME IInv, NEW t \in Threads, ThreadStep(t) PROVE IInv'
<1>1. CASE Claim(t)      BY <1>1, ClaimStep
<1>2. CASE Intend(t)     BY <1>2, IntendStep
<1>3. CASE Check(t)      BY <1>3, CheckStep
<1>4. CASE AskShow(t)    BY <1>4, AskShowStep
<1>5. CASE StartEdits(t) BY <1>5, StartEditsStep
<1>6. CASE AskApply(t)   BY <1>6, AskApplyStep
<1>7. CASE StartFiles(t) BY <1>7, StartFilesStep
<1>8. CASE AskCreate(t)  BY <1>8, AskCreateStep
<1>9. CASE HearShow(t)   BY <1>9, HearShowStep
<1>10. CASE HearApply(t) BY <1>10, HearApplyStep
<1>11. CASE HearCreate(t) BY <1>11, HearCreateStep
<1>12. CASE GiveUp(t)    BY <1>12, GiveUpStep
<1>13. CASE Finish(t)    BY <1>13, FinishStep
<1>14. CASE Store(t)     BY <1>14, StoreStep
<1> QED BY <1>1, <1>2, <1>3, <1>4, <1>5, <1>6, <1>7, <1>8, <1>9, <1>10, <1>11, <1>12,
           <1>13, <1>14 DEF ThreadStep

LEMMA EditorSteps ==
    ASSUME IInv, NEW p \in PlanIds, proposal[p] # None, EditorStep(p) PROVE IInv'
<1>1. CASE EditorRefuses(p)      BY <1>1, EditorRefusesStep
<1>2. CASE EditorIgnores(p)      BY <1>2, EditorIgnoresStep
<1>3. CASE EditorShows(p)        BY <1>3, EditorShowsStep
<1>4. CASE EditorApplies(p)      BY <1>4, EditorAppliesStep
<1>5. CASE EditorBeginsFiles(p)  BY <1>5, EditorBeginsFilesStep
<1>6. CASE EditorAnswersFiles(p) BY <1>6, EditorAnswersFilesStep
<1>7. CASE EditorFails(p)        BY <1>7, EditorFailsStep
<1>8. ASSUME NEW c \in Creates(p),
             EditorSkipsFile(p, c) \/ EditorCreatesFile(p, c) \/ FileAnswered(p, c)
      PROVE  IInv'
  BY <1>8, EditorSkipsFileStep, EditorCreatesFileStep, FileAnsweredStep
<1> QED BY <1>1, <1>2, <1>3, <1>4, <1>5, <1>6, <1>7, <1>8 DEF EditorStep

LEMMA StutterStep == ASSUME IInv, UNCHANGED vars PROVE IInv'
<1>1. \A p : /\ Contents(p)' = Contents(p) /\ Creates(p)' = Creates(p) /\ Buffer(p)' = Buffer(p)
             /\ OpensOf(p)' = OpensOf(p) /\ Home(p)' = Home(p) /\ ThisOpen(p)' = ThisOpen(p)
  BY DEF vars, Contents, Creates, Buffer, OpensOf, Home, ThisOpen
<1>2. \A p : Happened(p)' = Happened(p) /\ Untouched(p)' = Untouched(p)
  BY <1>1 DEF vars, Happened, Untouched
<1>3. (\A t, p : Carries(t, p)' = Carries(t, p)) /\ (\A p, op : AskedOf(p, op)' = AskedOf(p, op))
  BY <1>1 DEF vars, Carries, AskedOf
<1>4. Types'
  <2>1. TypeOK'
    BY DEF vars, IInv, Types, TypeOK
  <2>2. \A t \in Threads : ThreadShape(t)'
    BY <1>1 DEF vars, IInv, Types, ThreadShape
  <2>3. \A p \in PlanIds : PlanShape(p)'
    BY <1>1, <1>3 DEF vars, IInv, Types, PlanShape
  <2> QED BY <2>1, <2>2, <2>3 DEF Types
<1>5. Minted' /\ Closed' /\ Claimed'
  BY <1>1, <1>3 DEF vars, IInv, Minted, Past, Twins, Closed, Claimed
<1>6. Truths'
  <2>1. \A t \in Threads, p \in PlanIds : StageIsTrue(t, p)'
    BY <1>1, <1>2, <1>3 DEF vars, IInv, Truths, StageIsTrue
  <2>2. \A p \in PlanIds : PlanIsTrue(p)'
    BY <1>1, <1>2 DEF vars, IInv, Truths, PlanIsTrue
  <2> QED BY <2>1, <2>2 DEF Truths
<1>7. EffectOnce' /\ FilesFollowEdits'
  BY <1>1 DEF vars, IInv, EffectOnce, FilesFollowEdits
<1> QED BY <1>4, <1>5, <1>6, <1>7 DEF IInv

LEMMA NextStep == IInv /\ [Next]_vars => IInv'
<1> SUFFICES ASSUME IInv, [Next]_vars PROVE IInv'
  OBVIOUS
<1>1. ASSUME NEW h \in Projects, NEW ro \in BOOLEAN, OpenProject(h, ro) PROVE IInv'
  BY <1>1, OpenProjectStep
<1>2. CASE CloseProject \/ EditorReady \/ EditorLeaves \/ Crash \/ TakeInterrupted
  BY <1>2, CloseProjectStep, EditorReadyStep, EditorLeavesStep, CrashStep, TakeInterruptedStep
<1>3. ASSUME NEW p \in PlanIds, NEW a \in Principals, NEW S \in Proposals, Propose(p, a, S)
      PROVE  IInv'
  BY <1>3, ProposeStep
<1>4. ASSUME NEW a \in Principals, NEW S \in Proposals, ProposeNothing(a, S) PROVE IInv'
  BY <1>4, ProposeNothingStep
<1>5. ASSUME NEW p \in PlanIds, PlanAges(p) \/ Reject(p) \/ ShowPill(p) \/ RecordAges(p) PROVE IInv'
  BY <1>5, PlanAgesStep, RejectStep, ShowPillStep, RecordAgesStep
<1>6. ASSUME NEW t \in Threads, NEW p \in PlanIds, NEW who \in Principals \cup {Person}, Call(t, p, who)
      PROVE  IInv'
  BY <1>6, CallStep
<1>7. ASSUME NEW t \in Threads, ThreadStep(t) PROVE IInv'
  BY <1>7, ThreadSteps
<1>8. ASSUME NEW p \in PlanIds, proposal[p] # None /\ EditorStep(p) PROVE IInv'
  BY <1>8, EditorSteps
<1>9. CASE UNCHANGED vars
  BY <1>9, StutterStep
<1> QED BY <1>1, <1>2, <1>3, <1>4, <1>5, <1>6, <1>7, <1>8, <1>9 DEF Next

(* What the records, the plans, the calls, the threads and the effects say of   *)
(* one another, in every reachable state.                                       *)
THEOREM Invariant == Spec => []IInv
BY InitStep, NextStep, PTL DEF Spec

----------------------------------------------------------------------------
(* What the invariant gives *)

(* Every variable keeps its type: a record, a plan, a journal and a call have    *)
(* the words the code gives them.                                               *)
THEOREM TypeCorrect == Spec => []TypeOK
<1>1. IInv => TypeOK
  BY DEF IInv, Types
<1> QED BY <1>1, Invariant, PTL

(* What is true of what took effect is the truth, as a reader reads it. *)
LEMMA TrueIsTruth ==
    ASSUME NEW p \in PlanIds, NEW said,
           True(said.state, said.outcome, Contents(p), Happened(p), Untouched(p)),
           said.state \in Finals \cup {"applying"},
           \A c \in Contents(p) : said.outcome[c] \in Known
    PROVE  SaysTheTruth(p, said)
<1>1. \A c \in Contents(p) : (c \in Happened(p) <=> effect[p][c] # <<>>)
                             /\ (c \in Untouched(p) => effect[p][c] = <<>>)
  BY DEF Happened, Untouched
<1>2. Happened(p) \subseteq Contents(p)
  BY DEF Happened
<1>3. \A c \in Contents(p) : said.outcome[c] \in Outcomes <=> said.outcome[c] # Pending
  BY DEF Known, Outcomes, Pending
<1>4. said.state \in {"failed", "conflict", "rejected", "expired"} \cup Waiting
        => said.state \in {"failed", "conflict"}
  BY DEF Finals, Waiting
<1> QED BY <1>1, <1>2, <1>3, <1>4 DEF True, SaysTheTruth

LEMMA RecordsSayTheTruth ==
    ASSUME IInv, NEW p \in PlanIds, records[p] # None
    PROVE  SaysTheTruth(p, AfterRestart(p))
<1>1. proposal[p] # None
  BY DEF IInv, Types, PlanShape
<1>2. RecordTrue(records[p], Contents(p), Happened(p), Untouched(p))
  BY <1>1 DEF IInv, Truths, PlanIsTrue
<1>3. /\ records[p] \in Rows /\ records[p].phase \in [Contents(p) -> Phases]
      /\ records[p].outcome \in [Contents(p) -> Known]
  BY <1>1, PlanTyped DEF IInv
<1>4. CASE records[p].state = "applying"
  <2>1. /\ SettledOutcome(records[p]) \in [Contents(p) -> Known]
        /\ InterruptedState(records[p]) \in Finals
        /\ True(InterruptedState(records[p]), SettledOutcome(records[p]),
                Contents(p), Happened(p), Untouched(p))
    BY <1>2, <1>3, SettledRecord
  <2>2. AfterRestart(p) = [state |-> InterruptedState(records[p]), outcome |-> SettledOutcome(records[p])]
    BY <1>4 DEF AfterRestart
  <2>3. AfterRestart(p).state = InterruptedState(records[p])
        /\ AfterRestart(p).outcome = SettledOutcome(records[p])
    BY <2>2
  <2> QED BY <2>1, <2>3, TrueIsTruth
<1>5. CASE records[p].state # "applying"
  <2>1. AfterRestart(p) = [state |-> records[p].state, outcome |-> records[p].outcome]
    BY <1>5 DEF AfterRestart
  <2>2. AfterRestart(p).state = records[p].state /\ AfterRestart(p).outcome = records[p].outcome
    BY <2>1
  <2>3. records[p].state \in Finals \cup {"applying"}
    BY <1>3 DEF Rows
  <2>4. True(records[p].state, records[p].outcome, Contents(p), Happened(p), Untouched(p))
    BY <1>2 DEF RecordTrue
  <2> QED BY <1>3, <2>2, <2>3, <2>4, TrueIsTruth
<1> QED BY <1>4, <1>5

(* If the process died now, the next open would read nothing untrue of any      *)
(* operation in the project's records.                                          *)
THEOREM RecordsAreTrue == Spec => []RecordIsTrue
<1>1. IInv => RecordIsTrue
  BY RecordsSayTheTruth DEF RecordIsTrue
<1> QED BY <1>1, Invariant, PTL

LEMMA PlansSayTheTruth ==
    ASSUME IInv, NEW p \in PlanIds, proposal[p] # None, plans[p] # None,
           NEW said, said = [state |-> StateNow(p), outcome |-> plans[p].outcome]
    PROVE  SaysTheTruth(p, said)
<1>1. plans[p] \in Plans /\ plans[p].outcome \in [Contents(p) -> Known]
  BY PlanTyped DEF IInv
<1>2. PlanTrue(plans[p], records[p], req[p], Contents(p), Happened(p), Untouched(p))
  BY DEF IInv, Truths, PlanIsTrue
<1>3. said.state = StateNow(p) /\ said.outcome = plans[p].outcome
  OBVIOUS
<1>4. CASE plans[p].state \in Waiting \cup {"rejected"}
  <2>1. /\ \A c \in Contents(p) : plans[p].outcome[c] = Pending
        /\ \A c \in Contents(p) : effect[p][c] = <<>>
    BY <1>2, <1>4 DEF PlanTrue, Happened
  <2>2. said.state \in {"expired", "rejected"} \cup Waiting
    BY <1>3, <1>4 DEF StateNow, Waiting
  <2> QED BY <1>3, <2>1, <2>2 DEF SaysTheTruth, Landed, Pending, Outcomes, Waiting
<1>5. CASE plans[p].state \notin Waiting \cup {"rejected"}
  <2>1. said.state = plans[p].state /\ plans[p].state \in Finals \cup {"applying"}
    BY <1>1, <1>3, <1>5 DEF StateNow, Plans
  <2>2. True(plans[p].state, plans[p].outcome, Contents(p), Happened(p), Untouched(p))
    BY <1>2 DEF PlanTrue
  <2> QED BY <1>1, <1>3, <2>1, <2>2, TrueIsTruth
<1> QED BY <1>4, <1>5

(* Whoever asks where an operation stands, in its own open, in a later one, of  *)
(* the plan or of its record, is told nothing untrue.                           *)
THEOREM StandingsAreTrue == Spec => []StandingIsTrue
<1>1. ASSUME IInv, NEW p \in PlanIds, proposal[p] # None PROVE SaysTheTruth(p, StandingOf(p))
  <2>1. CASE plans[p] # None /\ ThisOpen(p)
    BY <1>1, <2>1, PlansSayTheTruth DEF StandingOf
  <2>2. CASE ~(plans[p] # None /\ ThisOpen(p)) /\ records[p] = None
    <3>1. StandingOf(p) = [state |-> "unknown", outcome |-> NothingKnown(p)]
      BY <2>2 DEF StandingOf
    <3>2. StandingOf(p).state = "unknown"
          /\ \A c \in Contents(p) : StandingOf(p).outcome[c] = Pending
      BY <3>1 DEF NothingKnown, AllOf
    <3> QED BY <3>2 DEF SaysTheTruth, Landed, Pending, Outcomes, Waiting
  <2>3. CASE ~(plans[p] # None /\ ThisOpen(p)) /\ records[p] # None /\ ThisOpen(p)
    <3>1. StandingOf(p) = [state |-> records[p].state, outcome |-> records[p].outcome]
      BY <2>3 DEF StandingOf
    <3>2. StandingOf(p).state = records[p].state /\ StandingOf(p).outcome = records[p].outcome
      BY <3>1
    <3>3. RecordTrue(records[p], Contents(p), Happened(p), Untouched(p))
      BY <1>1 DEF IInv, Truths, PlanIsTrue
    <3>4. /\ records[p] \in Rows /\ records[p].outcome \in [Contents(p) -> Known]
      BY <1>1, <2>3, PlanTyped DEF IInv
    <3> QED BY <2>3, <3>2, <3>3, <3>4, TrueIsTruth DEF RecordTrue, Rows
  <2>4. CASE ~(plans[p] # None /\ ThisOpen(p)) /\ records[p] # None /\ ~ThisOpen(p)
    BY <1>1, <2>4, RecordsSayTheTruth DEF StandingOf
  <2> QED BY <2>1, <2>2, <2>3, <2>4
<1>2. IInv => StandingIsTrue
  BY <1>1 DEF StandingIsTrue
<1> QED BY <1>2, Invariant, PTL

(* A change takes effect at most once, and only in the project its plan was     *)
(* proposed for, whatever crashes, timeouts and late answers do.                *)
THEOREM EffectsOnce == Spec => []EffectOnce
<1>1. IInv => EffectOnce
  BY DEF IInv
<1> QED BY <1>1, Invariant, PTL

(* No file of a plan is created unless every edit of the plan landed. *)
THEOREM FilesFollow == Spec => []FilesFollowEdits
<1>1. IInv => FilesFollowEdits
  BY DEF IInv
<1> QED BY <1>1, Invariant, PTL

(* What is reported of an interrupted operation names every change that took    *)
(* effect, even after the report was made.                                      *)
THEOREM ReportsAreWhole == Spec => []ReportNamesEveryEffect
<1>1. ASSUME IInv, NEW p \in PlanIds, records[p] # None, NEW c \in Contents(p), effect[p][c] # <<>>
      PROVE  c \in ReportOf(records[p])
  <2>1. proposal[p] # None
    BY <1>1 DEF IInv, Types, PlanShape
  <2>2. RecordTrue(records[p], Contents(p), Happened(p), Untouched(p))
    BY <1>1, <2>1 DEF IInv, Truths, PlanIsTrue
  <2>3. /\ records[p].phase \in [Contents(p) -> Phases]
        /\ records[p].outcome \in [Contents(p) -> Known]
    BY <1>1, <2>1, PlanTyped DEF IInv
  <2>4. c \notin Untouched(p)
    BY <1>1 DEF Happened, Untouched
  <2>5. Uncertain(records[p], c) \/ Landed(records[p].outcome[c])
    BY <1>1, <2>2, <2>3, <2>4 DEF RecordTrue, True, Covered, Uncertain, Phases
  <2> QED BY <2>3, <2>5 DEF ReportOf
<1>2. IInv => ReportNamesEveryEffect
  BY <1>1 DEF ReportNamesEveryEffect
<1> QED BY <1>2, Invariant, PTL

----------------------------------------------------------------------------
(* What was interrupted is settled once *)

FinalFor(p) ==
    /\ records[p] # None /\ records[p].interrupted =>
         records'[p] \in {None, records[p], [records[p] EXCEPT !.old = TRUE]}
    /\ pill'[p] = "answering" /\ pill[p] # "answering" => pill[p] = "none"

LEMMA SavesFinal ==
    ASSUME IInv, NEW o \in PlanIds, NEW state, NEW jr, Save(o, state, jr), UNCHANGED pill,
           NEW p \in PlanIds
    PROVE  FinalFor(p)
<1>1. ThisOpen(o) /\ records' = [records EXCEPT ![o] = Row(o, state, jr)]
  BY DEF Save, DbOpenFor
<1>2. records[p] # None /\ records[p].interrupted => p # o
  BY <1>1 DEF IInv, Closed
<1>3. p # o => records'[p] = records[p]
  BY <1>1 DEF IInv, Types, TypeOK
<1> QED BY <1>2, <1>3 DEF FinalFor

LEMMA ThreadsFinal ==
    ASSUME IInv, NEW t \in Threads, ThreadStep(t), NEW p \in PlanIds PROVE FinalFor(p)
<1>1. CASE UNCHANGED <<records, pill>>
  BY <1>1 DEF FinalFor
<1>2. CASE Intend(t) /\ records' # records
  <2>1. PICK o, rec : /\ DbOpenFor(o) /\ pc[t] = "claimed" /\ o = job[t].plan
                      /\ records' = [Pruned EXCEPT ![o] = rec] /\ UNCHANGED pill
    BY <1>2 DEF Intend
  <2>2. o \in PlanIds /\ ThisOpen(o)
    BY <2>1, CarrierTyped DEF IInv, DbOpenFor
  <2>3. records[p] # None /\ records[p].interrupted => p # o
    BY <2>2 DEF IInv, Closed
  <2>4. p # o => records'[p] \in {None, records[p]}
    BY <2>1 DEF Pruned
  <2> QED BY <2>1, <2>3, <2>4 DEF FinalFor
<1>3. CASE StartEdits(t) /\ records' # records
  <2>1. PICK o, jr : /\ Save(o, "applying", jr) /\ pc[t] = "start" /\ o = job[t].plan /\ UNCHANGED pill
    BY <1>3 DEF StartEdits
  <2>2. o \in PlanIds
    BY <2>1, CarrierTyped DEF IInv
  <2> QED BY <2>1, <2>2, SavesFinal
<1>4. CASE StartFiles(t) /\ records' # records
  <2>1. PICK o, jr : /\ Save(o, "applying", jr) /\ pc[t] = "startFiles" /\ o = job[t].plan /\ UNCHANGED pill
    BY <1>4 DEF StartFiles
  <2>2. o \in PlanIds
    BY <2>1, CarrierTyped DEF IInv
  <2> QED BY <2>1, <2>2, SavesFinal
<1>5. CASE Finish(t) /\ records' # records
  <2>1. PICK o, state, jr : /\ Save(o, state, jr) /\ pc[t] = "finish" /\ o = job[t].plan /\ UNCHANGED pill
    BY <1>5 DEF Finish
  <2>2. o \in PlanIds
    BY <2>1, CarrierTyped DEF IInv
  <2> QED BY <2>1, <2>2, SavesFinal
<1> QED BY <1>1, <1>2, <1>3, <1>4, <1>5
        DEF ThreadStep, Claim, Intend, Check, AskShow, StartEdits, AskApply, StartFiles, AskCreate,
            HearShow, HearApply, HearCreate, GiveUp, Finish, Store

LEMMA TakesFinal == ASSUME IInv, TakeInterrupted, NEW p \in PlanIds PROVE FinalFor(p)
<1>1. CASE UNCHANGED <<records, pill>>
  BY <1>1 DEF FinalFor
<1>2. CASE /\ records' = [q \in PlanIds |->
                  IF Unreported(q) THEN [Recovered(q) EXCEPT !.reported = TRUE] ELSE Recovered(q)]
           /\ pill' = [q \in PlanIds |->
                  IF Unreported(q) /\ ReportOf(Recovered(q)) # {} THEN "answering" ELSE pill[q]]
  <2>1. records[p] # None /\ records[p].interrupted =>
            Recovered(p) \in {None, records[p]} /\ ~Unreported(p)
    BY DEF IInv, Closed, Recovered, Unreported, Stranded
  <2>2. records[p] = None => ~Unreported(p)
    BY DEF Recovered, Unreported, Stranded
  <2>3. pill[p] # "none" /\ records[p] # None => records[p].interrupted
    BY DEF IInv, Closed
  <2>4. records[p] # None /\ records[p].interrupted => records'[p] \in {None, records[p]}
    BY <1>2, <2>1
  <2>5. ~Unreported(p) => pill'[p] = pill[p]
    BY <1>2
  <2> QED BY <2>1, <2>2, <2>3, <2>4, <2>5 DEF FinalFor
<1> QED BY <1>1, <1>2 DEF TakeInterrupted

LEMMA RestFinal ==
    ASSUME IInv, NEW p \in PlanIds,
           Crash \/ \E o \in PlanIds : ShowPill(o) \/ RecordAges(o)
    PROVE  FinalFor(p)
<1>1. /\ records \in [PlanIds -> Rows \cup {None}]
      /\ pill \in [PlanIds -> {"none", "answering", "shown", "lost"}]
  BY DEF IInv, Types, TypeOK
<1>2. CASE Crash
  BY <1>1, <1>2 DEF Crash, FinalFor
<1>3. ASSUME NEW o \in PlanIds, ShowPill(o) PROVE FinalFor(p)
  BY <1>1, <1>3 DEF ShowPill, FinalFor
<1>4. ASSUME NEW o \in PlanIds, RecordAges(o) PROVE FinalFor(p)
  <2>1. records'[p] \in {records[p], [records[p] EXCEPT !.old = TRUE]} /\ UNCHANGED pill
    BY <1>1, <1>4 DEF RecordAges
  <2> QED BY <2>1 DEF FinalFor
<1> QED BY <1>2, <1>3, <1>4

(* An interrupted operation is settled for good and reported at most once: its  *)
(* record only ages out, and its pill is never asked for again.                 *)
THEOREM InterruptedStays == Spec => InterruptedIsFinal
<1>1. IInv /\ [Next]_vars => [\A p \in PlanIds : FinalFor(p)]_vars
  <2> SUFFICES ASSUME IInv, Next, NEW p \in PlanIds PROVE FinalFor(p)
    OBVIOUS
  <2>1. CASE UNCHANGED <<records, pill>>
    BY <2>1 DEF FinalFor
  <2>2. CASE TakeInterrupted
    BY <2>2, TakesFinal
  <2>3. CASE \E t \in Threads : ThreadStep(t)
    BY <2>3, ThreadsFinal
  <2>4. CASE Crash \/ \E o \in PlanIds : ShowPill(o) \/ RecordAges(o)
    BY <2>4, RestFinal
  <2>5. (\E h \in Projects, ro \in BOOLEAN : OpenProject(h, ro)) \/ CloseProject \/ EditorReady
          \/ EditorLeaves => UNCHANGED <<records, pill>>
    BY DEF OpenProject, CloseProject, EditorReady, EditorLeaves
  <2>6. (\E o \in PlanIds, a \in Principals, S \in Proposals : Propose(o, a, S))
          \/ (\E a \in Principals, S \in Proposals : ProposeNothing(a, S))
          \/ (\E o \in PlanIds : PlanAges(o) \/ Reject(o))
          \/ (\E t \in Threads, o \in PlanIds, who \in Principals \cup {Person} : Call(t, o, who))
          => UNCHANGED <<records, pill>>
    BY DEF Propose, ProposeNothing, PlanAges, Reject, Call
  <2>7. (\E o \in PlanIds : proposal[o] # None /\ EditorStep(o)) => UNCHANGED <<records, pill>>
    BY DEF EditorStep, EditorRefuses, EditorIgnores, EditorShows, EditorApplies, EditorBeginsFiles,
           EditorAnswersFiles, EditorFails, EditorSkipsFile, EditorCreatesFile, FileAnswered
  <2> QED BY <2>1, <2>2, <2>3, <2>4, <2>5, <2>6, <2>7 DEF Next
<1>2. [\A p \in PlanIds : FinalFor(p)]_vars =>
        [\A p \in PlanIds :
         /\ records[p] # None /\ records[p].interrupted =>
              records'[p] \in {None, records[p], [records[p] EXCEPT !.old = TRUE]}
         /\ pill'[p] = "answering" /\ pill[p] # "answering" => pill[p] = "none"]_vars
  BY DEF FinalFor
<1> QED BY <1>1, <1>2, Invariant, PTL DEF Spec, InterruptedIsFinal

----------------------------------------------------------------------------
(* Who writes the records *)

(* A step of a thread leaves the records, or writes the one of the plan it      *)
(* carries out, in the open that minted it.                                     *)
Writes(t, o) ==
    /\ Carries(t, o) /\ pc[t] # "store" /\ pc'[t] \notin {"idle", "called"} /\ ThisOpen(o)
    /\ pc[t] \in {"claimed", "start", "startFiles", "finish"}
    /\ \A p \in PlanIds \ {o} : records'[p] \in {None, records[p]}
    /\ records'[o] # None /\ (records'[o].state = "applying" \/ pc'[t] = "store")
    /\ pc[t] = "claimed" => records'[o].state = "applying"
    /\ pc[t] = "finish" => records'[o].state = verdict[t].state

LEMMA SaveWrites ==
    ASSUME IInv, NEW t \in Threads, NEW o \in PlanIds, Carries(t, o), proposal[o] # None,
           pc[t] \in {"start", "startFiles", "finish"}, NEW at, Goto(t, at),
           at \in {"apply", "create", "store"},
           NEW state \in Finals \cup {"applying"}, NEW jr \in Written(o), Save(o, state, jr),
           state = "applying" \/ at = "store",
           pc[t] = "finish" => state = verdict[t].state
    PROVE  Writes(t, o)
<1>1. PICK row : row = Row(o, state, jr)
  OBVIOUS
<1>2. row # None /\ row.state = state
  BY <1>1, RowFacts DEF Save, DbOpenFor
<1>3. ThisOpen(o) /\ records' = [records EXCEPT ![o] = row]
  BY <1>1 DEF Save, DbOpenFor
<1>4. records'[o] = row /\ \A p \in PlanIds \ {o} : records'[p] = records[p]
  BY <1>3 DEF IInv, Types, TypeOK
<1>5. pc'[t] = at
  BY DEF Goto, IInv, Types, TypeOK
<1> QED BY <1>2, <1>3, <1>4, <1>5 DEF Writes

LEMMA ThreadWrites ==
    ASSUME IInv, NEW t \in Threads, ThreadStep(t), records' # records
    PROVE  \E o \in PlanIds : Writes(t, o)
<1>1. CASE Intend(t)
  <2>1. PICK o, jr : /\ o = job[t].plan /\ jr = journal[t]
    OBVIOUS
  <2>2. /\ pc[t] = "claimed" /\ DbOpenFor(o) /\ Goto(t, "check")
        /\ records' = [Pruned EXCEPT ![o] = Row(o, "applying", jr)]
    BY <1>1, <2>1 DEF Intend
  <2>3. o \in PlanIds /\ proposal[o] # None /\ Carries(t, o) /\ jr \in Written(o)
    BY <2>1, <2>2, CarrierFacts
  <2>4. PICK row : row = Row(o, "applying", jr)
    OBVIOUS
  <2>5. row # None /\ row.state = "applying"
    BY <2>2, <2>3, <2>4, RowFacts DEF DbOpenFor
  <2>6. records' = [Pruned EXCEPT ![o] = row]
    BY <2>2, <2>4
  <2>7. records'[o] = row /\ \A p \in PlanIds \ {o} : records'[p] \in {None, records[p]}
    BY <2>3, <2>6 DEF Pruned
  <2>8. pc'[t] = "check"
    BY <2>2 DEF Goto, IInv, Types, TypeOK
  <2> QED BY <2>2, <2>3, <2>5, <2>7, <2>8 DEF Writes, DbOpenFor
<1>2. CASE StartEdits(t)
  <2>1. PICK o, jr : o = job[t].plan /\ jr = StartedIn(journal[t], Buffer(o))
    OBVIOUS
  <2>2. pc[t] = "start" /\ Save(o, "applying", jr) /\ Goto(t, "apply")
    BY <1>2, <2>1 DEF StartEdits
  <2>3. o \in PlanIds /\ proposal[o] # None /\ Carries(t, o) /\ jr \in Written(o)
    BY <2>1, <2>2, CarrierFacts, StartedOf DEF Written
  <2> QED BY <2>2, <2>3, SaveWrites
<1>3. CASE StartFiles(t)
  <2>1. PICK o, jc, jr : /\ o = job[t].plan /\ jc = ConfirmedIn(journal[t], verdict[t].outcome)
                         /\ jr = StartedIn(jc, Creates(o))
    OBVIOUS
  <2>2. pc[t] = "startFiles" /\ Save(o, "applying", jr) /\ Goto(t, "create")
    BY <1>3, <2>1 DEF StartFiles
  <2>3. o \in PlanIds /\ proposal[o] # None /\ Carries(t, o) /\ jr \in Written(o)
    BY <2>1, <2>2, CarrierFacts, StartedOf, ConfirmedOf DEF Written
  <2> QED BY <2>2, <2>3, SaveWrites
<1>4. CASE Finish(t)
  <2>1. PICK o, state, jr : /\ o = job[t].plan /\ jr = ConfirmedIn(journal[t], verdict[t].outcome)
                            /\ state = verdict[t].state
    OBVIOUS
  <2>2. pc[t] = "finish" /\ Save(o, state, jr) /\ Goto(t, "store")
    BY <1>4, <2>1 DEF Finish
  <2>3. o \in PlanIds /\ proposal[o] # None /\ Carries(t, o) /\ jr \in Written(o)
    BY <2>1, <2>2, CarrierFacts, ConfirmedOf DEF Written
  <2>4. state \in Finals \cup {"applying"}
    BY <2>1, <2>2, CarrierFacts DEF Verdicts
  <2> QED BY <2>1, <2>2, <2>3, <2>4, SaveWrites
<1> QED BY <1>1, <1>2, <1>3, <1>4
        DEF ThreadStep, Claim, Check, AskShow, AskApply, AskCreate,
            HearShow, HearApply, HearCreate, GiveUp, Store

(* A thread moves alone, keeps its plan, and wins a claim only on a plan without *)
(* a record.                                                                     *)
LEMMA ThreadMoves ==
    ASSUME IInv, NEW t \in Threads, ThreadStep(t)
    PROVE  /\ \A u \in Threads \ {t} : pc'[u] = pc[u] /\ job'[u] = job[u]
           /\ pc'[t] # "idle" => job'[t] = job[t]
           /\ pc[t] = "store" => pc'[t] = "idle"
           /\ pc[t] # "idle"
           /\ pc'[t] # "idle" /\ pc[t] = "called" => records[job[t].plan] = None
           /\ UNCHANGED <<backendVars, js, proposal, effect, pill>>
<1>1. pc \in [Threads -> PCs] /\ job \in [Threads -> Jobs \cup {None}]
  BY DEF IInv, Types, TypeOK
<1>2. ASSUME Claim(t) \/ Store(t)
      PROVE  /\ \A u \in Threads \ {t} : pc'[u] = pc[u] /\ job'[u] = job[u]
             /\ pc'[t] # "idle" => job'[t] = job[t]
             /\ pc[t] = "store" => pc'[t] = "idle"
             /\ pc[t] # "idle"
  BY <1>1, <1>2 DEF Claim, Store, Leave
<1>3. ASSUME Claim(t), pc'[t] # "idle" PROVE records[job[t].plan] = None
  <2>1. PICK p : p = job[t].plan
    OBVIOUS
  <2>2. pc[t] = "called" /\ MayClaim(p, job[t].who)
    BY <1>1, <1>3, <2>1 DEF Claim, Leave
  <2>3. p \in PlanIds /\ proposal[p] # None
    BY <1>1, <2>1, <2>2 DEF IInv, Types, ThreadShape, Jobs
  <2>4. plans[p] # None /\ plans[p].state \in Waiting
    BY <2>2 DEF MayClaim, StateNow, Waiting
  <2>5. records[p] = None
    BY <2>3, <2>4 DEF IInv, Truths, PlanIsTrue, PlanTrue
  <2> QED BY <2>1, <2>5
<1>4. \/ Claim(t) \/ Store(t)
      \/ /\ pc[t] \notin {"idle", "called", "store"} /\ UNCHANGED job
         /\ \E at : Goto(t, at)
  BY DEF ThreadStep, Intend, Check, AskShow, StartEdits, AskApply, StartFiles, AskCreate, Ask,
         HearShow, HearApply, HearCreate, GiveUp, Finish, Conclude, Awaiting
<1>5. \A at : Goto(t, at) => \A u \in Threads \ {t} : pc'[u] = pc[u]
  BY <1>1 DEF Goto
<1>6. UNCHANGED <<backendVars, js, proposal, effect, pill>>
  BY DEF ThreadStep, Claim, Store, Intend, Check, AskShow, StartEdits, AskApply, StartFiles, AskCreate,
         HearShow, HearApply, HearCreate, GiveUp, Finish, storeVars
<1>7. pc[t] = "called" => Claim(t)
  BY <1>4 DEF Store
<1> QED BY <1>2, <1>3, <1>4, <1>5, <1>6, <1>7

LEMMA StillOpenThread ==
    ASSUME IInv, StillOpen, NEW t \in Threads, ThreadStep(t) PROVE StillOpen'
<1> SUFFICES ASSUME NEW u \in Threads, NEW p \in PlanIds, Carries(u, p)', pc'[u] # "store",
                    records'[p] # None, ~records'[p].interrupted
             PROVE  records'[p].state = "applying"
  BY DEF StillOpen
<1>1. pc'[u] \notin {"idle", "called"} /\ job'[u].plan = p
  BY DEF Carries
<1>2. CASE u # t
  <2>1. Carries(u, p) /\ pc[u] # "store"
    BY <1>1, <1>2, ThreadMoves DEF Carries
  <2>2. records'[p] \in {None, records[p]}
    <3>1. CASE records' = records
      BY <3>1
    <3>2. CASE records' # records
      <4>1. PICK o \in PlanIds : Writes(t, o)
        BY <3>2, ThreadWrites
      <4>2. p # o
        BY <1>2, <2>1, <4>1 DEF IInv, Claimed, Writes
      <4> QED BY <4>1, <4>2 DEF Writes
    <3> QED BY <3>1, <3>2
  <2> QED BY <2>1, <2>2 DEF StillOpen
<1>3. CASE u = t
  <2>1. job[t].plan = p /\ pc[t] # "idle" /\ pc[t] # "store"
    BY <1>1, <1>3, ThreadMoves
  <2>2. CASE records' = records
    <3>1. pc[t] # "called"
      BY <1>1, <1>3, <2>1, <2>2, ThreadMoves
    <3> QED BY <1>3, <2>1, <2>2, <3>1 DEF StillOpen, Carries
  <2>3. CASE records' # records
    <3>1. PICK o \in PlanIds : Writes(t, o)
      BY <2>3, ThreadWrites
    <3>2. o = p
      BY <2>1, <3>1 DEF Writes, Carries
    <3> QED BY <1>3, <3>1, <3>2 DEF Writes
  <2> QED BY <2>2, <2>3
<1> QED BY <1>2, <1>3

LEMMA StillOpenStep == ASSUME IInv, StillOpen, [Next]_vars PROVE StillOpen'
<1>1. ASSUME UNCHANGED <<pc, job>>,
             \A p \in PlanIds : records'[p] # None =>
                 /\ records[p] # None
                 /\ \/ records'[p].interrupted
                    \/ ~records[p].interrupted /\ records'[p].state = records[p].state
      PROVE  StillOpen'
  <2> SUFFICES ASSUME NEW t \in Threads, NEW p \in PlanIds, Carries(t, p)', pc'[t] # "store",
                      records'[p] # None, ~records'[p].interrupted
               PROVE  records'[p].state = "applying"
    BY DEF StillOpen
  <2>1. Carries(t, p) /\ pc[t] # "store"
    BY <1>1 DEF Carries
  <2>2. records[p] # None /\ ~records[p].interrupted /\ records'[p].state = records[p].state
    BY <1>1
  <2> QED BY <2>1, <2>2 DEF StillOpen
<1>2. CASE UNCHANGED <<pc, job, records>>
  BY <1>1, <1>2
<1>3. CASE \E t \in Threads : ThreadStep(t)
  BY <1>3, StillOpenThread
<1>4. CASE Crash
  BY <1>4 DEF Crash, StillOpen, Carries
<1>5. CASE TakeInterrupted
  <2>1. \A q \in PlanIds : /\ Recovered(q) # None => records[q] # None
                           /\ Recovered(q) # None /\ ~Recovered(q).interrupted =>
                                Recovered(q) = records[q]
    <3> SUFFICES ASSUME NEW q \in PlanIds, Recovered(q) # None
                 PROVE  records[q] # None /\ (~Recovered(q).interrupted => Recovered(q) = records[q])
      OBVIOUS
    <3>1. CASE ~Stranded(q) \/ Prunable(q)
      BY <3>1 DEF Recovered
    <3>2. CASE Stranded(q) /\ ~Prunable(q)
      <4>1. records[q] \in Rows
        BY <3>2 DEF Stranded, IInv, Types, TypeOK
      <4>2. Recovered(q).interrupted
        BY <3>2, <4>1 DEF Recovered, Rows
      <4> QED BY <3>2, <4>2 DEF Stranded
    <3> QED BY <3>1, <3>2
  <2>2. CASE UNCHANGED records
    BY <1>2, <1>5, <2>2 DEF TakeInterrupted, threadVars
  <2>3. CASE records' = [q \in PlanIds |->
                 IF Unreported(q) THEN [Recovered(q) EXCEPT !.reported = TRUE] ELSE Recovered(q)]
    <3>1. UNCHANGED <<pc, job>>
      BY <1>5 DEF TakeInterrupted, threadVars
    <3>2. ASSUME NEW p \in PlanIds, records'[p] # None
          PROVE  /\ records[p] # None
                 /\ \/ records'[p].interrupted
                    \/ ~records[p].interrupted /\ records'[p].state = records[p].state
      <4>1. CASE Unreported(p)
        <5>1. records'[p] = [Recovered(p) EXCEPT !.reported = TRUE]
          BY <2>3, <4>1
        <5>2. Recovered(p) # None /\ Recovered(p).interrupted
          BY <4>1 DEF Unreported
        <5>3. records[p] # None /\ proposal[p] # None /\ open # None /\ ~Prunable(p)
          BY <1>5, <2>1, <5>2 DEF IInv, Types, PlanShape, TakeInterrupted, Recovered
        <5>4. Recovered(p) \in Rows
          BY <5>3, RecoveredFacts
        <5> QED BY <5>1, <5>2, <5>3, <5>4 DEF Rows
      <4>2. CASE ~Unreported(p)
        BY <2>1, <2>3, <3>2, <4>2
      <4> QED BY <4>1, <4>2
    <3> QED BY <1>1, <3>1, <3>2
  <2> QED BY <1>5, <2>2, <2>3 DEF TakeInterrupted
<1>6. ASSUME NEW o \in PlanIds, RecordAges(o) PROVE StillOpen'
  <2>1. UNCHANGED <<pc, job>> /\ records' = [records EXCEPT ![o].old = TRUE] /\ records[o] # None
    BY <1>6 DEF RecordAges, threadVars
  <2>2. records \in [PlanIds -> Rows \cup {None}] /\ records[o] \in Rows
    BY <2>1 DEF IInv, Types, TypeOK
  <2> QED BY <1>1, <2>1, <2>2 DEF Rows
<1>7. ASSUME NEW t \in Threads, NEW o \in PlanIds, NEW who \in Principals \cup {Person}, Call(t, o, who)
      PROVE  StillOpen'
  <2>1. /\ pc[t] = "idle" /\ pc' = [pc EXCEPT ![t] = "called"] /\ UNCHANGED records
        /\ \E j : job' = [job EXCEPT ![t] = j]
    BY <1>7 DEF Call
  <2>2. \A u \in Threads, p \in PlanIds : Carries(u, p)' => Carries(u, p) /\ pc'[u] = pc[u]
    BY <2>1 DEF Carries, IInv, Types, TypeOK
  <2> QED BY <2>1, <2>2 DEF StillOpen
<1>8. (\E h \in Projects, ro \in BOOLEAN : OpenProject(h, ro)) \/ CloseProject \/ EditorReady
        \/ EditorLeaves \/ UNCHANGED vars => UNCHANGED <<pc, job, records>>
  BY DEF OpenProject, CloseProject, EditorReady, EditorLeaves, threadVars, vars
<1>9. (\E o \in PlanIds, a \in Principals, S \in Proposals : Propose(o, a, S))
        \/ (\E a \in Principals, S \in Proposals : ProposeNothing(a, S))
        \/ (\E o \in PlanIds : PlanAges(o) \/ Reject(o) \/ ShowPill(o))
        => UNCHANGED <<pc, job, records>>
  BY DEF Propose, ProposeNothing, PlanAges, Reject, ShowPill, threadVars
<1>10. (\E o \in PlanIds : proposal[o] # None /\ EditorStep(o)) => UNCHANGED <<pc, job, records>>
  BY DEF EditorStep, EditorRefuses, EditorIgnores, EditorShows, EditorApplies, EditorBeginsFiles,
         EditorAnswersFiles, EditorFails, EditorSkipsFile, EditorCreatesFile, FileAnswered, threadVars
<1> QED BY <1>2, <1>3, <1>4, <1>5, <1>6, <1>7, <1>8, <1>9, <1>10 DEF Next

----------------------------------------------------------------------------
(* The receipt of every operation is kept *)

acted == [p \in PlanIds |-> {c \in Changes : effect[p][c] # <<>>}]
told  == [p \in PlanIds |-> [c \in Changes |-> Word(p, c)]]
Receipted == [Receipts!Next]_<<acted, told>>

(* What is told of an open record is told truly, from then on. *)
LEMMA OpenTellsTrue ==
    ASSUME IInv, IInv', NEW p \in PlanIds, records[p] # None, records'[p] # None,
           proposal' = proposal, effect' = effect,
           records[p].state = "applying", ThisOpen(p), NEW c \in Changes
    PROVE  Receipts!Honest(Word(p, c), Word(p, c)', effect[p][c] # <<>>)
<1>1. /\ proposal[p] # None /\ DOMAIN records[p].phase = Contents(p)
      /\ DOMAIN records'[p].phase = Contents(p)
  BY DEF IInv, Types, PlanShape, Contents
<1>2. CASE c \notin Contents(p)
  BY <1>1, <1>2 DEF Word, Receipts!Honest
<1>3. CASE c \in Contents(p)
  <2>1. Word(p, c) = "open"
    BY <1>1, <1>3 DEF Word
  <2>2. PICK rec, U : rec = records'[p] /\ U = Untouched(p)'
    OBVIOUS
  <2>3. /\ RecordTrue(rec, Contents(p), Happened(p), U)
        /\ rec # None /\ rec.phase \in [Contents(p) -> Phases] /\ rec.outcome \in [Contents(p) -> Known]
    <3>1. Contents(p)' = Contents(p) /\ Happened(p)' = Happened(p)
      BY DEF Contents, Happened
    <3>2. PlanIsTrue(p)'
      BY DEF IInv, Truths
    <3>3. RecordTrue(rec, Contents(p), Happened(p), U)
      BY <1>1, <2>2, <3>1, <3>2 DEF PlanIsTrue
    <3>4. rec \in Rows
      BY <2>2 DEF IInv, Types, TypeOK
    <3>5. DOMAIN rec.phase = Contents(p) /\ DOMAIN rec.outcome = Contents(p)
      BY <2>2, <3>1 DEF IInv, Types, PlanShape
    <3> QED BY <2>2, <3>3, <3>4, <3>5, VectorOf DEF Rows
  <2>4. c \in U => effect[p][c] = <<>>
    BY <1>3, <2>2 DEF Untouched, Happened, Contents
  <2>5. c \in Happened(p) => effect[p][c] # <<>>
    BY DEF Happened
  <2>6. Word(p, c)' \in {"open", IF Landed(rec.outcome[c]) THEN "landed"
                                 ELSE IF Uncertain(rec, c) /\ rec.state # "failed" THEN "maybe" ELSE "not"}
    BY <1>1, <1>3, <2>2 DEF Word
  <2>7. Landed(rec.outcome[c]) => effect[p][c] # <<>>
    BY <1>3, <2>3, <2>5 DEF RecordTrue, True
  <2>8. ~Landed(rec.outcome[c]) /\ ~(Uncertain(rec, c) /\ rec.state # "failed") => effect[p][c] = <<>>
    <3>1. rec.state = "failed" => c \in U
      BY <1>3, <2>3 DEF RecordTrue, True
    <3>2. ~Landed(rec.outcome[c]) /\ ~Uncertain(rec, c) => c \in U
      BY <1>3, <2>3 DEF RecordTrue, True, Covered, Uncertain, Phases
    <3> QED BY <2>4, <3>1, <3>2
  <2> QED BY <2>1, <2>6, <2>7, <2>8 DEF Receipts!Honest
<1> QED BY <1>2, <1>3

(* A word once settled is repeated for as long as the record says the same. *)
LEMMA SettledRepeats ==
    ASSUME NEW p \in PlanIds, records[p] # None, records'[p] # None,
           records'[p].phase = records[p].phase, records'[p].outcome = records[p].outcome,
           records'[p].state = records[p].state,
           records[p].state = "applying" => (ThisOpen(p)' <=> ThisOpen(p))
    PROVE  \A c \in Changes : Word(p, c)' = Word(p, c)
BY DEF Word, Uncertain

(* A receipt is let go, or everything it says is honest: the reader is told. *)
TellsOf(p) ==
    \/ records'[p] = None
    \/ \A c \in Changes : Receipts!Honest(Word(p, c), Word(p, c)', effect[p][c] # <<>>)

LEMMA WordIsWord == ASSUME NEW p, NEW c PROVE Word(p, c) \in Receipts!Words /\ Word(p, c)' \in Receipts!Words
BY DEF Word, Receipts!Words

LEMMA Tells ==
    ASSUME IInv, effect' = effect, \A p \in PlanIds : TellsOf(p)
    PROVE  Receipted
<1>1. acted' = acted
  BY DEF acted
<1>2. told' \in [PlanIds -> [Changes -> Receipts!Words]]
  BY WordIsWord DEF told
<1>3. ASSUME NEW p \in PlanIds
      PROVE  \/ \A c \in Changes : told'[p][c] = "none"
             \/ \A c \in Changes : Receipts!Honest(told[p][c], told'[p][c], c \in acted[p])
  <2>1. CASE records'[p] = None
    <3>1. \A c \in Changes : Word(p, c)' = "none"
      BY <2>1 DEF Word
    <3> QED BY <3>1 DEF told
  <2>2. CASE \A c \in Changes : Receipts!Honest(Word(p, c), Word(p, c)', effect[p][c] # <<>>)
    <3>1. \A c \in Changes : /\ told[p][c] = Word(p, c) /\ told'[p][c] = Word(p, c)'
                             /\ (c \in acted[p]) = (effect[p][c] # <<>>)
      BY DEF told, acted
    <3> QED BY <2>2, <3>1
  <2> QED BY <2>1, <2>2 DEF TellsOf
<1>4. Receipts!Tell
  BY <1>1, <1>2, <1>3 DEF Receipts!Tell, acted, told
<1> QED BY <1>4 DEF Receipted, Receipts!Next

LEMMA NothingTold ==
    ASSUME UNCHANGED <<records, effect, open>>,
           \A p \in PlanIds : records[p] # None => proposal'[p] = proposal[p]
    PROVE  Receipted
<1>1. \A p \in PlanIds, c \in Changes : Word(p, c)' = Word(p, c)
  BY DEF Word, ThisOpen, Uncertain
<1> QED BY <1>1 DEF Receipted, acted, told

LEMMA OpensTell ==
    ASSUME IInv, IInv', UNCHANGED <<records, effect, proposal>>,
           \A p \in PlanIds : proposal[p] # None /\ ThisOpen(p)' => ThisOpen(p)
    PROVE  Receipted
<1>1. ASSUME NEW p \in PlanIds, records[p] # None PROVE TellsOf(p)
  <2>1. CASE records[p].state = "applying" /\ ThisOpen(p)
    BY <1>1, <2>1, OpenTellsTrue DEF TellsOf
  <2>2. CASE ~(records[p].state = "applying" /\ ThisOpen(p))
    <3>1. proposal[p] # None
      BY <1>1 DEF IInv, Types, PlanShape
    <3>2. \A c \in Changes : Word(p, c)' = Word(p, c)
      BY <1>1, <2>2, <3>1, SettledRepeats
    <3> QED BY <3>2 DEF TellsOf, Receipts!Honest
  <2> QED BY <2>1, <2>2
<1>2. \A p \in PlanIds : TellsOf(p)
  BY <1>1 DEF TellsOf
<1> QED BY <1>2, Tells

LEMMA TakesTell == ASSUME IInv, IInv', TakeInterrupted PROVE Receipted
<1>1. /\ open # None /\ UNCHANGED <<open, proposal, effect>>
      /\ \/ UNCHANGED records
         \/ records' = [q \in PlanIds |->
                IF Unreported(q) THEN [Recovered(q) EXCEPT !.reported = TRUE] ELSE Recovered(q)]
  BY DEF TakeInterrupted, storeVars
<1>2. CASE UNCHANGED records
  BY <1>1, <1>2, NothingTold
<1>3. CASE records' = [q \in PlanIds |->
               IF Unreported(q) THEN [Recovered(q) EXCEPT !.reported = TRUE] ELSE Recovered(q)]
  <2>1. ASSUME NEW p \in PlanIds, records'[p] # None PROVE TellsOf(p)
    <3>1. ~Prunable(p) /\ records[p] # None
      BY <1>3, <2>1 DEF Recovered, Stranded, Unreported
    <3>2. proposal[p] # None /\ records[p] \in Rows
          /\ records[p].phase \in [Contents(p) -> Phases] /\ records[p].outcome \in [Contents(p) -> Known]
      BY <3>1, PlanTyped DEF IInv, Types, PlanShape, TypeOK
    <3>3. PICK rec : rec = Recovered(p)
      OBVIOUS
    <3>4. rec \in Rows
      BY <1>1, <3>1, <3>2, <3>3, RecoveredFacts
    <3>5. records'[p].phase = rec.phase /\ records'[p].outcome = rec.outcome
          /\ records'[p].state = rec.state
      BY <1>3, <3>3, <3>4 DEF Rows
    <3>6. ThisOpen(p)' = ThisOpen(p)
      BY <1>1 DEF ThisOpen
    <3>7. CASE records[p].state = "applying" /\ ThisOpen(p)
      BY <1>1, <2>1, <3>1, <3>7, OpenTellsTrue DEF TellsOf
    <3>8. CASE ~(records[p].state = "applying" /\ ThisOpen(p)) /\ ~Stranded(p)
      <4>1. rec = records[p]
        BY <3>1, <3>3, <3>8 DEF Recovered
      <4>2. \A c \in Changes : Word(p, c)' = Word(p, c)
        BY <2>1, <3>1, <3>5, <3>6, <4>1, SettledRepeats
      <4> QED BY <4>2 DEF TellsOf, Receipts!Honest
    <3>9. CASE ~(records[p].state = "applying" /\ ThisOpen(p)) /\ Stranded(p)
      <4>1. PICK out, st : out = SettledOutcome(records[p]) /\ st = InterruptedState(records[p])
        OBVIOUS
      <4>2. rec.outcome = out /\ rec.state = st /\ rec.phase = records[p].phase
        BY <3>1, <3>2, <3>3, <3>9, <4>1 DEF Recovered, Rows
      <4>3. records[p].state = "applying" /\ ~ThisOpen(p) /\ ~ThisOpen(p)'
        BY <3>6, <3>9 DEF Stranded
      <4>4. ASSUME NEW c \in Changes PROVE Word(p, c)' = Word(p, c)
        <5>1. CASE c \notin Contents(p)
          BY <2>1, <3>1, <3>2, <3>5, <4>2, <5>1 DEF Word
        <5>2. CASE c \in Contents(p)
          <6>1. out[c] = IF records[p].outcome[c] = Pending /\ records[p].phase[c] = "intended"
                         THEN "ready" ELSE records[p].outcome[c]
            BY <3>2, <4>1, <5>2 DEF SettledOutcome
          <6>2. Landed(out[c]) <=> Landed(records[p].outcome[c])
            BY <6>1 DEF Landed, Pending
          <6>3. records[p].phase[c] = "started" /\ out[c] = Pending <=> Uncertain(records[p], c)
            BY <3>2, <5>2, <6>1 DEF Uncertain, Pending
          <6>4. Uncertain(records[p], c) => st # "failed"
            BY <3>2, <4>1, <5>2 DEF InterruptedState
          <6>5. Word(p, c) = IF Landed(records[p].outcome[c]) THEN "landed"
                             ELSE IF Uncertain(records[p], c) THEN "maybe" ELSE "not"
            BY <3>1, <3>2, <4>3, <5>2 DEF Word
          <6>6. Word(p, c)' = IF Landed(out[c]) THEN "landed"
                              ELSE IF records[p].phase[c] = "started" /\ out[c] = Pending /\ st # "failed"
                                   THEN "maybe" ELSE "not"
            BY <2>1, <3>2, <3>5, <4>2, <4>3, <5>2 DEF Word, Uncertain
          <6> QED BY <6>2, <6>3, <6>4, <6>5, <6>6
        <5> QED BY <5>1, <5>2
      <4> QED BY <4>4 DEF TellsOf, Receipts!Honest
    <3> QED BY <3>7, <3>8, <3>9
  <2>2. \A p \in PlanIds : TellsOf(p)
    BY <2>1 DEF TellsOf
  <2> QED BY <1>1, <2>2, Tells
<1> QED BY <1>1, <1>2, <1>3

LEMMA AgesTells == ASSUME IInv, IInv', NEW o \in PlanIds, RecordAges(o) PROVE Receipted
<1>1. /\ records' = [records EXCEPT ![o].old = TRUE] /\ records[o] # None
      /\ UNCHANGED <<open, proposal, effect>>
  BY DEF RecordAges, backendVars, storeVars
<1>2. records \in [PlanIds -> Rows \cup {None}] /\ records[o] \in Rows
  BY <1>1 DEF IInv, Types, TypeOK
<1>3. ASSUME NEW p \in PlanIds, records'[p] # None PROVE TellsOf(p)
  <2>1. /\ records[p] # None /\ records'[p].phase = records[p].phase
        /\ records'[p].outcome = records[p].outcome /\ records'[p].state = records[p].state
    BY <1>1, <1>2, <1>3 DEF Rows
  <2>2. ThisOpen(p)' = ThisOpen(p)
    BY <1>1 DEF ThisOpen
  <2>3. \A c \in Changes : Word(p, c)' = Word(p, c)
    BY <1>3, <2>1, <2>2, SettledRepeats
  <2> QED BY <2>3 DEF TellsOf, Receipts!Honest
<1>4. \A p \in PlanIds : TellsOf(p)
  BY <1>3 DEF TellsOf
<1> QED BY <1>1, <1>4, Tells

(* A thread that writes a record tells of it, or begins it: nothing was done yet. *)
LEMMA ThreadTells ==
    ASSUME IInv, IInv', StillOpen, OwnEffects, NEW t \in Threads, ThreadStep(t)
    PROVE  Receipted
<1>1. UNCHANGED <<open, proposal, effect, pill>>
  BY ThreadMoves DEF backendVars
<1>2. CASE records' = records
  BY <1>1, <1>2, NothingTold
<1>3. CASE records' # records
  <2>1. PICK o \in PlanIds : Writes(t, o)
    BY <1>3, ThreadWrites
  <2>2. /\ Carries(t, o) /\ pc[t] \in {"claimed", "start", "startFiles", "finish"} /\ pc[t] # "store"
        /\ ThisOpen(o) /\ \A p \in PlanIds \ {o} : records'[p] \in {None, records[p]}
        /\ records'[o] # None
    BY <2>1 DEF Writes
  <2>3. \A p \in PlanIds : ThisOpen(p)' = ThisOpen(p)
    BY <1>1 DEF ThisOpen
  <2>4. ASSUME NEW p \in PlanIds \ {o}
        PROVE  records'[p] = None \/ \A c \in Changes : Word(p, c)' = Word(p, c)
    <3>1. CASE records'[p] = None
      BY <3>1
    <3>2. CASE records'[p] = records[p]
      BY <2>3, <3>2 DEF Word, Uncertain
    <3> QED BY <2>2, <3>1, <3>2
  <2>5. CASE records[o] # None
    <3>1. records[o].state = "applying"
      BY <2>2, <2>5 DEF StillOpen, IInv, Closed
    <3>2. TellsOf(o)
      BY <1>1, <2>2, <2>5, <3>1, OpenTellsTrue DEF TellsOf
    <3>3. \A p \in PlanIds \ {o} : TellsOf(p)
      BY <2>4 DEF TellsOf, Receipts!Honest
    <3> QED BY <1>1, <3>2, <3>3, Tells
  <2>6. CASE records[o] = None
    <3>1. o = job[t].plan /\ pc[t] \notin {"idle", "called"}
      BY <2>2 DEF Carries
    <3>2. /\ Stage(pc[t], journal[t], verdict[t], records[o], req[o],
                   Buffer(o), Creates(o), Happened(o), Untouched(o))
          /\ proposal[o] # None /\ Contents(o) = Buffer(o) \cup Creates(o)
          /\ Happened(o) \subseteq Contents(o) /\ Happened(o) \cap Untouched(o) = {}
      BY <3>1, CarrierFacts
    <3>3. \/ pc[t] = "claimed"
          \/ pc[t] = "finish" /\ verdict[t].state = "failed"
      BY <2>2, <2>6, <3>2 DEF Stage, BeforeEdits, AfterEdits
    <3>4. Happened(o) = {}
      BY <3>2, <3>3 DEF Stage, BeforeEdits, Awaiting, True
    <3>5. acted[o] = {}
      BY <3>4 DEF acted, OwnEffects, Happened
    <3>6. told[o] = Receipts!Blank
      BY <2>6 DEF told, Word, Receipts!Blank
    <3>7. \A c \in Changes : Word(o, c)' \in {"none", "open", "not"}
      <4>1. CASE pc[t] = "claimed"
        <5>1. records'[o].state = "applying"
          BY <2>1, <4>1 DEF Writes
        <5> QED BY <2>2, <2>3, <5>1 DEF Word
      <4>2. CASE pc[t] = "finish" /\ verdict[t].state = "failed"
        <5>1. records'[o].state = "failed"
          BY <2>1, <4>2 DEF Writes
        <5>2. PICK rec, U : rec = records'[o] /\ U = Untouched(o)'
          OBVIOUS
        <5>3. Contents(o)' = Contents(o) /\ Happened(o)' = {}
          BY <1>1, <3>4 DEF Contents, Happened
        <5>4. True(rec.state, rec.outcome, Contents(o), {}, U)
          BY <1>1, <2>2, <3>2, <5>2, <5>3 DEF IInv, Truths, PlanIsTrue, RecordTrue
        <5>5. \A c \in Contents(o) : ~Landed(rec.outcome[c])
          BY <5>4 DEF True
        <5>6. DOMAIN rec.phase = Contents(o)
          BY <2>2, <5>2, <5>3 DEF IInv, Types, PlanShape
        <5> QED BY <2>2, <5>1, <5>2, <5>5, <5>6 DEF Word
      <4> QED BY <3>3, <4>1, <4>2
    <3>8. acted' = acted
      BY <1>1 DEF acted
    <3>9. PICK words, gone : /\ words = [c \in Changes |-> Word(o, c)']
                             /\ gone = {p \in PlanIds : records'[p] = None}
      OBVIOUS
    <3>10. words \in [Changes -> {"none", "open", "not"}] /\ gone \in SUBSET PlanIds
      BY <3>7, <3>9
    <3>11. told' = [p \in PlanIds |->
                      IF p = o THEN words ELSE IF p \in gone THEN Receipts!Blank ELSE told[p]]
      <4>1. ASSUME NEW p \in PlanIds
            PROVE  told'[p] = IF p = o THEN words ELSE IF p \in gone THEN Receipts!Blank ELSE told[p]
        <5>1. CASE p = o
          BY <3>9, <5>1 DEF told
        <5>2. CASE p # o /\ p \in gone
          <6>1. \A c \in Changes : Word(p, c)' = "none"
            BY <3>9, <5>2 DEF Word
          <6> QED BY <5>2, <6>1 DEF told, Receipts!Blank
        <5>3. CASE p # o /\ p \notin gone
          <6>1. \A c \in Changes : Word(p, c)' = Word(p, c)
            BY <2>4, <3>9, <5>3
          <6> QED BY <5>3, <6>1 DEF told
        <5> QED BY <5>1, <5>2, <5>3
      <4> QED BY <4>1 DEF told
    <3>12. Receipts!Begin(o)
      BY <3>5, <3>6, <3>8, <3>10, <3>11 DEF Receipts!Begin, acted, told
    <3> QED BY <3>12 DEF Receipted, Receipts!Next
  <2> QED BY <2>5, <2>6
<1> QED BY <1>2, <1>3

(* The live changes S of plan p take effect: each was told as open, or as one that may. *)
LEMMA ActsTell ==
    ASSUME IInv, NEW p \in PlanIds, proposal[p] # None, req[p] # None,
           UNCHANGED <<records, open, proposal>>,
           NEW S \in SUBSET Changes, S \cap Happened(p) = {},
           S \subseteq LiveIn(req[p], Buffer(p), Creates(p)),
           DOMAIN effect' = PlanIds, \A o \in PlanIds \ {p} : effect'[o] = effect[o],
           \A c \in Changes : effect'[p][c] # <<>> <=> effect[p][c] # <<>> \/ c \in S
    PROVE  Receipted
<1>1. /\ records[p] # None
      /\ RecordTrue(records[p], Contents(p), Happened(p), Untouched(p))
      /\ records[p].phase \in [Contents(p) -> Phases]
      /\ Contents(p) = Buffer(p) \cup Creates(p)
  BY PlanTyped DEF IInv, Truths, PlanIsTrue, RequestTrue
<1>2. S \subseteq Contents(p)
  BY <1>1 DEF LiveIn
<1>3. ASSUME NEW c \in S PROVE Word(p, c) \in {"open", "maybe"} /\ effect[p][c] = <<>>
  <2>1. c \in Contents(p) /\ c \notin Happened(p) /\ c \notin Untouched(p)
    BY <1>2 DEF Untouched
  <2>2. Uncertain(records[p], c) /\ ~Landed(records[p].outcome[c]) /\ records[p].state # "failed"
    BY <1>1, <2>1 DEF RecordTrue, True, Covered, Uncertain, Phases
  <2>3. effect[p][c] = <<>>
    BY <2>1 DEF Happened
  <2> QED BY <1>1, <2>1, <2>2, <2>3 DEF Word
<1>4. told' = told
  <2>1. \A o \in PlanIds, c \in Changes : Word(o, c)' = Word(o, c)
    BY DEF Word, ThisOpen, Uncertain
  <2> QED BY <2>1 DEF told
<1>5. acted' = [acted EXCEPT ![p] = @ \cup S]
  <2>1. acted'[p] = acted[p] \cup S /\ \A o \in PlanIds \ {p} : acted'[o] = acted[o]
    BY DEF acted
  <2>2. acted' = [o \in PlanIds |-> acted'[o]] /\ acted = [o \in PlanIds |-> acted[o]]
    BY DEF acted
  <2>3. \A o \in PlanIds : acted'[o] = [acted EXCEPT ![p] = @ \cup S][o]
    BY <2>1, <2>2
  <2> QED BY <2>2, <2>3
<1>6. S \cap acted[p] = {} /\ \A c \in S : told[p][c] \in {"open", "maybe"}
  BY <1>3 DEF acted, told
<1>7. CASE S = {}
  <2>1. acted' = acted
    BY <1>5, <1>7 DEF acted
  <2> QED BY <1>4, <2>1 DEF Receipted
<1>8. CASE S # {}
  <2>1. Receipts!Act(p)
    BY <1>4, <1>5, <1>6, <1>8 DEF Receipts!Act, acted, told
  <2> QED BY <2>1 DEF Receipted, Receipts!Next
<1> QED BY <1>7, <1>8

(* What a step of the editor takes into effect: live changes of one plan. *)
EffectsFrom(p, S) ==
    /\ S \cap Happened(p) = {} /\ S \subseteq LiveIn(req[p], Buffer(p), Creates(p))
    /\ DOMAIN effect' = PlanIds /\ \A o \in PlanIds \ {p} : effect'[o] = effect[o]
    /\ \A c \in Changes : effect'[p][c] # <<>> <=> effect[p][c] # <<>> \/ c \in S

LEMMA EditorEffects ==
    ASSUME IInv, NEW p \in PlanIds, proposal[p] # None, EditorStep(p), effect' # effect
    PROVE  /\ req[p] # None /\ UNCHANGED <<records, open, proposal>>
           /\ \E S \in SUBSET Changes : EffectsFrom(p, S)
<1>1. Contents(p) \in SUBSET Changes /\ Contents(p) = Buffer(p) \cup Creates(p)
  BY PlanTyped DEF IInv
<1>2. ASSUME EditorApplies(p)
      PROVE  /\ req[p] # None /\ UNCHANGED <<records, open, proposal>>
             /\ \E S \in SUBSET Changes : EffectsFrom(p, S)
  <2>1. /\ req[p] # None /\ req[p].op = "apply" /\ req[p].status = "sent" /\ Current(p)
        /\ UNCHANGED <<records, open, proposal>> /\ UNCHANGED storeVars
    BY <1>2 DEF EditorApplies, Asked, backendVars, storeVars
  <2>2. PICK S \in SUBSET Buffer(p) : Lands(p, S)
    BY <1>2 DEF EditorApplies
  <2>3. Happened(p) = {} /\ LiveIn(req[p], Buffer(p), Creates(p)) = Buffer(p)
    BY <2>1, EditorFacts DEF RequestTrue, LiveIn
  <2>4. /\ effect' \in [PlanIds -> [Changes -> Seq(Projects)]]
        /\ \A o \in PlanIds \ {p} : effect'[o] = effect[o]
    <3>1. S \in SUBSET Contents(p)
      BY <1>1
    <3> QED BY <2>1, <2>2, <2>3, <3>1, LandsFacts
  <2>5. \A c \in Changes : effect'[p][c] # <<>> <=> effect[p][c] # <<>> \/ c \in S
    <3>1. effect \in [PlanIds -> [Changes -> Seq(Projects)]]
      BY DEF IInv, Types, TypeOK
    <3>2. \A c \in Changes : effect'[p][c] = IF c \in S THEN Append(effect[p][c], js.home) ELSE effect[p][c]
      BY <2>2, <3>1 DEF Lands
    <3>3. \A c \in Changes : Append(effect[p][c], js.home) # <<>>
      <4>1. js.home \in Projects
        BY <2>1, EditorFacts DEF Opens
      <4>2. \A c \in Changes : effect[p][c] \in Seq(Projects)
        BY <3>1
      <4> QED BY <4>1, <4>2
    <3> QED BY <3>2, <3>3
  <2> QED BY <1>1, <2>1, <2>3, <2>4, <2>5 DEF EffectsFrom
<1>3. ASSUME NEW d \in Creates(p), FileAnswered(p, d)
      PROVE  /\ req[p] # None /\ UNCHANGED <<records, open, proposal>>
             /\ \E S \in SUBSET Changes : EffectsFrom(p, S)
  <2>1. /\ Asked(p, "create", "working") /\ req[p].ans[d] = "creating"
        /\ effect' = [effect EXCEPT ![p][d] = Append(@, req[p].root)]
        /\ UNCHANGED <<records, open, proposal>> /\ req[p] # None
    BY <1>3 DEF FileAnswered, Asked, backendVars, storeVars
  <2>2. d \notin Happened(p) /\ req[p].root = Home(p) /\ Home(p) \in Projects
        /\ d \in LiveIn(req[p], Buffer(p), Creates(p))
    BY <2>1, FilesInHand
  <2>3. effect \in [PlanIds -> [Changes -> Seq(Projects)]] /\ d \in Changes
    BY <1>1 DEF IInv, Types, TypeOK
  <2>4. effect[p][d] = <<>>
    BY <1>1, <2>2 DEF Happened
  <2>5. effect' = [effect EXCEPT ![p][d] = <<Home(p)>>] /\ <<Home(p)>> # <<>>
    BY <2>1, <2>2, <2>3, <2>4
  <2>6. /\ DOMAIN effect' = PlanIds /\ \A o \in PlanIds \ {p} : effect'[o] = effect[o]
        /\ \A c \in Changes : effect'[p][c] # <<>> <=> effect[p][c] # <<>> \/ c \in {d}
    BY <2>3, <2>5
  <2>7. {d} \in SUBSET Changes /\ EffectsFrom(p, {d})
    BY <2>2, <2>3, <2>6 DEF EffectsFrom
  <2> QED BY <2>1, <2>7
<1> QED BY <1>2, <1>3
        DEF EditorStep, EditorRefuses, EditorIgnores, EditorShows, EditorBeginsFiles,
            EditorAnswersFiles, EditorFails, EditorSkipsFile, EditorCreatesFile

LEMMA EditorTells ==
    ASSUME IInv, NEW p \in PlanIds, proposal[p] # None, EditorStep(p) PROVE Receipted
<1>1. CASE effect' = effect
  <2>1. UNCHANGED <<records, open, proposal>>
    BY DEF EditorStep, EditorRefuses, EditorIgnores, EditorShows, EditorApplies, EditorBeginsFiles,
           EditorAnswersFiles, EditorFails, EditorSkipsFile, EditorCreatesFile, FileAnswered,
           backendVars, storeVars
  <2> QED BY <1>1, <2>1, NothingTold
<1>2. CASE effect' # effect
  BY <1>2, EditorEffects, ActsTell DEF EffectsFrom
<1> QED BY <1>1, <1>2

LEMMA OwnEffectsStep == ASSUME IInv, OwnEffects, [Next]_vars PROVE OwnEffects'
<1>1. ASSUME UNCHANGED effect, \A p \in PlanIds : proposal[p] # None => proposal'[p] = proposal[p]
      PROVE  OwnEffects'
  BY <1>1 DEF OwnEffects, Contents
<1>2. ASSUME NEW p \in PlanIds, proposal[p] # None, EditorStep(p), effect' # effect PROVE OwnEffects'
  <2>1. PICK S \in SUBSET Changes : EffectsFrom(p, S)
    BY <1>2, EditorEffects
  <2>2. UNCHANGED proposal
    BY <1>2, EditorEffects
  <2>3. S \subseteq Contents(p)
    <3>1. Contents(p) = Buffer(p) \cup Creates(p)
      BY <1>2, PlanTyped DEF IInv
    <3> QED BY <2>1, <3>1 DEF EffectsFrom, LiveIn
  <2>4. \A o \in PlanIds : Contents(o)' = Contents(o)
    BY <2>2 DEF Contents
  <2> SUFFICES ASSUME NEW o \in PlanIds, NEW c \in Changes, effect'[o][c] # <<>>
               PROVE  proposal'[o] # None /\ c \in Contents(o)'
    BY DEF OwnEffects
  <2>5. CASE o = p
    BY <1>2, <2>1, <2>2, <2>3, <2>4, <2>5 DEF EffectsFrom, OwnEffects
  <2>6. CASE o # p
    BY <2>1, <2>2, <2>4, <2>6 DEF EffectsFrom, OwnEffects
  <2> QED BY <2>5, <2>6
<1>3. ASSUME NEW p \in PlanIds, NEW a \in Principals, NEW S \in Proposals, Propose(p, a, S)
      PROVE  OwnEffects'
  <2>1. UNCHANGED effect /\ \A o \in PlanIds : proposal[o] # None => proposal'[o] = proposal[o]
    BY <1>3 DEF Propose, IInv, Types, TypeOK
  <2> QED BY <1>1, <2>1
<1>4. ASSUME NEW t \in Threads, ThreadStep(t) PROVE OwnEffects'
  BY <1>1, <1>4, ThreadMoves
<1>5. ASSUME NEW p \in PlanIds, proposal[p] # None, EditorStep(p), effect' = effect PROVE OwnEffects'
  <2>1. UNCHANGED proposal
    BY <1>5 DEF EditorStep, EditorRefuses, EditorIgnores, EditorShows, EditorApplies, EditorBeginsFiles,
           EditorAnswersFiles, EditorFails, EditorSkipsFile, EditorCreatesFile, FileAnswered, storeVars
  <2> QED BY <1>1, <1>5, <2>1
<1>6. (\E h \in Projects, ro \in BOOLEAN : OpenProject(h, ro)) \/ CloseProject \/ EditorReady
        \/ EditorLeaves \/ Crash \/ TakeInterrupted \/ UNCHANGED vars => UNCHANGED <<effect, proposal>>
  BY DEF OpenProject, CloseProject, EditorReady, EditorLeaves, Crash, TakeInterrupted, storeVars, vars
<1>7. (\E a \in Principals, S \in Proposals : ProposeNothing(a, S))
        \/ (\E o \in PlanIds : PlanAges(o) \/ Reject(o) \/ ShowPill(o) \/ RecordAges(o))
        \/ (\E t \in Threads, o \in PlanIds, who \in Principals \cup {Person} : Call(t, o, who))
        => UNCHANGED <<effect, proposal>>
  BY DEF ProposeNothing, PlanAges, Reject, ShowPill, RecordAges, Call, storeVars
<1> QED BY <1>1, <1>2, <1>3, <1>4, <1>5, <1>6, <1>7 DEF Next

LEMMA ReceiptStep ==
    ASSUME IInv, IInv', StillOpen, OwnEffects, [Next]_vars PROVE Receipted
<1>1. ASSUME NEW h \in Projects, NEW ro \in BOOLEAN, OpenProject(h, ro) PROVE Receipted
  <2>1. UNCHANGED <<records, effect, proposal>>
        /\ open' = [run |-> run, epoch |-> nextEpoch, home |-> h, ro |-> ro]
    BY <1>1 DEF OpenProject, storeVars
  <2>2. \A p \in PlanIds : proposal[p] # None => ~ThisOpen(p)'
    <3>1. open'.run = run /\ open'.epoch = nextEpoch
      BY <2>1
    <3>2. \A p \in PlanIds : proposal[p] # None =>
              /\ proposal[p].open.epoch \in Nat
              /\ proposal[p].open.run = run => proposal[p].open.epoch < nextEpoch
      BY PlanTyped DEF IInv, Minted, Past, Proposed, Opens
    <3>3. nextEpoch \in Nat
      BY DEF IInv, Types, TypeOK
    <3> QED BY <2>1, <3>1, <3>2, <3>3 DEF ThisOpen
  <2> QED BY <2>1, <2>2, OpensTell
<1>2. CASE CloseProject \/ Crash
  <2>1. UNCHANGED <<records, effect, proposal>> /\ open' = None
    BY <1>2 DEF CloseProject, Crash, storeVars
  <2>2. \A p \in PlanIds : ~ThisOpen(p)'
    BY <2>1 DEF ThisOpen
  <2> QED BY <2>1, <2>2, OpensTell
<1>3. CASE TakeInterrupted
  BY <1>3, TakesTell
<1>4. ASSUME NEW p \in PlanIds, RecordAges(p) PROVE Receipted
  BY <1>4, AgesTells
<1>5. ASSUME NEW t \in Threads, ThreadStep(t) PROVE Receipted
  BY <1>5, ThreadTells
<1>6. ASSUME NEW p \in PlanIds, proposal[p] # None, EditorStep(p) PROVE Receipted
  BY <1>6, EditorTells
<1>7. ASSUME NEW p \in PlanIds, NEW a \in Principals, NEW S \in Proposals, Propose(p, a, S)
      PROVE  Receipted
  <2>1. UNCHANGED <<records, effect, open>> /\ proposal[p] = None
        /\ \A o \in PlanIds \ {p} : proposal'[o] = proposal[o]
    BY <1>7 DEF Propose, backendVars, IInv, Types, TypeOK
  <2>2. records[p] = None
    BY <2>1 DEF IInv, Types, PlanShape
  <2> QED BY <2>1, <2>2, NothingTold
<1>8. CASE UNCHANGED <<records, effect, open, proposal>>
  BY <1>8, NothingTold
<1>9. EditorReady \/ EditorLeaves \/ UNCHANGED vars => UNCHANGED <<records, effect, open, proposal>>
  BY DEF EditorReady, EditorLeaves, backendVars, storeVars, vars
<1>10. (\E a \in Principals, S \in Proposals : ProposeNothing(a, S))
        \/ (\E o \in PlanIds : PlanAges(o) \/ Reject(o) \/ ShowPill(o))
        \/ (\E t \in Threads, o \in PlanIds, who \in Principals \cup {Person} : Call(t, o, who))
        => UNCHANGED <<records, effect, open, proposal>>
  BY DEF ProposeNothing, PlanAges, Reject, ShowPill, Call, backendVars, storeVars
<1> QED BY <1>1, <1>2, <1>3, <1>4, <1>5, <1>6, <1>7, <1>8, <1>9, <1>10 DEF Next

(* The operations keep every promise of the abstract receipt: no change takes     *)
(* effect before its operation is recorded, what a reader is told of a change     *)
(* stays true, and nothing takes effect twice.                                    *)
THEOREM ReceiptsKept == Spec => KeepsReceipts
<1>1. Init => StillOpen /\ OwnEffects /\ Receipts!Init
  <2> SUFFICES ASSUME Init PROVE StillOpen /\ OwnEffects /\ Receipts!Init
    OBVIOUS
  <2>1. /\ pc = [t \in Threads |-> "idle"] /\ records = [p \in PlanIds |-> None]
        /\ effect = [p \in PlanIds |-> [c \in Changes |-> <<>>]]
    BY DEF Init
  <2>2. StillOpen /\ OwnEffects
    BY <2>1 DEF StillOpen, OwnEffects, Carries
  <2>3. /\ \A p \in PlanIds, c \in Changes : Word(p, c) = "none"
        /\ \A p \in PlanIds : {c \in Changes : effect[p][c] # <<>>} = {}
    BY <2>1 DEF Word
  <2>4. Receipts!Init
    BY <2>3 DEF Receipts!Init
  <2> QED BY <2>2, <2>4
<1>2. IInv /\ IInv' /\ StillOpen /\ OwnEffects /\ [Next]_vars
        => StillOpen' /\ OwnEffects' /\ [Receipts!Next]_<<acted, told>>
  BY StillOpenStep, OwnEffectsStep, ReceiptStep DEF Receipted
<1> QED BY <1>1, <1>2, Invariant, PTL DEF Spec, KeepsReceipts, Receipts!Spec, acted, told

(* So a receipt never says of a change what did not happen. *)
THEOREM ReceiptsTruthful == Spec => []Receipts!Truthful
<1>1. Receipts!Init => Receipts!Truthful
  BY DEF Receipts!Init, Receipts!Truthful
<1>2. Receipts!Truthful /\ Receipted => Receipts!Truthful'
  <2> SUFFICES ASSUME Receipts!Truthful, Receipted,
                      NEW o \in PlanIds, NEW c \in Changes
               PROVE  /\ told'[o][c] = "landed" => c \in acted'[o]
                      /\ told'[o][c] = "not" => c \notin acted'[o]
    BY DEF Receipts!Truthful, told, acted
  <2>1. /\ told[o][c] = "landed" => c \in acted[o]
        /\ told[o][c] = "not" => c \notin acted[o]
    BY DEF Receipts!Truthful, told, acted
  <2>2. CASE Receipts!Tell
    <3>1. /\ acted' = acted
          /\ told'[o][c] = "none" \/ Receipts!Honest(told[o][c], told'[o][c], c \in acted[o])
      BY <2>2 DEF Receipts!Tell, told, acted
    <3> QED BY <2>1, <3>1 DEF Receipts!Honest
  <2>3. ASSUME NEW q \in PlanIds, Receipts!Begin(q)
        PROVE  /\ told'[o][c] = "landed" => c \in acted'[o]
               /\ told'[o][c] = "not" => c \notin acted'[o]
    <3>1. PICK words \in [Changes -> {"none", "open", "not"}], gone \in SUBSET PlanIds :
              told' = [p \in PlanIds |->
                          IF p = q THEN words ELSE IF p \in gone THEN Receipts!Blank ELSE told[p]]
      BY <2>3 DEF Receipts!Begin, told, acted
    <3>2. acted' = acted /\ acted[q] = {}
      BY <2>3 DEF Receipts!Begin, told, acted
    <3>3. told'[o] = IF o = q THEN words ELSE IF o \in gone THEN Receipts!Blank ELSE told[o]
      BY <3>1
    <3>4. Receipts!Blank[c] = "none"
      BY DEF Receipts!Blank
    <3> QED BY <2>1, <3>2, <3>3, <3>4
  <2>4. ASSUME NEW q \in PlanIds, Receipts!Act(q)
        PROVE  /\ told'[o][c] = "landed" => c \in acted'[o]
               /\ told'[o][c] = "not" => c \notin acted'[o]
    <3>1. PICK S \in SUBSET Changes : /\ \A d \in S : told[q][d] \in {"open", "maybe"}
                                     /\ acted' = [acted EXCEPT ![q] = @ \cup S]
      BY <2>4 DEF Receipts!Act, told, acted
    <3>2. told' = told
      BY <2>4 DEF Receipts!Act, told, acted
    <3>3. acted'[o] = IF o = q THEN acted[o] \cup S ELSE acted[o]
      BY <3>1 DEF acted
    <3> QED BY <2>1, <3>1, <3>2, <3>3
  <2>5. CASE UNCHANGED <<acted, told>>
    BY <2>1, <2>5
  <2> QED BY <2>2, <2>3, <2>4, <2>5 DEF Receipted, Receipts!Next
<1> QED BY <1>1, <1>2, ReceiptsKept, PTL DEF KeepsReceipts, Receipts!Spec, Receipted, acted, told
=============================================================================
