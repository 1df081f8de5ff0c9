---------------------------- MODULE ProjectProofs -----------------------------
(***************************************************************************)
(* Proofs about the two ways to a project: ProjectOpens (the window shows  *)
(* the project that is open, and opens show their outcomes in the order in *)
(* which they were asked, up to the requests that an exit crossed) and     *)
(* ProjectCreation (what the wizard is told of an attempt is so, and       *)
(* nothing of the person's is lost).  That nothing is lost holds where     *)
(* nobody gets between a look and a write (see MayWrite and MayMake); the  *)
(* other theorems need no assumption on the person.                        *)
(***************************************************************************)
EXTENDS ProjectOpens, ProjectCreation, SequenceTheorems, TLAPS

----------------------------------------------------------------------------
(* ProjectOpens *)

Steps == {"idle", "queued", "checking", "asking", "notice", "guard", "closing", "opening",
          "showing", "done"}

Types ==
    /\ asked \in 0..MaxRequests /\ last \in Nat
    /\ target \in [Requests -> Projects \cup {Nothing}]
    /\ crossed \subseteq Requests
    /\ pc \in [Requests -> Steps]
    /\ queue \in Seq(Requests)
    /\ waiting \in Requests \cup {Nothing}
    /\ torn \subseteq Requests
    /\ {shown, db, current} \subseteq Projects \cup {Nothing}

----------------------------------------------------------------------------
(* The inductive invariant *)

Runs(r) == pc[r] \notin {"idle", "queued", "done"}
Late == {"closing", "opening", "showing"}

(* The notice that the gate holds is the one of the request that waits for its answer. *)
Gate == \A r \in Requests : pc[r] = "notice" <=> waiting = r

(* The opens that have not ended are in the queue in the order in which they were asked,
   and only the first of them runs.                                                *)
InQueue(r) == \E i \in 1..Len(queue) : queue[i] = r
Queue ==
    /\ \A r \in Requests : Opens(r) /\ Active(r) => InQueue(r)
    /\ \A i \in 1..Len(queue) : Opens(queue[i]) /\ queue[i] <= asked
    /\ \A i \in 1..Len(queue) : i > 1 => pc[queue[i]] = "queued"
    /\ \A i, j \in 1..Len(queue) : i < j => queue[i] < queue[j]

(* An open has its turn when every open before it has ended. *)
Behind == \A r, q \in Requests : Opens(r) /\ Opens(q) /\ Active(r) /\ r < q => pc[q] = "queued"

(* What has not been asked has not begun; an exit crosses whoever else is under way. *)
Orderly ==
    /\ \A r \in Requests : r > asked <=> pc[r] = "idle"
    /\ \A r \in Requests : pc[r] = "idle" => ~Opens(r)
    /\ \A r \in Requests : pc[r] = "queued" => Opens(r)
    /\ \A r \in torn : pc[r] \in Late \cup {"done"}
    /\ \A r, q \in Requests : Active(r) /\ ~Opens(r) /\ Active(q) /\ q # r => {r, q} \subseteq crossed

(* What a request past its questions has left of the window *)
Behaved(r) ==
    /\ r \notin torn /\ ~Astray => shown = Nothing /\ current = Nothing
    /\ r \in torn /\ r \notin crossed => current = Nothing
    /\ pc[r] = "showing" /\ Opens(r) /\ r \notin crossed => db = target[r]
    /\ ~Opens(r) /\ r \notin crossed => r \in torn
Window ==
    /\ ShownIsOpen
    /\ \A r \in Requests : pc[r] \in Late => Behaved(r)
    /\ \A r \in Requests : Active(r) /\ ~Opens(r) /\ (r \notin crossed \/ ~Astray) => shown # Nothing

(* Whoever has not ended and is not crossed was asked no earlier than what the window shows. *)
Later == last <= asked /\ \A r \in Requests : Active(r) /\ r \notin crossed => last <= r

IInv == Types /\ Gate /\ Queue /\ Behind /\ Orderly /\ Window /\ Later

----------------------------------------------------------------------------
(* Who runs *)

(* Two requests that run at the same time: one of them is an exit, and they are crossed. *)
LEMMA OneRuns ==
    ASSUME IInv, NEW r \in Requests, NEW q \in Requests, r # q, Runs(r), Runs(q) \/ Turn(q)
    PROVE  {r, q} \subseteq crossed /\ (~Opens(r) \/ ~Opens(q))
<1> USE DEF IInv
<1>1. Active(r) /\ Active(q)
    BY DEF Runs, Turn, Active
<1>2. SUFFICES ASSUME Opens(r), Opens(q)  PROVE FALSE
    BY <1>1 DEF Orderly
<1>3. PICK i \in 1..Len(queue) : queue[i] = r
    BY <1>1, <1>2 DEF Queue, InQueue
<1>4. PICK j \in 1..Len(queue) : queue[j] = q
    BY <1>1, <1>2 DEF Queue, InQueue
<1>5. i = 1
    BY <1>3 DEF Queue, Runs
<1>6. CASE Runs(q)
  <2>1. j = 1
      BY <1>4, <1>6 DEF Queue, Runs
  <2> QED BY <1>3, <1>4, <1>5, <2>1
<1>7. CASE Turn(q)
  <2>1. queue \in Seq(Requests) /\ queue # <<>>
      BY <1>5, EmptySeq DEF Types
  <2>2. Head(queue) = queue[1]
      BY <2>1
  <2> QED BY <1>3, <1>5, <1>7, <2>2 DEF Turn
<1> QED BY <1>6, <1>7

(* The queue, seen from a request that takes a step of its own *)
LEMMA OthersWait ==
    ASSUME IInv, NEW r \in Requests, Runs(r) \/ Turn(r)
    PROVE  /\ \A i \in 1..Len(queue) : i > 1 => queue[i] # r
           /\ \A q \in Requests : Opens(q) /\ Active(q) /\ q < r /\ Opens(r) => FALSE
<1> USE DEF IInv
<1>1. CASE Runs(r)
    BY <1>1 DEF Runs, Queue, Behind
<1>2. CASE Turn(r)
  <2>1. CASE queue = <<>>
    <3>1. Opens(r) /\ Active(r)
        BY <1>2 DEF Orderly, Turn, Active
    <3>2. PICK i \in 1..Len(queue) : queue[i] = r
        BY <3>1 DEF Queue, InQueue
    <3> QED BY <2>1, <3>2
  <2>2. CASE queue # <<>>
    <3>1. queue \in Seq(Requests) /\ 1 \in 1..Len(queue) /\ queue[1] = r /\ r \in Nat
        BY <1>2, <2>2, EmptySeq DEF Types, Turn, Requests
    <3>2. \A i \in 1..Len(queue) : i > 1 => queue[1] < queue[i]
        BY <3>1 DEF Queue
    <3>3. ASSUME NEW q \in Requests, Opens(q), Active(q), q < r  PROVE FALSE
      <4>1. PICK i \in 1..Len(queue) : queue[i] = q
          BY <3>3 DEF Queue, InQueue
      <4>2. i = 1 \/ i > 1
          OBVIOUS
      <4> QED BY <3>1, <3>2, <3>3, <4>1, <4>2 DEF Requests
    <3> QED BY <3>1, <3>2, <3>3
  <2> QED BY <2>1, <2>2
<1> QED BY <1>1, <1>2

(* A request goes on, and one whose notice waits may end: nobody else is disturbed. *)
LEMMA GoesOn ==
    ASSUME IInv, NEW r \in Requests, Runs(r) \/ Turn(r),
           NEW step \in Steps \ {"idle", "queued"}, pc'[r] = step,
           \A q \in Requests \ {r} : pc'[q] = pc[q] \/ (pc[q] = "notice" /\ pc'[q] = "done"),
           UNCHANGED <<requestVars, queue>>,
           torn' = torn \/ torn' = torn \cup {r}, r \in torn' => step \in Late \cup {"done"}
    PROVE  Queue' /\ Behind' /\ Orderly'
<1> USE DEF IInv
<1>1. UNCHANGED <<asked, target, crossed, queue>> /\ asked \in Nat /\ r \in Nat
    BY DEF requestVars, Types, Requests
<1>2. Active(r) /\ r <= asked
    BY <1>1 DEF Runs, Turn, Active, Orderly
<1>3. \A q \in Requests : Opens(q)' = Opens(q) /\ InQueue(q)' = InQueue(q)
    BY <1>1 DEF Opens, InQueue
<1>4. \A q \in Requests : Active(q)' => Active(q)
    BY <1>2 DEF Active
<1>5. \A q \in Requests : pc[q] = "queued" /\ q # r => pc'[q] = "queued"
    OBVIOUS
<1>6. \A i \in 1..Len(queue) : queue[i] \in Requests
    BY DEF Types
<1>7. Queue'
  <2>1. \A q \in Requests : Opens(q)' /\ Active(q)' => InQueue(q)'
      BY <1>3, <1>4 DEF Queue
  <2>2. \A i \in 1..Len(queue) : Opens(queue[i])' /\ queue[i] <= asked'
      BY <1>1, <1>3, <1>6 DEF Queue
  <2>3. \A i \in 1..Len(queue) : i > 1 => pc'[queue[i]] = "queued"
      BY <1>5, <1>6, OthersWait DEF Queue
  <2> QED BY <1>1, <2>1, <2>2, <2>3 DEF Queue
<1>8. Behind'
  <2> SUFFICES ASSUME NEW p \in Requests, NEW q \in Requests, Opens(p)', Opens(q)', Active(p)', p < q
               PROVE  pc'[q] = "queued"
      BY DEF Behind
  <2>1. Opens(p) /\ Opens(q) /\ Active(p)
      BY <1>3, <1>4
  <2>2. pc[q] = "queued" /\ q # r
      BY <2>1, OthersWait DEF Behind
  <2> QED BY <1>5, <2>2
<1>9. Orderly'
  <2>1. \A q \in Requests : q > asked' <=> pc'[q] = "idle"
      BY <1>1, <1>2 DEF Orderly
  <2>2. \A q \in Requests : (pc'[q] = "idle" => ~Opens(q)') /\ (pc'[q] = "queued" => Opens(q)')
      BY <1>3 DEF Orderly
  <2>3. \A q \in torn' : pc'[q] \in Late \cup {"done"}
      BY DEF Orderly, Types, Late
  <2>4. \A p, q \in Requests :
            Active(p)' /\ ~Opens(p)' /\ Active(q)' /\ q # p => {p, q} \subseteq crossed'
      BY <1>1, <1>3, <1>4 DEF Orderly
  <2> QED BY <2>1, <2>2, <2>3, <2>4 DEF Orderly
<1> QED BY <1>7, <1>8, <1>9

(* Nothing of the window is touched, and no request begins or leaves the steps that touch it. *)
LEMMA WindowStays ==
    ASSUME IInv, UNCHANGED <<windowVars, db, torn>>, crossed \subseteq crossed',
           \A q \in Requests : pc'[q] \in Late \/ pc[q] \in Late =>
               pc'[q] = pc[q] /\ target'[q] = target[q],
           \A q \in Requests : Active(q)' =>
               \/ Active(q) /\ target'[q] = target[q]
               \/ ~Opens(q)' => shown # Nothing
    PROVE  Window'
<1> USE DEF IInv, windowVars
<1>1. UNCHANGED <<shown, current, last, db, torn>>
    OBVIOUS
<1>2. ~Astray' => ~Astray
    BY <1>1 DEF Astray
<1>3. ShownIsOpen'
    BY <1>1, <1>2 DEF Window, ShownIsOpen, Late
<1>4. \A q \in Requests : pc'[q] \in Late => Behaved(q)'
  <2> SUFFICES ASSUME NEW q \in Requests, pc'[q] \in Late  PROVE Behaved(q)'
      OBVIOUS
  <2>1. pc'[q] = pc[q] /\ target'[q] = target[q] /\ Opens(q)' = Opens(q) /\ Behaved(q)
      BY DEF Opens, Window
  <2> QED BY <1>1, <1>2, <2>1 DEF Behaved
<1>5. \A q \in Requests : Active(q)' /\ ~Opens(q)' /\ (q \notin crossed' \/ ~Astray') => shown' # Nothing
    BY <1>1, <1>2 DEF Window, Opens
<1> QED BY <1>3, <1>4, <1>5 DEF Window

LEMMA LaterGoesOn ==
    ASSUME IInv, Types', last' = last, crossed \subseteq crossed', asked <= asked',
           \A q \in Requests : Active(q)' => Active(q) \/ q = asked'
    PROVE  Later'
BY DEF IInv, Later, Types, Requests

----------------------------------------------------------------------------
(* One lemma for each action *)

(* The request whose notice is shown gives way. *)
LEMMA GivesWay ==
    ASSUME IInv
    PROVE  /\ Settled(pc) \in [Requests -> Steps]
           /\ \A q \in Requests : Settled(pc)[q] = IF q = waiting THEN "done" ELSE pc[q]
           /\ \A q \in Requests : q = waiting => pc[q] = "notice"
BY OpensAssumption DEF IInv, Types, Gate, Settled, Steps

(* What every request does to the others when it is asked *)
LEMMA Asked ==
    ASSUME IInv, NEW r \in Requests, r = asked + 1, asked' = r, NEW step \in {"queued", "asking"},
           pc' = [Settled(pc) EXCEPT ![r] = step], waiting' = Nothing,
           NEW others \in SUBSET UnderWay, Cross(r, others),
           \A q \in Requests \ {r} : target'[q] = target[q],
           target'[r] = Nothing <=> step = "asking",
           \A q \in UnderWay : step = "asking" \/ ~Opens(q) => q \in others,
           UNCHANGED <<torn, windowVars, db>>, step = "asking" => shown # Nothing
    PROVE  /\ pc' \in [Requests -> Steps] /\ pc'[r] = step /\ pc[r] = "idle" /\ asked \in Nat
           /\ \A q \in Requests \ {r} : pc'[q] = IF q = waiting THEN "done" ELSE pc[q]
           /\ \A q \in Requests \ {r} : Active(q)' => Active(q) /\ pc'[q] = pc[q] /\ q \in UnderWay
           /\ crossed \subseteq crossed' /\ crossed' \subseteq Requests
           /\ Gate' /\ Orderly' /\ Window'
<1> USE DEF IInv
<1>1. asked \in Nat /\ r \in Nat /\ r > asked /\ pc[r] = "idle" /\ r # waiting
    BY DEF Types, Requests, Orderly, Gate
<1>2. /\ pc' \in [Requests -> Steps] /\ pc'[r] = step
      /\ \A q \in Requests \ {r} : pc'[q] = IF q = waiting THEN "done" ELSE pc[q]
    BY GivesWay DEF Steps
<1>3. \A q \in Requests : q = waiting <=> pc[q] = "notice"
    BY DEF Gate
<1>4. \A q \in Requests \ {r} : Active(q)' => Active(q) /\ pc'[q] = pc[q] /\ q \in UnderWay
    BY <1>2, <1>3 DEF Active, UnderWay
<1>5. /\ crossed \subseteq crossed' /\ crossed' \subseteq Requests
      /\ others # {} => {r} \cup others \subseteq crossed'
    BY DEF Cross, UnderWay, Types
<1>6. Gate'
    BY <1>2, <1>3, OpensAssumption DEF Gate
<1>7. \A q \in Requests \ {r} : Opens(q)' = Opens(q)
    BY DEF Opens
<1>8. Orderly'
  <2>1. \A q \in Requests : q > asked' <=> pc'[q] = "idle"
    <3> SUFFICES ASSUME NEW q \in Requests PROVE q > asked' <=> pc'[q] = "idle"
        OBVIOUS
    <3>1. CASE q = r
        BY <1>1, <1>2, <3>1
    <3>2. CASE q # r
      <4>1. q > asked' <=> q > asked
          BY <1>1, <3>2 DEF Requests
      <4>2. pc'[q] = "idle" <=> pc[q] = "idle"
          BY <1>2, <1>3, <3>2
      <4> QED BY <4>1, <4>2 DEF Orderly
    <3> QED BY <3>1, <3>2
  <2>2. \A q \in Requests : (pc'[q] = "idle" => ~Opens(q)') /\ (pc'[q] = "queued" => Opens(q)')
      BY <1>2, <1>3, <1>7 DEF Orderly, Opens
  <2>3. \A q \in torn' : pc'[q] \in Late \cup {"done"}
      BY <1>1, <1>2 DEF Orderly, Types, Late
  <2>4. ASSUME NEW p \in Requests, NEW q \in Requests, Active(p)', ~Opens(p)', Active(q)', q # p
        PROVE  {p, q} \subseteq crossed'
    <3>1. CASE p = r
      <4>1. q \in UnderWay /\ step = "asking"
          BY <1>4, <2>4, <3>1 DEF Opens
      <4> QED BY <1>5, <3>1, <4>1
    <3>2. CASE q = r
      <4>1. p \in UnderWay /\ ~Opens(p)
          BY <1>4, <1>7, <2>4, <3>2
      <4> QED BY <1>5, <3>2, <4>1
    <3>3. CASE p # r /\ q # r
      <4>1. Active(p) /\ Active(q) /\ ~Opens(p)
          BY <1>4, <1>7, <2>4, <3>3
      <4> QED BY <1>5, <2>4, <4>1 DEF Orderly
    <3> QED BY <3>1, <3>2, <3>3
  <2> QED BY <2>1, <2>2, <2>3, <2>4 DEF Orderly
<1>9. Window'
  <2>1. \A q \in Requests : pc'[q] \in Late \/ pc[q] \in Late =>
            pc'[q] = pc[q] /\ target'[q] = target[q]
      BY <1>1, <1>2, <1>3 DEF Late
  <2>2. \A q \in Requests : Active(q)' =>
            \/ Active(q) /\ target'[q] = target[q]
            \/ ~Opens(q)' => shown # Nothing
      BY <1>4 DEF Opens
  <2> QED BY <1>5, <2>1, <2>2, WindowStays
<1> QED BY <1>1, <1>2, <1>4, <1>5, <1>6, <1>8, <1>9

LEMMA AskOpenKeeps ==
    ASSUME IInv, NEW r \in Requests, NEW p \in Projects, AskOpen(r, p)
    PROVE  IInv'
<1> USE DEF IInv
<1> DEFINE others == {q \in UnderWay : ~Opens(q)}
<1>1. /\ r = asked + 1 /\ asked' = r /\ waiting' = Nothing
      /\ target' = [target EXCEPT ![r] = p]
      /\ pc' = [Settled(pc) EXCEPT ![r] = "queued"]
      /\ Cross(r, others)
      /\ queue' = Append(queue, r)
      /\ UNCHANGED <<torn, windowVars, db>> /\ UNCHANGED <<shown, current, last>>
    BY DEF AskOpen, windowVars
<1>2. /\ target' \in [Requests -> Projects \cup {Nothing}] /\ target'[r] = p /\ p # Nothing
      /\ \A q \in Requests \ {r} : target'[q] = target[q]
    BY <1>1, OpensAssumption DEF Types
<1>3. others \in SUBSET UnderWay /\ \A q \in UnderWay : ~Opens(q) => q \in others
    OBVIOUS
<1>4. /\ pc' \in [Requests -> Steps] /\ pc'[r] = "queued" /\ pc[r] = "idle" /\ asked \in Nat
      /\ \A q \in Requests \ {r} : pc'[q] = IF q = waiting THEN "done" ELSE pc[q]
      /\ \A q \in Requests \ {r} : Active(q)' => Active(q) /\ pc'[q] = pc[q] /\ q \in UnderWay
      /\ crossed \subseteq crossed' /\ crossed' \subseteq Requests
      /\ Gate' /\ Orderly' /\ Window'
  <2> HIDE DEF others
  <2> QED BY <1>1, <1>2, <1>3, Asked
<1>5. /\ queue \in Seq(Requests) /\ queue' \in Seq(Requests)
      /\ Len(queue') = Len(queue) + 1 /\ Len(queue) \in Nat
      /\ queue'[Len(queue) + 1] = r
      /\ \A i \in 1..Len(queue) : queue'[i] = queue[i] /\ queue[i] \in Requests
    BY <1>1 DEF Types
<1>6. Types'
    BY <1>1, <1>2, <1>4, <1>5 DEF Types, Requests
<1>7. Opens(r)' /\ \A q \in Requests \ {r} : Opens(q)' = Opens(q)
    BY <1>2 DEF Opens
<1>8. \A q \in Requests \ {r} : pc[q] = "queued" => pc'[q] = "queued"
    BY <1>4 DEF Gate
<1>9. Queue'
  <2>1. ASSUME NEW q \in Requests, Opens(q)', Active(q)'  PROVE InQueue(q)'
    <3>1. CASE q = r
      <4>1. Len(queue) + 1 \in 1..Len(queue')
          BY <1>5
      <4> QED BY <1>5, <3>1, <4>1 DEF InQueue
    <3>2. CASE q # r
      <4>1. PICK i \in 1..Len(queue) : queue[i] = q
          BY <1>4, <1>7, <2>1, <3>2 DEF Queue, InQueue
      <4>2. i \in 1..Len(queue') /\ queue'[i] = q
          BY <1>5, <4>1
      <4> QED BY <4>2 DEF InQueue
    <3> QED BY <3>1, <3>2
  <2>2. \A i \in 1..Len(queue) : queue[i] <= asked /\ queue[i] # r /\ queue[i] \in Nat
      BY <1>1, <1>4, <1>5 DEF Queue, Requests
  <2>3. ASSUME NEW i \in 1..Len(queue')
        PROVE  target'[queue'[i]] # Nothing /\ queue'[i] <= asked'
               /\ (i > 1 => pc'[queue'[i]] = "queued")
    <3>1. CASE i \in 1..Len(queue)
      <4>1. queue'[i] = queue[i] /\ queue[i] \in Requests \ {r}
          BY <1>5, <2>2, <3>1
      <4>2. Opens(queue[i]) /\ (i > 1 => pc[queue[i]] = "queued")
          BY <3>1 DEF Queue
      <4>3. queue[i] <= asked'
          BY <1>1, <1>4, <2>2, <3>1
      <4> QED BY <1>2, <1>8, <4>1, <4>2, <4>3 DEF Opens
    <3>2. CASE i = Len(queue) + 1
        BY <1>1, <1>2, <1>4, <1>5, <3>2
    <3> QED BY <1>5, <3>1, <3>2
  <2>4. ASSUME NEW i \in 1..Len(queue'), NEW j \in 1..Len(queue'), i < j
        PROVE  queue'[i] < queue'[j]
    <3>1. i \in 1..Len(queue)
        BY <1>5, <2>4
    <3>2. CASE j \in 1..Len(queue)
      <4>1. queue'[i] = queue[i] /\ queue'[j] = queue[j]
          BY <1>5, <3>1, <3>2
      <4> QED BY <2>4, <3>1, <3>2, <4>1 DEF Queue
    <3>3. CASE j = Len(queue) + 1
        BY <1>1, <1>4, <1>5, <2>2, <3>1, <3>3
    <3> QED BY <1>5, <3>2, <3>3
  <2> QED BY <2>1, <2>3, <2>4 DEF Queue, Opens
<1>10. Behind'
  <2> SUFFICES ASSUME NEW p1 \in Requests, NEW q \in Requests,
                      Opens(p1)', Opens(q)', Active(p1)', p1 < q
               PROVE  pc'[q] = "queued"
      BY DEF Behind
  <2>1. CASE q = r
      BY <1>4, <2>1
  <2>2. CASE q # r
    <3>1. Opens(q) /\ pc[q] # "idle" /\ q <= asked
        BY <1>4, <1>7, <2>2 DEF Orderly, Requests
    <3>2. p1 # r
        BY <1>1, <1>4, <3>1 DEF Requests
    <3> QED BY <1>4, <1>7, <1>8, <2>2, <3>1, <3>2 DEF Behind
  <2> QED BY <2>1, <2>2
<1>11. Later'
    BY <1>1, <1>4, <1>6, LaterGoesOn
<1> QED BY <1>4, <1>6, <1>9, <1>10, <1>11

LEMMA AskExitKeeps ==
    ASSUME IInv, NEW r \in Requests, AskExit(r)
    PROVE  IInv'
<1> USE DEF IInv
<1>1. /\ r = asked + 1 /\ asked' = r /\ waiting' = Nothing /\ shown # Nothing
      /\ pc' = [Settled(pc) EXCEPT ![r] = "asking"]
      /\ Cross(r, UnderWay)
      /\ UNCHANGED <<target, queue, torn, windowVars, db>> /\ UNCHANGED <<shown, current, last>>
    BY DEF AskExit, windowVars
<1>2. asked \in Nat /\ pc[r] = "idle" /\ target[r] = Nothing
    BY <1>1 DEF Types, Orderly, Opens, Requests
<1>3. /\ pc' \in [Requests -> Steps] /\ pc'[r] = "asking"
      /\ \A q \in Requests \ {r} : pc'[q] = IF q = waiting THEN "done" ELSE pc[q]
      /\ \A q \in Requests \ {r} : Active(q)' => Active(q) /\ pc'[q] = pc[q] /\ q \in UnderWay
      /\ crossed \subseteq crossed' /\ crossed' \subseteq Requests
      /\ Gate' /\ Orderly' /\ Window'
    BY <1>1, <1>2, Asked
<1>4. Types'
    BY <1>1, <1>3 DEF Types, Requests
<1>5. \A q \in Requests : Opens(q)' = Opens(q) /\ InQueue(q)' = InQueue(q) /\ (Opens(q) => q # r)
    BY <1>1, <1>2 DEF Opens, InQueue
<1>6. \A q \in Requests \ {r} : pc[q] = "queued" => pc'[q] = "queued"
    BY <1>3 DEF Gate
<1>7. Queue'
  <2>1. \A q \in Requests : Opens(q)' /\ Active(q)' => InQueue(q)'
      BY <1>3, <1>5 DEF Queue
  <2>2. \A i \in 1..Len(queue) : queue[i] \in Requests /\ queue[i] # r
      BY <1>5 DEF Queue, Types
  <2>3. \A i \in 1..Len(queue) : Opens(queue[i])' /\ queue[i] <= asked'
                                 /\ (i > 1 => pc'[queue[i]] = "queued")
      BY <1>1, <1>2, <1>5, <1>6, <2>2 DEF Queue, Requests
  <2> QED BY <1>1, <2>1, <2>3 DEF Queue
<1>8. Behind'
    BY <1>3, <1>5, <1>6 DEF Behind
<1>9. Later'
    BY <1>1, <1>2, <1>3, <1>4, LaterGoesOn
<1> QED BY <1>3, <1>4, <1>7, <1>8, <1>9

(* A step of one request that leaves the window alone *)
LEMMA QuietStep ==
    ASSUME IInv, NEW r \in Requests, Runs(r) \/ Turn(r), pc[r] \notin Late,
           NEW step \in Steps \ ({"idle", "queued"} \cup Late),
           pc' \in [Requests -> Steps], pc'[r] = step,
           \A q \in Requests \ {r} : pc'[q] = pc[q] \/ (pc[q] = "notice" /\ pc'[q] = "done"),
           UNCHANGED <<requestVars, queue, torn, windowVars, db>>,
           waiting' \in Requests \cup {Nothing}, Gate'
    PROVE  IInv'
<1> USE DEF IInv
<1>1. UNCHANGED <<asked, target, crossed, shown, current, last>> /\ r \notin torn
    BY DEF requestVars, windowVars, Orderly, Late, Runs, Turn
<1>2. Types'
    BY <1>1 DEF Types
<1>3. Queue' /\ Behind' /\ Orderly'
    BY <1>1, GoesOn
<1>4. Active(r) /\ \A q \in Requests : Active(q)' => Active(q)
    BY DEF Active, Runs, Turn
<1>5. \A q \in Requests : pc'[q] \in Late \/ pc[q] \in Late =>
          pc'[q] = pc[q] /\ target'[q] = target[q]
    BY <1>1 DEF Late
<1>6. Window'
    BY <1>1, <1>4, <1>5, WindowStays
<1>7. Later'
    BY <1>1, <1>2, <1>4, LaterGoesOn DEF Types
<1> QED BY <1>2, <1>3, <1>6, <1>7

LEMMA QuietKeeps ==
    ASSUME IInv, NEW r \in Requests,
           TakeTurn(r) \/ CheckPath(r) \/ BadPath(r) \/ Answer(r) \/ Stay(r)
    PROVE  IInv'
<1> USE DEF IInv
<1>1. /\ Runs(r) \/ Turn(r)
      /\ pc[r] \notin Late
      /\ UNCHANGED <<requestVars, queue, torn, windowVars, db>>
    BY DEF TakeTurn, CheckPath, BadPath, Answer, Stay, Turn, Runs, Late, Gate
<1>2. PICK step \in Steps \ ({"idle", "queued", "notice"} \cup Late) : pc' = [pc EXCEPT ![r] = step]
    BY DEF TakeTurn, CheckPath, BadPath, Answer, Stay, Steps, Late
<1>3. pc' \in [Requests -> Steps] /\ pc'[r] = step /\ \A q \in Requests \ {r} : pc'[q] = pc[q]
    BY <1>2 DEF Types
<1>4. waiting' \in Requests \cup {Nothing} /\ Gate'
  <2>1. CASE Answer(r)
      BY <1>2, <1>3, <2>1, OpensAssumption DEF Answer, Gate
  <2>2. CASE TakeTurn(r) \/ CheckPath(r) \/ BadPath(r) \/ Stay(r)
    <3>1. waiting' = waiting /\ pc[r] # "notice"
        BY <2>2 DEF TakeTurn, CheckPath, BadPath, Stay, Turn
    <3> QED BY <1>2, <1>3, <3>1 DEF Gate, Types
  <2> QED BY <2>1, <2>2
<1> QED BY <1>1, <1>2, <1>3, <1>4, QuietStep

LEMMA ConfirmKeeps ==
    ASSUME IInv, NEW r \in Requests, Confirm(r)
    PROVE  IInv'
<1> USE DEF IInv
<1>1. /\ pc[r] = "asking" /\ Runs(r) /\ pc[r] \notin Late
      /\ UNCHANGED <<requestVars, queue, torn, windowVars, db>>
    BY DEF Confirm, Runs, Late
<1>2. PICK step \in {"notice", "guard"} :
          /\ pc' = [Settled(pc) EXCEPT ![r] = step]
          /\ waiting' = IF step = "notice" THEN r ELSE Nothing
    BY DEF Confirm
<1>3. /\ pc' \in [Requests -> Steps] /\ pc'[r] = step
      /\ \A q \in Requests \ {r} : pc'[q] = IF q = waiting THEN "done" ELSE pc[q]
    BY <1>2, GivesWay DEF Steps
<1>4. waiting' \in Requests \cup {Nothing} /\ Gate'
    BY <1>2, <1>3, OpensAssumption DEF Gate
<1>5. \A q \in Requests \ {r} : pc'[q] = pc[q] \/ (pc[q] = "notice" /\ pc'[q] = "done")
    BY <1>3 DEF Gate
<1>6. step \in Steps \ ({"idle", "queued"} \cup Late)
    BY DEF Steps, Late
<1> QED BY <1>1, <1>3, <1>4, <1>5, <1>6, QuietStep

LEMMA EndTurnKeeps ==
    ASSUME IInv, EndTurn
    PROVE  IInv'
<1> USE DEF IInv
<1>1. /\ queue # <<>> /\ pc[Head(queue)] = "done" /\ queue' = Tail(queue)
      /\ UNCHANGED <<asked, target, crossed, pc, waiting, torn, shown, current, last, db>>
    BY DEF EndTurn, requestVars, windowVars
<1>2. queue \in Seq(Requests) /\ Len(queue) \in Nat \ {0} /\ Head(queue) = queue[1]
    BY <1>1 DEF Types
<1>3. /\ queue' \in Seq(Requests) /\ Len(queue') = Len(queue) - 1
      /\ \A i \in 1..Len(queue') : queue'[i] = queue[i + 1] /\ i + 1 \in 1..Len(queue)
    BY <1>1, <1>2
<1>4. Types'
    BY <1>1, <1>3 DEF Types
<1>5. \A q \in Requests : Opens(q)' = Opens(q) /\ Active(q)' = Active(q)
    BY <1>1 DEF Opens, Active
<1>6. Queue'
  <2>1. ASSUME NEW q \in Requests, Opens(q)', Active(q)'  PROVE InQueue(q)'
    <3>1. PICK i \in 1..Len(queue) : queue[i] = q
        BY <1>5, <2>1 DEF Queue, InQueue
    <3>2. i # 1
        BY <1>1, <1>2, <1>5, <2>1, <3>1 DEF Active
    <3>3. i - 1 \in 1..Len(queue') /\ (i - 1) + 1 = i
        BY <1>2, <1>3, <3>2
    <3>4. queue'[i - 1] = q
        BY <1>3, <3>1, <3>3
    <3> QED BY <3>3, <3>4 DEF InQueue
  <2>2. ASSUME NEW i \in 1..Len(queue')
        PROVE  /\ target[queue'[i]] # Nothing /\ queue'[i] <= asked
               /\ i > 1 => pc[queue'[i]] = "queued"
    <3>1. queue'[i] = queue[i + 1] /\ i + 1 \in 1..Len(queue) /\ i + 1 > 1
        BY <1>2, <1>3
    <3> QED BY <3>1 DEF Queue, Opens
  <2>3. ASSUME NEW i \in 1..Len(queue'), NEW j \in 1..Len(queue'), i < j
        PROVE  queue'[i] < queue'[j]
    <3>1. /\ queue'[i] = queue[i + 1] /\ i + 1 \in 1..Len(queue)
          /\ queue'[j] = queue[j + 1] /\ j + 1 \in 1..Len(queue) /\ i + 1 < j + 1
        BY <1>2, <1>3, <2>3
    <3> QED BY <3>1 DEF Queue
  <2> QED BY <1>1, <2>1, <2>2, <2>3 DEF Queue, Opens
<1>7. Gate' /\ Behind' /\ Orderly'
    BY <1>1 DEF Gate, Behind, Orderly, Opens, Active
<1>8. Window' /\ Later'
    BY <1>1 DEF Window, ShownIsOpen, Astray, Behaved, Later, Opens, Active
<1> QED BY <1>4, <1>6, <1>7, <1>8

(* A step past the questions: whoever else runs is crossed, as the one that takes it is. *)
LEMMA LateStep ==
    ASSUME IInv, NEW r \in Requests, Runs(r), pc[r] # "notice",
           NEW step \in Late \cup {"done"}, pc' = [pc EXCEPT ![r] = step],
           UNCHANGED <<requestVars, queue, waiting>>, Types',
           torn' = torn \/ torn' = torn \cup {r}, last' = last \/ last' = r
    PROVE  /\ Gate' /\ Queue' /\ Behind' /\ Orderly' /\ Later' /\ pc'[r] = step
           /\ UNCHANGED <<asked, target, crossed>>
           /\ \A q \in Requests \ {r} :
                  /\ pc'[q] = pc[q] /\ Opens(q)' = Opens(q)
                  /\ pc[q] \in Late => {r, q} \subseteq crossed /\ (~Opens(r) \/ ~Opens(q))
                  /\ Active(q) /\ ~Opens(q) => {r, q} \subseteq crossed
<1> USE DEF IInv
<1>1. step \in Steps \ {"idle", "queued"} /\ step # "notice" /\ UNCHANGED <<asked, target, crossed>>
    BY DEF Late, Steps, requestVars
<1>2. pc'[r] = step /\ \A q \in Requests \ {r} : pc'[q] = pc[q]
    BY DEF Types
<1>3. Queue' /\ Behind' /\ Orderly'
    BY <1>1, <1>2, GoesOn
<1>4. Gate'
    BY <1>1, <1>2 DEF Gate
<1>5. Active(r) /\ \A q \in Requests : Active(q)' => Active(q)
    BY <1>2 DEF Active, Runs
<1>6. \A q \in Requests \ {r} : pc[q] \in Late => {r, q} \subseteq crossed /\ (~Opens(r) \/ ~Opens(q))
    BY OneRuns DEF Runs, Late
<1>7. \A q \in Requests \ {r} : Active(q) /\ ~Opens(q) => {r, q} \subseteq crossed
    BY <1>5 DEF Orderly
<1>8. Later'
  <2>1. r <= asked /\ last' <= asked'
      BY <1>1, <1>5 DEF Later, Orderly, Active, Types, Requests
  <2>2. ASSUME NEW q \in Requests, Active(q)', q \notin crossed'  PROVE last' <= q
    <3>1. Active(q) /\ q \notin crossed /\ last <= q
        BY <1>1, <1>5, <2>2 DEF Later
    <3>2. CASE q = r
        BY <3>1, <3>2 DEF Requests
    <3>3. CASE q # r
      <4>1. Opens(r) /\ Opens(q)
          BY <1>5, <3>1, <3>3 DEF Orderly
      <4>2. ~(q < r)
          BY <3>1, <4>1 DEF Behind, Runs
      <4> QED BY <3>1, <4>2 DEF Requests
    <3> QED BY <3>2, <3>3
  <2> QED BY <2>1, <2>2 DEF Later
<1> QED BY <1>1, <1>2, <1>3, <1>4, <1>6, <1>7, <1>8 DEF Opens

LEMMA GoAheadKeeps ==
    ASSUME IInv, NEW r \in Requests, GoAhead(r)
    PROVE  IInv'
<1> USE DEF IInv
<1>1. /\ pc[r] = "guard" /\ Runs(r) /\ r \notin torn
      /\ UNCHANGED <<requestVars, queue, waiting, shown, last, db>>
    BY DEF GoAhead, Runs, Orderly, Late
<1>2. PICK step \in Late :
          /\ pc' = [pc EXCEPT ![r] = step]
          /\ \/ shown # Nothing /\ step = "closing" /\ current' = Nothing /\ torn' = torn \cup {r}
             \/ /\ shown = Nothing /\ UNCHANGED <<current, torn>>
                /\ step = IF Opens(r) THEN "opening" ELSE "showing"
    BY DEF GoAhead, Late
<1>3. Types'
    BY <1>1, <1>2 DEF Types, Steps, Late, requestVars
<1>4. /\ Gate' /\ Queue' /\ Behind' /\ Orderly' /\ Later' /\ pc'[r] = step
      /\ UNCHANGED <<asked, target, crossed>>
      /\ \A q \in Requests \ {r} :
             /\ pc'[q] = pc[q] /\ Opens(q)' = Opens(q)
             /\ pc[q] \in Late => {r, q} \subseteq crossed /\ (~Opens(r) \/ ~Opens(q))
             /\ Active(q) /\ ~Opens(q) => {r, q} \subseteq crossed
    BY <1>1, <1>2, <1>3, LateStep
<1>5. Opens(r)' = Opens(r) /\ Astray' = Astray /\ Active(r)
    BY <1>1, <1>4 DEF Opens, Astray, Active
<1>6. \A q \in Requests : Active(q)' /\ ~Opens(q)' /\ (q \notin crossed' \/ ~Astray') => shown' # Nothing
    BY <1>1, <1>4, <1>5 DEF Window, Active
<1>7. \A q \in Requests \ {r} : pc'[q] \in Late => Behaved(q)'
    BY <1>1, <1>2, <1>4, <1>5 DEF Window, Behaved
<1>8. Behaved(r)'
  <2>1. CASE shown # Nothing
      BY <1>2, <1>4, <2>1 DEF Behaved
  <2>2. CASE shown = Nothing
    <3>1. Opens(r) \/ r \in crossed
        BY <1>5, <2>2 DEF Window
    <3>2. ASSUME ~Astray  PROVE current = Nothing
      <4>1. CASE \E q \in Requests \ {r} : pc[q] \in Late
        <5>1. PICK q \in Requests \ {r} : pc[q] \in Late
            BY <4>1
        <5>2. Active(q) /\ (~Opens(r) \/ ~Opens(q))
            BY <1>4, <5>1 DEF Active, Late
        <5> QED BY <1>5, <2>2, <3>2, <5>2 DEF Window
      <4>2. CASE \A q \in Requests \ {r} : pc[q] \notin Late
          BY <1>1, <2>2, <3>2, <4>2 DEF Window, ShownIsOpen, Late
      <4> QED BY <4>1, <4>2
    <3> QED BY <1>1, <1>2, <1>4, <1>5, <2>2, <3>1, <3>2 DEF Behaved
  <2> QED BY <2>1, <2>2
<1>9. ShownIsOpen'
    BY <1>4 DEF ShownIsOpen, Late
<1> QED BY <1>3, <1>4, <1>6, <1>7, <1>8, <1>9 DEF Window

(* The steps that change the database alone *)
LEMMA DatabaseKeeps ==
    ASSUME IInv, NEW r \in Requests, CloseDatabase(r) \/ OpenDatabase(r)
    PROVE  IInv'
<1> USE DEF IInv
<1>1. /\ pc[r] \in Late /\ Runs(r) /\ pc[r] # "notice"
      /\ UNCHANGED <<requestVars, queue, waiting, torn, shown, current, last>>
    BY DEF CloseDatabase, OpenDatabase, Runs, Late, windowVars
<1>2. PICK step \in {"opening", "showing"} :
          /\ pc' = [pc EXCEPT ![r] = step]
          /\ step = "showing" /\ Opens(r) => db' = target[r]
          /\ db' \in Projects \cup {Nothing}
    BY DEF CloseDatabase, OpenDatabase, Types
<1>3. Types' /\ step \in Late
    BY <1>1, <1>2 DEF Types, Steps, Late, requestVars
<1>4. /\ Gate' /\ Queue' /\ Behind' /\ Orderly' /\ Later' /\ pc'[r] = step
      /\ UNCHANGED <<asked, target, crossed>>
      /\ \A q \in Requests \ {r} :
             /\ pc'[q] = pc[q] /\ Opens(q)' = Opens(q)
             /\ pc[q] \in Late => {r, q} \subseteq crossed /\ (~Opens(r) \/ ~Opens(q))
             /\ Active(q) /\ ~Opens(q) => {r, q} \subseteq crossed
    BY <1>1, <1>2, <1>3, LateStep
<1>5. Opens(r)' = Opens(r) /\ Astray' = Astray /\ Active(r)
    BY <1>1, <1>4 DEF Opens, Astray, Active, Late
<1>6. \A q \in Requests : Active(q)' /\ ~Opens(q)' /\ (q \notin crossed' \/ ~Astray') => shown' # Nothing
    BY <1>1, <1>4, <1>5 DEF Window, Active
<1>7. \A q \in Requests \ {r} : pc'[q] \in Late => Behaved(q)'
    BY <1>1, <1>4, <1>5 DEF Window, Behaved
<1>8. Behaved(r)'
    BY <1>1, <1>2, <1>4, <1>5 DEF Window, Behaved
<1>9. ShownIsOpen'
    BY <1>2, <1>4 DEF ShownIsOpen
<1> QED BY <1>3, <1>4, <1>6, <1>7, <1>8, <1>9 DEF Window

(* The steps that end a request: what they leave is in order unless an exit crossed it. *)
LEMMA EndsKeeps ==
    ASSUME IInv, NEW r \in Requests, OpenFails(r) \/ Show(r)
    PROVE  IInv'
<1> USE DEF IInv
<1>1. /\ pc[r] \in Late /\ Runs(r) /\ pc[r] # "notice" /\ pc' = [pc EXCEPT ![r] = "done"]
      /\ UNCHANGED <<requestVars, queue, waiting, torn>>
    BY DEF OpenFails, Show, Runs, Late
<1>2. \/ /\ r \notin torn /\ UNCHANGED <<shown, current, last>>
      \/ /\ r \in torn /\ shown' = Nothing /\ current' = current /\ last' = r
      \/ /\ pc[r] = "showing" /\ shown' = target[r] /\ last' = r /\ db' = db
         /\ current' = IF Opens(r) THEN target[r] ELSE current
    BY DEF OpenFails, Show, Reset
<1>3. Types'
    BY <1>1, <1>2 DEF Types, Steps, requestVars, Requests, OpenFails, LeftOpen, Show
<1>4. /\ Gate' /\ Queue' /\ Behind' /\ Orderly' /\ Later' /\ pc'[r] = "done"
      /\ UNCHANGED <<asked, target, crossed>>
      /\ \A q \in Requests \ {r} :
             /\ pc'[q] = pc[q] /\ Opens(q)' = Opens(q)
             /\ pc[q] \in Late => {r, q} \subseteq crossed /\ (~Opens(r) \/ ~Opens(q))
             /\ Active(q) /\ ~Opens(q) => {r, q} \subseteq crossed
    BY <1>1, <1>2, <1>3, LateStep
<1>5. Behaved(r)
    BY <1>1 DEF Window
<1>6. ~Active(r)' /\ pc'[r] \notin Late /\ \A q \in Requests \ {r} : Active(q)' = Active(q)
    BY <1>4 DEF Active, Late
<1> DEFINE Outcome ==
        \/ r \in torn /\ shown' = Nothing /\ current' = current
        \/ /\ pc[r] = "showing" /\ shown' = target[r] /\ db' = db
           /\ current' = IF Opens(r) THEN target[r] ELSE current
<1>7. CASE Outcome /\ last' = r
  <2>1. last' = r
      BY <1>7
  <2>2. CASE r \in crossed
    <3>1. Astray'
        BY <1>4, <2>1, <2>2 DEF Astray
    <3>2. \A q \in Requests \ {r} : pc[q] \in Late => Behaved(q)'
        BY <1>1, <1>4, <3>1 DEF Window, Behaved
    <3>3. \A q \in Requests : Active(q)' /\ ~Opens(q)' => q \in crossed'
      <4> SUFFICES ASSUME NEW q \in Requests, Active(q)', ~Opens(q)'  PROVE q \in crossed'
          OBVIOUS
      <4> QED BY <1>4, <1>6
    <3>4. Window'
        BY <1>4, <1>6, <3>1, <3>2, <3>3 DEF Window, ShownIsOpen
    <3> QED BY <1>3, <1>4, <3>4
  <2>3. CASE r \notin crossed
    <3>1. \A q \in Requests : pc'[q] \notin Late /\ (Active(q)' => Opens(q)')
        BY <1>4, <1>6, <2>3
    <3>2. shown' = current' /\ (shown' # Nothing => shown' = db')
        BY <1>5, <1>7, <2>3 DEF Behaved, Opens
    <3> QED BY <1>3, <1>4, <3>1, <3>2 DEF Window, ShownIsOpen
  <2> QED BY <2>2, <2>3
<1>8. CASE r \notin torn /\ UNCHANGED <<shown, current, last>>
  <2>1. UNCHANGED <<shown, current, last>> /\ Astray' = Astray
      BY <1>4, <1>8 DEF Astray
  <2>2. \A q \in Requests \ {r} : pc[q] \in Late => Behaved(q)'
      BY <1>1, <1>4, <2>1 DEF Window, Behaved
  <2>3. ShownIsOpen'
      BY <1>5, <1>8, <2>1 DEF Behaved, ShownIsOpen
  <2>4. \A q \in Requests : Active(q)' /\ ~Opens(q)' /\ (q \notin crossed' \/ ~Astray') => shown' # Nothing
      BY <1>4, <1>6, <2>1 DEF Window
  <2>5. Window'
      BY <1>4, <1>6, <2>2, <2>3, <2>4 DEF Window
  <2> QED BY <1>3, <1>4, <2>5
<1> QED BY <1>2, <1>7, <1>8

----------------------------------------------------------------------------
(* The theorems *)

LEMMA InitIInv == Init => IInv
BY OpensAssumption DEF Init, IInv, Types, Steps, Gate, Queue, Behind, Orderly, Window, ShownIsOpen,
                       Astray, Later, Opens, Active, InQueue, Requests, Late

LEMMA NextIInv == IInv /\ [Next]_vars => IInv'
<1> SUFFICES ASSUME IInv, [Next]_vars PROVE IInv'
    OBVIOUS
<1>1. ASSUME NEW r \in Requests, NEW p \in Projects, AskOpen(r, p)  PROVE IInv'
    BY <1>1, AskOpenKeeps
<1>2. ASSUME NEW r \in Requests, AskExit(r)  PROVE IInv'
    BY <1>2, AskExitKeeps
<1>3. ASSUME NEW r \in Requests, Step(r)  PROVE IInv'
    BY <1>3, QuietKeeps, ConfirmKeeps, DatabaseKeeps, EndsKeeps DEF Step
<1>4. ASSUME NEW r \in Requests, Decide(r)  PROVE IInv'
    BY <1>4, QuietKeeps, GoAheadKeeps DEF Decide
<1>5. CASE EndTurn
    BY <1>5, EndTurnKeeps
<1>6. CASE UNCHANGED vars
    BY <1>6 DEF IInv, Types, Gate, Queue, Behind, Orderly, Window, ShownIsOpen, Astray, Behaved, Later,
               Opens, Active, InQueue, vars, requestVars, windowVars
<1> QED BY <1>1, <1>2, <1>3, <1>4, <1>5, <1>6 DEF Next

(* The invariant of every behaviour: who is in the queue, who runs beside whom, and what the
   requests that are past their questions have done to the window.                        *)
THEOREM Invariant == Spec => []IInv
BY InitIInv, NextIInv, PTL DEF Spec

(* Between two openings a project in the window is the one whose database is open and in which
   terminals start, for any number of requests that pile up and give way, unless the window
   shows what a request left that an exit crossed.                                        *)
THEOREM ShownStaysOpen == Spec => []ShownIsOpen
<1>1. IInv => ShownIsOpen
    BY DEF IInv, Window
<1> QED BY <1>1, Invariant, PTL

(* Opens show their outcomes in the order in which they were asked, whatever exits do, and what
   a later request left in the window is replaced by the late end of an earlier one only where
   an exit crossed it: openTurnRef runs one open at a time, the newest, and exits do not queue. *)
THEOREM LaterStays == Spec => LaterChoiceStays
<1> DEFINE Ordered(r, q) ==
        /\ Opens(r) /\ pc[r] \in {"opening", "showing"} /\ pc'[r] = "done"
        /\ Opens(q) /\ r < q
        => pc[q] = "queued"
<1> DEFINE A == (\A r, q \in Requests : Ordered(r, q)) /\ (last' < last => Astray')
<1>1. IInv /\ [Next]_vars => [A]_vars
  <2> SUFFICES ASSUME IInv, Next PROVE A
      OBVIOUS
  <2>1. \A r, q \in Requests : Ordered(r, q)
      BY DEF IInv, Behind, Active
  <2>2. last \in Nat
      BY DEF IInv, Types
  <2>3. ASSUME NEW r \in Requests, OpenFails(r) \/ Show(r), last' < last  PROVE Astray'
    <3>1. Active(r) /\ r \in Nat /\ UNCHANGED crossed
        BY <2>3 DEF OpenFails, Show, Active, Requests, requestVars
    <3>2. last' = r
        BY <2>2, <2>3 DEF OpenFails, Show
    <3>3. r \in crossed
        BY <2>2, <2>3, <3>1, <3>2 DEF IInv, Later
    <3> QED BY <3>1, <3>2, <3>3 DEF Astray
  <2>4. \/ last' = last
        \/ \E r \in Requests : OpenFails(r) \/ Show(r)
      BY DEF Next, Step, Decide, EndTurn, AskOpen, AskExit, TakeTurn, CheckPath, BadPath, Confirm,
             Answer, Stay, GoAhead, CloseDatabase, OpenDatabase, windowVars
  <2> QED BY <2>1, <2>2, <2>3, <2>4
<1> QED BY <1>1, Invariant, PTL DEF Spec, LaterChoiceStays

----------------------------------------------------------------------------
(* ProjectCreation: outcomes are true *)

(* The words that Litria and its processes write, and those that the person writes. *)
Ours    == {"none", "empty", "output", "run"} \X Nat
Persons == {"person"} \X Nat
Words   == Ours \cup Persons

Manifests == [files : [Names -> Ours], createdRoot : BOOLEAN, unrecorded : SUBSET Names]
Markers   == [state : {"none", "torn", "written"}, says : Manifests]
Trees     == [made : Words, files : [Names -> Words], marker : Markers]

(* The shapes of the variables; a tree that is not there holds nothing. *)
Whole(t) == t.made = NoText => t = NoTree
CreationTypes ==
    /\ root \in Trees /\ Whole(root) /\ aside \in Trees /\ Whole(aside) /\ left \subseteq Trees
    /\ attempt \in Nat /\ written \in 0..Len(Blueprint) /\ manifest \in Manifests
    /\ person \in Nat /\ theirs \subseteq Persons /\ touched \subseteq Names

(* There is a tree aside while a cleanup looks at it, and an outcome after the end. *)
Places ==
    /\ stage \notin {"verify", "delete", "back"} => aside = NoTree
    /\ stage # "idle" => outcome = "none"

(* What a run that writes files has written stays its own, but for what the person touched
   and for the file that is being replaced.                                       *)
Busy == {"claim", "make", "tear", "mark", "write", "remove", "create", "fill", "note",
         "register", "spawn", "running", "wait", "stop", "expire", "stopped", "expired"}
Beyond == {"note", "register", "spawn", "running", "wait", "stop", "expire", "stopped", "expired"}
Progress ==
    /\ stage = "absent" => kind = "npm"
    /\ stage \in {"claim", "make"} => written = 0
    /\ stage \in {"write", "remove", "create", "fill"} => written < Len(Blueprint)
    /\ stage = "fill" => root.files[File] = Empty \/ File \in touched
    /\ kind # "npm" /\ stage \in Beyond => written = Len(Blueprint)
    /\ kind # "npm" /\ stage \in Busy =>
          \A i \in 1..written :
             \/ stage \in {"create", "fill"} /\ Blueprint[i] = File
             \/ root.files[Blueprint[i]] = Mine
             \/ Blueprint[i] \in touched

(* The folder that a cleanup moved aside is not the one that takes its place. *)
Replaced == stage \in {"verify", "delete"} => root.made[1] # "run"

CreationInv == CreationTypes /\ Places /\ Progress /\ Replaced /\ OutcomeIsTrue

(* What a cleanup may remove, and what a run is about to replace, is not the person's. *)
OwnMarker(t) == t.marker.state = "written" /\ t.marker.says.createdRoot => t.made \in Ours
Held == {"tear", "mark", "write", "remove", "create", "fill", "note", "register", "spawn",
         "running", "wait", "stop", "expire", "stopped", "expired", "cleanup"}
Provable ==
    /\ OwnMarker(root) /\ OwnMarker(aside)
    /\ stage = "claim" => ~manifest.createdRoot
    /\ stage \in Held /\ manifest.createdRoot => root.made \in Ours
    /\ stage \in {"verify", "delete", "back"} => aside.made \in Ours
    /\ stage = "delete" => \A f \in Names : aside.files[f] \in Ours
    /\ stage \in {"remove", "fill"} => root.files[File] \in Ours

----------------------------------------------------------------------------
LEMMA WordsApart ==
    /\ Ours \cap Persons = {} /\ NoText \in Ours /\ Empty \in Ours /\ Made \in Ours
    /\ attempt \in Nat => Mine \in Ours /\ Mine # NoText /\ Mine # Empty /\ Mine[1] = "run"
    /\ \A k \in Nat : Theirs(k) \in Persons /\ Theirs(k) # NoText /\ Theirs(k)[1] # "run"
    /\ NoText[1] # "run" /\ Made[1] # "run" /\ NoText # Made /\ NoText # Empty
    /\ NoText \notin Persons
<1>1. Ours \cap Persons = {}
  BY DEF Ours, Persons
<1>2. NoText \in Ours /\ Empty \in Ours /\ Made \in Ours
  BY DEF Ours, NoText, Empty, Made
<1>3. ASSUME attempt \in Nat  PROVE Mine \in Ours /\ Mine # NoText /\ Mine # Empty /\ Mine[1] = "run"
  BY <1>3 DEF Ours, NoText, Empty, Mine
<1>4. ASSUME NEW k \in Nat  PROVE Theirs(k) \in Persons /\ Theirs(k) # NoText /\ Theirs(k)[1] # "run"
  BY DEF Persons, Theirs, NoText
<1>5. NoText[1] # "run" /\ Made[1] # "run" /\ NoText # Made /\ NoText # Empty
  BY DEF NoText, Made, Empty
<1> QED BY <1>1, <1>2, <1>3, <1>4, <1>5

LEMMA Blueprints ==
    /\ Len(Blueprint) \in Nat /\ Files \subseteq Names /\ Output \in Names \ Files
    /\ \A i \in 1..Len(Blueprint) : Blueprint[i] \in Files
    /\ \A f \in Files : \E i \in 1..Len(Blueprint) : f = Blueprint[i]
    /\ written \in 0..Len(Blueprint) /\ written < Len(Blueprint) => File \in Files
<1>1. Blueprint \in Seq(Files)
  BY CreationAssumption
<1>2. Len(Blueprint) \in Nat /\ DOMAIN Blueprint = 1..Len(Blueprint)
  BY <1>1
<1>3. Output \in Names \ Files
  BY CreationAssumption DEF Names
<1> QED BY <1>2, <1>3 DEF Files, Names, File

LEMMA NothingThere ==
    /\ NothingRecorded \in Manifests /\ External \in Manifests /\ NoMarker \in Markers
    /\ NoTree \in Trees /\ Whole(NoTree) /\ NoTree.made = NoText /\ ~Exists(NoTree)
    /\ \A f \in Names : NoTree.files[f] = NoText
    /\ ~NothingRecorded.createdRoot /\ NoMarker.state = "none"
<1>1. NothingRecorded \in Manifests /\ External \in Manifests
  BY WordsApart DEF NothingRecorded, External, Manifests
<1>2. NoMarker \in Markers
  BY <1>1 DEF NoMarker, Markers
<1>3. NoTree \in Trees
  BY <1>2, WordsApart DEF NoTree, Trees, Words
<1> QED BY <1>1, <1>2, <1>3 DEF NoTree, Whole, Exists, NothingRecorded, NoMarker

(* A word in a file of a tree. *)
LEMMA FilePut ==
    ASSUME NEW t \in Trees, NEW f \in Names, NEW w \in Words, NEW u, u = [t EXCEPT !.files[f] = w]
    PROVE  /\ u \in Trees /\ u.made = t.made /\ u.marker = t.marker /\ u.files[f] = w
           /\ \A g \in Names \ {f} : u.files[g] = t.files[g]
<1>1. t.files \in [Names -> Words]
  BY DEF Trees
<1>2. u = [t EXCEPT !.files = [t.files EXCEPT ![f] = w]]
  OBVIOUS
<1>3. [t.files EXCEPT ![f] = w] \in [Names -> Words]
  BY <1>1
<1> QED BY <1>1, <1>2, <1>3 DEF Trees

(* A marker in a tree. *)
LEMMA MarkerPut ==
    ASSUME NEW t \in Trees, NEW m \in Markers, NEW u, u = [t EXCEPT !.marker = m]
    PROVE  u \in Trees /\ u.made = t.made /\ u.marker = m /\ u.files = t.files
BY DEF Trees

LEMMA AbsentKeeps == ASSUME CreationInv, Absent  PROVE CreationInv'
<1>1. UNCHANGED <<diskVars, attempt, kind, written, person, theirs, touched>> /\ manifest' \in Manifests
  BY DEF CreationInv, CreationTypes, Absent, runVars, historyVars
<1>2. /\ CreationTypes' /\ File' = File /\ Mine' = Mine
  BY <1>1 DEF CreationInv, CreationTypes, Whole, diskVars, File, Mine
<1>3. Places'
  BY <1>1 DEF CreationInv, Places, Absent, Goes, End, diskVars
<1>4. Progress'
  BY <1>1, <1>2 DEF CreationInv, Progress, Busy, Beyond, Absent, Goes, End, diskVars
<1>5. Replaced'
  BY <1>1 DEF CreationInv, Replaced, Absent, Goes, End, diskVars
<1>6. OutcomeIsTrue'
  BY <1>1, <1>2, Blueprints DEF CreationInv, Places, Progress, Busy, Beyond, OutcomeIsTrue,
                                Absent, Goes, End, diskVars
<1> QED BY <1>2, <1>3, <1>4, <1>5, <1>6 DEF CreationInv

LEMMA GateRefusesKeeps == ASSUME CreationInv, GateRefuses  PROVE CreationInv'
<1>1. UNCHANGED <<diskVars, attempt, kind, written, person, theirs, touched>> /\ manifest' \in Manifests
  BY DEF CreationInv, CreationTypes, GateRefuses, runVars, historyVars
<1>2. /\ CreationTypes' /\ File' = File /\ Mine' = Mine
  BY <1>1 DEF CreationInv, CreationTypes, Whole, diskVars, File, Mine
<1>3. Places'
  BY <1>1 DEF CreationInv, Places, GateRefuses, Goes, End, diskVars
<1>4. Progress'
  BY <1>1, <1>2 DEF CreationInv, Progress, Busy, Beyond, GateRefuses, Goes, End, diskVars
<1>5. Replaced'
  BY <1>1 DEF CreationInv, Replaced, GateRefuses, Goes, End, diskVars
<1>6. OutcomeIsTrue'
  BY <1>1, <1>2, Blueprints DEF CreationInv, Places, Progress, Busy, Beyond, OutcomeIsTrue,
                                GateRefuses, Goes, End, diskVars
<1> QED BY <1>2, <1>3, <1>4, <1>5, <1>6 DEF CreationInv

LEMMA RegisterRunKeeps == ASSUME CreationInv, RegisterRun  PROVE CreationInv'
<1>1. UNCHANGED <<diskVars, attempt, kind, written, person, theirs, touched>> /\ manifest' \in Manifests
  BY DEF CreationInv, CreationTypes, RegisterRun, runVars, historyVars
<1>2. /\ CreationTypes' /\ File' = File /\ Mine' = Mine
  BY <1>1 DEF CreationInv, CreationTypes, Whole, diskVars, File, Mine
<1>3. Places'
  BY <1>1 DEF CreationInv, Places, RegisterRun, Goes, End, diskVars
<1>4. Progress'
  BY <1>1, <1>2 DEF CreationInv, Progress, Busy, Beyond, RegisterRun, Goes, End, diskVars
<1>5. Replaced'
  BY <1>1 DEF CreationInv, Replaced, RegisterRun, Goes, End, diskVars
<1>6. OutcomeIsTrue'
  BY <1>1, <1>2, Blueprints DEF CreationInv, Places, Progress, Busy, Beyond, OutcomeIsTrue,
                                RegisterRun, Goes, End, diskVars
<1> QED BY <1>2, <1>3, <1>4, <1>5, <1>6 DEF CreationInv

LEMMA SpawnKeeps == ASSUME CreationInv, Spawn  PROVE CreationInv'
<1>1. UNCHANGED <<diskVars, attempt, kind, written, person, theirs, touched>> /\ manifest' \in Manifests
  BY DEF CreationInv, CreationTypes, Spawn, Finished, runVars, historyVars
<1>2. /\ CreationTypes' /\ File' = File /\ Mine' = Mine
  BY <1>1 DEF CreationInv, CreationTypes, Whole, diskVars, File, Mine
<1>3. Places'
  BY <1>1 DEF CreationInv, Places, Spawn, Finished, Goes, End, diskVars
<1>4. Progress'
  BY <1>1, <1>2 DEF CreationInv, Progress, Busy, Beyond, Spawn, Finished, Goes, End, diskVars
<1>5. Replaced'
  BY <1>1 DEF CreationInv, Replaced, Spawn, Finished, Goes, End, diskVars
<1>6. OutcomeIsTrue'
  BY <1>1, <1>2, Blueprints DEF CreationInv, Places, Progress, Busy, Beyond, OutcomeIsTrue, Spawn,
                                Finished, Goes, End, diskVars
<1> QED BY <1>2, <1>3, <1>4, <1>5, <1>6 DEF CreationInv

LEMMA SpawnFailsKeeps == ASSUME CreationInv, SpawnFails  PROVE CreationInv'
<1>1. UNCHANGED <<diskVars, attempt, kind, written, person, theirs, touched>> /\ manifest' \in Manifests
  BY DEF CreationInv, CreationTypes, SpawnFails, CommandEnds, Finished, runVars, historyVars
<1>2. /\ CreationTypes' /\ File' = File /\ Mine' = Mine
  BY <1>1 DEF CreationInv, CreationTypes, Whole, diskVars, File, Mine
<1>3. Places'
  BY <1>1 DEF CreationInv, Places, SpawnFails, CommandEnds, Finished, Goes, End, diskVars
<1>4. Progress'
  BY <1>1, <1>2 DEF CreationInv, Progress, Busy, Beyond, SpawnFails, CommandEnds, Finished, Goes,
                    End, diskVars
<1>5. Replaced'
  BY <1>1 DEF CreationInv, Replaced, SpawnFails, CommandEnds, Finished, Goes, End, diskVars
<1>6. OutcomeIsTrue'
  BY <1>1, <1>2, Blueprints DEF CreationInv, Places, Progress, Busy, Beyond, OutcomeIsTrue,
                                SpawnFails, CommandEnds, Finished, Goes, End, diskVars
<1> QED BY <1>2, <1>3, <1>4, <1>5, <1>6 DEF CreationInv

LEMMA ChildClosesKeeps == ASSUME CreationInv, ChildCloses  PROVE CreationInv'
<1>1. UNCHANGED <<diskVars, attempt, kind, written, person, theirs, touched>> /\ manifest' \in Manifests
  BY DEF CreationInv, CreationTypes, ChildCloses, runVars, historyVars
<1>2. /\ CreationTypes' /\ File' = File /\ Mine' = Mine
  BY <1>1 DEF CreationInv, CreationTypes, Whole, diskVars, File, Mine
<1>3. Places'
  BY <1>1 DEF CreationInv, Places, ChildCloses, Goes, End, diskVars
<1>4. Progress'
  BY <1>1, <1>2 DEF CreationInv, Progress, Busy, Beyond, ChildCloses, Goes, End, diskVars
<1>5. Replaced'
  BY <1>1 DEF CreationInv, Replaced, ChildCloses, Goes, End, diskVars
<1>6. OutcomeIsTrue'
  BY <1>1, <1>2, Blueprints DEF CreationInv, Places, Progress, Busy, Beyond, OutcomeIsTrue,
                                ChildCloses, Goes, End, diskVars
<1> QED BY <1>2, <1>3, <1>4, <1>5, <1>6 DEF CreationInv

LEMMA ChildExitsKeeps == ASSUME CreationInv, ChildExits  PROVE CreationInv'
<1>1. UNCHANGED <<diskVars, attempt, kind, written, person, theirs, touched>> /\ manifest' \in Manifests
  BY DEF CreationInv, CreationTypes, ChildExits, CommandEnds, Finished, runVars, historyVars
<1>2. /\ CreationTypes' /\ File' = File /\ Mine' = Mine
  BY <1>1 DEF CreationInv, CreationTypes, Whole, diskVars, File, Mine
<1>3. Places'
  BY <1>1 DEF CreationInv, Places, ChildExits, CommandEnds, Finished, Goes, End, diskVars
<1>4. Progress'
  BY <1>1, <1>2 DEF CreationInv, Progress, Busy, Beyond, ChildExits, CommandEnds, Finished, Goes,
                    End, diskVars
<1>5. Replaced'
  BY <1>1 DEF CreationInv, Replaced, ChildExits, CommandEnds, Finished, Goes, End, diskVars
<1>6. OutcomeIsTrue'
  BY <1>1, <1>2, Blueprints DEF CreationInv, Places, Progress, Busy, Beyond, OutcomeIsTrue,
                                ChildExits, CommandEnds, Finished, Goes, End, diskVars
<1> QED BY <1>2, <1>3, <1>4, <1>5, <1>6 DEF CreationInv

LEMMA ChildPrintsKeeps == ASSUME CreationInv, ChildPrints  PROVE CreationInv'
<1>1. UNCHANGED <<diskVars, attempt, kind, written, person, theirs, touched>> /\ manifest' \in Manifests
  BY DEF CreationInv, CreationTypes, ChildPrints, runVars, historyVars
<1>2. /\ CreationTypes' /\ File' = File /\ Mine' = Mine
  BY <1>1 DEF CreationInv, CreationTypes, Whole, diskVars, File, Mine
<1>3. Places'
  BY <1>1 DEF CreationInv, Places, ChildPrints, Goes, End, diskVars
<1>4. Progress'
  BY <1>1, <1>2 DEF CreationInv, Progress, Busy, Beyond, ChildPrints, Goes, End, diskVars
<1>5. Replaced'
  BY <1>1 DEF CreationInv, Replaced, ChildPrints, Goes, End, diskVars
<1>6. OutcomeIsTrue'
  BY <1>1, <1>2, Blueprints DEF CreationInv, Places, Progress, Busy, Beyond, OutcomeIsTrue,
                                ChildPrints, Goes, End, diskVars
<1> QED BY <1>2, <1>3, <1>4, <1>5, <1>6 DEF CreationInv

LEMMA DeadlinePassesKeeps == ASSUME CreationInv, DeadlinePasses  PROVE CreationInv'
<1>1. UNCHANGED <<diskVars, attempt, kind, written, person, theirs, touched>> /\ manifest' \in Manifests
  BY DEF CreationInv, CreationTypes, DeadlinePasses, runVars, historyVars
<1>2. /\ CreationTypes' /\ File' = File /\ Mine' = Mine
  BY <1>1 DEF CreationInv, CreationTypes, Whole, diskVars, File, Mine
<1>3. Places'
  BY <1>1 DEF CreationInv, Places, DeadlinePasses, Goes, End, diskVars
<1>4. Progress'
  BY <1>1, <1>2 DEF CreationInv, Progress, Busy, Beyond, DeadlinePasses, Goes, End, diskVars
<1>5. Replaced'
  BY <1>1 DEF CreationInv, Replaced, DeadlinePasses, Goes, End, diskVars
<1>6. OutcomeIsTrue'
  BY <1>1, <1>2, Blueprints DEF CreationInv, Places, Progress, Busy, Beyond, OutcomeIsTrue,
                                DeadlinePasses, Goes, End, diskVars
<1> QED BY <1>2, <1>3, <1>4, <1>5, <1>6 DEF CreationInv

LEMMA ReadsLineKeeps == ASSUME CreationInv, ReadsLine  PROVE CreationInv'
<1>1. UNCHANGED <<diskVars, attempt, kind, written, person, theirs, touched>> /\ manifest' \in Manifests
  BY DEF CreationInv, CreationTypes, ReadsLine, runVars, historyVars
<1>2. /\ CreationTypes' /\ File' = File /\ Mine' = Mine
  BY <1>1 DEF CreationInv, CreationTypes, Whole, diskVars, File, Mine
<1>3. Places'
  BY <1>1 DEF CreationInv, Places, ReadsLine, Goes, End, diskVars
<1>4. Progress'
  BY <1>1, <1>2 DEF CreationInv, Progress, Busy, Beyond, ReadsLine, Goes, End, diskVars
<1>5. Replaced'
  BY <1>1 DEF CreationInv, Replaced, ReadsLine, Goes, End, diskVars
<1>6. OutcomeIsTrue'
  BY <1>1, <1>2, Blueprints DEF CreationInv, Places, Progress, Busy, Beyond, OutcomeIsTrue,
                                ReadsLine, Goes, End, diskVars
<1> QED BY <1>2, <1>3, <1>4, <1>5, <1>6 DEF CreationInv

LEMMA StopsCancelledKeeps == ASSUME CreationInv, StopsCancelled  PROVE CreationInv'
<1>1. UNCHANGED <<diskVars, attempt, kind, written, person, theirs, touched>> /\ manifest' \in Manifests
  BY DEF CreationInv, CreationTypes, StopsCancelled, runVars, historyVars
<1>2. /\ CreationTypes' /\ File' = File /\ Mine' = Mine
  BY <1>1 DEF CreationInv, CreationTypes, Whole, diskVars, File, Mine
<1>3. Places'
  BY <1>1 DEF CreationInv, Places, StopsCancelled, Goes, End, diskVars
<1>4. Progress'
  BY <1>1, <1>2 DEF CreationInv, Progress, Busy, Beyond, StopsCancelled, Goes, End, diskVars
<1>5. Replaced'
  BY <1>1 DEF CreationInv, Replaced, StopsCancelled, Goes, End, diskVars
<1>6. OutcomeIsTrue'
  BY <1>1, <1>2, Blueprints DEF CreationInv, Places, Progress, Busy, Beyond, OutcomeIsTrue,
                                StopsCancelled, Goes, End, diskVars
<1> QED BY <1>2, <1>3, <1>4, <1>5, <1>6 DEF CreationInv

LEMMA StopsOverdueKeeps == ASSUME CreationInv, StopsOverdue  PROVE CreationInv'
<1>1. UNCHANGED <<diskVars, attempt, kind, written, person, theirs, touched>> /\ manifest' \in Manifests
  BY DEF CreationInv, CreationTypes, StopsOverdue, runVars, historyVars
<1>2. /\ CreationTypes' /\ File' = File /\ Mine' = Mine
  BY <1>1 DEF CreationInv, CreationTypes, Whole, diskVars, File, Mine
<1>3. Places'
  BY <1>1 DEF CreationInv, Places, StopsOverdue, Goes, End, diskVars
<1>4. Progress'
  BY <1>1, <1>2 DEF CreationInv, Progress, Busy, Beyond, StopsOverdue, Goes, End, diskVars
<1>5. Replaced'
  BY <1>1 DEF CreationInv, Replaced, StopsOverdue, Goes, End, diskVars
<1>6. OutcomeIsTrue'
  BY <1>1, <1>2, Blueprints DEF CreationInv, Places, Progress, Busy, Beyond, OutcomeIsTrue,
                                StopsOverdue, Goes, End, diskVars
<1> QED BY <1>2, <1>3, <1>4, <1>5, <1>6 DEF CreationInv

LEMMA StopsIdleKeeps == ASSUME CreationInv, StopsIdle  PROVE CreationInv'
<1>1. UNCHANGED <<diskVars, attempt, kind, written, person, theirs, touched>> /\ manifest' \in Manifests
  BY DEF CreationInv, CreationTypes, StopsIdle, runVars, historyVars
<1>2. /\ CreationTypes' /\ File' = File /\ Mine' = Mine
  BY <1>1 DEF CreationInv, CreationTypes, Whole, diskVars, File, Mine
<1>3. Places'
  BY <1>1 DEF CreationInv, Places, StopsIdle, Goes, End, diskVars
<1>4. Progress'
  BY <1>1, <1>2 DEF CreationInv, Progress, Busy, Beyond, StopsIdle, Goes, End, diskVars
<1>5. Replaced'
  BY <1>1 DEF CreationInv, Replaced, StopsIdle, Goes, End, diskVars
<1>6. OutcomeIsTrue'
  BY <1>1, <1>2, Blueprints DEF CreationInv, Places, Progress, Busy, Beyond, OutcomeIsTrue,
                                StopsIdle, Goes, End, diskVars
<1> QED BY <1>2, <1>3, <1>4, <1>5, <1>6 DEF CreationInv

LEMMA TearDownKeeps == ASSUME CreationInv, TearDown  PROVE CreationInv'
<1>1. UNCHANGED <<diskVars, attempt, kind, written, person, theirs, touched>> /\ manifest' \in Manifests
  BY DEF CreationInv, CreationTypes, TearDown, runVars, historyVars
<1>2. /\ CreationTypes' /\ File' = File /\ Mine' = Mine
  BY <1>1 DEF CreationInv, CreationTypes, Whole, diskVars, File, Mine
<1>3. Places'
  BY <1>1 DEF CreationInv, Places, TearDown, Goes, End, diskVars
<1>4. Progress'
  BY <1>1, <1>2 DEF CreationInv, Progress, Busy, Beyond, TearDown, Goes, End, diskVars
<1>5. Replaced'
  BY <1>1 DEF CreationInv, Replaced, TearDown, Goes, End, diskVars
<1>6. OutcomeIsTrue'
  BY <1>1, <1>2, Blueprints DEF CreationInv, Places, Progress, Busy, Beyond, OutcomeIsTrue,
                                TearDown, Goes, End, diskVars
<1> QED BY <1>2, <1>3, <1>4, <1>5, <1>6 DEF CreationInv

LEMMA LetsGoKeeps == ASSUME CreationInv, LetsGo  PROVE CreationInv'
<1>1. UNCHANGED <<diskVars, attempt, kind, written, person, theirs, touched>> /\ manifest' \in Manifests
  BY DEF CreationInv, CreationTypes, LetsGo, runVars, historyVars
<1>2. /\ CreationTypes' /\ File' = File /\ Mine' = Mine
  BY <1>1 DEF CreationInv, CreationTypes, Whole, diskVars, File, Mine
<1>3. Places'
  BY <1>1 DEF CreationInv, Places, LetsGo, Goes, End, diskVars
<1>4. Progress'
  BY <1>1, <1>2 DEF CreationInv, Progress, Busy, Beyond, LetsGo, Goes, End, diskVars
<1>5. Replaced'
  BY <1>1 DEF CreationInv, Replaced, LetsGo, Goes, End, diskVars
<1>6. OutcomeIsTrue'
  BY <1>1, <1>2, Blueprints DEF CreationInv, Places, Progress, Busy, Beyond, OutcomeIsTrue,
                                LetsGo, Goes, End, diskVars
<1> QED BY <1>2, <1>3, <1>4, <1>5, <1>6 DEF CreationInv

LEMMA JoinKeeps == ASSUME CreationInv, Join  PROVE CreationInv'
<1>1. UNCHANGED <<diskVars, attempt, kind, written, person, theirs, touched>> /\ manifest' \in Manifests
  BY DEF CreationInv, CreationTypes, Join, Finished, runVars, historyVars
<1>2. /\ CreationTypes' /\ File' = File /\ Mine' = Mine
  BY <1>1 DEF CreationInv, CreationTypes, Whole, diskVars, File, Mine
<1>3. Places'
  BY <1>1 DEF CreationInv, Places, Join, Finished, Goes, End, diskVars
<1>4. Progress'
  BY <1>1, <1>2 DEF CreationInv, Progress, Busy, Beyond, Join, Finished, Goes, End, diskVars
<1>5. Replaced'
  BY <1>1 DEF CreationInv, Replaced, Join, Finished, Goes, End, diskVars
<1>6. OutcomeIsTrue'
  BY <1>1, <1>2, Blueprints DEF CreationInv, Places, Progress, Busy, Beyond, OutcomeIsTrue,
                                Join, Finished, Goes, End, diskVars
<1> QED BY <1>2, <1>3, <1>4, <1>5, <1>6 DEF CreationInv

LEMMA VerifyKeeps == ASSUME CreationInv, Verify  PROVE CreationInv'
<1>1. UNCHANGED <<diskVars, attempt, kind, written, person, theirs, touched>> /\ manifest' \in Manifests
  BY DEF CreationInv, CreationTypes, Verify, runVars, historyVars
<1>2. /\ CreationTypes' /\ File' = File /\ Mine' = Mine
  BY <1>1 DEF CreationInv, CreationTypes, Whole, diskVars, File, Mine
<1>3. Places'
  BY <1>1 DEF CreationInv, Places, Verify, Goes, End, diskVars
<1>4. Progress'
  BY <1>1, <1>2 DEF CreationInv, Progress, Busy, Beyond, Verify, Goes, End, diskVars
<1>5. Replaced'
  BY <1>1 DEF CreationInv, Replaced, Verify, Goes, End, diskVars
<1>6. OutcomeIsTrue'
  BY <1>1, <1>2, Blueprints DEF CreationInv, Places, Progress, Busy, Beyond, OutcomeIsTrue,
                                Verify, Goes, End, diskVars
<1> QED BY <1>2, <1>3, <1>4, <1>5, <1>6 DEF CreationInv

LEMMA CancelKeeps == ASSUME CreationInv, Cancel  PROVE CreationInv'
<1>1. UNCHANGED <<diskVars, attempt, kind, written, person, theirs, touched>> /\ manifest' \in Manifests
  BY DEF CreationInv, CreationTypes, Cancel, runVars, historyVars
<1>2. /\ CreationTypes' /\ File' = File /\ Mine' = Mine
  BY <1>1 DEF CreationInv, CreationTypes, Whole, diskVars, File, Mine
<1>3. Places'
  BY <1>1 DEF CreationInv, Places, Cancel, Goes, End, diskVars
<1>4. Progress'
  BY <1>1, <1>2 DEF CreationInv, Progress, Busy, Beyond, Cancel, Goes, End, diskVars
<1>5. Replaced'
  BY <1>1 DEF CreationInv, Replaced, Cancel, Goes, End, diskVars
<1>6. OutcomeIsTrue'
  BY <1>1, <1>2, Blueprints DEF CreationInv, Places, Progress, Busy, Beyond, OutcomeIsTrue,
                                Cancel, Goes, End, diskVars
<1> QED BY <1>2, <1>3, <1>4, <1>5, <1>6 DEF CreationInv

LEMMA CancelRunKeeps == ASSUME CreationInv, NEW r \in cancels, CancelRun(r)  PROVE CreationInv'
<1>1. UNCHANGED <<diskVars, attempt, kind, written, person, theirs, touched>> /\ manifest' \in Manifests
  BY DEF CreationInv, CreationTypes, CancelRun, runVars, historyVars
<1>2. /\ CreationTypes' /\ File' = File /\ Mine' = Mine
  BY <1>1 DEF CreationInv, CreationTypes, Whole, diskVars, File, Mine
<1>3. Places'
  BY <1>1 DEF CreationInv, Places, CancelRun, Goes, End, diskVars
<1>4. Progress'
  BY <1>1, <1>2 DEF CreationInv, Progress, Busy, Beyond, CancelRun, Goes, End, diskVars
<1>5. Replaced'
  BY <1>1 DEF CreationInv, Replaced, CancelRun, Goes, End, diskVars
<1>6. OutcomeIsTrue'
  BY <1>1, <1>2, Blueprints DEF CreationInv, Places, Progress, Busy, Beyond, OutcomeIsTrue,
                                CancelRun, Goes, End, diskVars
<1> QED BY <1>2, <1>3, <1>4, <1>5, <1>6 DEF CreationInv

LEMMA WriteKeeps == ASSUME CreationInv, Write  PROVE CreationInv'
<1>1. UNCHANGED <<diskVars, attempt, kind, written, person, theirs, touched>> /\ manifest' \in Manifests
  BY DEF CreationInv, CreationTypes, Write, runVars, historyVars
<1>2. /\ CreationTypes' /\ File' = File /\ Mine' = Mine
  BY <1>1 DEF CreationInv, CreationTypes, Whole, diskVars, File, Mine
<1>3. Places'
  BY <1>1 DEF CreationInv, Places, Write, Goes, End, diskVars
<1>4. Progress'
  BY <1>1, <1>2 DEF CreationInv, Progress, Busy, Beyond, Write, Goes, End, diskVars
<1>5. Replaced'
  BY <1>1 DEF CreationInv, Replaced, Write, Goes, End, diskVars
<1>6. OutcomeIsTrue'
  BY <1>1, <1>2, Blueprints DEF CreationInv, Places, Progress, Busy, Beyond, OutcomeIsTrue, Write,
                                Goes, End, diskVars
<1> QED BY <1>2, <1>3, <1>4, <1>5, <1>6 DEF CreationInv

LEMMA NoteKeeps == ASSUME CreationInv, Note  PROVE CreationInv'
<1>1. UNCHANGED <<diskVars, attempt, kind, written, person, theirs, touched>> /\ manifest' \in Manifests
  BY Blueprints DEF CreationInv, CreationTypes, Note, Manifests, runVars, historyVars
<1>2. /\ CreationTypes' /\ File' = File /\ Mine' = Mine
  BY <1>1 DEF CreationInv, CreationTypes, Whole, diskVars, File, Mine
<1>3. Places'
  BY <1>1 DEF CreationInv, Places, Note, Manifests, Goes, End, diskVars
<1>4. Progress'
  BY <1>1, <1>2 DEF CreationInv, Progress, Busy, Beyond, Note, Manifests, Goes, End, diskVars
<1>5. Replaced'
  BY <1>1 DEF CreationInv, Replaced, Note, Manifests, Goes, End, diskVars
<1>6. OutcomeIsTrue'
  BY <1>1, <1>2, Blueprints DEF CreationInv, Places, Progress, Busy, Beyond, OutcomeIsTrue, Note,
                                Manifests, Goes, End, diskVars
<1> QED BY <1>2, <1>3, <1>4, <1>5, <1>6 DEF CreationInv

LEMMA ClaimKeeps == ASSUME CreationInv, Claim  PROVE CreationInv'
<1>1. UNCHANGED <<diskVars, attempt, kind, written, person, theirs, touched>> /\ manifest' \in Manifests
  BY DEF CreationInv, CreationTypes, Claim, Manifests, Markers, Trees, runVars, historyVars
<1>2. /\ CreationTypes' /\ File' = File /\ Mine' = Mine
  BY <1>1 DEF CreationInv, CreationTypes, Whole, diskVars, File, Mine
<1>3. Places'
  BY <1>1 DEF CreationInv, Places, Claim, Manifests, Markers, Trees, Goes, End, diskVars
<1>4. Progress'
  BY <1>1, <1>2 DEF CreationInv, Progress, Busy, Beyond, Claim, Manifests, Markers, Trees, Goes,
                    End, diskVars
<1>5. Replaced'
  BY <1>1 DEF CreationInv, Replaced, Claim, Manifests, Markers, Trees, Goes, End, diskVars
<1>6. OutcomeIsTrue'
  BY <1>1, <1>2, Blueprints DEF CreationInv, Places, Progress, Busy, Beyond, OutcomeIsTrue, Claim,
                                Manifests, Markers, Trees, Goes, End, diskVars
<1> QED BY <1>2, <1>3, <1>4, <1>5, <1>6 DEF CreationInv

(* The run ends without success, and leaves the disk as it is. *)
LEMMA EndKeeps ==
    ASSUME CreationInv, UNCHANGED <<diskVars, runVars, historyVars>>, aside = NoTree,
           stage' = "idle", outcome' \in {"failed", "refused", "retained"}
    PROVE  CreationInv'
<1>1. CreationTypes' /\ Places'
  BY DEF CreationInv, CreationTypes, Whole, Places, diskVars, runVars, historyVars
<1>2. Progress' /\ Replaced' /\ OutcomeIsTrue'
  BY DEF Progress, Busy, Beyond, Replaced, OutcomeIsTrue
<1> QED BY <1>1, <1>2 DEF CreationInv
LEMMA BeginKeeps == ASSUME CreationInv, NEW k \in Kinds, Begin(k)  PROVE CreationInv'
<1>1. /\ UNCHANGED <<root, aside, left, person, theirs>> /\ touched' = {} /\ written' = 0
      /\ manifest' \in Manifests /\ attempt' = attempt + 1 /\ stage = "idle"
  BY NothingThere DEF Begin, diskVars
<1>2. CreationTypes'
  BY <1>1, Blueprints DEF CreationInv, CreationTypes, Whole
<1>3. Places'
  BY <1>1 DEF CreationInv, Places, Begin
<1>4. Progress'
  BY <1>1 DEF Progress, Beyond, Begin
<1>5. Replaced' /\ OutcomeIsTrue'
  BY DEF Replaced, OutcomeIsTrue, Begin
<1> QED BY <1>2, <1>3, <1>4, <1>5 DEF CreationInv

LEMMA MakeRootKeeps == ASSUME CreationInv, MakeRoot  PROVE CreationInv'
<1>1. /\ UNCHANGED <<aside, left, attempt, kind, written, person, theirs, touched>> /\ stage = "make"
      /\ written = 0 /\ aside = NoTree
  BY DEF MakeRoot, historyVars, CreationInv, Places, Progress
<1>2. /\ root' \in Trees /\ Whole(root)' /\ manifest' \in Manifests
  <2>1. CASE Exists(root)
    BY <2>1 DEF MakeRoot, CreationInv, CreationTypes, Whole
  <2>2. CASE ~Exists(root)
    <3>1. root' = [NoTree EXCEPT !.made = Mine] /\ manifest' = [manifest EXCEPT !.createdRoot = TRUE]
      BY <2>2 DEF MakeRoot
    <3>2. Mine \in Words /\ Mine # NoText
      BY WordsApart DEF CreationInv, CreationTypes, Words
    <3>3. root' \in Trees /\ root'.made = Mine
      BY <3>1, <3>2, NothingThere DEF Trees
    <3>4. manifest' \in Manifests
      BY <3>1 DEF CreationInv, CreationTypes, Manifests
    <3> QED BY <3>2, <3>3, <3>4 DEF Whole
  <2> QED BY <2>1, <2>2
<1>3. CreationTypes'
  BY <1>1, <1>2 DEF CreationInv, CreationTypes, Whole
<1>4. Places'
  BY <1>1 DEF Places, MakeRoot, CreationInv, Goes, End
<1>5. Progress'
  BY <1>1 DEF Progress, Beyond, Busy, MakeRoot, CreationInv, Goes, End
<1>6. Replaced' /\ OutcomeIsTrue'
  BY <1>1 DEF Replaced, OutcomeIsTrue, MakeRoot, CreationInv, Places, Goes, End
<1> QED BY <1>3, <1>4, <1>5, <1>6 DEF CreationInv

(* The marker of the folder changes and nothing else of the disk. *)
LEMMA Remarked ==
    ASSUME CreationInv, UNCHANGED <<aside, left, runVars, historyVars>>,
           NEW m \in Markers, Exists(root), root' = [root EXCEPT !.marker = m]
    PROVE  /\ CreationTypes' /\ root'.made = root.made /\ root'.files = root.files
           /\ File' = File /\ Mine' = Mine /\ root'.marker = m
<1>1. root' \in Trees /\ root'.made = root.made /\ root'.files = root.files /\ root'.marker = m
  BY MarkerPut DEF CreationInv, CreationTypes
<1> QED BY <1>1 DEF CreationInv, CreationTypes, Whole, Exists, runVars, historyVars, File, Mine

LEMMA TearMarkerKeeps == ASSUME CreationInv, TearMarker  PROVE CreationInv'
<1>1. UNCHANGED <<aside, left, runVars, historyVars, stage>> \/ UNCHANGED <<aside, left, runVars, historyVars>>
  BY DEF TearMarker
<1>2. CASE ~Exists(root)
  <2>1. /\ UNCHANGED <<diskVars, runVars, historyVars>> /\ stage = "tear"
        /\ stage' = "idle" /\ outcome' = "failed"
    BY <1>2 DEF TearMarker, diskVars, End
  <2> QED BY <2>1, EndKeeps DEF CreationInv, Places
<1>3. CASE Exists(root)
  <2>1. /\ root' = [root EXCEPT !.marker = [NoMarker EXCEPT !.state = "torn"]] /\ Goes("mark")
        /\ stage = "tear"
    BY <1>3 DEF TearMarker
  <2>2. [NoMarker EXCEPT !.state = "torn"] \in Markers
    BY NothingThere DEF Markers
  <2>3. /\ CreationTypes' /\ root'.made = root.made /\ root'.files = root.files
        /\ File' = File /\ Mine' = Mine
    BY <1>1, <1>3, <2>1, <2>2, Remarked
  <2>4. Places' /\ Replaced' /\ OutcomeIsTrue'
    BY <1>1, <2>1 DEF CreationInv, Places, Replaced, OutcomeIsTrue, Goes
  <2>5. Progress'
    BY <1>1, <2>1, <2>3 DEF CreationInv, Progress, Busy, Beyond, Goes, runVars, historyVars
  <2> QED BY <2>3, <2>4, <2>5 DEF CreationInv
<1> QED BY <1>2, <1>3

LEMMA WriteMarkerKeeps == ASSUME CreationInv, WriteMarker  PROVE CreationInv'
<1>1. UNCHANGED <<aside, left, runVars, historyVars>> /\ stage = "mark" /\ outcome = "none" /\ aside = NoTree
  BY DEF WriteMarker, CreationInv, Places
<1>2. /\ CreationTypes' /\ root'.made = root.made /\ root'.files = root.files
      /\ File' = File /\ Mine' = Mine
  <2>1. CASE ~Exists(root)
    BY <1>1, <2>1 DEF WriteMarker, CreationInv, CreationTypes, Whole, runVars, historyVars, File,
                      Mine
  <2>2. CASE Exists(root)
    <3>1. root' = [root EXCEPT !.marker = [state |-> "written", says |-> manifest]]
      BY <2>2 DEF WriteMarker
    <3>2. [state |-> "written", says |-> manifest] \in Markers
      BY DEF Markers, CreationInv, CreationTypes
    <3> QED BY <1>1, <2>2, <3>1, <3>2, Remarked
  <2> QED BY <2>1, <2>2
<1>3. /\ written \in 0..Len(Blueprint) /\ Len(Blueprint) \in Nat
      /\ After = "write" => written < Len(Blueprint)
      /\ After \in {"created", "note", "register"} => written = Len(Blueprint)
      /\ After \in {"write", "created", "note", "register"}
  BY Blueprints DEF After, CreationInv, CreationTypes
<1>4. \/ After = "created" /\ stage' = "idle" /\ outcome' = "created"
      \/ After # "created" /\ stage' = After /\ outcome' = "none"
  BY <1>1 DEF WriteMarker, End, Goes
<1>5. Places' /\ Replaced'
  BY <1>1, <1>3, <1>4 DEF Places, Replaced
<1>6. kind # "npm" => \A i \in 1..written : root.files[Blueprint[i]] = Mine \/ Blueprint[i] \in touched
  BY <1>1 DEF CreationInv, Progress, Busy
<1>7. Progress'
  BY <1>1, <1>2, <1>3, <1>4, <1>6 DEF Progress, Busy, Beyond, runVars, historyVars
<1>8. OutcomeIsTrue'
  BY <1>1, <1>2, <1>3, <1>4, <1>6, Blueprints DEF OutcomeIsTrue, runVars, historyVars
<1> QED BY <1>2, <1>5, <1>7, <1>8 DEF CreationInv

LEMMA RemoveKeeps == ASSUME CreationInv, Remove  PROVE CreationInv'
<1>1. /\ UNCHANGED <<aside, left, runVars, historyVars>> /\ stage = "remove" /\ outcome = "none"
      /\ aside = NoTree /\ written < Len(Blueprint) /\ File \in Names /\ File' = File /\ Mine' = Mine
  BY Blueprints DEF Remove, CreationInv, CreationTypes, Places, Progress, runVars, File, Mine
<1>2. CASE root.files[File] = NoText
  <2>1. UNCHANGED <<diskVars, runVars, historyVars>> /\ stage' = "idle" /\ outcome' = "failed"
    BY <1>2 DEF Remove, diskVars, End
  <2> QED BY <1>1, <2>1, EndKeeps
<1>3. CASE root.files[File] # NoText
  <2>1. root' = [root EXCEPT !.files[File] = NoText] /\ stage' = "create" /\ outcome' = "none"
    BY <1>1, <1>3 DEF Remove, Goes
  <2>2. /\ root' \in Trees /\ root'.made = root.made
        /\ \A g \in Names \ {File} : root'.files[g] = root.files[g]
    BY <1>1, <2>1, FilePut, WordsApart DEF CreationInv, CreationTypes, Words
  <2>3. root.made # NoText
    BY <1>1, <1>3, NothingThere DEF CreationInv, CreationTypes, Whole
  <2>4. CreationTypes'
    BY <1>1, <2>2, <2>3 DEF CreationInv, CreationTypes, Whole, runVars, historyVars
  <2>5. Places' /\ Replaced' /\ OutcomeIsTrue'
    BY <1>1, <2>1 DEF Places, Replaced, OutcomeIsTrue
  <2>6. Progress'
    BY <1>1, <2>1, <2>2, Blueprints DEF CreationInv, CreationTypes, Progress, Busy, Beyond,
                                        runVars, historyVars
  <2> QED BY <2>4, <2>5, <2>6 DEF CreationInv
<1> QED BY <1>2, <1>3

LEMMA CreateKeeps == ASSUME CreationInv, Create  PROVE CreationInv'
<1>1. /\ UNCHANGED <<aside, left, runVars, historyVars>> /\ stage = "create" /\ outcome = "none"
      /\ aside = NoTree /\ written < Len(Blueprint) /\ File \in Names /\ File' = File /\ Mine' = Mine
  BY Blueprints DEF Create, CreationInv, CreationTypes, Places, Progress, runVars, File, Mine
<1>2. CASE ~(Exists(root) /\ root.files[File] = NoText)
  <2>1. UNCHANGED <<diskVars, runVars, historyVars>> /\ stage' = "idle" /\ outcome' = "failed"
    BY <1>1, <1>2 DEF Create, diskVars, End
  <2> QED BY <1>1, <2>1, EndKeeps
<1>3. CASE Exists(root) /\ root.files[File] = NoText
  <2>1. root' = [root EXCEPT !.files[File] = Empty] /\ stage' = "fill" /\ outcome' = "none"
    BY <1>1, <1>3 DEF Create, Goes
  <2>2. /\ root' \in Trees /\ root'.made = root.made /\ root'.files[File] = Empty
        /\ \A g \in Names \ {File} : root'.files[g] = root.files[g]
    BY <1>1, <2>1, FilePut, WordsApart DEF CreationInv, CreationTypes, Words
  <2>4. CreationTypes'
    BY <1>1, <1>3, <2>2 DEF CreationInv, CreationTypes, Whole, Exists, runVars, historyVars
  <2>5. Places' /\ Replaced' /\ OutcomeIsTrue'
    BY <1>1, <2>1 DEF Places, Replaced, OutcomeIsTrue
  <2>6. Progress'
    BY <1>1, <2>1, <2>2, Blueprints DEF CreationInv, CreationTypes, Progress, Busy, Beyond,
                                        runVars, historyVars
  <2> QED BY <2>4, <2>5, <2>6 DEF CreationInv
<1> QED BY <1>2, <1>3

LEMMA FillKeeps == ASSUME CreationInv, Fill  PROVE CreationInv'
<1>1. /\ UNCHANGED <<aside, left, attempt, kind, person, theirs, touched>> /\ stage = "fill"
      /\ aside = NoTree /\ written < Len(Blueprint) /\ File \in Files /\ File \in Names /\ Mine' = Mine
      /\ written' = written + 1 /\ stage' = "tear" /\ outcome' = "none" /\ written \in Nat
      /\ written' \in 0..Len(Blueprint) /\ File = Blueprint[written']
  BY Blueprints DEF Fill, Goes, CreationInv, CreationTypes, Places, Progress, historyVars, File,
                    Mine
<1>2. /\ root' \in Trees /\ root'.made = root.made /\ Whole(root')
      /\ \A g \in Names \ {File} : root'.files[g] = root.files[g]
      /\ root'.files[File] = Mine \/ File \in touched
  <2>1. CASE root.files[File] = NoText
    BY <1>1, <2>1, WordsApart DEF Fill, CreationInv, CreationTypes, Progress
  <2>2. CASE root.files[File] # NoText
    <3>1. root' = [root EXCEPT !.files[File] = Mine]
      BY <2>2 DEF Fill
    <3>2. /\ root' \in Trees /\ root'.made = root.made /\ root'.files[File] = Mine
          /\ \A g \in Names \ {File} : root'.files[g] = root.files[g]
      BY <1>1, <3>1, FilePut, WordsApart DEF CreationInv, CreationTypes, Words
    <3>3. root.made # NoText
      BY <1>1, <2>2, NothingThere DEF CreationInv, CreationTypes, Whole
    <3> QED BY <3>2, <3>3 DEF Whole
  <2> QED BY <2>1, <2>2
<1>3. manifest' \in Manifests
  <2>1. manifest' = [manifest EXCEPT !.files = [manifest.files EXCEPT ![File] = Mine]]
    BY DEF Fill
  <2> QED BY <1>1, <2>1, WordsApart DEF CreationInv, CreationTypes, Manifests
<1>4. CreationTypes'
  BY <1>1, <1>2, <1>3 DEF CreationInv, CreationTypes, Whole
<1>5. Places' /\ Replaced' /\ OutcomeIsTrue'
  BY <1>1 DEF Places, Replaced, OutcomeIsTrue
<1>6. Progress'
  <2> SUFFICES ASSUME kind # "npm", NEW i \in 1..written'
               PROVE  root'.files[Blueprint[i]] = Mine \/ Blueprint[i] \in touched
    BY <1>1 DEF Progress, Beyond
  <2>1. CASE Blueprint[i] = File
    BY <1>2, <2>1
  <2>2. CASE Blueprint[i] # File
    <3>1. i \in 1..written /\ Blueprint[i] \in Names
      BY <1>1, <2>2, Blueprints
    <3>2. root.files[Blueprint[i]] = Mine \/ Blueprint[i] \in touched
      BY <1>1, <2>2, <3>1 DEF CreationInv, Progress, Busy
    <3> QED BY <1>2, <2>2, <3>1, <3>2
  <2> QED BY <2>1, <2>2
<1> QED BY <1>4, <1>5, <1>6 DEF CreationInv

LEMMA ChildWritesKeeps == ASSUME CreationInv, ChildWrites  PROVE CreationInv'
<1>1. /\ UNCHANGED <<aside, left, runVars, stage, outcome, historyVars>> /\ File' = File /\ Mine' = Mine
      /\ root.files[Output] = NoText
      /\ root' = [root EXCEPT !.made = IF Exists(root) THEN @ ELSE Made, !.files[Output] = Made]
  BY DEF ChildWrites, runVars, File, Mine
<1>2. PICK t : t = [root EXCEPT !.made = IF Exists(root) THEN @ ELSE Made]
  OBVIOUS
<1>3. t \in Trees /\ t.files = root.files /\ t.made = IF Exists(root) THEN root.made ELSE Made
  BY <1>2, WordsApart DEF CreationInv, CreationTypes, Trees, Words
<1>4. root' = [t EXCEPT !.files[Output] = Made]
  BY <1>1, <1>2 DEF CreationInv, CreationTypes, Trees
<1>5. /\ root' \in Trees /\ root'.made = (IF Exists(root) THEN root.made ELSE Made)
      /\ \A g \in Names \ {Output} : root'.files[g] = root.files[g]
  BY <1>3, <1>4, FilePut, WordsApart, Blueprints DEF Words
<1>6. CreationTypes'
  BY <1>1, <1>5, WordsApart DEF CreationInv, CreationTypes, Whole, Exists, runVars, historyVars
<1>7. \A f \in Files : root'.files[f] = root.files[f]
  BY <1>5, Blueprints
<1>8. written < Len(Blueprint) => File \in Files
  BY Blueprints DEF CreationInv, CreationTypes
<1>9. Places' /\ Progress'
  BY <1>1, <1>7, <1>8, Blueprints DEF CreationInv, CreationTypes, Places, Progress, Busy, runVars,
                                      historyVars
<1>10. Replaced' /\ OutcomeIsTrue'
  BY <1>1, <1>5, <1>7, WordsApart DEF CreationInv, Replaced, OutcomeIsTrue, runVars, historyVars
<1> QED BY <1>6, <1>9, <1>10 DEF CreationInv

LEMMA MoveAsideKeeps == ASSUME CreationInv, MoveAside  PROVE CreationInv'
<1>1. /\ UNCHANGED <<left, runVars, historyVars>> /\ stage = "cleanup" /\ outcome = "none" /\ aside = NoTree
  BY DEF MoveAside, CreationInv, Places
<1>2. CASE UNCHANGED <<root, aside>>
  <2>1. CASE stage' = "idle" /\ outcome' = "removed" /\ ~Exists(root)
    <3>1. CreationTypes' /\ Places' /\ Progress' /\ Replaced'
      BY <1>1, <1>2, <2>1 DEF CreationInv, CreationTypes, Whole, Places, Progress, Busy, Beyond,
                              Replaced,
                              runVars, historyVars
    <3> QED BY <1>1, <1>2, <2>1, <3>1, WordsApart DEF CreationInv, OutcomeIsTrue, Exists
  <2>2. CASE stage' = "idle" /\ outcome' = "retained"
    BY <1>1, <1>2, <2>2, EndKeeps DEF diskVars
  <2>3. CASE aside' = root /\ root' = NoTree /\ stage' = "verify" /\ outcome' = outcome /\ Exists(root)
    BY <1>1, <1>2, <2>3, NothingThere DEF Exists
  <2> QED BY <2>1, <2>2, <2>3 DEF MoveAside, EndCleanup, End, Goes
<1>3. CASE aside' = root /\ root' = NoTree /\ stage' = "verify" /\ outcome' = outcome
  <2>1. CreationTypes'
    BY <1>1, <1>3, NothingThere DEF CreationInv, CreationTypes, Whole, runVars, historyVars
  <2>2. Places' /\ Progress' /\ Replaced' /\ OutcomeIsTrue'
    BY <1>1, <1>3, NothingThere, WordsApart DEF Places, Progress, Busy, Beyond, Replaced,
                                                OutcomeIsTrue
  <2> QED BY <2>1, <2>2 DEF CreationInv
<1> QED BY <1>2, <1>3 DEF MoveAside, EndCleanup, End, Goes

LEMMA DeleteKeeps == ASSUME CreationInv, Delete  PROVE CreationInv'
<1>1. /\ UNCHANGED <<root, runVars, historyVars>> /\ stage = "delete" /\ stage' = "idle" /\ aside' = NoTree
      /\ outcome' \in {"removed", "retained"} /\ left' \in {left, left \cup {aside}}
  BY DEF Delete, EndCleanup, End
<1>2. CreationTypes'
  BY <1>1, NothingThere DEF CreationInv, CreationTypes, Whole, runVars, historyVars
<1>3. Places' /\ Progress' /\ Replaced' /\ OutcomeIsTrue'
  BY <1>1 DEF CreationInv, Places, Progress, Busy, Beyond, Replaced, OutcomeIsTrue
<1> QED BY <1>2, <1>3 DEF CreationInv

LEMMA MoveBackKeeps == ASSUME CreationInv, MoveBack  PROVE CreationInv'
<1>1. /\ UNCHANGED <<runVars, historyVars>> /\ stage = "back" /\ stage' = "idle" /\ aside' = NoTree
      /\ outcome' = "retained" /\ root' \in {root, aside} /\ left' \in {left, left \cup {aside}}
  BY DEF MoveBack, EndCleanup, End
<1>2. CreationTypes'
  BY <1>1, NothingThere DEF CreationInv, CreationTypes, Whole, runVars, historyVars
<1>3. Places' /\ Progress' /\ Replaced' /\ OutcomeIsTrue'
  BY <1>1 DEF Places, Progress, Busy, Beyond, Replaced, OutcomeIsTrue
<1> QED BY <1>2, <1>3 DEF CreationInv

LEMMA PersonWritesKeeps == ASSUME CreationInv, NEW f \in Names, PersonWrites(f)  PROVE CreationInv'
<1>1. /\ UNCHANGED <<aside, left, runVars, stage, outcome>> /\ File' = File /\ Mine' = Mine /\ Exists(root)
      /\ person' = person + 1 /\ root' = [root EXCEPT !.files[f] = Theirs(person')]
      /\ theirs' = (theirs \ {root.files[f]}) \cup {Theirs(person')} /\ touched' = touched \cup {f}
  BY DEF PersonWrites, runVars, File, Mine
<1>2. person' \in Nat /\ Theirs(person') \in Persons
  BY <1>1, WordsApart DEF CreationInv, CreationTypes
<1>3. /\ root' \in Trees /\ root'.made = root.made
      /\ \A g \in Names \ {f} : root'.files[g] = root.files[g]
  BY <1>1, <1>2, FilePut DEF CreationInv, CreationTypes, Words
<1>4. CreationTypes'
  BY <1>1, <1>2, <1>3 DEF CreationInv, CreationTypes, Whole, Exists, runVars
<1>5. \A g \in Files : root'.files[g] = root.files[g] \/ g \in touched'
  BY <1>1, <1>3, Blueprints
<1>6. written < Len(Blueprint) => File \in Files
  BY Blueprints DEF CreationInv, CreationTypes
<1>7. Places' /\ Progress'
  BY <1>1, <1>5, <1>6, Blueprints DEF CreationInv, CreationTypes, Places, Progress, Busy, runVars
<1>8. Replaced' /\ OutcomeIsTrue'
  BY <1>1, <1>3, <1>5 DEF CreationInv, Replaced, OutcomeIsTrue, runVars
<1> QED BY <1>4, <1>7, <1>8 DEF CreationInv

LEMMA PersonMakesKeeps == ASSUME CreationInv, PersonMakes  PROVE CreationInv'
<1>1. /\ UNCHANGED <<aside, left, runVars, stage, outcome, touched>> /\ File' = File /\ Mine' = Mine
      /\ person' = person + 1 /\ root' = [NoTree EXCEPT !.made = Theirs(person')]
      /\ theirs' = theirs \cup {Theirs(person')} /\ root = NoTree
  BY DEF PersonMakes, runVars, File, Mine, Exists, CreationInv, CreationTypes, Whole
<1>2. person' \in Nat /\ Theirs(person') \in Persons /\ Theirs(person') # NoText /\ Theirs(person')[1] # "run"
  BY <1>1, WordsApart DEF CreationInv, CreationTypes
<1>3. root' \in Trees /\ root'.made = Theirs(person') /\ root'.files = root.files
  BY <1>1, <1>2, NothingThere DEF Trees, Words
<1>4. CreationTypes'
  BY <1>1, <1>2, <1>3 DEF CreationInv, CreationTypes, Whole, runVars
<1>5. Places' /\ Progress'
  BY <1>1, <1>3 DEF CreationInv, Places, Progress, Busy, runVars
<1>6. Replaced' /\ OutcomeIsTrue'
  BY <1>1, <1>2, <1>3 DEF CreationInv, Replaced, OutcomeIsTrue, runVars
<1> QED BY <1>4, <1>5, <1>6 DEF CreationInv

LEMMA PersonRemovesKeeps == ASSUME CreationInv, PersonRemoves  PROVE CreationInv'
<1>1. /\ UNCHANGED <<aside, left, runVars, stage, outcome>> /\ File' = File /\ Mine' = Mine
      /\ person' = person + 1 /\ root' = NoTree /\ theirs' \subseteq theirs /\ touched' = Names
  BY DEF PersonRemoves, runVars, File, Mine
<1>2. CreationTypes'
  BY <1>1, NothingThere DEF CreationInv, CreationTypes, Whole, runVars
<1>3. written < Len(Blueprint) => File \in Files
  BY Blueprints DEF CreationInv, CreationTypes
<1>4. Places' /\ Progress'
  BY <1>1, <1>3, Blueprints DEF CreationInv, CreationTypes, Places, Progress, Busy, runVars
<1>5. Replaced' /\ OutcomeIsTrue'
  BY <1>1, NothingThere, WordsApart, Blueprints DEF CreationInv, Replaced, OutcomeIsTrue, runVars
<1> QED BY <1>2, <1>4, <1>5 DEF CreationInv

LEMMA CrashKeeps == ASSUME CreationInv, Crash  PROVE CreationInv'
<1>1. /\ UNCHANGED <<root, attempt, kind, written, person, theirs, touched>> /\ stage' = "idle"
      /\ outcome' = "none" /\ aside' = NoTree /\ manifest' = NothingRecorded
      /\ left' \in {left, left \cup {aside}}
  BY DEF Crash
<1>2. CreationTypes'
  BY <1>1, NothingThere DEF CreationInv, CreationTypes, Whole
<1>3. Places' /\ Progress' /\ Replaced' /\ OutcomeIsTrue'
  BY <1>1 DEF Places, Progress, Busy, Beyond, Replaced, OutcomeIsTrue
<1> QED BY <1>2, <1>3 DEF CreationInv

LEMMA CreationKept == ASSUME CreationInv, [CreationNext]_creationVars  PROVE CreationInv'
<1>1. CASE \E k \in Kinds : Begin(k)
  BY <1>1, BeginKeeps
<1>2. CASE RunSteps
  <2>1. CASE Claim \/ MakeRoot \/ TearMarker \/ WriteMarker
    BY <2>1, ClaimKeeps, MakeRootKeeps, TearMarkerKeeps, WriteMarkerKeeps
  <2>2. CASE Write \/ Remove \/ Create \/ Fill \/ Note
    BY <2>2, WriteKeeps, RemoveKeeps, CreateKeeps, FillKeeps, NoteKeeps
  <2>3. CASE Absent \/ GateRefuses \/ RegisterRun \/ Spawn \/ SpawnFails
    BY <2>3, AbsentKeeps, GateRefusesKeeps, RegisterRunKeeps, SpawnKeeps, SpawnFailsKeeps
  <2>4. CASE StopsCancelled \/ StopsOverdue \/ StopsIdle \/ TearDown \/ Join
    BY <2>4, StopsCancelledKeeps, StopsOverdueKeeps, StopsIdleKeeps, TearDownKeeps, JoinKeeps
  <2>5. CASE MoveAside \/ Verify \/ Delete \/ MoveBack
    BY <2>5, MoveAsideKeeps, VerifyKeeps, DeleteKeeps, MoveBackKeeps
  <2> QED BY <1>2, <2>1, <2>2, <2>3, <2>4, <2>5 DEF RunSteps
<1>3. CASE \/ ReadsLine \/ ChildCloses \/ ChildExits \/ ChildPrints \/ ChildWrites \/ LetsGo
           \/ DeadlinePasses
  BY <1>3, ReadsLineKeeps, LetsGoKeeps, ChildClosesKeeps, ChildExitsKeeps, ChildPrintsKeeps, ChildWritesKeeps,
     DeadlinePassesKeeps
<1>4. CASE Cancel \/ \E r \in cancels : CancelRun(r)
  BY <1>4, CancelKeeps, CancelRunKeeps
<1>5. CASE (\E f \in Names : PersonWrites(f)) \/ PersonMakes \/ PersonRemoves \/ Crash
  BY <1>5, PersonWritesKeeps, PersonMakesKeeps, PersonRemovesKeeps, CrashKeeps
<1>6. CASE UNCHANGED creationVars
  BY <1>6 DEF CreationInv, CreationTypes, Whole, Places, Progress, Busy, Beyond, Replaced,
              OutcomeIsTrue,
              creationVars, diskVars, runVars, historyVars, File, Mine
<1> QED BY <1>1, <1>2, <1>3, <1>4, <1>5, <1>6 DEF CreationNext

LEMMA CreationStarts == ASSUME CreationInit  PROVE CreationInv
<1>1. CreationTypes
  BY NothingThere, Blueprints DEF CreationInit, CreationTypes, Whole
<1>2. Places /\ Progress /\ Replaced /\ OutcomeIsTrue
  BY DEF CreationInit, Places, Progress, Busy, Beyond, Replaced, OutcomeIsTrue
<1> QED BY <1>1, <1>2 DEF CreationInv

(* What the wizard is told of a run is so, whatever the person does (scaffold_runner.rs,
   creation_ownership.rs).                                                        *)
THEOREM OutcomesAreTrue == CreationSpec => []OutcomeIsTrue
<1>1. CreationInv => OutcomeIsTrue
  BY DEF CreationInv
<1> QED BY <1>1, CreationStarts, CreationKept, PTL DEF CreationSpec

----------------------------------------------------------------------------
(* Nothing of the person's is lost, as long as nobody gets between a look and a write. *)
ForeignInv == Provable /\ NothingForeignLost

(* No word of the person's leaves the disk. *)
LEMMA StillThere ==
    ASSUME CreationTypes, NothingForeignLost, theirs' \subseteq theirs,
           \A p \in theirs' : \A t \in {root, aside} \cup left :
              p \in Texts(t) => \E u \in {root', aside'} \cup left' : p \in Texts(u)
    PROVE  NothingForeignLost'
BY DEF NothingForeignLost, Texts

(* A tree that is not there holds no word of the person's; changing one file of a tree
   loses at most what was in it.                                                  *)
LEMMA NoTreeHasNothing == \A p \in Persons : p \notin Texts(NoTree)
BY NothingThere, WordsApart DEF Texts

LEMMA FileLost ==
    ASSUME NEW t \in Trees, NEW u \in Trees, NEW f \in Names, u.made = t.made,
           \A g \in Names \ {f} : u.files[g] = t.files[g],
           NEW p \in Texts(t), p # t.files[f]
    PROVE  p \in Texts(u)
BY DEF Texts

(* A file of the folder gets a word of Litria's, where a word of Litria's was. *)
LEMMA OursReplaced ==
    ASSUME CreationInv, ForeignInv, NEW f \in Names, root.files[f] \in Ours,
           root' \in Trees, root'.made = root.made,
           \A g \in Names \ {f} : root'.files[g] = root.files[g],
           UNCHANGED <<aside, left, theirs>>
    PROVE  NothingForeignLost'
<1>1. ASSUME NEW p \in theirs', NEW t \in {root, aside} \cup left, p \in Texts(t)
      PROVE  \E u \in {root', aside'} \cup left' : p \in Texts(u)
  <2>1. p \in Persons /\ p # root.files[f]
    BY WordsApart DEF CreationInv, CreationTypes
  <2>2. CASE t = root
    BY <1>1, <2>1, <2>2, FileLost DEF CreationInv, CreationTypes
  <2> QED BY <1>1, <2>2
<1> QED BY <1>1, StillThere DEF CreationInv, ForeignInv

(* The run goes on, and changes nothing on the disk. *)
LEMMA RunGoesOn ==
    ASSUME ForeignInv, UNCHANGED <<diskVars, theirs>>,
           manifest'.createdRoot = manifest.createdRoot, stage' \in Held => stage \in Held,
           stage' \notin {"claim", "remove", "fill", "verify", "delete", "back"}
    PROVE  ForeignInv'
<1>1. NothingForeignLost'
  BY DEF ForeignInv, NothingForeignLost, Texts, diskVars
<1>2. Provable'
  BY DEF ForeignInv, Provable, OwnMarker, Held, diskVars
<1> QED BY <1>1, <1>2 DEF ForeignInv

LEMMA RunStays ==
    ASSUME ForeignInv, UNCHANGED <<diskVars, theirs, manifest, stage, written>>
    PROVE  ForeignInv'
<1>1. NothingForeignLost'
  BY DEF ForeignInv, NothingForeignLost, Texts, diskVars
<1>2. Provable'
  BY DEF ForeignInv, Provable, OwnMarker, Held, diskVars, File
<1> QED BY <1>1, <1>2 DEF ForeignInv

LEMMA BeginLoses == ASSUME ForeignInv, NEW k \in Kinds, Begin(k)  PROVE ForeignInv'
<1>1. UNCHANGED <<root, aside, left, theirs>> /\ stage' \in {"claim", "absent"}
      /\ (stage' = "claim" => manifest' = NothingRecorded)
  BY DEF Begin, diskVars
<1>2. NothingForeignLost'
  BY <1>1 DEF ForeignInv, NothingForeignLost, Texts
<1>3. Provable'
  BY <1>1, NothingThere DEF ForeignInv, Provable, OwnMarker, Held
<1> QED BY <1>2, <1>3 DEF ForeignInv

(* The manifest that a claim takes over is that of a marker in the folder. *)
LEMMA ClaimLoses == ASSUME ForeignInv, Claim  PROVE ForeignInv'
<1>1. UNCHANGED <<root, aside, left, theirs>> /\ stage = "claim" /\ stage' \in {"make", "tear", "idle"}
      /\ \/ manifest' = manifest
         \/ root.marker.state = "written" /\ manifest' = root.marker.says
  BY DEF Claim, diskVars, historyVars, Goes, End
<1>2. NothingForeignLost'
  BY <1>1 DEF ForeignInv, NothingForeignLost, Texts
<1>3. Provable'
  BY <1>1 DEF ForeignInv, Provable, OwnMarker, Held
<1> QED BY <1>2, <1>3 DEF ForeignInv

LEMMA MakeRootLoses == ASSUME CreationInv, ForeignInv, MakeRoot  PROVE ForeignInv'
<1>1. UNCHANGED <<aside, left, theirs>> /\ stage = "make"
  BY DEF MakeRoot, historyVars
<1>2. CASE Exists(root)
  BY <1>1, <1>2, RunGoesOn DEF MakeRoot, End, Held, diskVars
<1>3. CASE ~Exists(root)
  <2>1. root = NoTree /\ root' = [NoTree EXCEPT !.made = Mine] /\ stage' = "tear"
    BY <1>3 DEF MakeRoot, Goes, Exists, CreationInv, CreationTypes, Whole
  <2>2. root'.made = Mine /\ root'.marker = NoMarker /\ Mine \in Ours
    BY <2>1, WordsApart DEF NoTree, CreationInv, CreationTypes
  <2>3. \A p \in theirs : p \notin Texts(root)
    BY <2>1, NoTreeHasNothing DEF CreationInv, CreationTypes
  <2>4. NothingForeignLost'
    BY <1>1, <2>3, StillThere DEF CreationInv, ForeignInv
  <2>5. Provable'
    BY <1>1, <2>1, <2>2, NothingThere DEF ForeignInv, Provable, OwnMarker, Held
  <2> QED BY <2>4, <2>5 DEF ForeignInv
<1> QED BY <1>2, <1>3

(* A marker is no word of anybody's. *)
LEMMA MarkerLoses ==
    ASSUME CreationInv, ForeignInv, NEW m \in Markers, root' = [root EXCEPT !.marker = m],
           m.state = "written" /\ m.says.createdRoot => root.made \in Ours,
           UNCHANGED <<aside, left, theirs, manifest>>, stage \in Held,
           stage' \notin {"claim", "remove", "fill", "verify", "delete", "back"}
    PROVE  ForeignInv'
<1>1. root'.made = root.made /\ root'.marker = m /\ root'.files = root.files
  BY MarkerPut DEF CreationInv, CreationTypes
<1>2. Texts(root') = Texts(root)
  BY <1>1 DEF Texts
<1>3. NothingForeignLost'
  BY <1>2, StillThere DEF CreationInv, ForeignInv
<1>4. Provable'
  BY <1>1 DEF ForeignInv, Provable, OwnMarker
<1> QED BY <1>3, <1>4 DEF ForeignInv

LEMMA TearMarkerLoses == ASSUME CreationInv, ForeignInv, TearMarker  PROVE ForeignInv'
<1>1. UNCHANGED <<aside, left, theirs, manifest>> /\ stage = "tear"
  BY DEF TearMarker, historyVars, runVars
<1>2. CASE Exists(root)
  <2>1. PICK m : m = [NoMarker EXCEPT !.state = "torn"]
    OBVIOUS
  <2>2. m \in Markers /\ m.state = "torn"
    BY <2>1, NothingThere DEF NoMarker, Markers
  <2> QED BY <1>1, <1>2, <2>1, <2>2, MarkerLoses DEF TearMarker, Goes, Held
<1>3. CASE ~Exists(root)
  BY <1>1, <1>3, RunGoesOn DEF TearMarker, End, Held, diskVars
<1> QED BY <1>2, <1>3

LEMMA WriteMarkerLoses == ASSUME CreationInv, ForeignInv, WriteMarker  PROVE ForeignInv'
<1>1. UNCHANGED <<aside, left, theirs, manifest>> /\ stage = "mark"
      /\ stage' \in {"idle", "write", "register", "note"}
  BY DEF WriteMarker, historyVars, runVars, Goes, End, After, CreationInv, CreationTypes
<1>2. CASE Exists(root)
  <2>1. PICK m : m = [state |-> "written", says |-> manifest]
    OBVIOUS
  <2>2. m \in Markers /\ m.says = manifest
    BY <2>1 DEF Markers, CreationInv, CreationTypes
  <2>3. manifest.createdRoot => root.made \in Ours
    BY <1>1 DEF ForeignInv, Provable, Held
  <2>4. root' = [root EXCEPT !.marker = m]
    BY <1>2, <2>1 DEF WriteMarker
  <2> QED BY <1>1, <2>2, <2>3, <2>4, MarkerLoses DEF Held
<1>3. CASE ~Exists(root)
  BY <1>1, <1>3, RunGoesOn DEF WriteMarker, Held, diskVars
<1> QED BY <1>2, <1>3

(* Only an attempt's own text is replaced. *)
LEMMA WriteLoses == ASSUME CreationInv, ForeignInv, Write  PROVE ForeignInv'
<1>1. UNCHANGED <<diskVars, theirs, manifest, written>> /\ stage = "write" /\ File' = File
  BY DEF Write, historyVars, runVars, File
<1>2. CASE stage' = "remove" /\ Proven(File)
  <2>1. File \in Names
    BY <1>1, Blueprints DEF CreationInv, CreationTypes, Progress
  <2>2. root.files[File] \in Ours
    BY <1>2, <2>1 DEF Proven, CreationInv, CreationTypes, Manifests
  <2>3. NothingForeignLost'
    BY <1>1 DEF ForeignInv, NothingForeignLost, Texts, diskVars
  <2>4. Provable'
    BY <1>1, <1>2, <2>2 DEF ForeignInv, Provable, OwnMarker, Held, diskVars
  <2> QED BY <2>3, <2>4 DEF ForeignInv
<1>3. CASE stage' \in {"create", "idle"}
  BY <1>1, <1>3, RunGoesOn DEF Held
<1> QED BY <1>2, <1>3 DEF Write, Goes, End

(* The folder keeps its maker and its marker; one file of it changes. *)
LEMMA FolderKept ==
    ASSUME ForeignInv, root'.made = root.made, root'.marker = root.marker, UNCHANGED aside,
           manifest'.createdRoot = manifest.createdRoot, stage \in Held,
           stage' \notin {"claim", "verify", "delete", "back"},
           stage' \in {"remove", "fill"} => root'.files[File'] \in Ours
    PROVE  Provable'
BY DEF ForeignInv, Provable, OwnMarker

LEMMA RemoveLoses == ASSUME CreationInv, ForeignInv, Remove  PROVE ForeignInv'
<1>1. UNCHANGED <<aside, left, theirs, manifest>> /\ stage = "remove"
  BY DEF Remove, historyVars, runVars
<1>2. CASE root.files[File] = NoText
  BY <1>1, <1>2, RunGoesOn DEF Remove, End, Held, diskVars
<1>3. CASE root.files[File] # NoText
  <2>1. root' = [root EXCEPT !.files[File] = NoText] /\ stage' = "create"
    BY <1>3 DEF Remove, Goes
  <2>2. File \in Names /\ root.files[File] \in Ours
    BY <1>1, Blueprints DEF CreationInv, CreationTypes, Progress, ForeignInv, Provable
  <2>3. /\ root' \in Trees /\ root'.made = root.made /\ root'.marker = root.marker
        /\ \A g \in Names \ {File} : root'.files[g] = root.files[g]
    BY <2>1, <2>2, FilePut, WordsApart DEF CreationInv, CreationTypes, Words
  <2>4. NothingForeignLost'
    BY <1>1, <2>2, <2>3, OursReplaced
  <2>5. Provable'
    BY <1>1, <2>1, <2>3, FolderKept DEF Held
  <2> QED BY <2>4, <2>5 DEF ForeignInv
<1> QED BY <1>2, <1>3

LEMMA CreateLoses == ASSUME CreationInv, ForeignInv, Create  PROVE ForeignInv'
<1>1. UNCHANGED <<aside, left, theirs, manifest>> /\ stage = "create" /\ File' = File
  BY DEF Create, historyVars, runVars, File
<1>2. CASE Exists(root) /\ root.files[File] = NoText
  <2>1. root' = [root EXCEPT !.files[File] = Empty] /\ stage' = "fill"
    BY <1>2 DEF Create, Goes
  <2>2. File \in Names /\ root.files[File] \in Ours
    BY <1>1, <1>2, Blueprints, WordsApart DEF CreationInv, CreationTypes, Progress
  <2>3. /\ root' \in Trees /\ root'.made = root.made /\ root'.marker = root.marker
        /\ root'.files[File] = Empty /\ \A g \in Names \ {File} : root'.files[g] = root.files[g]
    BY <2>1, <2>2, FilePut, WordsApart DEF CreationInv, CreationTypes, Words
  <2>4. NothingForeignLost'
    BY <1>1, <2>2, <2>3, OursReplaced
  <2>5. Provable'
    BY <1>1, <2>1, <2>3, FolderKept, WordsApart DEF Held
  <2> QED BY <2>4, <2>5 DEF ForeignInv
<1>3. CASE ~(Exists(root) /\ root.files[File] = NoText)
  BY <1>1, <1>3, RunGoesOn DEF Create, End, Held, diskVars
<1> QED BY <1>2, <1>3

LEMMA FillLoses == ASSUME CreationInv, ForeignInv, Fill  PROVE ForeignInv'
<1>1. UNCHANGED <<aside, left, theirs>> /\ stage = "fill" /\ stage' = "tear"
      /\ manifest' = [manifest EXCEPT !.files[File] = Mine]
  BY DEF Fill, historyVars, Goes
<1>2. manifest'.createdRoot = manifest.createdRoot
  BY <1>1 DEF CreationInv, CreationTypes, Manifests
<1>3. CASE root.files[File] = NoText
  BY <1>1, <1>2, <1>3, RunGoesOn DEF Fill, Held, diskVars
<1>4. CASE root.files[File] # NoText
  <2>1. root' = [root EXCEPT !.files[File] = Mine]
    BY <1>4 DEF Fill
  <2>2. File \in Names /\ root.files[File] \in Ours /\ Mine \in Words
    BY <1>1, Blueprints, WordsApart DEF CreationInv, CreationTypes, Progress, ForeignInv,
                                        Provable, Words
  <2>3. /\ root' \in Trees /\ root'.made = root.made /\ root'.marker = root.marker
        /\ \A g \in Names \ {File} : root'.files[g] = root.files[g]
    BY <2>1, <2>2, FilePut DEF CreationInv, CreationTypes
  <2>4. NothingForeignLost'
    BY <1>1, <2>2, <2>3, OursReplaced
  <2>5. Provable'
    BY <1>1, <1>2, <2>3, FolderKept DEF Held
  <2> QED BY <2>4, <2>5 DEF ForeignInv
<1> QED BY <1>3, <1>4

(* An npm run believes to have made the folder, which is not there. *)
LEMMA AbsentLoses == ASSUME ForeignInv, Absent  PROVE ForeignInv'
<1>1. /\ UNCHANGED <<root, aside, left, theirs, manifest>> /\ stage = "absent"
      /\ \/ stage' = "idle"
         \/ stage' = "register" /\ root.made = NoText
  BY DEF Absent, diskVars, runVars, historyVars, Goes, End, Exists
<1>2. NothingForeignLost'
  BY <1>1 DEF ForeignInv, NothingForeignLost, Texts
<1>3. Provable'
  BY <1>1, WordsApart DEF ForeignInv, Provable, OwnMarker, Held
<1> QED BY <1>2, <1>3 DEF ForeignInv

LEMMA ChildWritesLoses == ASSUME CreationInv, ForeignInv, ChildWrites  PROVE ForeignInv'
<1>1. /\ UNCHANGED <<aside, left, manifest, stage, theirs>> /\ File' = File
      /\ root.files[Output] = NoText
      /\ root' = [root EXCEPT !.made = IF Exists(root) THEN @ ELSE Made, !.files[Output] = Made]
  BY DEF ChildWrites, runVars, historyVars, File
<1>2. PICK t : t = [root EXCEPT !.made = IF Exists(root) THEN @ ELSE Made]
  OBVIOUS
<1>3. t \in Trees /\ t.files = root.files /\ t.marker = root.marker
      /\ t.made = (IF Exists(root) THEN root.made ELSE Made)
  BY <1>2, WordsApart DEF CreationInv, CreationTypes, Trees, Words
<1>4. root' = [t EXCEPT !.files[Output] = Made]
  BY <1>1, <1>2 DEF CreationInv, CreationTypes, Trees
<1>5. /\ root' \in Trees /\ root'.made = t.made /\ root'.marker = root.marker
      /\ \A g \in Names \ {Output} : root'.files[g] = root.files[g]
  BY <1>3, <1>4, FilePut, WordsApart, Blueprints DEF Words
<1>6. \/ root'.made = root.made
      \/ root.made = NoText /\ root'.made = Made
  BY <1>3, <1>5 DEF Exists
<1>7. ASSUME NEW p \in theirs', NEW u \in {root, aside} \cup left, p \in Texts(u)
      PROVE  \E v \in {root', aside'} \cup left' : p \in Texts(v)
  <2>1. p # NoText
    BY <1>1, WordsApart DEF CreationInv, CreationTypes
  <2>2. CASE u = root
    <3>1. \/ p = root.made
          \/ \E g \in Names \ {Output} : p = root.files[g]
      BY <1>1, <1>7, <2>1, <2>2 DEF Texts
    <3>2. p \in Texts(root')
      BY <1>5, <1>6, <2>1, <3>1 DEF Texts
    <3> QED BY <3>2
  <2> QED BY <1>1, <1>7, <2>2
<1>8. NothingForeignLost'
  BY <1>1, <1>7, StillThere DEF CreationInv, ForeignInv
<1>9. stage \in {"remove", "fill"} => root'.files[File] \in Ours
  BY <1>5, Blueprints DEF CreationInv, CreationTypes, Progress, ForeignInv, Provable
<1>10. Provable'
  BY <1>1, <1>5, <1>6, <1>9, WordsApart DEF ForeignInv, Provable, OwnMarker
<1> QED BY <1>8, <1>10 DEF ForeignInv

(* A cleanup moves the folder, and deletes it when all that is in it is an attempt's. *)
LEMMA MoveAsideLoses == ASSUME CreationInv, ForeignInv, MoveAside  PROVE ForeignInv'
<1>1. UNCHANGED <<left, manifest, theirs>> /\ stage = "cleanup" /\ aside = NoTree
  BY DEF MoveAside, runVars, historyVars, CreationInv, Places
<1>2. CASE UNCHANGED <<root, aside>> /\ stage' = "idle"
  BY <1>1, <1>2, RunGoesOn DEF Held, diskVars
<1>3. CASE manifest.createdRoot /\ aside' = root /\ root' = NoTree /\ stage' = "verify"
  <2>1. NothingForeignLost'
    <3>1. \A p \in theirs : p \notin Texts(aside)
      BY <1>1, NoTreeHasNothing DEF CreationInv, CreationTypes
    <3> QED BY <1>1, <1>3, <3>1, StillThere DEF CreationInv, ForeignInv
  <2>2. Provable'
    BY <1>1, <1>3, NothingThere DEF ForeignInv, Provable, OwnMarker, Held, NoTree
  <2> QED BY <2>1, <2>2 DEF ForeignInv
<1> QED BY <1>2, <1>3 DEF MoveAside, EndCleanup, End, Goes

LEMMA VerifyLoses == ASSUME CreationInv, ForeignInv, Verify  PROVE ForeignInv'
<1>1. /\ UNCHANGED <<root, aside, left, manifest, theirs>> /\ stage = "verify"
      /\ \/ stage' = "back"
         \/ stage' = "delete" /\ Verified(aside, manifest)
  BY DEF Verify, diskVars, runVars, historyVars, Goes
<1>2. NothingForeignLost'
  BY <1>1 DEF ForeignInv, NothingForeignLost, Texts
<1>3. Verified(aside, manifest) => \A f \in Names : aside.files[f] \in Ours
  BY WordsApart DEF Verified, CreationInv, CreationTypes, Manifests
<1>4. Provable'
  BY <1>1, <1>3 DEF ForeignInv, Provable, OwnMarker, Held
<1> QED BY <1>2, <1>4 DEF ForeignInv

LEMMA DeleteLoses == ASSUME CreationInv, ForeignInv, Delete  PROVE ForeignInv'
<1>1. UNCHANGED <<root, manifest, theirs>> /\ stage = "delete" /\ stage' = "idle" /\ aside' = NoTree
      /\ left \subseteq left'
  BY DEF Delete, runVars, historyVars, EndCleanup, End
<1>2. \A p \in theirs : p \notin Texts(aside)
  BY <1>1, WordsApart DEF ForeignInv, Provable, CreationInv, CreationTypes, Texts
<1>3. NothingForeignLost'
  BY <1>1, <1>2, StillThere DEF CreationInv, ForeignInv
<1>4. Provable'
  BY <1>1, NothingThere DEF ForeignInv, Provable, OwnMarker, Held, NoTree
<1> QED BY <1>3, <1>4 DEF ForeignInv

LEMMA MoveBackLoses == ASSUME CreationInv, ForeignInv, MoveBack  PROVE ForeignInv'
<1>1. UNCHANGED <<manifest, theirs>> /\ stage = "back" /\ stage' = "idle" /\ aside' = NoTree
      /\ \/ left' = left \cup {aside} /\ root' = root
         \/ root.made = NoText /\ root' = aside /\ left' = left
  BY DEF MoveBack, runVars, historyVars, EndCleanup, End, Exists
<1>2. root.made = NoText => \A p \in theirs : p \notin Texts(root)
  BY NoTreeHasNothing DEF CreationInv, CreationTypes, Whole
<1>3. NothingForeignLost'
  BY <1>1, <1>2, StillThere DEF CreationInv, ForeignInv
<1>4. Provable'
  BY <1>1, NothingThere DEF ForeignInv, Provable, OwnMarker, Held, NoTree
<1> QED BY <1>3, <1>4 DEF ForeignInv

LEMMA PersonPuts ==
    ASSUME CreationInv, NEW f \in Names, PersonWrites(f)
    PROVE  /\ root' \in Trees /\ root'.made = root.made /\ root'.marker = root.marker
           /\ root'.files[f] = Theirs(person')
           /\ \A g \in Names \ {f} : root'.files[g] = root.files[g]
<1>1. Theirs(person') \in Words /\ root' = [root EXCEPT !.files[f] = Theirs(person')]
  BY WordsApart DEF PersonWrites, CreationInv, CreationTypes, Words
<1>2. /\ root' \in Trees /\ root'.made = root.made
      /\ \A g \in Names \ {f} : root'.files[g] = root.files[g]
  BY <1>1, FilePut DEF CreationInv, CreationTypes
<1>3. root'.marker = root.marker /\ root'.files[f] = Theirs(person')
  BY <1>1 DEF CreationInv, CreationTypes, Trees
<1> QED BY <1>2, <1>3

LEMMA PersonWritesLoses ==
    ASSUME Undisturbed, CreationInv, ForeignInv, NEW f \in Names, PersonWrites(f)
    PROVE  ForeignInv'
<1>1. /\ UNCHANGED <<aside, left, manifest, stage>> /\ File' = File /\ MayWrite(f)
      /\ person' = person + 1 /\ root' = [root EXCEPT !.files[f] = Theirs(person')]
      /\ theirs' = (theirs \ {root.files[f]}) \cup {Theirs(person')}
  BY DEF PersonWrites, runVars, File
<1>2. /\ root' \in Trees /\ root'.made = root.made /\ root'.marker = root.marker
      /\ root'.files[f] = Theirs(person')
      /\ \A g \in Names \ {f} : root'.files[g] = root.files[g]
  BY PersonPuts
<1>3. ASSUME NEW p \in theirs'  PROVE \E u \in {root', aside'} \cup left' : p \in Texts(u)
  <2>1. CASE p = Theirs(person')
    BY <1>2, <2>1 DEF Texts
  <2>2. CASE p \in theirs /\ p # root.files[f]
    <3>1. PICK t \in {root, aside} \cup left : p \in Texts(t)
      BY <2>2 DEF ForeignInv, NothingForeignLost
    <3>2. CASE t = root
      BY <1>2, <2>2, <3>1, <3>2, FileLost DEF CreationInv, CreationTypes
    <3> QED BY <1>1, <3>1, <3>2
  <2> QED BY <1>1, <1>3, <2>1, <2>2
<1>4. NothingForeignLost'
  BY <1>3 DEF NothingForeignLost, Texts
<1>5. stage \in {"remove", "fill"} => root'.files[File] \in Ours
  <2>1. ASSUME stage \in {"remove", "fill"}  PROVE File \in Names /\ File # f
    BY <1>1, <2>1, Blueprints DEF MayWrite, CreationInv, CreationTypes, Progress
  <2> QED BY <1>2, <2>1 DEF ForeignInv, Provable
<1>6. Provable'
  BY <1>1, <1>2, <1>5 DEF ForeignInv, Provable, OwnMarker
<1> QED BY <1>4, <1>6 DEF ForeignInv

LEMMA PersonMakesLoses ==
    ASSUME Undisturbed, CreationInv, ForeignInv, PersonMakes
    PROVE  ForeignInv'
<1>1. /\ UNCHANGED <<aside, left, manifest, stage>> /\ stage \notin Held
      /\ root' = [NoTree EXCEPT !.made = Theirs(person')]
      /\ theirs' = theirs \cup {Theirs(person')} /\ root = NoTree
  BY DEF PersonMakes, MayMake, Held, runVars, Exists, CreationInv, CreationTypes, Whole
<1>2. root'.made = Theirs(person') /\ root'.marker = NoMarker
  BY <1>1 DEF NoTree
<1>3. ASSUME NEW p \in theirs'  PROVE \E u \in {root', aside'} \cup left' : p \in Texts(u)
  <2>1. CASE p = Theirs(person')
    BY <1>2, <2>1 DEF Texts
  <2>2. CASE p \in theirs
    <3>1. PICK t \in {root, aside} \cup left : p \in Texts(t)
      BY <2>2 DEF ForeignInv, NothingForeignLost
    <3>2. t # root
      BY <1>1, <2>2, <3>1, NoTreeHasNothing DEF CreationInv, CreationTypes
    <3> QED BY <1>1, <3>1, <3>2
  <2> QED BY <1>1, <1>3, <2>1, <2>2
<1>4. NothingForeignLost'
  BY <1>3 DEF NothingForeignLost, Texts
<1>5. Provable'
  BY <1>1, <1>2, NothingThere DEF ForeignInv, Provable, OwnMarker, Held
<1> QED BY <1>4, <1>5 DEF ForeignInv

LEMMA PersonRemovesLoses == ASSUME CreationInv, ForeignInv, PersonRemoves  PROVE ForeignInv'
<1>1. /\ UNCHANGED <<aside, left, manifest, stage>> /\ File' = File
      /\ root' = NoTree /\ theirs' = theirs \ Texts(root)
  BY DEF PersonRemoves, runVars, File
<1>2. NothingForeignLost'
  BY <1>1, StillThere DEF CreationInv, ForeignInv
<1>3. stage \in {"remove", "fill"} => File \in Names
  BY Blueprints DEF CreationInv, CreationTypes, Progress
<1>4. Provable'
  BY <1>1, <1>3, NothingThere, WordsApart DEF ForeignInv, Provable, OwnMarker, Held, NoTree
<1> QED BY <1>2, <1>4 DEF ForeignInv

LEMMA CrashLoses == ASSUME CreationInv, ForeignInv, Crash  PROVE ForeignInv'
<1>1. UNCHANGED <<root, theirs>> /\ stage' = "idle" /\ aside' = NoTree
      /\ left' = (IF Exists(aside) THEN left \cup {aside} ELSE left)
  BY DEF Crash
<1>2. ~Exists(aside) => \A p \in theirs : p \notin Texts(aside)
  BY NoTreeHasNothing DEF CreationInv, CreationTypes, Whole, Exists
<1>3. NothingForeignLost'
  BY <1>1, <1>2, StillThere DEF CreationInv, ForeignInv
<1>4. Provable'
  BY <1>1, NothingThere DEF ForeignInv, Provable, OwnMarker, Held, NoTree
<1> QED BY <1>3, <1>4 DEF ForeignInv

(* The steps of the run and of its process that change nothing on the disk. *)
LEMMA GoingOnLoses ==
    ASSUME CreationInv, ForeignInv,
           \/ Note \/ GateRefuses \/ RegisterRun \/ Spawn \/ SpawnFails
           \/ StopsCancelled \/ StopsOverdue \/ StopsIdle \/ TearDown \/ Join
           \/ ChildCloses \/ ChildExits
    PROVE  ForeignInv'
<1>1. CASE Note
  <2>1. manifest' = [manifest EXCEPT !.unrecorded = @ \cup {Output}]
    BY <1>1 DEF Note
  <2>2. manifest'.createdRoot = manifest.createdRoot
    BY <2>1 DEF CreationInv, CreationTypes, Manifests
  <2> QED BY <1>1, <2>2, RunGoesOn DEF Note, Goes, Held, historyVars
<1>2. CASE GateRefuses \/ RegisterRun \/ Spawn \/ SpawnFails
  <2>1. UNCHANGED <<diskVars, theirs, manifest>> /\ stage \in Held
        /\ stage' \in {"idle", "spawn", "cleanup", "running"}
    BY <1>2 DEF GateRefuses, RegisterRun, Spawn, SpawnFails, CommandEnds, Goes, End, Held, runVars,
                historyVars
  <2> QED BY <2>1, RunGoesOn
<1>3. CASE StopsCancelled \/ StopsOverdue \/ StopsIdle \/ TearDown \/ Join \/ ChildCloses
           \/ ChildExits
  <2>1. UNCHANGED <<diskVars, theirs, manifest>> /\ stage \in Held
        /\ stage' \in {"idle", "spawn", "cleanup", "stop", "expire", "stopped", "expired", "wait"}
    BY <1>3 DEF StopsCancelled, StopsOverdue, StopsIdle, TearDown, Join, ChildCloses, ChildExits,
                CommandEnds, Goes, End, Held, runVars, historyVars
  <2> QED BY <2>1, RunGoesOn
<1> QED BY <1>1, <1>2, <1>3

LEMMA StayingLoses ==
    ASSUME ForeignInv,
           \/ ReadsLine \/ ChildPrints \/ LetsGo \/ DeadlinePasses \/ Cancel
           \/ (\E r \in cancels : CancelRun(r)) \/ UNCHANGED creationVars
    PROVE  ForeignInv'
<1>1. UNCHANGED <<diskVars, theirs, manifest, stage, written>>
  BY DEF ReadsLine, ChildPrints, LetsGo, DeadlinePasses, Cancel, CancelRun, creationVars, diskVars, runVars,
         historyVars
<1> QED BY <1>1, RunStays

LEMMA ForeignKept ==
    ASSUME Undisturbed, CreationInv, ForeignInv, [CreationNext]_creationVars
    PROVE  ForeignInv'
<1>1. CASE \E k \in Kinds : Begin(k)
  BY <1>1, BeginLoses
<1>2. CASE RunSteps
  <2>1. CASE Claim \/ MakeRoot \/ TearMarker \/ WriteMarker
    BY <2>1, ClaimLoses, MakeRootLoses, TearMarkerLoses, WriteMarkerLoses
  <2>2. CASE Write \/ Remove \/ Create \/ Fill \/ Absent
    BY <2>2, WriteLoses, RemoveLoses, CreateLoses, FillLoses, AbsentLoses
  <2>3. CASE MoveAside \/ Verify \/ Delete \/ MoveBack
    BY <2>3, MoveAsideLoses, VerifyLoses, DeleteLoses, MoveBackLoses
  <2> QED BY <1>2, <2>1, <2>2, <2>3, GoingOnLoses DEF RunSteps
<1>3. CASE ChildWrites \/ PersonRemoves \/ Crash
  BY <1>3, ChildWritesLoses, PersonRemovesLoses, CrashLoses
<1>4. CASE (\E f \in Names : PersonWrites(f)) \/ PersonMakes
  BY <1>4, PersonWritesLoses, PersonMakesLoses
<1> QED BY <1>1, <1>2, <1>3, <1>4, GoingOnLoses, StayingLoses DEF CreationNext

LEMMA ForeignStarts == ASSUME CreationInit  PROVE ForeignInv
<1>1. Provable
  BY NothingThere DEF CreationInit, Provable, OwnMarker, Held, NoTree
<1>2. NothingForeignLost
  BY DEF CreationInit, NothingForeignLost
<1> QED BY <1>1, <1>2 DEF ForeignInv

(* As long as nobody gets between a run's look at a file, or at the folder, and its write,
   no retry and no cleanup loses what a person wrote or made there
   (creation_ownership.rs, scaffold_runner.rs).                                   *)
THEOREM NothingForeignIsLost == ASSUME Undisturbed  PROVE CreationSpec => []NothingForeignLost
<1>1. CreationInit => CreationInv /\ ForeignInv
  BY CreationStarts, ForeignStarts
<1>2. CreationInv /\ ForeignInv /\ [CreationNext]_creationVars => (CreationInv /\ ForeignInv)'
  BY CreationKept, ForeignKept
<1>3. CreationInv /\ ForeignInv => NothingForeignLost
  BY DEF ForeignInv
<1> QED BY <1>1, <1>2, <1>3, PTL DEF CreationSpec

===============================================================================
