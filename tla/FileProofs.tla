----------------------------- MODULE FileProofs -----------------------------
(***************************************************************************)
(* Proofs about the files of a project.  EditorSaves: a save overwrites    *)
(* nothing that the editor has not held, the check blames nobody for       *)
(* Litria's own text, and a clean tab is not quietly stale.  All three     *)
(* rest on the order in which the window hears of reads and saves, so the  *)
(* queue of the calls is reasoned about first, as a sequence of its own.   *)
(* FolderGroups: pieces follow their files, every folder is drawn once,    *)
(* and members follow their files.  All three rest on one invariant, of    *)
(* four parts: where the pieces stand, the types and the ids, what the     *)
(* pass leaves drawn, and which group each piece is in.                    *)
(***************************************************************************)
EXTENDS EditorSaves, FolderGroups, SequenceTheorems, FiniteSetTheorems, TLAPS

----------------------------------------------------------------------------
(* EditorSaves *)

MaybeTexts == Texts \cup {Gone}
Calls == [by : {"save", "listen", "take", "keep", "check"}, text : MaybeTexts, base : MaybeTexts,
          step : {"asked", "compared", "replaced", "ended"},
          answer : MaybeTexts \cup {"saved", "changed", "failed"}, version : Nat, own : BOOLEAN]
Disks == [text : MaybeTexts, version : Nat \ {0}, own : BOOLEAN]
Checks == [pc : {"idle", "asked", "answered", "reading"}, watched : Nat, stamp : Nat]
Tabs == [code : Texts, stamp : Nat, saved : Texts, working : Texts]

Types ==
    /\ disk \in Disks
    /\ now \in Tabs /\ seen \in Tabs
    /\ lastSaved \in MaybeTexts
    /\ calls \in Seq(Calls)
    /\ reached \subseteq Texts
    /\ late \in BOOLEAN
    /\ check \in Checks

----------------------------------------------------------------------------
(* The inductive invariant: what is true of a queue q of calls, given what the disk holds (d),
   the text of the last save that was heard (last), and what the editor has held (R)      *)

(* The event loop runs the calls in their order. *)
InOrder(q) ==
    \A j \in 1..Len(q) :
        /\ q[j].step # "asked" => \A k \in 1..(j - 1) : q[k].step = "ended"
        /\ q[j].step \in {"compared", "replaced"} => q[j].by = "save"

(* A save that is on disk, whether or not its answer was heard *)
Wrote(c) == c.by = "save" /\ (c.step = "replaced" \/ (c.step = "ended" /\ c.answer = "saved"))

(* The text that Litria wrote last, of the saves heard and those before place j *)
WroteLast(q, j, text, last) ==
    \/ \E i \in 1..(j - 1) : /\ Wrote(q[i]) /\ q[i].text = text
                             /\ \A k \in (i + 1)..(j - 1) : ~Wrote(q[k])
    \/ text = last /\ \A k \in 1..(j - 1) : ~Wrote(q[k])

(* What the disk holds, or a read found there, and is Litria's, is what it wrote last. *)
OwnIsLast(q, d, last) ==
    /\ d.own => WroteLast(q, Len(q) + 1, d.text, last)
    /\ \A j \in 1..Len(q) : q[j].by # "save" /\ q[j].step = "ended" /\ q[j].own =>
           WroteLast(q, j, q[j].answer, last)

(* An answer that names the version that is on disk names its text. *)
Version(c, d, text) == c.version <= d.version /\ (c.version = d.version => text = d.text)
Answers(q, d) ==
    \A j \in 1..Len(q) : q[j].step = "ended" =>
        /\ q[j].by # "save" => q[j].answer \in MaybeTexts /\ Version(q[j], d, q[j].answer)
        /\ Wrote(q[j]) => Version(q[j], d, q[j].text)

(* A save has its text from the editor, and what it expects on disk, too. *)
FromEditor(q, R) ==
    \A j \in 1..Len(q) : q[j].by = "save" => q[j].text \in R /\ q[j].base \in R \cup {Gone}

CallsTrue(q, d, last, R) ==
    InOrder(q) /\ OwnIsLast(q, d, last) /\ Answers(q, d) /\ FromEditor(q, R)

(* The tab, as it was set and as it was rendered *)
TabTrue(t) == t.code = t.saved /\ {t.code, t.working} \subseteq reached

(* The version that the window has recorded is shown, offered, or a save of its own. *)
Stamped ==
    /\ now.stamp <= disk.version
    /\ ~late /\ disk.text # Gone /\ now.stamp = disk.version =>
           now.saved = disk.text \/ disk.version \in offered \/ disk.text = lastSaved

IInv ==
    /\ Types /\ CallsTrue(calls, disk, lastSaved, reached)
    /\ TabTrue(now) /\ TabTrue(seen) /\ Stamped /\ CheckBlamesOthers


----------------------------------------------------------------------------
(* The queue, whatever a step does to it *)

LEMMA CallIs ==
    ASSUME NEW c \in Calls
    PROVE  /\ c.by \in {"save", "listen", "take", "keep", "check"}
           /\ c.text \in MaybeTexts /\ c.base \in MaybeTexts
           /\ c.step \in {"asked", "compared", "replaced", "ended"}
           /\ c.version \in Nat /\ c.own \in BOOLEAN
BY DEF Calls

LEMMA CallShape ==
    ASSUME NEW by \in {"save", "listen", "take", "keep", "check"},
           NEW text \in MaybeTexts, NEW base \in MaybeTexts
    PROVE  /\ Call(by, text, base) \in Calls
           /\ Call(by, text, base).by = by /\ Call(by, text, base).text = text
           /\ Call(by, text, base).base = base /\ Call(by, text, base).step = "asked"
BY DEF Call, Calls, MaybeTexts

(* A call is asked. *)
LEMMA Asked ==
    ASSUME NEW q \in Seq(Calls), NEW d, NEW last, NEW R, CallsTrue(q, d, last, R),
           NEW c \in Calls, c.step = "asked",
           c.by = "save" => c.text \in R /\ c.base \in R \cup {Gone}
    PROVE  CallsTrue(Append(q, c), d, last, R)
<1> DEFINE p == Append(q, c)
<1>1. /\ Len(q) \in Nat /\ Len(p) = Len(q) + 1 /\ p[Len(q) + 1] = c
      /\ \A i \in 1..Len(q) : p[i] = q[i]
    OBVIOUS
<1> HIDE DEF p
<1> USE DEF CallsTrue
<1>2. ~Wrote(c)
    BY DEF Wrote
<1>3. InOrder(p)
  <2> SUFFICES ASSUME NEW j \in 1..Len(p), p[j].step # "asked"
               PROVE  /\ \A k \in 1..(j - 1) : p[k].step = "ended"
                      /\ p[j].step \in {"compared", "replaced"} => p[j].by = "save"
      BY DEF InOrder
  <2>1. j \in 1..Len(q)
      BY <1>1
  <2>2. \A k \in 1..(j - 1) : k \in 1..Len(q)
      BY <1>1, <2>1
  <2> QED BY <1>1, <2>1, <2>2 DEF InOrder
<1>4. ASSUME NEW j \in 1..(Len(q) + 1), NEW text, WroteLast(q, j, text, last)
      PROVE  WroteLast(p, j, text, last)
  <2>1. \A k \in 1..(j - 1) : k \in 1..Len(q)
      BY <1>1
  <2>2. CASE \E i \in 1..(j - 1) : /\ Wrote(q[i]) /\ q[i].text = text
                                   /\ \A k \in (i + 1)..(j - 1) : ~Wrote(q[k])
    <3>1. PICK i \in 1..(j - 1) : /\ Wrote(q[i]) /\ q[i].text = text
                                  /\ \A k \in (i + 1)..(j - 1) : ~Wrote(q[k])
        BY <2>2
    <3>2. \A k \in (i + 1)..(j - 1) : k \in 1..(j - 1)
        BY <1>1
    <3>3. /\ Wrote(p[i]) /\ p[i].text = text
          /\ \A k \in (i + 1)..(j - 1) : ~Wrote(p[k])
        BY <1>1, <2>1, <3>1, <3>2
    <3> QED BY <3>3 DEF WroteLast
  <2>3. CASE text = last /\ \A k \in 1..(j - 1) : ~Wrote(q[k])
      BY <1>1, <2>1, <2>3 DEF WroteLast
  <2> QED BY <1>4, <2>2, <2>3 DEF WroteLast
<1>5. ASSUME NEW text, WroteLast(p, Len(q) + 1, text, last)
      PROVE  WroteLast(p, Len(p) + 1, text, last)
  <2> DEFINE n == Len(q)
  <2>1. n \in Nat /\ Len(p) = n + 1 /\ ~Wrote(p[n + 1])
      BY <1>1, <1>2
  <2>2. CASE \E i \in 1..n : /\ Wrote(p[i]) /\ p[i].text = text
                             /\ \A k \in (i + 1)..n : ~Wrote(p[k])
    <3>1. PICK i \in 1..n : /\ Wrote(p[i]) /\ p[i].text = text
                            /\ \A k \in (i + 1)..n : ~Wrote(p[k])
        BY <2>2
    <3>2. \A k \in (i + 1)..(n + 1) : k \in (i + 1)..n \/ k = n + 1
        BY <2>1
    <3>3. i \in 1..(n + 1) /\ \A k \in (i + 1)..(n + 1) : ~Wrote(p[k])
        BY <2>1, <3>1, <3>2
    <3>4. (Len(p) + 1) - 1 = n + 1
        BY <2>1
    <3> QED BY <3>1, <3>3, <3>4 DEF WroteLast
  <2>3. CASE text = last /\ \A k \in 1..n : ~Wrote(p[k])
    <3>1. \A k \in 1..(n + 1) : ~Wrote(p[k])
        BY <2>1, <2>3
    <3>2. (Len(p) + 1) - 1 = n + 1
        BY <2>1
    <3> QED BY <2>3, <3>1, <3>2 DEF WroteLast
  <2>4. (n + 1) - 1 = n
      BY <2>1
  <2> QED BY <1>5, <2>2, <2>3, <2>4 DEF WroteLast
<1>6. OwnIsLast(p, d, last)
  <2>1. d.own => WroteLast(p, Len(p) + 1, d.text, last)
      BY <1>1, <1>4, <1>5 DEF OwnIsLast
  <2>2. ASSUME NEW j \in 1..Len(p), p[j].by # "save", p[j].step = "ended", p[j].own
        PROVE  WroteLast(p, j, p[j].answer, last)
    <3>1. j \in 1..Len(q) /\ j \in 1..(Len(q) + 1)
        BY <1>1, <2>2
    <3> QED BY <1>1, <1>4, <2>2, <3>1 DEF OwnIsLast
  <2> QED BY <2>1, <2>2 DEF OwnIsLast
<1>7. Answers(p, d)
  <2> SUFFICES ASSUME NEW j \in 1..Len(p), p[j].step = "ended"
               PROVE  /\ p[j].by # "save" => p[j].answer \in MaybeTexts
                                             /\ Version(p[j], d, p[j].answer)
                      /\ Wrote(p[j]) => Version(p[j], d, p[j].text)
      BY DEF Answers
  <2>1. j \in 1..Len(q)
      BY <1>1
  <2> QED BY <1>1, <2>1 DEF Answers
<1>8. FromEditor(p, R)
  <2> SUFFICES ASSUME NEW j \in 1..Len(p), p[j].by = "save"
               PROVE  p[j].text \in R /\ p[j].base \in R \cup {Gone}
      BY DEF FromEditor
  <2>1. CASE j \in 1..Len(q)
      BY <1>1, <2>1 DEF FromEditor
  <2>2. CASE j = Len(q) + 1
      BY <1>1, <2>2
  <2> QED BY <1>1, <2>1, <2>2
<1> QED BY <1>3, <1>6, <1>7, <1>8 DEF p

(* The window hears of the first call: what it then remembers of a save that was written is
   what the call said.                                                             *)
LEMMA HeardFirst ==
    ASSUME NEW q \in Seq(Calls), q # <<>>, q[1].step = "ended",
           NEW d, NEW last, NEW next, NEW R, CallsTrue(q, d, last, R),
           next = IF Wrote(q[1]) THEN q[1].text ELSE last
    PROVE  CallsTrue(Tail(q), d, next, R)
<1> DEFINE p == Tail(q)
<1>1. /\ Len(q) \in Nat \ {0} /\ Len(p) = Len(q) - 1
      /\ \A i \in 1..Len(p) : p[i] = q[i + 1]
    OBVIOUS
<1> HIDE DEF p
<1> USE DEF CallsTrue
<1>2. \A i \in 1..Len(p) : i + 1 \in 1..Len(q) /\ p[i] = q[i + 1]
    BY <1>1
<1>3. InOrder(p)
  <2> SUFFICES ASSUME NEW j \in 1..Len(p)
               PROVE  /\ p[j].step # "asked" => \A k \in 1..(j - 1) : p[k].step = "ended"
                      /\ p[j].step \in {"compared", "replaced"} => p[j].by = "save"
      BY DEF InOrder
  <2>1. \A k \in 1..(j - 1) : k \in 1..Len(p) /\ k + 1 \in 1..((j + 1) - 1)
      BY <1>1
  <2> QED BY <1>2, <2>1 DEF InOrder
<1>4. ASSUME NEW j \in 1..(Len(p) + 1), NEW text, WroteLast(q, j + 1, text, last)
      PROVE  WroteLast(p, j, text, next)
  <2>1. /\ \A k \in 1..(j - 1) : k \in 1..Len(p) /\ p[k] = q[k + 1]
        /\ (j + 1) - 1 = j /\ j \in Nat
      BY <1>1
  <2>2. CASE \E i \in 1..j : /\ Wrote(q[i]) /\ q[i].text = text
                             /\ \A k \in (i + 1)..j : ~Wrote(q[k])
    <3>1. PICK i \in 1..j : /\ Wrote(q[i]) /\ q[i].text = text
                            /\ \A k \in (i + 1)..j : ~Wrote(q[k])
        BY <2>2
    <3>2. CASE i = 1
      <4>1. \A k \in 1..(j - 1) : k + 1 \in (i + 1)..j
          BY <2>1, <3>2
      <4>2. \A k \in 1..(j - 1) : ~Wrote(p[k])
          BY <2>1, <3>1, <4>1
      <4> QED BY <3>1, <3>2, <4>2 DEF WroteLast
    <3>3. CASE i # 1
      <4>1. i - 1 \in 1..(j - 1) /\ (i - 1) + 1 = i
          BY <2>1, <3>3
      <4>2. \A k \in ((i - 1) + 1)..(j - 1) : k \in 1..(j - 1) /\ k + 1 \in (i + 1)..j
          BY <2>1, <4>1
      <4>3. /\ Wrote(p[i - 1]) /\ p[i - 1].text = text
            /\ \A k \in ((i - 1) + 1)..(j - 1) : ~Wrote(p[k])
          BY <2>1, <3>1, <4>1, <4>2
      <4> QED BY <4>1, <4>3 DEF WroteLast
    <3> QED BY <3>2, <3>3
  <2>3. CASE text = last /\ \A k \in 1..j : ~Wrote(q[k])
    <3>1. 1 \in 1..j /\ \A k \in 1..(j - 1) : k + 1 \in 1..j
        BY <2>1
    <3>2. next = last /\ \A k \in 1..(j - 1) : ~Wrote(p[k])
        BY <2>1, <2>3, <3>1
    <3> QED BY <2>3, <3>2 DEF WroteLast
  <2> QED BY <1>4, <2>1, <2>2, <2>3 DEF WroteLast
<1>5. OwnIsLast(p, d, next)
  <2>1. d.own => WroteLast(p, Len(p) + 1, d.text, next)
    <3>1. Len(p) + 1 \in 1..(Len(p) + 1) /\ (Len(p) + 1) + 1 = Len(q) + 1
        BY <1>1
    <3> QED BY <1>4, <3>1 DEF OwnIsLast
  <2>2. ASSUME NEW j \in 1..Len(p), p[j].by # "save", p[j].step = "ended", p[j].own
        PROVE  WroteLast(p, j, p[j].answer, next)
    <3>1. j \in 1..(Len(p) + 1)
        BY <1>1
    <3>2. WroteLast(q, j + 1, p[j].answer, last)
        BY <1>2, <2>2 DEF OwnIsLast
    <3> QED BY <1>4, <3>1, <3>2
  <2> QED BY <2>1, <2>2 DEF OwnIsLast
<1>6. Answers(p, d)
    BY <1>2 DEF Answers
<1>7. FromEditor(p, R)
    BY <1>2 DEF FromEditor
<1> QED BY <1>3, <1>5, <1>6, <1>7 DEF p

(* The calls after the one that runs have only been asked. *)
LEMMA LaterAsked ==
    ASSUME NEW q \in Seq(Calls), InOrder(q), NEW i \in 1..Len(q), q[i].step # "ended",
           NEW j \in 1..Len(q), j > i
    PROVE  q[j].step = "asked"
<1>1. i \in 1..(j - 1)
    OBVIOUS
<1> QED BY <1>1 DEF InOrder

(* The place i of the queue q becomes c, in p. *)
Becomes(q, p, i, c) ==
    /\ p \in Seq(Calls) /\ Len(p) = Len(q)
    /\ p[i] = c /\ c.by = q[i].by /\ c.text = q[i].text /\ c.base = q[i].base
    /\ \A j \in 1..Len(q) : j # i => p[j] = q[j]

LEMMA BecomesInOrder ==
    ASSUME NEW q \in Seq(Calls), InOrder(q), NEW i \in 1..Len(q), q[i].step # "ended",
           \A k \in 1..(i - 1) : q[k].step = "ended",
           NEW p, NEW c, Becomes(q, p, i, c),
           c.step \in {"compared", "replaced"} => c.by = "save"
    PROVE  InOrder(p)
<1> SUFFICES ASSUME NEW j \in 1..Len(p)
             PROVE  /\ p[j].step # "asked" => \A k \in 1..(j - 1) : p[k].step = "ended"
                    /\ p[j].step \in {"compared", "replaced"} => p[j].by = "save"
    BY DEF InOrder
<1> USE DEF Becomes
<1>1. CASE j = i
  <2>1. \A k \in 1..(j - 1) : k \in 1..Len(q) /\ k # i
      BY <1>1
  <2> QED BY <1>1, <2>1
<1>2. CASE j < i
  <2>1. \A k \in 1..(j - 1) : k \in 1..Len(q) /\ k # i /\ k \in 1..(i - 1)
      BY <1>2
  <2> QED BY <1>2, <2>1 DEF InOrder
<1>3. CASE j > i
  <2>1. p[j] = q[j] /\ q[j].step = "asked"
      BY <1>3, LaterAsked
  <2> QED BY <2>1
<1> QED BY <1>1, <1>2, <1>3

(* What was written last is the same for two queues that wrote the same up to there. *)
LEMMA SameWrites ==
    ASSUME NEW q, NEW p, NEW j \in Nat, NEW text, NEW last,
           \A k \in 1..(j - 1) : (Wrote(p[k]) <=> Wrote(q[k])) /\ p[k].text = q[k].text,
           WroteLast(q, j, text, last)
    PROVE  WroteLast(p, j, text, last)
<1>1. CASE \E i \in 1..(j - 1) : /\ Wrote(q[i]) /\ q[i].text = text
                                 /\ \A k \in (i + 1)..(j - 1) : ~Wrote(q[k])
  <2>1. PICK i \in 1..(j - 1) : /\ Wrote(q[i]) /\ q[i].text = text
                                /\ \A k \in (i + 1)..(j - 1) : ~Wrote(q[k])
      BY <1>1
  <2>2. \A k \in (i + 1)..(j - 1) : k \in 1..(j - 1)
      OBVIOUS
  <2>3. Wrote(p[i]) /\ p[i].text = text /\ \A k \in (i + 1)..(j - 1) : ~Wrote(p[k])
      BY <2>1, <2>2
  <2> QED BY <2>3 DEF WroteLast
<1>2. CASE text = last /\ \A k \in 1..(j - 1) : ~Wrote(q[k])
    BY <1>2 DEF WroteLast
<1> QED BY <1>1, <1>2 DEF WroteLast

(* A step of the call that runs, which writes nothing: its answer is true of the disk. *)
LEMMA Steps ==
    ASSUME NEW q \in Seq(Calls), NEW d, NEW last, NEW R, CallsTrue(q, d, last, R),
           NEW i \in 1..Len(q), q[i].step # "ended", \A k \in 1..(i - 1) : q[k].step = "ended",
           NEW p, NEW c, Becomes(q, p, i, c),
           c.step \in {"compared", "replaced"} => c.by = "save",
           Wrote(c) <=> Wrote(q[i]),
           c.step = "ended" /\ c.by # "save" =>
               c.answer \in MaybeTexts /\ Version(c, d, c.answer) /\ c.answer = d.text
               /\ c.own = d.own,
           c.step = "ended" /\ Wrote(c) => Version(c, d, c.text)
    PROVE  CallsTrue(p, d, last, R)
<1> USE DEF CallsTrue
<1>1. InOrder(p)
    BY BecomesInOrder
<1>2. Len(q) \in Nat /\ Len(p) = Len(q) /\ p[i] = c /\ \A j \in 1..Len(q) : j # i => p[j] = q[j]
    BY DEF Becomes
<1>3. \A k \in 1..Len(q) : (Wrote(p[k]) <=> Wrote(q[k])) /\ p[k].text = q[k].text
    BY <1>2 DEF Becomes
<1>4. ASSUME NEW j \in 1..(Len(q) + 1), NEW text, WroteLast(q, j, text, last)
      PROVE  WroteLast(p, j, text, last)
  <2>1. j \in Nat /\ \A k \in 1..(j - 1) : k \in 1..Len(q)
      BY <1>2
  <2> QED BY <1>3, <1>4, <2>1, SameWrites
<1>5. OwnIsLast(p, d, last)
  <2>1. d.own => WroteLast(p, Len(p) + 1, d.text, last)
    <3>1. Len(p) + 1 \in 1..(Len(q) + 1)
        BY <1>2
    <3> QED BY <1>2, <1>4, <3>1 DEF OwnIsLast
  <2>2. ASSUME NEW j \in 1..Len(p), p[j].by # "save", p[j].step = "ended", p[j].own
        PROVE  WroteLast(p, j, p[j].answer, last)
    <3>1. j \in 1..(Len(q) + 1) /\ j \in 1..Len(q)
        BY <1>2
    <3>2. CASE j # i
        BY <1>2, <1>4, <2>2, <3>1, <3>2 DEF OwnIsLast
    <3>3. CASE j = i
      <4>1. d.own /\ c.answer = d.text /\ c.by # "save" /\ ~Wrote(c)
          BY <1>2, <2>2, <3>3 DEF Wrote
      <4>2. ASSUME NEW k \in 1..Len(q), k >= i  PROVE ~Wrote(q[k])
        <5>1. CASE k = i
            BY <4>1, <5>1
        <5>2. CASE k > i
            BY <5>2, LaterAsked DEF Wrote
        <5> QED BY <4>2, <5>1, <5>2
      <4>3. WroteLast(q, Len(q) + 1, d.text, last) /\ (Len(q) + 1) - 1 = Len(q)
          BY <1>2, <4>1 DEF OwnIsLast
      <4>4. WroteLast(q, i, d.text, last)
        <5>1. CASE \E m \in 1..Len(q) : /\ Wrote(q[m]) /\ q[m].text = d.text
                                        /\ \A k \in (m + 1)..Len(q) : ~Wrote(q[k])
          <6>1. PICK m \in 1..Len(q) : /\ Wrote(q[m]) /\ q[m].text = d.text
                                       /\ \A k \in (m + 1)..Len(q) : ~Wrote(q[k])
              BY <5>1
          <6>2. m \in 1..(i - 1)
              BY <4>2, <6>1
          <6>3. \A k \in (m + 1)..(i - 1) : k \in (m + 1)..Len(q)
              BY <1>2
          <6> QED BY <6>1, <6>2, <6>3 DEF WroteLast
        <5>2. CASE d.text = last /\ \A k \in 1..Len(q) : ~Wrote(q[k])
          <6>1. \A k \in 1..(i - 1) : k \in 1..Len(q)
              BY <1>2
          <6> QED BY <5>2, <6>1 DEF WroteLast
        <5> QED BY <4>3, <5>1, <5>2 DEF WroteLast
      <4> QED BY <1>2, <1>4, <3>1, <3>3, <4>1, <4>4
    <3> QED BY <3>2, <3>3
  <2> QED BY <2>1, <2>2 DEF OwnIsLast
<1>6. Answers(p, d)
  <2> SUFFICES ASSUME NEW j \in 1..Len(p), p[j].step = "ended"
               PROVE  /\ p[j].by # "save" => p[j].answer \in MaybeTexts
                                             /\ Version(p[j], d, p[j].answer)
                      /\ Wrote(p[j]) => Version(p[j], d, p[j].text)
      BY DEF Answers
  <2>1. CASE j = i
      BY <1>2, <2>1
  <2>2. CASE j # i
      BY <1>2, <2>2 DEF Answers
  <2> QED BY <2>1, <2>2
<1>7. FromEditor(p, R)
    BY DEF FromEditor, Becomes
<1> QED BY <1>1, <1>5, <1>6, <1>7

(* The save that runs puts its text on the disk. *)
LEMMA Lands ==
    ASSUME NEW q \in Seq(Calls), NEW d \in Disks, NEW last, NEW R, CallsTrue(q, d, last, R),
           NEW i \in 1..Len(q), q[i].step = "compared",
           NEW p, NEW c, Becomes(q, p, i, c), c.step = "replaced",
           NEW e \in Disks, e.text = q[i].text, e.version = d.version + 1
    PROVE  CallsTrue(p, e, last, R)
<1> USE DEF CallsTrue
<1>1. /\ q[i].by = "save" /\ \A k \in 1..(i - 1) : q[k].step = "ended"
    BY DEF InOrder
<1>2. c.by = "save" /\ Wrote(c) /\ c.text = q[i].text
    BY <1>1 DEF Becomes, Wrote
<1>3. InOrder(p)
    BY <1>1, <1>2, BecomesInOrder
<1>4. Len(q) \in Nat /\ Len(p) = Len(q) /\ p[i] = c /\ \A j \in 1..Len(q) : j # i => p[j] = q[j]
    BY DEF Becomes
<1>5. \A k \in 1..Len(q) : k > i => ~Wrote(p[k]) /\ p[k].step # "ended"
    BY <1>4, LaterAsked DEF Wrote
<1>6. OwnIsLast(p, e, last)
  <2>1. WroteLast(p, Len(p) + 1, e.text, last)
    <3>1. (Len(p) + 1) - 1 = Len(q)
        BY <1>4
    <3>2. \A k \in (i + 1)..Len(q) : ~Wrote(p[k])
        BY <1>4, <1>5
    <3> QED BY <1>2, <1>4, <3>1, <3>2 DEF WroteLast
  <2>2. ASSUME NEW j \in 1..Len(p), p[j].by # "save", p[j].step = "ended", p[j].own
        PROVE  WroteLast(p, j, p[j].answer, last)
    <3>1. j < i /\ p[j] = q[j] /\ j \in 1..Len(q) /\ j \in Nat
        BY <1>2, <1>4, <1>5, <2>2
    <3>2. \A k \in 1..(j - 1) : p[k] = q[k]
        BY <1>4, <3>1
    <3>3. WroteLast(q, j, p[j].answer, last)
        BY <2>2, <3>1 DEF OwnIsLast
    <3> QED BY <3>1, <3>2, <3>3, SameWrites
  <2> QED BY <2>1, <2>2 DEF OwnIsLast
<1>7. Answers(p, e)
  <2> SUFFICES ASSUME NEW j \in 1..Len(p), p[j].step = "ended"
               PROVE  /\ p[j].by # "save" => p[j].answer \in MaybeTexts
                                             /\ Version(p[j], e, p[j].answer)
                      /\ Wrote(p[j]) => Version(p[j], e, p[j].text)
      BY DEF Answers
  <2>1. j \in 1..Len(q) /\ p[j] = q[j] /\ q[j] \in Calls
      BY <1>4
  <2>2. d.version \in Nat /\ q[j].version \in Nat
      BY <2>1, CallIs DEF Disks
  <2> QED BY <2>1, <2>2 DEF Answers, Version
<1>8. FromEditor(p, R)
    BY DEF FromEditor, Becomes
<1> QED BY <1>3, <1>6, <1>7, <1>8

(* Another program puts a version on the disk, and the editor holds more texts. *)
LEMMA DiskMoves ==
    ASSUME NEW q \in Seq(Calls), NEW d \in Disks, NEW last, NEW R, CallsTrue(q, d, last, R),
           NEW e \in Disks, ~e.own, e.version = d.version + 1
    PROVE  CallsTrue(q, e, last, R)
<1> USE DEF CallsTrue
<1>1. OwnIsLast(q, e, last)
    BY DEF OwnIsLast
<1>2. Answers(q, e)
  <2> SUFFICES ASSUME NEW j \in 1..Len(q), q[j].step = "ended"
               PROVE  /\ q[j].by # "save" => q[j].answer \in MaybeTexts
                                             /\ Version(q[j], e, q[j].answer)
                      /\ Wrote(q[j]) => Version(q[j], e, q[j].text)
      BY DEF Answers
  <2>1. d.version \in Nat /\ q[j].version \in Nat
      BY CallIs DEF Disks
  <2> QED BY <2>1 DEF Answers, Version
<1> QED BY <1>1, <1>2

LEMMA EditorHoldsMore ==
    ASSUME NEW q, NEW d, NEW last, NEW R, CallsTrue(q, d, last, R), NEW S, R \subseteq S
    PROVE  CallsTrue(q, d, last, S)
BY DEF CallsTrue, FromEditor

----------------------------------------------------------------------------
(* The event loop and the disk *)

(* The running call reaches a step before its end. *)
LEMMA StepIs ==
    ASSUME calls \in Seq(Calls), NEW i \in 1..Len(calls),
           NEW step, step \in {"compared", "replaced"},
           calls' = [calls EXCEPT ![i].step = step]
    PROVE  Becomes(calls, calls', i, calls'[i]) /\ calls'[i].step = step
<1>1. calls[i] \in Calls
    OBVIOUS
<1>2. calls'[i] = [calls[i] EXCEPT !.step = step]
    OBVIOUS
<1>3. calls'[i] \in Calls /\ calls'[i].step = step
  <2>1. PICK d \in Calls : d = calls[i]
      BY <1>1
  <2>2. [d EXCEPT !.step = step] \in Calls /\ [d EXCEPT !.step = step].step = step
    <3>1. d.step \in {"asked", "compared", "replaced", "ended"}
        BY CallIs
    <3> QED BY <3>1 DEF Calls
  <2> QED BY <1>2, <2>1, <2>2
<1>5. calls'[i].by = calls[i].by /\ calls'[i].text = calls[i].text
      /\ calls'[i].base = calls[i].base
    BY <1>1, <1>2 DEF Calls
<1>4. /\ calls' \in Seq(Calls) /\ Len(calls') = Len(calls)
      /\ \A j \in 1..Len(calls) : j # i => calls'[j] = calls[j]
    BY <1>2, <1>3
<1> QED BY <1>3, <1>4, <1>5 DEF Becomes

LEMMA EndIs ==
    ASSUME calls \in Seq(Calls), NEW i \in 1..Len(calls),
           NEW answer \in MaybeTexts \cup {"saved", "changed", "failed"},
           NEW v \in Nat, NEW own \in BOOLEAN, Ends(i, answer, v, own)
    PROVE  /\ Becomes(calls, calls', i, calls'[i])
           /\ calls'[i].step = "ended" /\ calls'[i].answer = answer
           /\ calls'[i].version = v /\ calls'[i].own = own
<1>1. calls[i] \in Calls
    OBVIOUS
<1> DEFINE c == [calls[i] EXCEPT !.step = "ended", !.answer = answer, !.version = v, !.own = own]
<1>6. calls' = [calls EXCEPT ![i] = c]
    BY DEF Ends
<1> HIDE DEF c
<1>7. calls'[i] = c
    BY <1>6
<1>2. calls'[i] = [calls[i] EXCEPT !.step = "ended", !.answer = answer, !.version = v,
                                   !.own = own]
    BY <1>7 DEF c
<1>3. calls'[i] \in Calls /\ calls'[i].step = "ended" /\ calls'[i].answer = answer
      /\ calls'[i].version = v /\ calls'[i].own = own
    BY <1>1, <1>2 DEF Calls
<1>4. calls'[i].by = calls[i].by /\ calls'[i].text = calls[i].text
      /\ calls'[i].base = calls[i].base
    BY <1>1, <1>2 DEF Calls
<1>5. /\ calls' \in Seq(Calls) /\ Len(calls') = Len(calls)
      /\ \A j \in 1..Len(calls) : j # i => calls'[j] = calls[j]
    BY <1>3, <1>6, <1>7
<1> QED BY <1>3, <1>4, <1>5 DEF Becomes

LEMMA DiskIs ==
    ASSUME NEW d \in Disks
    PROVE  d.text \in MaybeTexts /\ d.version \in Nat /\ d.version > 0 /\ d.own \in BOOLEAN
BY DEF Disks

LEMMA RunningIs ==
    ASSUME calls \in Seq(Calls), NEW i, Running(i)
    PROVE  /\ i \in 1..Len(calls) /\ calls[i] \in Calls /\ calls[i].step # "ended"
           /\ \A k \in 1..(i - 1) : calls[k].step = "ended"
BY DEF Running

(* The window has nothing to do with it. *)
WindowStays == UNCHANGED <<now, seen, lastSaved, offered, blamed, late, reached, check>>

LEMMA WindowKeeps ==
    ASSUME IInv, WindowStays, calls' \in Seq(Calls), disk' \in Disks,
           CallsTrue(calls', disk', lastSaved, reached),
           disk' = disk \/ disk'.version = disk.version + 1
    PROVE  IInv'
<1> USE DEF IInv, WindowStays
<1>1. Types'
    BY DEF Types
<1>2. now.stamp \in Nat /\ disk.version \in Nat
    BY DiskIs DEF Types, Tabs
<1>3. Stamped'
  <2>1. CASE disk' = disk
      BY <2>1 DEF Stamped
  <2>2. CASE disk'.version = disk.version + 1
      BY <1>2, <2>2 DEF Stamped
  <2> QED BY <2>1, <2>2
<1> QED BY <1>1, <1>3 DEF TabTrue, CheckBlamesOthers

LEMMA WriteKeeps ==
    ASSUME IInv, NEW t \in Texts \cup {Gone}, Write(t)
    PROVE  IInv'
<1>1. /\ WindowStays /\ UNCHANGED calls
      /\ disk' = [text |-> t, version |-> disk.version + 1, own |-> FALSE]
    BY DEF Write, WindowStays, windowVars, historyVars
<1>2. disk \in Disks /\ disk.version \in Nat /\ calls \in Seq(Calls)
    BY DiskIs DEF IInv, Types
<1>3. disk' \in Disks /\ ~disk'.own /\ disk'.version = disk.version + 1
    BY <1>1, <1>2 DEF Disks, MaybeTexts
<1>4. CallsTrue(calls, disk', lastSaved, reached)
    BY <1>2, <1>3, DiskMoves DEF IInv
<1> QED BY <1>1, <1>2, <1>3, <1>4, WindowKeeps

(* A call that goes on or ends without touching the disk *)
LEMMA CallKeeps ==
    ASSUME IInv, WindowStays, UNCHANGED disk, NEW i, Running(i),
           Becomes(calls, calls', i, calls'[i]),
           calls'[i].step \in {"compared", "replaced"} => calls[i].by = "save",
           Wrote(calls'[i]) <=> Wrote(calls[i]),
           calls'[i].step = "ended" /\ calls[i].by # "save" =>
               calls'[i].answer = disk.text /\ calls'[i].version = disk.version
               /\ calls'[i].own = disk.own,
           calls'[i].step = "ended" /\ Wrote(calls'[i]) =>
               Version(calls'[i], disk, calls[i].text)
    PROVE  IInv'
<1>1. disk \in Disks /\ calls \in Seq(Calls) /\ CallsTrue(calls, disk, lastSaved, reached)
    BY DEF IInv, Types
<1>2. /\ i \in 1..Len(calls) /\ calls[i].step # "ended"
      /\ \A k \in 1..(i - 1) : calls[k].step = "ended"
    BY <1>1, RunningIs
<1>3. calls'[i].by = calls[i].by /\ calls'[i].text = calls[i].text /\ calls' \in Seq(Calls)
    BY DEF Becomes
<1> DEFINE c == calls'[i]
           p == calls'
<1>4. c.step \in {"compared", "replaced"} => c.by = "save"
    BY <1>3
<1>5. c.step = "ended" /\ c.by # "save" =>
          c.answer \in MaybeTexts /\ Version(c, disk, c.answer) /\ c.answer = disk.text
          /\ c.own = disk.own
    BY <1>1, <1>3, DiskIs DEF Version
<1>6. c.step = "ended" /\ Wrote(c) => Version(c, disk, c.text)
    BY <1>3
<1>7. Becomes(calls, p, i, c) /\ (Wrote(c) <=> Wrote(calls[i]))
    OBVIOUS
<1> HIDE DEF c, p
<1>8. CallsTrue(p, disk, lastSaved, reached)
    BY <1>1, <1>2, <1>4, <1>5, <1>6, <1>7, Steps
<1>9. disk' \in Disks /\ CallsTrue(calls', disk', lastSaved, reached)
    BY <1>1, <1>8 DEF p
<1> QED BY <1>3, <1>9, WindowKeeps

LEMMA ReadKeeps ==
    ASSUME IInv, NEW i \in DOMAIN calls, Read(i)
    PROVE  IInv'
<1>1. /\ Running(i) /\ calls[i].by # "save" /\ UNCHANGED disk /\ WindowStays
      /\ Ends(i, disk.text, disk.version, disk.own)
    BY DEF Read, diskVars, windowVars, historyVars, WindowStays
<1>2. disk \in Disks /\ calls \in Seq(Calls) /\ i \in 1..Len(calls)
    BY DEF IInv, Types
<1>3. /\ Becomes(calls, calls', i, calls'[i])
      /\ calls'[i].step = "ended" /\ calls'[i].answer = disk.text
      /\ calls'[i].version = disk.version /\ calls'[i].own = disk.own
    BY <1>1, <1>2, DiskIs, EndIs
<1>4. ~Wrote(calls[i]) /\ ~Wrote(calls'[i])
    BY <1>1, <1>3 DEF Wrote, Becomes
<1> QED BY <1>1, <1>3, <1>4, CallKeeps

LEMMA CompareKeeps ==
    ASSUME IInv, NEW i \in DOMAIN calls, Compare(i)
    PROVE  IInv'
<1>1. /\ Running(i) /\ calls[i].by = "save" /\ calls[i].step = "asked" /\ UNCHANGED disk
      /\ WindowStays
    BY DEF Compare, diskVars, windowVars, historyVars, WindowStays
<1>2. disk \in Disks /\ calls \in Seq(Calls) /\ i \in 1..Len(calls)
    BY DEF IInv, Types
<1>3. \/ calls' = [calls EXCEPT ![i].step = "compared"]
      \/ \E v \in {0, 1} : Ends(i, "changed", v, FALSE)
      \/ Ends(i, "failed", 0, FALSE)
    BY DEF Compare
<1>4. /\ Becomes(calls, calls', i, calls'[i])
      /\ \/ calls'[i].step = "compared"
         \/ calls'[i].step = "ended" /\ calls'[i].answer \in {"changed", "failed"}
  <2>1. CASE calls' = [calls EXCEPT ![i].step = "compared"]
      BY <1>2, <2>1, StepIs
  <2>2. ASSUME NEW v \in {0, 1}, NEW a \in {"changed", "failed"}, Ends(i, a, v, FALSE)
        PROVE  /\ Becomes(calls, calls', i, calls'[i])
               /\ calls'[i].step = "ended" /\ calls'[i].answer = a
      BY <1>2, <2>2, EndIs, ZenonT(30)
  <2> QED BY <1>3, <2>1, <2>2
<1>5. ~Wrote(calls[i]) /\ ~Wrote(calls'[i])
    BY <1>1, <1>4 DEF Wrote
<1> QED BY <1>1, <1>4, <1>5, CallKeeps

LEMMA ReplaceKeeps ==
    ASSUME IInv, NEW i \in DOMAIN calls, Replace(i)
    PROVE  IInv'
<1>1. /\ Running(i) /\ calls[i].step = "compared" /\ WindowStays
    BY DEF Replace, windowVars, historyVars, WindowStays
<1>2. /\ disk \in Disks /\ calls \in Seq(Calls) /\ i \in 1..Len(calls) /\ calls[i] \in Calls
      /\ CallsTrue(calls, disk, lastSaved, reached)
    BY DEF IInv, Types
<1>3. calls[i].by = "save" /\ ~Wrote(calls[i])
    BY <1>1, <1>2 DEF CallsTrue, InOrder, Wrote
<1>4. CASE StillHolds(calls[i].base)
  <2>1. /\ disk' = [text |-> calls[i].text, version |-> disk.version + 1, own |-> TRUE]
        /\ calls' = [calls EXCEPT ![i].step = "replaced"]
      BY <1>4 DEF Replace
  <2>2. Becomes(calls, calls', i, calls'[i]) /\ calls'[i].step = "replaced"
      BY <1>2, <2>1, StepIs
  <2>3. disk' \in Disks /\ disk'.text = calls[i].text /\ disk'.version = disk.version + 1
      BY <1>2, <2>1, CallIs, DiskIs DEF Disks
  <2> DEFINE c == calls'[i]
             p == calls'
             e == disk'
  <2>4. Becomes(calls, p, i, c) /\ c.step = "replaced" /\ e \in Disks
        /\ e.text = calls[i].text /\ e.version = disk.version + 1
      BY <2>2, <2>3
  <2> HIDE DEF c, p, e
  <2>5. CallsTrue(p, e, lastSaved, reached)
      BY <1>1, <1>2, <2>4, Lands
  <2>6. CallsTrue(calls', disk', lastSaved, reached) /\ calls' \in Seq(Calls)
      BY <2>2, <2>5 DEF p, e, Becomes
  <2> QED BY <1>1, <2>3, <2>6, WindowKeeps
<1>5. CASE ~StillHolds(calls[i].base)
  <2>1. PICK v \in {0, 1} : Ends(i, "changed", v, FALSE)
      BY <1>5 DEF Replace
  <2>2. /\ Becomes(calls, calls', i, calls'[i])
        /\ calls'[i].step = "ended" /\ calls'[i].answer = "changed"
      BY <1>2, <2>1, EndIs, ZenonT(30)
  <2>3. ~Wrote(calls'[i]) /\ UNCHANGED disk
      BY <1>5, <2>2 DEF Wrote, Replace
  <2> QED BY <1>1, <1>3, <2>2, <2>3, CallKeeps
<1> QED BY <1>4, <1>5

LEMMA StampKeeps ==
    ASSUME IInv, NEW i \in DOMAIN calls, Stamp(i)
    PROVE  IInv'
<1>1. /\ Running(i) /\ calls[i].step = "replaced" /\ UNCHANGED disk /\ WindowStays
      /\ Ends(i, "saved", StampOfSaved(i), FALSE)
    BY DEF Stamp, diskVars, windowVars, historyVars, WindowStays
<1>2. /\ disk \in Disks /\ calls \in Seq(Calls) /\ i \in 1..Len(calls)
      /\ CallsTrue(calls, disk, lastSaved, reached) /\ disk.version \in Nat /\ disk.version > 0
    BY DiskIs DEF IInv, Types
<1>3. calls[i].by = "save" /\ Wrote(calls[i])
    BY <1>1, <1>2 DEF CallsTrue, InOrder, Wrote
<1>4. StampOfSaved(i) \in Nat
    BY <1>2 DEF StampOfSaved
<1>5. /\ Becomes(calls, calls', i, calls'[i])
      /\ calls'[i].step = "ended" /\ calls'[i].answer = "saved"
      /\ calls'[i].version = StampOfSaved(i)
    BY <1>1, <1>2, <1>4, EndIs
<1>6. Wrote(calls'[i])
    BY <1>3, <1>5 DEF Wrote, Becomes
<1>7. Version(calls'[i], disk, calls[i].text)
    BY <1>2, <1>5 DEF Version, StampOfSaved
<1> QED BY <1>1, <1>3, <1>5, <1>6, <1>7, CallKeeps

----------------------------------------------------------------------------
(* The window *)

LEMMA TabIs ==
    ASSUME NEW t \in Tabs
    PROVE  t.code \in Texts /\ t.saved \in Texts /\ t.working \in Texts /\ t.stamp \in Nat
BY DEF Tabs

(* A tab whose stamp alone is set anew, or whose working text is *)
LEMMA TabSet ==
    ASSUME NEW t \in Tabs, NEW v \in Nat, NEW text \in Texts
    PROVE  /\ [t EXCEPT !.stamp = v] \in Tabs
           /\ [t EXCEPT !.stamp = v].stamp = v /\ [t EXCEPT !.stamp = v].code = t.code
           /\ [t EXCEPT !.stamp = v].saved = t.saved
           /\ [t EXCEPT !.stamp = v].working = t.working
           /\ [t EXCEPT !.working = text] \in Tabs
           /\ [t EXCEPT !.working = text].working = text
           /\ [t EXCEPT !.working = text].code = t.code
           /\ [t EXCEPT !.working = text].saved = t.saved
           /\ [t EXCEPT !.working = text].stamp = t.stamp
BY DEF Tabs

(* What the invariant says of the parts that a step of the window reads *)
LEMMA Given ==
    ASSUME IInv
    PROVE  /\ disk \in Disks /\ now \in Tabs /\ seen \in Tabs /\ lastSaved \in MaybeTexts
           /\ calls \in Seq(Calls) /\ reached \subseteq Texts /\ late \in BOOLEAN
           /\ CallsTrue(calls, disk, lastSaved, reached)
           /\ now.code = now.saved /\ now.code \in reached /\ now.working \in reached
           /\ seen.code = seen.saved /\ seen.code \in reached /\ seen.working \in reached
           /\ now.stamp \in Nat /\ disk.version \in Nat /\ disk.version > 0
BY DiskIs, TabIs DEF IInv, Types, TabTrue

LEMMA EditKeeps ==
    ASSUME IInv, NEW t \in Texts, Edit(t)
    PROVE  IInv'
<1>1. /\ now' = [now EXCEPT !.working = t] /\ reached' = reached \cup {t}
      /\ UNCHANGED <<disk, seen, lastSaved, calls, check, offered, blamed, late>>
    BY DEF Edit, diskVars
<1>2. CallsTrue(calls, disk, lastSaved, reached')
    BY <1>1, Given, EditorHoldsMore
<1>3. /\ now' \in Tabs /\ now'.working = t /\ now'.code = now.code /\ now'.saved = now.saved
      /\ now'.stamp = now.stamp
    BY <1>1, Given, TabSet, ZenonT(30)
<1>4. Types' /\ TabTrue(now)' /\ TabTrue(seen)'
    BY <1>1, <1>3, Given DEF IInv, Types, TabTrue
<1>5. Stamped'
    BY <1>1, <1>3 DEF IInv, Stamped
<1> QED BY <1>1, <1>2, <1>4, <1>5 DEF IInv, CheckBlamesOthers

LEMMA RenderKeeps ==
    ASSUME IInv, Render
    PROVE  IInv'
<1>1. /\ seen' = now
      /\ UNCHANGED <<disk, now, lastSaved, calls, check, offered, blamed, late, reached>>
    BY DEF Render, diskVars, historyVars
<1> QED BY <1>1 DEF IInv, Types, TabTrue, Stamped, CheckBlamesOthers

(* A call is asked and nothing else that the invariant speaks of is changed. *)
LEMMA AskKeeps ==
    ASSUME IInv, UNCHANGED <<disk, now, seen, lastSaved, check, offered, blamed, late, reached>>,
           NEW c \in Calls, c.step = "asked", calls' = Append(calls, c),
           c.by = "save" => c.text \in reached /\ c.base \in reached \cup {Gone}
    PROVE  IInv'
<1>1. CallsTrue(Append(calls, c), disk, lastSaved, reached) /\ calls' \in Seq(Calls)
    BY Given, Asked
<1> QED BY <1>1 DEF IInv, Types, TabTrue, Stamped, CheckBlamesOthers

LEMMA SavesKeep ==
    ASSUME IInv, Save \/ SaveAgain
    PROVE  IInv'
<1>1. PICK base \in {seen.code, Gone} : calls' = Append(calls, Call("save", seen.working, base))
    BY DEF Save, SaveAgain, AskSave
<1>2. seen.working \in MaybeTexts /\ base \in MaybeTexts
    BY Given DEF MaybeTexts
<1> DEFINE c == Call("save", seen.working, base)
<1>3. c \in Calls /\ c.step = "asked" /\ c.text \in reached /\ c.base \in reached \cup {Gone}
    BY <1>2, CallShape, Given
<1> HIDE DEF c
<1>4. UNCHANGED <<disk, now, seen, lastSaved, check, offered, blamed, late, reached>>
    BY DEF Save, SaveAgain, diskVars, historyVars
<1> QED BY <1>1, <1>3, <1>4, AskKeeps DEF c

LEMMA ChooseKeeps ==
    ASSUME IInv, NEW by \in {"take", "keep"}, Choose(by)
    PROVE  IInv'
<1> DEFINE c == Call(by, Gone, Gone)
<1>1. c \in Calls /\ c.step = "asked" /\ c.by # "save"
    BY CallShape DEF MaybeTexts
<1> HIDE DEF c
<1>2. /\ calls' = Append(calls, c)
      /\ UNCHANGED <<disk, now, seen, lastSaved, check, offered, blamed, late, reached>>
    BY DEF Choose, diskVars, historyVars, c
<1> QED BY <1>1, <1>2, AskKeeps

(* The window hears of a call: what its answer is worth *)
LEMMA Hearing ==
    ASSUME IInv, calls # <<>>, Heard.step = "ended"
    PROVE  /\ Heard \in Calls /\ Heard.version \in Nat /\ Heard.own \in BOOLEAN
           /\ Heard.by # "save" => Heard.answer \in MaybeTexts /\ Version(Heard, disk, Heard.answer)
                                   /\ ~Wrote(Heard) /\ (Heard.own => Heard.answer = lastSaved)
           /\ Heard.by = "save" => Heard.text \in reached /\ Heard.text \in Texts
           /\ Heard.by = "save" /\ Heard.answer = "saved" =>
                  Wrote(Heard) /\ Version(Heard, disk, Heard.text)
           /\ Heard.by = "save" /\ Heard.answer # "saved" => ~Wrote(Heard)
           /\ Tail(calls) \in Seq(Calls)
           /\ CallsTrue(Tail(calls), disk, IF Wrote(Heard) THEN Heard.text ELSE lastSaved, reached)
<1>1. calls \in Seq(Calls) /\ 1 \in 1..Len(calls) /\ calls[1] = Heard
    BY Given, EmptySeq DEF Heard
<1>2. Heard \in Calls /\ Heard.version \in Nat /\ Heard.own \in BOOLEAN
    BY <1>1, CallIs
<1>3. Heard.by # "save" => Heard.answer \in MaybeTexts /\ Version(Heard, disk, Heard.answer)
    BY <1>1, Given DEF CallsTrue, Answers
<1>4. Heard.by # "save" /\ Heard.own => Heard.answer = lastSaved
    BY <1>1, Given DEF CallsTrue, OwnIsLast, WroteLast
<1>5. Heard.by = "save" => Heard.text \in reached /\ Heard.text \in Texts
    BY <1>1, Given DEF CallsTrue, FromEditor
<1>6. /\ Wrote(Heard) <=> Heard.by = "save" /\ Heard.answer = "saved"
      /\ Wrote(Heard) => Version(Heard, disk, Heard.text)
    BY <1>1, Given DEF CallsTrue, Answers, Wrote
<1>7. CallsTrue(Tail(calls), disk, IF Wrote(Heard) THEN Heard.text ELSE lastSaved, reached)
    BY <1>1, Given, HeardFirst
<1>8. Tail(calls) \in Seq(Calls)
    BY <1>1
<1> QED BY <1>2, <1>3, <1>4, <1>5, <1>6, <1>7, <1>8

LEMMA HearSaveKeeps ==
    ASSUME IInv, HearSave
    PROVE  IInv'
<1>1. /\ calls # <<>> /\ Heard.by = "save" /\ Heard.step = "ended"
      /\ UNCHANGED <<disk, seen, check, reached, blamed, late>>
    BY DEF HearSave, Hears, diskVars
<1>2. CASE Heard.answer = "saved"
  <2>1. /\ lastSaved' = Heard.text /\ calls' = Tail(calls) /\ UNCHANGED offered
        /\ now' = [now EXCEPT !.code = Heard.text, !.stamp = Heard.version, !.saved = Heard.text]
      BY <1>2 DEF HearSave
  <2>2. /\ now' \in Tabs /\ now'.code = Heard.text /\ now'.saved = Heard.text
        /\ now'.stamp = Heard.version /\ now'.working = now.working
      BY <1>1, <2>1, Given, Hearing DEF Tabs
  <2>3. calls' \in Seq(Calls) /\ CallsTrue(calls', disk, lastSaved', reached)
      BY <1>1, <1>2, <2>1, Hearing
  <2>4. Types' /\ TabTrue(now)' /\ TabTrue(seen)'
      BY <1>1, <2>1, <2>2, <2>3, Given, Hearing DEF IInv, Types, TabTrue, MaybeTexts
  <2>5. Stamped'
      BY <1>1, <1>2, <2>2, Given, Hearing DEF Stamped, Version
  <2> QED BY <1>1, <2>3, <2>4, <2>5 DEF IInv, CheckBlamesOthers
<1>3. CASE Heard.answer # "saved"
  <2> DEFINE c == Call("listen", Gone, Gone)
  <2>1. /\ UNCHANGED <<lastSaved, now>> /\ offered \subseteq offered'
        /\ calls' = Tail(calls) \/ calls' = Append(Tail(calls), c)
      BY <1>3 DEF HearSave, Show
  <2>2. c \in Calls /\ c.step = "asked" /\ c.by # "save"
      BY CallShape DEF MaybeTexts
  <2> HIDE DEF c
  <2>3. Tail(calls) \in Seq(Calls) /\ CallsTrue(Tail(calls), disk, lastSaved, reached)
      BY <1>1, <1>3, Hearing
  <2>4. CallsTrue(Append(Tail(calls), c), disk, lastSaved, reached)
      BY <2>2, <2>3, Asked
  <2>5. calls' \in Seq(Calls) /\ CallsTrue(calls', disk, lastSaved, reached)
    <3>1. Append(Tail(calls), c) \in Seq(Calls)
        BY <2>2, <2>3
    <3> QED BY <2>1, <2>3, <2>4, <3>1
  <2>6. Types' /\ TabTrue(now)' /\ TabTrue(seen)'
      BY <1>1, <2>1, <2>5 DEF IInv, Types, TabTrue
  <2>7. Stamped'
      BY <1>1, <2>1 DEF IInv, Stamped
  <2> QED BY <1>1, <2>1, <2>5, <2>6, <2>7 DEF IInv, CheckBlamesOthers
<1> QED BY <1>2, <1>3

LEMMA HearListenerKeeps ==
    ASSUME IInv, HearListener
    PROVE  IInv'
<1>1. /\ calls # <<>> /\ Heard.by = "listen" /\ Heard.step = "ended" /\ calls' = Tail(calls)
      /\ UNCHANGED <<disk, seen, check, reached, blamed, late, lastSaved>>
    BY DEF HearListener, Hears, diskVars
<1>2. calls' \in Seq(Calls) /\ CallsTrue(calls', disk, lastSaved, reached)
    BY <1>1, Hearing
<1>3. \/ UNCHANGED <<now, offered>>
      \/ now' = [now EXCEPT !.stamp = Heard.version] /\ offered' = offered \cup {Heard.version}
    BY DEF HearListener, Show
<1>4. /\ now' \in Tabs /\ now'.code = now.code /\ now'.saved = now.saved
      /\ now'.working = now.working
      /\ \/ now'.stamp = now.stamp /\ offered' = offered
         \/ now'.stamp = Heard.version /\ offered' = offered \cup {Heard.version}
  <2>1. CASE UNCHANGED <<now, offered>>
      BY <2>1, Given
  <2>2. CASE now' = [now EXCEPT !.stamp = Heard.version]
             /\ offered' = offered \cup {Heard.version}
    <3>1. Heard.version \in Nat /\ now.working \in Texts /\ now \in Tabs
        BY <1>1, Given, Hearing, TabIs
    <3> QED BY <2>2, <3>1, TabSet
  <2> QED BY <1>3, <2>1, <2>2
<1>5. Types' /\ TabTrue(now)' /\ TabTrue(seen)'
    BY <1>1, <1>2, <1>4 DEF IInv, Types, TabTrue
<1>6. Stamped'
    BY <1>1, <1>4, Hearing DEF IInv, Stamped, Version
<1> QED BY <1>1, <1>2, <1>5, <1>6 DEF IInv, CheckBlamesOthers

LEMMA HearTakeKeeps ==
    ASSUME IInv, NEW by \in {"take", "keep"}, HearTake(by)
    PROVE  IInv'
<1>1. /\ calls # <<>> /\ Heard.by # "save" /\ Heard.step = "ended"
      /\ UNCHANGED <<disk, seen, check, blamed, late, lastSaved, offered>>
    BY DEF HearTake, Hears, diskVars
<1>2. Tail(calls) \in Seq(Calls) /\ CallsTrue(Tail(calls), disk, lastSaved, reached)
    BY <1>1, Hearing
<1>3. CASE Heard.answer = Gone
  <2>1. UNCHANGED <<now, reached>> /\ calls' = Tail(calls)
      BY <1>3 DEF HearTake
  <2> QED BY <1>1, <1>2, <2>1 DEF IInv, Types, TabTrue, Stamped, CheckBlamesOthers
<1>4. CASE Heard.answer # Gone
  <2> DEFINE c == Call("save", seen.working, Heard.answer)
  <2>1. Heard.answer \in Texts
      BY <1>1, <1>4, Hearing DEF MaybeTexts
  <2>2. /\ now' = [code |-> Heard.answer, stamp |-> Heard.version, saved |-> Heard.answer,
                   working |-> IF by = "keep" THEN now.working ELSE Heard.answer]
        /\ reached' = reached \cup {Heard.answer}
        /\ calls' = Tail(calls) \/ calls' = Append(Tail(calls), c)
      BY <1>4 DEF HearTake
  <2>3. /\ now' \in Tabs /\ now'.code = Heard.answer /\ now'.saved = Heard.answer
        /\ now'.stamp = Heard.version /\ now'.working \in {now.working, Heard.answer}
      BY <1>1, <2>1, <2>2, Given, TabIs, Hearing DEF Tabs
  <2>4. /\ c \in Calls /\ c.step = "asked"
        /\ c.text \in reached' /\ c.base \in reached' \cup {Gone}
      BY <2>1, <2>2, CallShape, Given, TabIs DEF MaybeTexts
  <2> HIDE DEF c
  <2>5. CallsTrue(Tail(calls), disk, lastSaved, reached')
      BY <1>2, <2>2, EditorHoldsMore
  <2>6. CallsTrue(Append(Tail(calls), c), disk, lastSaved, reached')
      BY <1>2, <2>4, <2>5, Asked
  <2>7. calls' \in Seq(Calls) /\ CallsTrue(calls', disk, lastSaved, reached')
    <3>1. Append(Tail(calls), c) \in Seq(Calls)
        BY <1>2, <2>4
    <3> QED BY <1>2, <2>2, <2>5, <2>6, <3>1
  <2>8. Types' /\ TabTrue(now)' /\ TabTrue(seen)'
      BY <1>1, <2>1, <2>2, <2>3, <2>7, Given DEF IInv, Types, TabTrue
  <2>9. Stamped'
      BY <1>1, <2>3, Hearing DEF Stamped, Version
  <2> QED BY <1>1, <2>7, <2>8, <2>9 DEF IInv, CheckBlamesOthers
<1> QED BY <1>3, <1>4

----------------------------------------------------------------------------
(* The check *)

LEMMA CheckAsksKeeps ==
    ASSUME IInv, CheckAsks \/ CheckStamps
    PROVE  IInv'
<1>1. UNCHANGED <<disk, now, seen, lastSaved, calls, offered, blamed, late, reached>>
    BY DEF CheckAsks, CheckStamps, diskVars, windowVars, historyVars
<1>2. check' \in Checks
  <2>1. check \in Checks /\ disk.version \in Nat /\ seen.stamp \in Nat
      BY Given, TabIs DEF IInv, Types
  <2>2. CASE CheckAsks
      BY <2>1, <2>2 DEF CheckAsks, Checks
  <2>3. CASE CheckStamps
    <3> DEFINE v == IF disk.text = Gone THEN 0 ELSE disk.version
    <3>1. v \in Nat /\ check' = [check EXCEPT !.pc = "answered", !.stamp = v]
        BY <2>1, <2>3 DEF CheckStamps
    <3> HIDE DEF v
    <3> QED BY <2>1, <3>1 DEF Checks
  <2> QED BY <2>2, <2>3
<1> QED BY <1>1, <1>2 DEF IInv, Types, TabTrue, Stamped, CheckBlamesOthers

LEMMA CheckHearsKeeps ==
    ASSUME IInv, CheckHears
    PROVE  IInv'
<1>1. UNCHANGED <<disk, seen, lastSaved, reached, blamed, late>>
    BY DEF CheckHears, diskVars
<1>2. check' \in Checks
  <2>1. check \in Checks
      BY DEF IInv, Types
  <2>2. check' = Idle \/ check' = [check EXCEPT !.pc = "reading"]
      BY DEF CheckHears
  <2> QED BY <2>1, <2>2 DEF Idle, Checks
<1> DEFINE c == Call("check", Gone, Gone)
<1>3. \/ UNCHANGED <<calls, now, offered>>
      \/ calls' = calls /\ now' = [now EXCEPT !.stamp = 0]
      \/ calls' = Append(calls, c) /\ UNCHANGED <<now, offered>>
    BY DEF CheckHears, FindGone
<1>4. c \in Calls /\ c.step = "asked" /\ c.by # "save"
    BY CallShape DEF MaybeTexts
<1> HIDE DEF c
<1>5. CASE UNCHANGED <<calls, now, offered>>
    BY <1>1, <1>2, <1>5 DEF IInv, Types, TabTrue, Stamped, CheckBlamesOthers
<1>6. CASE calls' = calls /\ now' = [now EXCEPT !.stamp = 0]
  <2>1. /\ now' \in Tabs /\ now'.code = now.code /\ now'.saved = now.saved
        /\ now'.working = now.working /\ now'.stamp = 0
    <3>1. now \in Tabs /\ now.working \in Texts
        BY Given, TabIs
    <3> QED BY <1>6, <3>1, TabSet
  <2>2. Stamped'
      BY <1>1, <2>1, Given DEF Stamped
  <2> QED BY <1>1, <1>2, <1>6, <2>1, <2>2 DEF IInv, Types, TabTrue, CheckBlamesOthers
<1>7. CASE calls' = Append(calls, c) /\ UNCHANGED <<now, offered>>
  <2>1. CallsTrue(Append(calls, c), disk, lastSaved, reached) /\ Append(calls, c) \in Seq(Calls)
      BY <1>4, Given, Asked
  <2> QED BY <1>1, <1>2, <1>7, <2>1 DEF IInv, Types, TabTrue, Stamped, CheckBlamesOthers
<1> QED BY <1>3, <1>5, <1>6, <1>7

(* The check judges what it read.  What is Litria's own there is the text of the last save
   that was heard, and is taken for touched.                                       *)
LEMMA HearCheckKeeps ==
    ASSUME IInv, HearCheck
    PROVE  IInv'
<1>1. /\ calls # <<>> /\ Heard.by = "check" /\ Heard.step = "ended" /\ calls' = Tail(calls)
      /\ check' = Idle /\ late' = (late \/ seen # now)
      /\ UNCHANGED <<disk, seen, lastSaved>>
    BY DEF HearCheck, Hears, diskVars
<1>2. calls' \in Seq(Calls) /\ CallsTrue(calls', disk, lastSaved, reached)
    BY <1>1, Hearing
<1>3. /\ Heard.version \in Nat /\ Heard.answer \in MaybeTexts
      /\ Version(Heard, disk, Heard.answer) /\ (Heard.own => Heard.answer = lastSaved)
      /\ Heard.own \in BOOLEAN
    BY <1>1, Hearing
<1>4. late' \in BOOLEAN /\ check' \in Checks /\ (~late' => ~late /\ seen = now)
    BY <1>1, Given DEF Idle, Checks
<1>5. CASE UNCHANGED <<now, reached, offered, blamed>>
    BY <1>1, <1>2, <1>4, <1>5 DEF IInv, Types, TabTrue, Stamped, CheckBlamesOthers
<1>6. CASE /\ now' = [now EXCEPT !.stamp = Heard.version] /\ UNCHANGED <<reached, blamed>>
           /\ \/ Touched(Heard.answer) /\ UNCHANGED offered
              \/ offered' = offered \cup {Heard.version}
  <2>1. /\ now' \in Tabs /\ now'.code = now.code /\ now'.saved = now.saved
        /\ now'.working = now.working /\ now'.stamp = Heard.version
    <3>1. now \in Tabs /\ now.working \in Texts
        BY Given, TabIs
    <3> QED BY <1>3, <1>6, <3>1, TabSet
  <2>2. Stamped'
    <3>1. Heard.version <= disk.version /\ (Heard.version = disk.version =>
                                                Heard.answer = disk.text)
        BY <1>3 DEF Version
    <3>2. CASE Touched(Heard.answer)
        BY <1>1, <1>4, <2>1, <3>1, <3>2, Given DEF Stamped, Touched
    <3>3. CASE offered' = offered \cup {Heard.version}
        BY <1>1, <2>1, <3>1, <3>3 DEF Stamped
    <3> QED BY <1>6, <3>2, <3>3
  <2> QED BY <1>1, <1>2, <1>4, <1>6, <2>1, <2>2 DEF IInv, Types, TabTrue, CheckBlamesOthers
<1>7. CASE /\ Heard.answer # Gone
           /\ now' = [code |-> Heard.answer, stamp |-> Heard.version,
                      saved |-> Heard.answer, working |-> Heard.answer]
           /\ reached' = reached \cup {Heard.answer} /\ UNCHANGED <<offered, blamed>>
  <2>1. /\ now' \in Tabs /\ now'.code = Heard.answer /\ now'.saved = Heard.answer
        /\ now'.working = Heard.answer /\ now'.stamp = Heard.version
        /\ Heard.answer \in Texts
      BY <1>3, <1>7 DEF Tabs, MaybeTexts
  <2>2. CallsTrue(calls', disk, lastSaved, reached')
      BY <1>2, <1>7, EditorHoldsMore
  <2>3. Stamped'
      BY <1>1, <1>3, <2>1 DEF Stamped, Version
  <2> QED BY <1>1, <1>2, <1>4, <1>7, <2>1, <2>2, <2>3, Given
         DEF IInv, Types, TabTrue, CheckBlamesOthers
<1>8. ~Touched(Heard.answer) => ~Heard.own
    BY <1>3 DEF Touched
<1>9. \/ UNCHANGED <<now, reached, offered, blamed>>
      \/ /\ now' = [now EXCEPT !.stamp = Heard.version] /\ UNCHANGED <<reached, blamed>>
         /\ \/ Touched(Heard.answer) /\ UNCHANGED offered
            \/ offered' = offered \cup {Heard.version}
      \/ /\ Heard.answer # Gone
         /\ now' = [code |-> Heard.answer, stamp |-> Heard.version,
                    saved |-> Heard.answer, working |-> Heard.answer]
         /\ reached' = reached \cup {Heard.answer} /\ UNCHANGED <<offered, blamed>>
  <2>1. CASE Heard.answer = Gone \/ isSaving
      BY <2>1 DEF HearCheck
  <2>2. CASE Heard.answer # Gone /\ ~isSaving /\ Touched(Heard.answer)
      BY <2>2 DEF HearCheck
  <2>3. CASE Heard.answer # Gone /\ ~isSaving /\ ~Touched(Heard.answer) /\ Dirty(seen)
      BY <1>8, <2>3 DEF HearCheck, Show
  <2>4. CASE Heard.answer # Gone /\ ~isSaving /\ ~Touched(Heard.answer) /\ ~Dirty(seen)
    <3>1. IF Dirty(now) THEN UNCHANGED <<now, notice, reached, offered, blamed>>
          ELSE /\ now' = [code |-> Heard.answer, stamp |-> Heard.version,
                          saved |-> Heard.answer, working |-> Heard.answer]
               /\ notice' = NoNotice
               /\ reached' = reached \cup {Heard.answer}
               /\ blamed' = IF Heard.own THEN blamed \cup {Heard.version} ELSE blamed
               /\ UNCHANGED offered
        BY <2>4 DEF HearCheck
    <3> QED BY <1>8, <2>4, <3>1
  <2> QED BY <2>1, <2>2, <2>3, <2>4
<1> QED BY <1>5, <1>6, <1>7, <1>9

----------------------------------------------------------------------------
(* The theorems *)

LEMMA InitIInv == Init => IInv
<1> SUFFICES ASSUME Init PROVE IInv
    OBVIOUS
<1>1. PICK t \in Texts :
          /\ disk = [text |-> t, version |-> 1, own |-> FALSE]
          /\ now = [code |-> t, stamp |-> 1, saved |-> t, working |-> t]
          /\ reached = {t}
    BY DEF Init
<1>2. Types
  <2>1. disk \in Disks /\ now \in Tabs /\ seen \in Tabs /\ reached \subseteq Texts
      BY <1>1 DEF Init, Disks, Tabs, MaybeTexts
  <2>2. check \in Checks
      BY DEF Init, Idle, Checks
  <2>3. lastSaved \in MaybeTexts /\ calls \in Seq(Calls) /\ late \in BOOLEAN
    <3>1. calls = <<>> /\ lastSaved = Gone /\ late = FALSE
        BY DEF Init
    <3>2. <<>> \in Seq(Calls)
        OBVIOUS
    <3> QED BY <3>1, <3>2 DEF MaybeTexts
  <2> QED BY <2>1, <2>2, <2>3 DEF Types
<1>3. CallsTrue(calls, disk, lastSaved, reached)
    BY <1>1 DEF Init, CallsTrue, InOrder, OwnIsLast, Answers, FromEditor
<1>4. TabTrue(now) /\ TabTrue(seen)
    BY <1>1 DEF Init, TabTrue
<1>5. Stamped
    BY <1>1 DEF Init, Stamped
<1> QED BY <1>2, <1>3, <1>4, <1>5 DEF Init, IInv, CheckBlamesOthers

LEMMA NextIInv == IInv /\ [Next]_vars => IInv'
<1> SUFFICES ASSUME IInv, [Next]_vars PROVE IInv'
    OBVIOUS
<1>1. ASSUME NEW t \in Texts \cup {Gone}, Write(t)  PROVE IInv'
    BY <1>1, WriteKeeps
<1>2. ASSUME NEW t \in Texts, Edit(t)  PROVE IInv'
    BY <1>2, EditKeeps
<1>3. ASSUME NEW i \in DOMAIN calls, Read(i) \/ Compare(i) \/ Replace(i) \/ Stamp(i)  PROVE IInv'
    BY <1>3, ReadKeeps, CompareKeeps, ReplaceKeeps, StampKeeps
<1>4. CASE Render \/ Save \/ SaveAgain
    BY <1>4, RenderKeeps, SavesKeep
<1>5. CASE HearSave \/ HearListener
    BY <1>5, HearSaveKeeps, HearListenerKeeps
<1>6. ASSUME NEW by \in {"take", "keep"}, Choose(by) \/ HearTake(by)  PROVE IInv'
    BY <1>6, ChooseKeeps, HearTakeKeeps
<1>7. CASE CheckAsks \/ CheckStamps \/ CheckHears \/ HearCheck
    BY <1>7, CheckAsksKeeps, CheckHearsKeeps, HearCheckKeeps
<1>8. CASE UNCHANGED vars
    BY <1>8 DEF IInv, Types, TabTrue, Stamped, CheckBlamesOthers, vars, diskVars, windowVars,
               historyVars
<1> QED BY <1>1, <1>2, <1>3, <1>4, <1>5, <1>6, <1>7, <1>8 DEF Next

(* The invariant of every behaviour: the order of the calls, whose text the disk and the answers
   hold, and what the recorded version stands for.                                  *)
THEOREM Invariant == Spec => []IInv
BY InitIInv, NextIInv, PTL DEF Spec

(* Once the version on disk is recorded, a clean tab shows it, was offered it, or it is a text
   of Litria's own, for any texts and any number of writes, edits, saves and checks.     *)
THEOREM NeverStale == Spec => []NeverQuietlyStale
<1>1. IInv => NeverQuietlyStale
    BY DEF IInv, Stamped, NeverQuietlyStale
<1> QED BY <1>1, Invariant, PTL

(* The check never takes for another program's a text that Litria saved, in whatever order reads,
   saves and their answers meet: they are heard in the order in which the disk saw them.   *)
THEOREM OnlyOthersBlamed == Spec => []CheckBlamesOthers
<1>1. IInv => CheckBlamesOthers
    BY DEF IInv
<1> QED BY <1>1, Invariant, PTL

(* A save replaces only what Litria wrote or what the editor has held: the comparison before the
   rename (replace_string_if), with an expectation that came from the editor.            *)
THEOREM NothingUnseen == Spec => NothingUnseenOverwritten
<1>1. IInv /\ [Next]_vars =>
          [disk.text # Gone /\ disk'.own /\ disk'.version # disk.version =>
               disk.own \/ disk.text \in reached]_vars
  <2> SUFFICES ASSUME IInv, Next, disk.text # Gone, disk'.own, disk'.version # disk.version
               PROVE  disk.text \in reached
      OBVIOUS
  <2>1. ASSUME NEW t, Write(t)  PROVE FALSE
      BY <2>1 DEF Write
  <2>2. ASSUME NEW i \in DOMAIN calls, Replace(i)  PROVE disk.text \in reached
    <3>1. StillHolds(calls[i].base)
        BY <2>2 DEF Replace
    <3>2. /\ calls \in Seq(Calls) /\ i \in 1..Len(calls) /\ calls[i].step = "compared"
          /\ CallsTrue(calls, disk, lastSaved, reached)
        BY <2>2, Given DEF Replace
    <3>3. calls[i].by = "save" /\ calls[i].base \in reached \cup {Gone}
        BY <3>2 DEF CallsTrue, InOrder, FromEditor
    <3> QED BY <3>1, <3>3 DEF StillHolds, Holds
  <2>3. \/ disk' = disk
        \/ \E t : Write(t)
        \/ \E i \in DOMAIN calls : Replace(i)
      BY DEF Next, Edit, Read, Compare, Stamp, Render, Save, HearSave, HearListener, SaveAgain,
             Choose, HearTake, CheckAsks, CheckStamps, CheckHears, HearCheck, diskVars
  <2> QED BY <2>1, <2>2, <2>3
<1> QED BY <1>1, Invariant, PTL DEF Spec, NothingUnseenOverwritten

----------------------------------------------------------------------------
(* FolderGroups: pieces follow their files *)

(* The shapes of the operations: one under way keeps what it saw when it began. *)
UnderWay(v) == v = [at |-> v.at, what |-> v.what, pieces |-> v.pieces, groups |-> v.groups,
                    render |-> v.render]
Shapes ==
    /\ op = [o \in Ops |-> op[o]]
    /\ at = [f \in Files |-> at[f]] /\ pieces = [f \in Files |-> pieces[f]]
    /\ overlapped \in BOOLEAN /\ strayed \subseteq Files
    /\ \A o \in Ops :
          \/ op[o].at \in {"new", "done", "followed"}
          \/ op[o].at \in {"asked", "made", "refused"} /\ UnderWay(op[o])

OpsAlone == ~overlapped => \A o, q \in Ops : ~Resting(o) /\ ~Resting(q) => o = q

(* Where a file is, that an operation has moved, deleted or left alone, and that the canvas
   does not follow yet.                                                           *)
Deleting == {"rmfile", "rmdir", "rmgroup"}
Moving == {"file", "folder", "follow"}
Goners(v) == {f \in Files : v.pieces[f] # None /\
                 IF v.what.kind = "rmfile" THEN f = v.what.file /\ v.pieces[f] = v.what.from
                 ELSE Under(v.pieces[f], v.what.from)}
Aimed(v, f) ==
    IF v.what.kind \in Deleting THEN f \in Goners(v) \/ pieces[f] = at[f]
    ELSE at[f] = (IF v.what.kind \in Moving /\ f \in Affected(v.what, v.pieces)
                  THEN Dest(v, f) ELSE pieces[f])

AsSeen ==
    \A o \in Ops, f \in Files :
       op[o].at \in {"asked", "made"} /\ pieces[f] # None => op[o].pieces[f] = pieces[f]
PiecesAimed ==
    ~overlapped =>
        /\ AsSeen
        /\ \A f \in Files \ strayed :
              /\ (\A o \in Ops : op[o].at # "made") => pieces[f] \in {None, at[f]}
              /\ \A o \in Ops : op[o].at = "made" /\ pieces[f] # None => Aimed(op[o], f)
        /\ \A o \in Ops : op[o].at = "made" /\ op[o].what.kind = "follow" =>
              op[o].what.file \in strayed

PiecesInv == Shapes /\ OpsAlone /\ PiecesAimed

LEMMA GoesOn ==
    ASSUME Shapes, NEW o \in Ops, UnderWay(op[o]), NEW stage, Goes(o, stage)
    PROVE  /\ op' = [q \in Ops |-> op'[q]]
           /\ op'[o].at = stage
           /\ \A q \in Ops \ {o} : op'[q] = op[q]
           /\ stage \notin {"done", "followed"} =>
                 /\ op'[o].what = op[o].what /\ op'[o].pieces = op[o].pieces
                 /\ op'[o].groups = op[o].groups /\ UnderWay(op'[o])
<1>1. PICK v : v = op[o] /\ v = [at |-> v.at, what |-> v.what, pieces |-> v.pieces, groups |-> v.groups,
                    render |-> v.render]
  BY DEF UnderWay
<1>2. PICK w : /\ op' = [op EXCEPT ![o] = w]
               /\ w = CASE stage = "done" -> [at |-> stage]
                        [] stage = "followed" -> [at |-> stage, render |-> v.render]
                        [] OTHER -> [v EXCEPT !.at = stage]
  BY <1>1 DEF Goes, Shapes
<1>3. w.at = stage /\ (stage \notin {"done", "followed"} =>
         w = [at |-> stage, what |-> v.what, pieces |-> v.pieces, groups |-> v.groups, render |-> v.render])
  BY <1>1, <1>2
<1>4. /\ op' = [q \in Ops |-> op'[q]] /\ op'[o] = w /\ \A q \in Ops \ {o} : op'[q] = op[q]
  BY <1>2 DEF Shapes
<1> QED BY <1>1, <1>3, <1>4 DEF UnderWay

LEMMA Ended ==
    ASSUME Shapes, NEW o \in Ops, NEW stage \in {"done", "followed"}, Goes(o, stage)
    PROVE  /\ op' = [q \in Ops |-> op'[q]] /\ op'[o].at = stage
           /\ \A q \in Ops \ {o} : op'[q] = op[q]
<1>1. CASE stage = "done"
  <2>1. op' = [op EXCEPT ![o] = [at |-> stage]]
    BY <1>1 DEF Goes
  <2> QED BY <2>1 DEF Shapes
<1>2. CASE stage = "followed"
  <2>1. op' = [op EXCEPT ![o] = [at |-> stage, render |-> op[o].render]]
    BY <1>2 DEF Goes, Shapes
  <2> QED BY <2>1 DEF Shapes
<1> QED BY <1>1, <1>2

(* Nothing that the invariant speaks of changes. *)
LEMMA NothingMoves ==
    ASSUME PiecesInv, UNCHANGED <<at, pieces, op, strayed, overlapped>>
    PROVE  PiecesInv'
<1>1. Shapes' /\ OpsAlone'
  BY DEF PiecesInv, Shapes, UnderWay, OpsAlone, Resting
<1>2. PiecesAimed'
  BY DEF PiecesInv, PiecesAimed, AsSeen, Aimed, Goners, Dest
<1> QED BY <1>1, <1>2 DEF PiecesInv

(* Who rests may change what it is; the others of a lone operation rest. *)
LEMMA AloneStays ==
    ASSUME OpsAlone, NEW o \in Ops, \A q \in Ops \ {o} : op'[q] = op[q],
           overlapped' = overlapped,
           ~Resting(o) \/ Resting(o)'
    PROVE  OpsAlone'
BY DEF OpsAlone, Resting

LEMMA BeginsAims ==
    ASSUME PiecesInv, NEW o \in Ops, NEW what, Begins(o, what)
    PROVE  PiecesInv'
<1>1. /\ UNCHANGED <<at, pieces, strayed>> /\ op[o].at = "new"
      /\ op' = [op EXCEPT ![o] = [at |-> "asked", what |-> what,
                                  pieces |-> pieces, groups |-> groups, render |-> render]]
      /\ overlapped' = (overlapped \/ \E q \in Ops : ~Resting(q))
  BY DEF Begins, IsNext, treeVars, canvasVars
<1>2. /\ op' = [q \in Ops |-> op'[q]] /\ \A q \in Ops \ {o} : op'[q] = op[q]
      /\ op'[o] = [at |-> "asked", what |-> what, pieces |-> pieces, groups |-> groups,
                   render |-> render]
  BY <1>1 DEF PiecesInv, Shapes
<1>3. op'[o].at = "asked" /\ op'[o].pieces = pieces /\ UnderWay(op'[o])
  BY <1>2 DEF UnderWay
<1>4. Shapes'
  BY <1>1, <1>2, <1>3 DEF PiecesInv, Shapes, UnderWay
<1>5. ~overlapped' => ~overlapped /\ \A q \in Ops : Resting(q)
  BY <1>1 DEF PiecesInv, Shapes
<1>6. OpsAlone'
  BY <1>2, <1>5 DEF OpsAlone, Resting
<1>7. PiecesAimed'
  <2> SUFFICES ASSUME ~overlapped'  PROVE PiecesAimed'
    BY DEF PiecesAimed
  <2>1. \A q \in Ops : op[q].at # "made" /\ op[q].at # "asked" /\ op'[q].at # "made"
    BY <1>2, <1>3, <1>5 DEF Resting
  <2>2. AsSeen'
    BY <1>1, <1>2, <1>3, <2>1 DEF AsSeen
  <2> QED BY <1>1, <1>5, <2>1, <2>2 DEF PiecesInv, PiecesAimed
<1> QED BY <1>4, <1>6, <1>7 DEF PiecesInv

LEMMA RemoveFromCanvasAims ==
    ASSUME PiecesInv, NEW o \in Ops, NEW f \in Files, RemoveFromCanvas(o, f)
    PROVE  PiecesInv'
<1>1. /\ UNCHANGED <<at, strayed, overlapped>> /\ op[o].at = "new" /\ Goes(o, "done")
      /\ pieces' = [pieces EXCEPT ![f] = None]
  BY DEF RemoveFromCanvas, IsNext, treeVars, history
<1>2. /\ op' = [q \in Ops |-> op'[q]] /\ op'[o].at = "done" /\ \A q \in Ops \ {o} : op'[q] = op[q]
  BY <1>1, Ended DEF PiecesInv
<1>3. /\ pieces' = [g \in Files |-> pieces'[g]]
      /\ \A g \in Files : pieces'[g] \in {None, pieces[g]}
  BY <1>1 DEF PiecesInv, Shapes
<1>4. Shapes' /\ OpsAlone'
  BY <1>1, <1>2, <1>3, AloneStays DEF PiecesInv, Shapes, UnderWay, Resting
<1>5. PiecesAimed'
  <2> SUFFICES ASSUME ~overlapped  PROVE PiecesAimed'
    BY <1>1 DEF PiecesAimed
  <2>1. \A q \in Ops : op'[q].at # "done" => op'[q] = op[q]
    BY <1>2
  <2>2. AsSeen'
    BY <1>3, <2>1 DEF PiecesInv, PiecesAimed, AsSeen
  <2>3. ASSUME NEW g \in Files \ strayed
        PROVE  /\ (\A q \in Ops : op'[q].at # "made") => pieces'[g] \in {None, at[g]}
               /\ \A q \in Ops : op'[q].at = "made" /\ pieces'[g] # None => Aimed(op[q], g)'
    <3>1. (\A q \in Ops : op'[q].at # "made") => \A q \in Ops : op[q].at # "made"
      BY <1>1, <1>2
    <3>2. ASSUME NEW q \in Ops, op'[q].at = "made", pieces'[g] # None  PROVE Aimed(op[q], g)'
      BY <1>1, <1>3, <2>1, <3>2 DEF PiecesInv, PiecesAimed, Aimed, Goners, Dest
    <3> QED BY <1>3, <3>1, <3>2 DEF PiecesInv, PiecesAimed
  <2> QED BY <1>1, <2>1, <2>2, <2>3 DEF PiecesInv, PiecesAimed
<1> QED BY <1>4, <1>5 DEF PiecesInv

LEMMA FollowRenameAims ==
    ASSUME PiecesInv, NEW o \in Ops, NEW f \in Files, FollowRename(o, f)
    PROVE  PiecesInv'
<1>1. PICK w : /\ w = [kind |-> "follow", file |-> f, from |-> pieces[f], to |-> at[f]]
               /\ op' = [op EXCEPT ![o] = [at |-> "made", what |-> w, pieces |-> pieces,
                                           groups |-> groups, render |-> render]]
  BY DEF FollowRename
<1>2. /\ UNCHANGED <<at, pieces, strayed>> /\ op[o].at = "new"
      /\ pieces[f] # None /\ at[f] \notin {None, pieces[f]}
      /\ overlapped' = (overlapped \/ \E q \in Ops : ~Resting(q))
  BY DEF FollowRename, IsNext, treeVars, canvasVars
<1>3. /\ op' = [q \in Ops |-> op'[q]] /\ \A q \in Ops \ {o} : op'[q] = op[q]
      /\ op'[o] = [at |-> "made", what |-> w, pieces |-> pieces, groups |-> groups,
                   render |-> render]
  BY <1>1 DEF PiecesInv, Shapes
<1>4. op'[o].at = "made" /\ op'[o].pieces = pieces /\ op'[o].what = w /\ UnderWay(op'[o])
  BY <1>3 DEF UnderWay
<1>5. Shapes'
  BY <1>2, <1>3, <1>4 DEF PiecesInv, Shapes, UnderWay
<1>6. ~overlapped' => ~overlapped /\ \A q \in Ops : Resting(q)
  BY <1>2 DEF PiecesInv, Shapes
<1>7. OpsAlone'
  BY <1>3, <1>6 DEF OpsAlone, Resting
<1>8. PiecesAimed'
  <2> SUFFICES ASSUME ~overlapped'  PROVE PiecesAimed'
    BY DEF PiecesAimed
  <2>1. \A q \in Ops : op[q].at # "made" /\ op[q].at # "asked" /\ (q # o => op'[q].at \notin {"asked", "made"})
    BY <1>3, <1>6 DEF Resting
  <2>2. AsSeen'
    BY <1>2, <1>4, <2>1 DEF AsSeen
  <2>3. \A g \in Files \ strayed : pieces[g] \in {None, at[g]}
    BY <1>6, <2>1 DEF PiecesInv, PiecesAimed
  <2>4. f \in strayed
    BY <1>2, <2>3
  <2>5. ASSUME NEW g \in Files \ strayed, pieces[g] # None  PROVE Aimed(op[o], g)'
    <3>1. g \notin Affected(w, pieces)
      BY <1>1, <2>4 DEF Affected
    <3> QED BY <1>1, <1>2, <1>4, <2>3, <2>5, <3>1 DEF Aimed, Deleting
  <2> QED BY <1>1, <1>2, <1>4, <2>1, <2>2, <2>4, <2>5 DEF PiecesAimed
<1> QED BY <1>5, <1>7, <1>8 DEF PiecesInv

(* Another program moves files: they have strayed. *)
LEMMA OutsideAims == ASSUME PiecesInv, Outside  PROVE PiecesInv'
<1>1. /\ UNCHANGED <<pieces, op, overlapped>>
      /\ strayed' = strayed \cup {f \in Files : at'[f] # at[f]}
  BY DEF Outside, canvasVars
<1>2. at' = [f \in Files |-> at'[f]]
  BY DEF Outside, MakeOnDisk, MoveFileOnDisk, MoveFolderOnDisk, RemoveOnDisk, PiecesInv, Shapes
<1>3. Shapes' /\ OpsAlone'
  BY <1>1, <1>2 DEF PiecesInv, Shapes, UnderWay, OpsAlone, Resting
<1>4. PiecesAimed'
  <2>1. \A f \in Files \ strayed' : f \notin strayed /\ at'[f] = at[f]
    BY <1>1
  <2> QED BY <1>1, <2>1 DEF PiecesInv, PiecesAimed, AsSeen, Aimed, Goners, Dest
<1> QED BY <1>3, <1>4 DEF PiecesInv

(* The disk's half of an operation moves, deletes or leaves each file as the canvas will. *)
LEMMA EffectAims == ASSUME PiecesInv, NEW o \in Ops, Effect(o)  PROVE PiecesInv'
<1> DEFINE w == op[o].what
<1>1. /\ UNCHANGED <<pieces, strayed, overlapped>> /\ op[o].at = "asked" /\ Goes(o, "made")
  BY DEF Effect, canvasVars
<1>2. /\ op' = [q \in Ops |-> op'[q]] /\ op'[o].at = "made" /\ \A q \in Ops \ {o} : op'[q] = op[q]
      /\ op'[o].what = w /\ op'[o].pieces = op[o].pieces /\ UnderWay(op'[o])
  BY <1>1, GoesOn DEF PiecesInv, Shapes
<1>3. at' = [f \in Files |-> at'[f]]
  BY DEF Effect, MakeOnDisk, MoveFileOnDisk, MoveFolderOnDisk, RemoveOnDisk, PiecesInv, Shapes
<1>4. Shapes' /\ OpsAlone'
  BY <1>1, <1>2, <1>3, AloneStays DEF PiecesInv, Shapes, UnderWay, Resting
<1>5. PiecesAimed'
  <2> SUFFICES ASSUME ~overlapped  PROVE PiecesAimed'
    BY <1>1 DEF PiecesAimed
  <2>1. \A q \in Ops \ {o} : op[q].at \in {"new", "done"}
    BY <1>1 DEF PiecesInv, OpsAlone, Resting
  <2>2. AsSeen'
    BY <1>1, <1>2 DEF PiecesInv, PiecesAimed, AsSeen
  <2>3. w.kind # "follow"
    BY DEF Effect
  <2>4. ASSUME NEW f \in Files \ strayed, pieces[f] # None  PROVE Aimed(op[o], f)'
    <3>1. pieces[f] = at[f] /\ op[o].pieces[f] = at[f]
      BY <1>1, <2>1, <2>4 DEF PiecesInv, PiecesAimed, AsSeen
    <3>2. CASE w.kind = "file" /\ MoveFileOnDisk(w.file, w.from, w.to)
      <4>1. f \in Affected(w, op[o].pieces) <=> f = w.file
        BY <2>4, <3>1, <3>2 DEF Affected, MoveFileOnDisk
      <4>2. at'[f] = IF f = w.file THEN w.to ELSE at[f]
        BY <3>2 DEF MoveFileOnDisk, PiecesInv, Shapes
      <4>3. Dest(op'[o], f) = w.to
        BY <1>2, <3>2 DEF Dest
      <4> QED BY <1>1, <1>2, <3>1, <3>2, <4>1, <4>2, <4>3 DEF Aimed, Deleting, Moving
    <3>3. CASE w.kind = "folder" /\ MoveFolderOnDisk(w.from, w.to)
      <4>1. f \in Affected(w, op[o].pieces) <=> Under(at[f], w.from)
        BY <2>4, <3>1, <3>3 DEF Affected
      <4>2. at'[f] = IF Under(at[f], w.from) THEN Rebased(at[f], w.from, w.to) ELSE at[f]
        BY <2>4, <3>1, <3>3 DEF MoveFolderOnDisk
      <4>3. Dest(op'[o], f) = NextPath(w, at[f])
        BY <1>2, <3>1, <3>3 DEF Dest
      <4> QED BY <1>1, <1>2, <3>1, <3>3, <4>1, <4>2, <4>3 DEF Aimed, Deleting, Moving, NextPath
    <3>4. CASE w.kind = "rmfile" /\ at' = [at EXCEPT ![w.file] = IF @ = w.from THEN None ELSE @]
      <4>1. f \notin Goners(op'[o]) => at'[f] = at[f]
        BY <1>2, <2>4, <3>1, <3>4 DEF Goners, PiecesInv, Shapes
      <4> QED BY <1>1, <1>2, <3>1, <3>4, <4>1 DEF Aimed, Deleting
    <3>5. CASE w.kind \in {"rmdir", "rmgroup"} /\ RemoveOnDisk(w.from)
      <4>1. f \notin Goners(op'[o]) => at'[f] = at[f]
        BY <1>2, <2>4, <3>1, <3>5 DEF Goners, RemoveOnDisk
      <4> QED BY <1>1, <1>2, <3>1, <3>5, <4>1 DEF Aimed, Deleting
    <3>6. CASE w.kind \in {"mkdir", "mkgroup"} /\ MakeOnDisk(w.from)
      BY <1>1, <1>2, <3>1, <3>6 DEF Aimed, Deleting, Moving, MakeOnDisk
    <3> QED BY <3>2, <3>3, <3>4, <3>5, <3>6 DEF Effect
  <2> QED BY <1>1, <1>2, <2>1, <2>2, <2>3, <2>4 DEF PiecesAimed
<1> QED BY <1>4, <1>5 DEF PiecesInv

(* The shell refuses; what a deletion that fails has lost all the same has strayed. *)
LEMMA RefusedAims == ASSUME PiecesInv, NEW o \in Ops, Refused(o)  PROVE PiecesInv'
<1>1. PICK lost :
         /\ lost \subseteq Files
         /\ at' = [f \in Files |-> IF f \in lost THEN None ELSE at[f]]
         /\ strayed' = strayed \cup lost
  BY DEF Refused, LeftOf
<1>2. PICK stage \in {"refused", "done"} : Goes(o, stage)
  BY DEF Refused
<1>3. UNCHANGED <<pieces, overlapped>> /\ op[o].at = "asked"
  BY DEF Refused, canvasVars
<1>4. /\ op' = [q \in Ops |-> op'[q]] /\ op'[o].at = stage /\ \A q \in Ops \ {o} : op'[q] = op[q]
      /\ stage = "refused" => UnderWay(op'[o])
  BY <1>2, <1>3, GoesOn DEF PiecesInv, Shapes
<1>5. Shapes' /\ OpsAlone'
  BY <1>1, <1>3, <1>4, AloneStays DEF PiecesInv, Shapes, UnderWay, Resting
<1>6. PiecesAimed'
  <2> SUFFICES ASSUME ~overlapped  PROVE PiecesAimed'
    BY <1>3 DEF PiecesAimed
  <2>1. \A q \in Ops : op[q].at # "made" /\ op'[q].at \notin {"asked", "made"}
    BY <1>3, <1>4 DEF PiecesInv, OpsAlone, Resting
  <2>2. AsSeen'
    BY <2>1 DEF AsSeen
  <2>3. ASSUME NEW f \in Files \ strayed'  PROVE pieces'[f] \in {None, at'[f]}
    BY <1>1, <1>3, <2>1 DEF PiecesInv, PiecesAimed
  <2> QED BY <2>1, <2>2, <2>3 DEF PiecesAimed
<1> QED BY <1>5, <1>6 DEF PiecesInv

(* The canvas has caught up with the disk, or had nothing to catch up with. *)
LEMMA CaughtUp ==
    ASSUME PiecesInv, NEW o \in Ops, ~Resting(o), NEW stage \in {"done", "followed"}, Goes(o, stage),
           UNCHANGED <<at, overlapped>>, strayed' \subseteq strayed,
           pieces' = [f \in Files |-> pieces'[f]],
           ~overlapped => \A f \in Files \ strayed' : pieces'[f] \in {None, at[f]}
    PROVE  PiecesInv'
<1>1. /\ op' = [q \in Ops |-> op'[q]] /\ op'[o].at = stage /\ \A q \in Ops \ {o} : op'[q] = op[q]
  BY Ended DEF PiecesInv
<1>2. Shapes' /\ OpsAlone'
  BY <1>1, AloneStays DEF PiecesInv, Shapes, UnderWay, Resting
<1>3. ~overlapped => \A q \in Ops : op'[q].at \notin {"asked", "made"}
  BY <1>1 DEF PiecesInv, OpsAlone, Resting
<1>4. PiecesAimed'
  BY <1>3 DEF PiecesAimed, AsSeen
<1> QED BY <1>2, <1>4 DEF PiecesInv

LEMMA NotMade ==
    ASSUME PiecesInv, ~overlapped, NEW o \in Ops, ~Resting(o), op[o].at # "made"
    PROVE  \A f \in Files \ strayed : pieces[f] \in {None, at[f]}
BY DEF PiecesInv, PiecesAimed, OpsAlone, Resting

LEMMA FollowAims == ASSUME PiecesInv, NEW o \in Ops, Follow(o)  PROVE PiecesInv'
<1> DEFINE v == op[o]
           F == Affected(v.what, v.pieces)
<1>1. /\ v.at = "made" /\ v.what.kind \in Moving /\ UNCHANGED <<at, overlapped>>
      /\ pieces' = [f \in Files |-> IF f \in F /\ pieces[f] # None THEN Dest(v, f) ELSE pieces[f]]
      /\ strayed' = strayed \ {f \in F : v.what.kind = "follow" /\ at[f] = v.what.to}
      /\ Goes(o, "followed")
  BY DEF Follow, Moving, treeVars
<1>2. pieces' = [f \in Files |-> pieces'[f]]
  BY <1>1
<1>3. ASSUME ~overlapped, NEW f \in Files \ strayed'  PROVE pieces'[f] \in {None, at[f]}
  <2>1. CASE f \in strayed
    BY <1>1, <2>1 DEF Dest
  <2>2. CASE f \notin strayed
    BY <1>1, <1>3, <2>2 DEF PiecesInv, PiecesAimed, Aimed, Moving, Deleting
  <2> QED BY <2>1, <2>2
<1> QED BY <1>1, <1>2, <1>3, CaughtUp DEF Resting

LEMMA RefreshAims == ASSUME PiecesInv, NEW o \in Ops, Refresh(o)  PROVE PiecesInv'
<1>1. /\ UNCHANGED <<at, pieces, strayed, overlapped>> /\ Goes(o, "done") /\ ~Resting(o)
  BY DEF Refresh, treeVars, canvasVars, history, Resting
<1>2. ASSUME ~overlapped, NEW f \in Files \ strayed  PROVE pieces[f] \in {None, at[f]}
  <2>1. CASE op[o].at = "followed"
    BY <1>1, <1>2, <2>1, NotMade
  <2>2. CASE op[o].at = "made"
    BY <1>2, <2>2 DEF Refresh, PiecesInv, PiecesAimed, Aimed, Moving, Deleting
  <2> QED BY <2>1, <2>2 DEF Refresh
<1> QED BY <1>1, <1>2, CaughtUp DEF PiecesInv, Shapes

LEMMA ClearAims == ASSUME PiecesInv, NEW o \in Ops, Clear(o)  PROVE PiecesInv'
<1>1. /\ UNCHANGED <<at, strayed, overlapped>> /\ Goes(o, "done") /\ ~Resting(o)
      /\ op[o].at = "made" /\ op[o].what.kind \in Deleting
      /\ pieces' = [f \in Files |-> IF f \in Goners(op[o]) THEN None ELSE pieces[f]]
  BY DEF Clear, Deleted, Goners, Deleting, treeVars, history, Resting
<1>2. ASSUME ~overlapped, NEW f \in Files \ strayed  PROVE pieces'[f] \in {None, at[f]}
  BY <1>1, <1>2 DEF PiecesInv, PiecesAimed, Aimed
<1> QED BY <1>1, <1>2, CaughtUp

LEMMA GroupAims == ASSUME PiecesInv, NEW o \in Ops, ClearGroup(o) \/ AddGroup(o)  PROVE PiecesInv'
<1>1. /\ UNCHANGED <<at, pieces, strayed, overlapped>> /\ Goes(o, "done") /\ ~Resting(o)
  BY DEF ClearGroup, AddGroup, treeVars, history, Resting
<1>2. \/ op[o].at = "refused"
      \/ op[o].at = "made" /\ op[o].what.kind = "mkgroup"
  BY DEF ClearGroup, AddGroup
<1>3. ASSUME ~overlapped, NEW f \in Files \ strayed  PROVE pieces[f] \in {None, at[f]}
  <2>1. CASE op[o].at = "refused"
    BY <1>1, <1>3, <2>1, NotMade
  <2>2. CASE op[o].at = "made" /\ op[o].what.kind = "mkgroup"
    BY <1>3, <2>2 DEF PiecesInv, PiecesAimed, Aimed, Moving, Deleting
  <2> QED BY <1>2, <2>1, <2>2
<1> QED BY <1>1, <1>3, CaughtUp DEF PiecesInv, Shapes

LEMMA BeginAims == ASSUME PiecesInv, NEW o \in Ops, Begin(o)  PROVE PiecesInv'
<1>1. \/ \E what : Begins(o, what)
      \/ \E f \in Files : RemoveFromCanvas(o, f)
  BY DEF Begin, AskMoveFile, AskMoveFolder, AskDeleteFile, AskForFolder
<1> QED BY <1>1, BeginsAims, RemoveFromCanvasAims

LEMMA PiecesKept == ASSUME PiecesInv, [FoldersNext]_folderVars  PROVE PiecesInv'
<1>1. ASSUME NEW o \in Ops,
             \/ Begin(o) \/ \E f \in Files : FollowRename(o, f)
             \/ Effect(o) \/ Refused(o) \/ Follow(o) \/ Refresh(o)
             \/ Clear(o) \/ ClearGroup(o) \/ AddGroup(o)
      PROVE  PiecesInv'
  BY <1>1, BeginAims, FollowRenameAims, EffectAims, RefusedAims, FollowAims, RefreshAims, ClearAims,
     GroupAims
<1>2. CASE \/ ReadTree \/ TreeUnread \/ Reconcile \/ Redraw \/ TakeStamp \/ CheckTree
           \/ UNCHANGED folderVars
  <2>1. UNCHANGED <<at, pieces, op, strayed, overlapped>>
    BY <1>2 DEF ReadTree, TreeUnread, Reconcile, Redraw, TakeStamp, CheckTree, folderVars, treeVars,
                canvasVars, history
  <2> QED BY <2>1, NothingMoves
<1> QED BY <1>1, <1>2, OutsideAims DEF FoldersNext

LEMMA PiecesStart == ASSUME FoldersInit  PROVE PiecesInv
<1>1. at = Home /\ pieces = Home /\ op = [o \in Ops |-> [at |-> "new"]] /\ strayed = {} /\ ~overlapped
      /\ overlapped \in BOOLEAN
  BY DEF FoldersInit
<1>2. Home = [f \in Files |-> Home[f]]
  BY FoldersAssumption
<1>3. \A o \in Ops : op[o].at = "new"
  BY <1>1
<1>4. Shapes /\ OpsAlone
  BY <1>1, <1>2, <1>3 DEF Shapes, OpsAlone, Resting
<1>5. PiecesAimed
  BY <1>1, <1>3 DEF PiecesAimed, AsSeen
<1> QED BY <1>4, <1>5 DEF PiecesInv

----------------------------------------------------------------------------
(* What the operators on paths, groups and ids compute *)

LEMMA SubPath ==
    ASSUME NEW p \in Paths, NEW n \in 1..Len(p)
    PROVE  SubSeq(p, 1, n) \in Paths \ {Root} /\ Len(SubSeq(p, 1, n)) = n
<1>1. SubSeq(p, 1, n) \in Seq(Names) /\ Len(SubSeq(p, 1, n)) = n
  BY SubSeqProperties DEF Paths
<1> QED BY <1>1 DEF Paths, Root

LEMMA ParentsArePaths ==
    ASSUME NEW p \in Paths
    PROVE  /\ WithParents(p) \subseteq Paths \ {Root} /\ IsFiniteSet(WithParents(p))
           /\ p # Root => p \in WithParents(p)
<1> DEFINE cut == [n \in 1..Len(p) |-> SubSeq(p, 1, n)]
<1>1. Len(p) \in Nat
  BY DEF Paths
<1>2. WithParents(p) \subseteq Paths \ {Root}
  BY SubPath DEF WithParents
<1>3. cut \in Surjection(1..Len(p), WithParents(p))
  BY DEF Surjection, WithParents
<1>4. IsFiniteSet(WithParents(p))
  BY <1>1, <1>3, FS_Surjection, FS_Interval
<1>5. ASSUME p # Root  PROVE p \in WithParents(p)
  <2>1. Len(p) \in 1..Len(p)
    BY <1>1, <1>5, LenProperties, EmptySeq DEF Paths, Root
  <2>2. SubSeq(p, 1, Len(p)) = p
    BY <1>1, SubSeqFull DEF Paths
  <2> QED BY <2>1, <2>2 DEF WithParents
<1> QED BY <1>2, <1>4, <1>5

LEMMA RebasedIsPath ==
    ASSUME NEW p \in Paths, NEW from \in Paths, NEW to \in Paths, Under(p, from)
    PROVE  /\ Rebased(p, from, to) \in Paths
           /\ to # Root => Rebased(p, from, to) # Root
<1> DEFINE rest == SubSeq(p, Len(from) + 1, Len(p))
<1>1. Len(from) \in Nat /\ Len(p) \in Nat /\ Len(from) <= Len(p)
  BY DEF Paths, Under, IsPrefix
<1>2. rest \in Seq(Names)
  BY <1>1, SubSeqProperties DEF Paths
<1>3. to \o rest \in Seq(Names) /\ Len(to \o rest) = Len(to) + Len(rest)
  BY <1>2, ConcatProperties DEF Paths
<1>4. to # Root => Len(to) > 0
  BY EmptySeq DEF Paths, Root
<1> QED BY <1>2, <1>3, <1>4, EmptySeq DEF Rebased, Paths, Root

LEMMA RebasedInjective ==
    ASSUME NEW p \in Paths, NEW q \in Paths, NEW from \in Paths, NEW to \in Paths,
           Under(p, from), Under(q, from), Rebased(p, from, to) = Rebased(q, from, to)
    PROVE  p = q
<1> DEFINE n == Len(from)
           restp == SubSeq(p, n + 1, Len(p))
           restq == SubSeq(q, n + 1, Len(q))
<1>1. /\ n \in Nat /\ Len(p) \in Nat /\ n <= Len(p) /\ Len(q) \in Nat /\ n <= Len(q)
      /\ SubSeq(p, 1, n) = SubSeq(q, 1, n)
  BY DEF Paths, Under, IsPrefix
<1>2. /\ restp \in Seq(Names) /\ Len(restp) = Len(p) - n
      /\ \A i \in 1..Len(p) - n : restp[i] = p[n + i]
  BY <1>1, SubSeqProperties DEF Paths
<1>3. /\ restq \in Seq(Names) /\ Len(restq) = Len(q) - n
      /\ \A i \in 1..Len(q) - n : restq[i] = q[n + i]
  BY <1>1, SubSeqProperties DEF Paths
<1>4. restp = restq
  <2>1. to \o restp = to \o restq
    BY DEF Rebased
  <2> HIDE DEF restp, restq
  <2> QED BY <1>2, <1>3, <2>1, ConcatSimplifications DEF Paths
<1>5. Len(p) = Len(q)
  BY <1>1, <1>2, <1>3, <1>4
<1>6. \A i \in 1..n : p[i] = q[i]
  <2>1. \A i \in 1..n : SubSeq(p, 1, n)[i] = p[i] /\ SubSeq(q, 1, n)[i] = q[i]
    BY <1>1, SubSeqProperties DEF Paths
  <2> QED BY <1>1, <2>1
<1>7. ASSUME NEW i \in 1..Len(p)  PROVE p[i] = q[i]
  <2>1. CASE i > n
    <3>1. i - n \in 1..Len(p) - n /\ n + (i - n) = i
      BY <1>1, <2>1
    <3> QED BY <1>2, <1>3, <1>4, <1>5, <3>1
  <2> QED BY <1>1, <1>6, <2>1
<1> QED BY <1>5, <1>7, SeqEqual DEF Paths

(* SetToSeq lists each element of a finite set once. *)
LEMMA SetToSeqIs ==
    ASSUME NEW S, IsFiniteSet(S)
    PROVE  /\ Cardinality(S) \in Nat
           /\ SetToSeq(S) \in Bijection(1..Cardinality(S), S)
<1> DEFINE places == 1..Cardinality(S)
<1>1. Cardinality(S) \in Nat /\ \E f : f \in Bijection(places, S)
  BY FS_CardinalityType DEF ExistsBijection
<1>2. \E f \in [places -> S] : IsInjective(f)
  BY <1>1 DEF Bijection, Injection
<1>3. SetToSeq(S) \in Injection(places, S)
  BY <1>2 DEF SetToSeq, Injection
<1>4. IsFiniteSet(places) /\ Cardinality(places) = Cardinality(S)
  BY <1>1, FS_Interval
<1>5. SetToSeq(S) \in Surjection(places, S)
  BY <1>3, <1>4, FS_Injection
<1> QED BY <1>1, <1>3, <1>5 DEF Bijection

(* The k-th of a finite set of numbers, by the number of those that are no greater. *)
LEMMA NthIs ==
    ASSUME NEW S \in SUBSET Nat, IsFiniteSet(S)
    PROVE  \E rank \in Bijection(S, 1..Cardinality(S)) :
              \A i \in S : rank[i] = Cardinality({j \in S : j <= i})
<1> DEFINE below(i) == {j \in S : j <= i}
           rank == [i \in S |-> Cardinality(below(i))]
<1>1. Cardinality(S) \in Nat
  BY FS_CardinalityType
<1>2. ASSUME NEW i \in S
      PROVE  IsFiniteSet(below(i)) /\ Cardinality(below(i)) \in 1..Cardinality(S)
  <2>1. below(i) \in SUBSET S /\ i \in below(i)
    OBVIOUS
  <2>2. IsFiniteSet(below(i)) /\ Cardinality(below(i)) <= Cardinality(S)
    BY <2>1, FS_Subset
  <2>3. Cardinality(below(i)) \in Nat /\ Cardinality(below(i)) # 0
    BY <2>1, <2>2, FS_CardinalityType, FS_EmptySet
  <2> QED BY <1>1, <2>2, <2>3
<1>3. ASSUME NEW i \in S, NEW j \in S, i < j  PROVE Cardinality(below(i)) < Cardinality(below(j))
  <2>1. below(i) \in SUBSET below(j) /\ j \in below(j) /\ j \notin below(i)
    <3>1. i \in Nat /\ j \in Nat /\ (\A k \in S : k <= i => k <= j) /\ ~(j <= i) /\ j <= j
      BY <1>3
    <3>2. \A k \in S : (k \in below(i) <=> k <= i) /\ (k \in below(j) <=> k <= j)
      OBVIOUS
    <3>3. below(i) \subseteq S
      OBVIOUS
    <3> HIDE DEF below
    <3> QED BY <3>1, <3>2, <3>3
  <2>2. Cardinality(below(i)) <= Cardinality(below(j)) /\ Cardinality(below(i)) # Cardinality(below(j))
    BY <1>2, <2>1, FS_Subset
  <2> QED BY <1>1, <1>2, <2>2
<1>4. rank \in [S -> 1..Cardinality(S)]
  BY <1>2
<1>5. ASSUME NEW i \in S, NEW j \in S, rank[i] = rank[j]  PROVE i = j
  <2>1. Cardinality(below(i)) = Cardinality(below(j)) /\ Cardinality(below(i)) \in Nat
    BY <1>1, <1>2, <1>5
  <2>2. i \in Nat /\ j \in Nat /\ ~(i < j) /\ ~(j < i)
    BY <1>3, <2>1
  <2> QED BY <2>2
<1>6. rank \in Injection(S, 1..Cardinality(S))
  BY <1>4, <1>5 DEF Injection, IsInjective
<1>7. IsFiniteSet(1..Cardinality(S)) /\ Cardinality(1..Cardinality(S)) = Cardinality(S)
  BY <1>1, FS_Interval
<1>8. rank \in Surjection(S, 1..Cardinality(S))
  BY <1>6, <1>7, FS_Injection
<1>9. rank \in Bijection(S, 1..Cardinality(S))
  BY <1>6, <1>8 DEF Bijection
<1> QED BY <1>9

GroupSet == [id : Nat, folder : Paths \ {Root}, members : SUBSET Files]
Left(gs, ids) == {i \in DOMAIN gs : gs[i].id \notin ids}

(* What a filter of the groups leaves: each of the others, once. *)
LEMMA WithoutIs ==
    ASSUME NEW gs \in Seq(GroupSet), NEW ids
    PROVE  /\ Without(gs, ids) \in Seq(GroupSet)
           /\ \E nth \in Bijection(DOMAIN Without(gs, ids), Left(gs, ids)) :
                 \A k \in DOMAIN Without(gs, ids) : Without(gs, ids)[k] = gs[nth[k]]
<1> DEFINE S == Left(gs, ids)
           n == Cardinality(S)
           pick(k) == CHOOSE i \in S : Cardinality({j \in S : j <= i}) = k
           nth == [k \in 1..n |-> pick(k)]
<1>1. S \in SUBSET (1..Len(gs)) /\ Len(gs) \in Nat /\ DOMAIN gs = 1..Len(gs)
  BY LenProperties DEF Left
<1>2. IsFiniteSet(S) /\ S \in SUBSET Nat
  <2>1. IsFiniteSet(1..Len(gs))
    BY <1>1, FS_Interval
  <2>2. IsFiniteSet(S)
    BY <1>1, <2>1, FS_Subset
  <2> QED BY <1>1, <2>2
<1>3. n \in Nat
  BY <1>2, FS_CardinalityType
<1>4. PICK rank \in Bijection(S, 1..n) : \A i \in S : rank[i] = Cardinality({j \in S : j <= i})
  BY <1>2, NthIs
<1>5. ASSUME NEW k \in 1..n  PROVE pick(k) \in S /\ rank[pick(k)] = k
  <2>1. \E i \in S : Cardinality({j \in S : j <= i}) = k
    BY <1>4 DEF Bijection, Surjection
  <2> QED BY <1>4, <2>1
<1>6. nth \in Injection(1..n, S)
  <2>1. \A k \in 1..n : nth[k] = pick(k)
    OBVIOUS
  <2> HIDE DEF nth, pick, n
  <2>2. \A k \in 1..n : nth[k] \in S /\ rank[nth[k]] = k
    BY <1>5, <2>1
  <2>3. nth = [k \in 1..n |-> pick(k)]
    BY DEF nth
  <2>4. nth \in [1..n -> S] /\ DOMAIN nth = 1..n
    BY <2>2, <2>3
  <2>5. \A a, b \in 1..n : nth[a] = nth[b] => a = b
    BY <2>2
  <2> QED BY <2>4, <2>5 DEF Injection, IsInjective
<1>7. ASSUME NEW i \in S  PROVE rank[i] \in 1..n /\ nth[rank[i]] = i
  BY <1>4, <1>5 DEF Bijection, Injection, IsInjective
<1>8. nth \in Bijection(1..n, S)
  BY <1>6, <1>7 DEF Bijection, Surjection, Injection
<1>9. Without(gs, ids) = [k \in 1..n |-> gs[nth[k]]]
  BY DEF Without, Left
<1>10. \A k \in 1..n : gs[nth[k]] \in GroupSet
  BY <1>1, <1>5, ElementOfSeq
<1>11. Without(gs, ids) \in Seq(GroupSet)
  <2>1. Without(gs, ids) \in [1..n -> GroupSet]
    BY <1>9, <1>10
  <2> QED BY <1>3, <2>1, SeqDef
<1> QED BY <1>8, <1>9, <1>11

(* allocateGroupId gives each folder one new id. *)
LEMMA AllocatedIs ==
    ASSUME NEW ds, IsFiniteSet(ds), given \in Nat
    PROVE  /\ Cardinality(ds) \in Nat
           /\ IsFiniteSet(Allocated(ds)) /\ Cardinality(Allocated(ds)) = Cardinality(ds)
           /\ \A e \in Allocated(ds) : /\ e = [folder |-> e.folder, id |-> e.id]
                                       /\ e.folder \in ds
                                       /\ e.id \in given + 1..given + Cardinality(ds)
           /\ \A d \in ds : \E e \in Allocated(ds) : e.folder = d
           /\ \A e, c \in Allocated(ds) : e.id = c.id \/ e.folder = c.folder => e = c
<1> DEFINE n == Cardinality(ds)
           s == SetToSeq(ds)
           entry == [i \in 1..n |-> [folder |-> s[i], id |-> given + i]]
<1>1. n \in Nat /\ s \in [1..n -> ds] /\ DOMAIN s = 1..n
      /\ (\A d \in ds : \E i \in 1..n : s[i] = d)
      /\ (\A i, j \in 1..n : s[i] = s[j] => i = j)
  BY SetToSeqIs DEF Bijection, Injection, Surjection, IsInjective
<1>2. Allocated(ds) = {entry[i] : i \in 1..n}
  BY <1>1 DEF Allocated
<1>3. \A i \in 1..n : /\ entry[i] = [folder |-> s[i], id |-> given + i]
                      /\ entry[i].folder = s[i] /\ entry[i].id = given + i
  OBVIOUS
<1>4. \A i, j \in 1..n : entry[i].id = entry[j].id \/ entry[i].folder = entry[j].folder => i = j
  BY <1>1, <1>3
<1>5. entry \in Bijection(1..n, Allocated(ds))
  <2>1. entry \in [1..n -> Allocated(ds)]
    BY <1>2
  <2>2. \A i, j \in 1..n : entry[i] = entry[j] => i = j
    BY <1>4
  <2> QED BY <1>2, <2>1, <2>2 DEF Bijection, Injection, Surjection, IsInjective
<1>6. IsFiniteSet(Allocated(ds)) /\ Cardinality(Allocated(ds)) = n
  <2>1. IsFiniteSet(1..n) /\ Cardinality(1..n) = n
    BY <1>1, FS_Interval
  <2> QED BY <1>5, <2>1, FS_Bijection DEF ExistsBijection
<1>7. ASSUME NEW e \in Allocated(ds)
      PROVE  /\ e = [folder |-> e.folder, id |-> e.id] /\ e.folder \in ds
             /\ e.id \in given + 1..given + n
  <2>1. PICK i \in 1..n : e = entry[i]
    BY <1>2
  <2> QED BY <1>1, <1>3, <2>1
<1>8. ASSUME NEW d \in ds  PROVE \E e \in Allocated(ds) : e.folder = d
  <2>1. PICK i \in 1..n : s[i] = d
    BY <1>1
  <2>2. entry[i] \in Allocated(ds) /\ entry[i].folder = d
    BY <1>2, <1>3, <2>1
  <2> QED BY <2>2
<1>9. ASSUME NEW e \in Allocated(ds), NEW c \in Allocated(ds), e.id = c.id \/ e.folder = c.folder
      PROVE  e = c
  BY <1>2, <1>4, <1>9
<1> QED BY <1>1, <1>6, <1>7, <1>8, <1>9

----------------------------------------------------------------------------
(* The types: folders on the disk, groups on the canvas and what managers remember, each with an
   id of its own                                                                    *)

(* The disk: finitely many folders, and every file in one of them. *)
DiskTypes ==
    /\ dirs \subseteq Paths \ {Root} /\ IsFiniteSet(dirs)
    /\ at \in [Files -> Paths \cup {None}]
    /\ \A f \in Files : at[f] \in {None, Root} \cup dirs

LEMMA FolderPaths == Folders \subseteq Paths \ {Root}
BY FoldersAssumption

LEMMA MadeOnDisk ==
    ASSUME DiskTypes, NEW d \in Paths, MakeOnDisk(d)
    PROVE  DiskTypes'
<1>1. dirs' = dirs \cup WithParents(d) /\ at' = at
  BY DEF MakeOnDisk
<1>2. WithParents(d) \subseteq Paths \ {Root} /\ IsFiniteSet(WithParents(d))
  BY ParentsArePaths
<1>3. IsFiniteSet(dirs')
  BY <1>1, <1>2, FS_Union DEF DiskTypes
<1> QED BY <1>1, <1>2, <1>3 DEF DiskTypes

LEMMA FileMovedOnDisk ==
    ASSUME DiskTypes, NEW f, NEW from, NEW to \in Paths, MoveFileOnDisk(f, from, to)
    PROVE  DiskTypes'
<1>1. /\ dirs' = dirs \cup WithParents(to)
      /\ at' = [g \in Files |-> IF g = f THEN to ELSE at[g]]
  BY DEF MoveFileOnDisk, DiskTypes
<1>2. /\ WithParents(to) \subseteq Paths \ {Root} /\ IsFiniteSet(WithParents(to))
      /\ to \in {Root} \cup WithParents(to)
  BY ParentsArePaths
<1>3. IsFiniteSet(dirs')
  BY <1>1, <1>2, FS_Union DEF DiskTypes
<1> QED BY <1>1, <1>2, <1>3 DEF DiskTypes

LEMMA RootUnderNone ==
    ASSUME NEW d \in Paths \ {Root}
    PROVE  ~Under(Root, d)
<1>1. Len(d) \in Nat /\ Len(d) # 0 /\ Len(Root) = 0
  BY EmptySeq DEF Paths, Root
<1> QED BY <1>1 DEF Under, IsPrefix

LEMMA FolderMovedOnDisk ==
    ASSUME DiskTypes, NEW from, NEW to \in Folders, MoveFolderOnDisk(from, to)
    PROVE  DiskTypes'
<1> DEFINE moved(p) == IF p # None /\ Under(p, from) THEN Rebased(p, from, to) ELSE p
           image == {moved(d) : d \in dirs}
           map == [d \in dirs |-> moved(d)]
<1>1. /\ from \in dirs /\ image \subseteq Folders
      /\ dirs' = image \cup WithParents(to)
      /\ at' = [f \in Files |-> IF at[f] = None THEN None ELSE moved(at[f])]
  BY DEF MoveFolderOnDisk
<1>2. to \in Paths /\ image \subseteq Paths \ {Root}
  BY <1>1, FolderPaths
<1>3. WithParents(to) \subseteq Paths \ {Root} /\ IsFiniteSet(WithParents(to))
  BY <1>2, ParentsArePaths
<1>4. IsFiniteSet(image)
  <2>1. map \in Surjection(dirs, image)
    BY DEF Surjection
  <2> QED BY <2>1, FS_Surjection DEF DiskTypes
<1>5. dirs' \subseteq Paths \ {Root} /\ IsFiniteSet(dirs')
  BY <1>1, <1>2, <1>3, <1>4, FS_Union
<1>6. ASSUME NEW f \in Files  PROVE at'[f] \in {None, Root} \cup dirs'
  <2>1. CASE at[f] = None
    BY <1>1, <2>1
  <2>2. CASE at[f] # None /\ at[f] = Root
    <3>1. ~Under(Root, from)
      BY <1>1, RootUnderNone DEF DiskTypes
    <3> QED BY <1>1, <2>2, <3>1
  <2>3. CASE at[f] # None /\ at[f] \in dirs
    <3>1. at'[f] = moved(at[f]) /\ moved(at[f]) \in image
      BY <1>1, <2>3
    <3> QED BY <1>1, <3>1
  <2> QED BY <2>1, <2>2, <2>3 DEF DiskTypes
<1>7. at' = [f \in Files |-> at'[f]]
  BY <1>1
<1>8. Root \in Paths
  BY EmptySeq DEF Root, Paths
<1>9. at' \in [Files -> Paths \cup {None}]
  BY <1>5, <1>6, <1>7, <1>8
<1> QED BY <1>5, <1>6, <1>9 DEF DiskTypes

LEMMA RemovedOnDisk ==
    ASSUME DiskTypes, NEW d, RemoveOnDisk(d)
    PROVE  DiskTypes'
<1>1. /\ dirs' = {e \in dirs : ~Under(e, d)}
      /\ at' = [f \in Files |-> IF at[f] # None /\ Under(at[f], d) THEN None ELSE at[f]]
  BY DEF RemoveOnDisk
<1>2. dirs' \in SUBSET dirs /\ IsFiniteSet(dirs')
  BY <1>1, FS_Subset DEF DiskTypes
<1> QED BY <1>1, <1>2 DEF DiskTypes

LEMMA SeqIs == ASSUME NEW S, NEW n \in Nat, NEW s \in [1..n -> S]  PROVE s \in Seq(S) /\ Len(s) = n
<1>1. s \in Seq(S)
  BY SeqDef
<1> QED BY <1>1, LenProperties

(* Groups at the end of the canvas, one for each of a set. *)
Adds(r, a, S, F) ==
    /\ r \in Seq(GroupSet) /\ DOMAIN a \subseteq DOMAIN r
    /\ \A i \in DOMAIN a : r[i] = a[i]
    /\ \E src \in Bijection(DOMAIN r \ DOMAIN a, S) :
          \A k \in DOMAIN r \ DOMAIN a : r[k] = F[src[k]]

LEMMA JoinedAdds ==
    ASSUME NEW a \in Seq(GroupSet), NEW S, IsFiniteSet(S), NEW F \in [S -> GroupSet],
           NEW b \in [DOMAIN SetToSeq(S) -> GroupSet],
           \A i \in DOMAIN SetToSeq(S) : b[i] = F[SetToSeq(S)[i]]
    PROVE  Adds(a \o b, a, S, F)
<1> DEFINE s == SetToSeq(S)
           n == Cardinality(S)
           r == a \o b
           m == Len(a)
           src == [k \in m + 1..m + n |-> s[k - m]]
<1>1. /\ n \in Nat /\ s \in [1..n -> S] /\ DOMAIN s = 1..n
      /\ \A e \in S : \E i \in 1..n : s[i] = e
      /\ \A i, j \in 1..n : s[i] = s[j] => i = j
  BY SetToSeqIs DEF Bijection, Injection, Surjection, IsInjective
<1>2. m \in Nat /\ DOMAIN a = 1..m
  BY LenProperties
<1>3. b \in Seq(GroupSet) /\ Len(b) = n /\ \A i \in 1..n : b[i] = F[s[i]]
  BY <1>1, SeqIs
<1>4. /\ r \in Seq(GroupSet) /\ Len(r) = m + n /\ DOMAIN r = 1..m + n
      /\ \A i \in 1..m + n : r[i] = IF i <= m THEN a[i] ELSE b[i - m]
  <2>2. /\ a \o b \in Seq(GroupSet) /\ Len(a \o b) = Len(a) + Len(b)
        /\ \A i \in 1..Len(a) + Len(b) : (a \o b)[i] = IF i <= Len(a) THEN a[i] ELSE b[i - Len(a)]
    BY <1>3, ConcatProperties
  <2>3. /\ r \in Seq(GroupSet) /\ Len(r) = m + n
        /\ \A i \in 1..m + n : r[i] = IF i <= m THEN a[i] ELSE b[i - m]
    BY <1>3, <2>2
  <2> HIDE DEF r
  <2> QED BY <2>3, LenProperties
<1>5. DOMAIN r \ DOMAIN a = m + 1..m + n
  BY <1>1, <1>2, <1>4
<1>6. ASSUME NEW k \in m + 1..m + n  PROVE k - m \in 1..n /\ src[k] = s[k - m] /\ r[k] = F[src[k]]
  <2>1. k - m \in 1..n /\ k \in 1..m + n /\ ~(k <= m)
    BY <1>1, <1>2
  <2> QED BY <1>3, <1>4, <2>1
<1>7. src \in Bijection(m + 1..m + n, S)
  <2>1. src \in [m + 1..m + n -> S]
    BY <1>1, <1>6
  <2>2. ASSUME NEW k \in m + 1..m + n, NEW l \in m + 1..m + n, src[k] = src[l]  PROVE k = l
    <3>1. k - m = l - m
      BY <1>1, <1>6, <2>2
    <3> QED BY <1>2, <3>1
  <2>3. ASSUME NEW e \in S  PROVE \E k \in m + 1..m + n : src[k] = e
    <3>1. PICK i \in 1..n : s[i] = e
      BY <1>1
    <3>2. m + i \in m + 1..m + n /\ (m + i) - m = i
      BY <1>1, <1>2
    <3> QED BY <3>1, <3>2
  <2> HIDE DEF src
  <2> QED BY <2>1, <2>2, <2>3 DEF Bijection, Injection, Surjection, IsInjective
<1>8. DOMAIN a \subseteq DOMAIN r /\ \A i \in DOMAIN a : r[i] = a[i]
  BY <1>1, <1>2, <1>4
<1> HIDE DEF r
<1>9. \A k \in DOMAIN r \ DOMAIN a : r[k] = F[src[k]]
  BY <1>5, <1>6
<1>10. src \in Bijection(DOMAIN r \ DOMAIN a, S)
  BY <1>5, <1>7
<1> HIDE DEF src
<1>11. Adds(r, a, S, F)
  BY <1>4, <1>8, <1>9, <1>10 DEF Adds
<1> QED BY <1>11 DEF r

LEMMA AddedIs ==
    ASSUME NEW r, NEW a, NEW S, NEW F, Adds(r, a, S, F)
    PROVE  /\ r \in Seq(GroupSet) /\ DOMAIN a \subseteq DOMAIN r
           /\ \A i \in DOMAIN a : r[i] = a[i]
           /\ \A k \in DOMAIN r \ DOMAIN a : \E e \in S : r[k] = F[e]
           /\ \A e \in S : \E k \in DOMAIN r \ DOMAIN a : r[k] = F[e]
<1> PICK src \in Bijection(DOMAIN r \ DOMAIN a, S) :
       \A k \in DOMAIN r \ DOMAIN a : r[k] = F[src[k]]
  BY DEF Adds
<1>1. \A k \in DOMAIN r \ DOMAIN a : src[k] \in S
  BY DEF Bijection, Injection
<1>2. \A e \in S : \E k \in DOMAIN r \ DOMAIN a : src[k] = e
  BY DEF Bijection, Surjection
<1> QED BY <1>1, <1>2 DEF Adds

(* A key that tells the groups there were apart, and the new ones, and each of those from
   each of these.                                                                *)
LEMMA JoinedApart ==
    ASSUME NEW a, NEW r, NEW S, NEW key, NEW F, Adds(r, a, S, F),
           \A i, j \in DOMAIN a : key[a[i]] = key[a[j]] => i = j,
           \A e, c \in S : key[F[e]] = key[F[c]] => e = c,
           \A i \in DOMAIN a, e \in S : key[a[i]] # key[F[e]]
    PROVE  \A i, j \in DOMAIN r : key[r[i]] = key[r[j]] => i = j
<1> PICK src \in Bijection(DOMAIN r \ DOMAIN a, S) :
       \A k \in DOMAIN r \ DOMAIN a : r[k] = F[src[k]]
  BY DEF Adds
<1> \A i \in DOMAIN a : r[i] = a[i]
  BY DEF Adds
<1>1. \A k \in DOMAIN r \ DOMAIN a : src[k] \in S
  BY DEF Bijection, Injection
<1>2. \A k, l \in DOMAIN r \ DOMAIN a : src[k] = src[l] => k = l
  BY DEF Bijection, Injection, IsInjective
<1>3. ASSUME NEW i \in DOMAIN r, NEW j \in DOMAIN r, key[r[i]] = key[r[j]]  PROVE i = j
  <2>1. CASE i \in DOMAIN a /\ j \in DOMAIN a
    BY <1>3, <2>1
  <2>2. CASE i \in DOMAIN a /\ j \notin DOMAIN a
    BY <1>1, <1>3, <2>2
  <2>3. CASE i \notin DOMAIN a /\ j \in DOMAIN a
    BY <1>1, <1>3, <2>3
  <2>4. CASE i \notin DOMAIN a /\ j \notin DOMAIN a
    BY <1>1, <1>2, <1>3, <2>4
  <2> QED BY <2>1, <2>2, <2>3, <2>4
<1> QED BY <1>3

InFlight(o) == op[o].at \in {"asked", "made", "refused"}

(* What an operation names and what it saw. *)
WhatTypes(w) ==
    /\ w.from \in Paths
    /\ w.kind \in {"file", "folder", "follow"} => w.to \in Paths
    /\ w.kind = "folder" => w.to \in Folders
    /\ w.kind \in {"mkdir", "mkgroup"} => w.from \in Folders
SeenTypes(v) ==
    /\ v.pieces \in [Files -> Paths \cup {None}] /\ v.groups \in Seq(GroupSet)
    /\ WhatTypes(v.what)

CanvasTypes ==
    /\ pieces \in [Files -> Paths \cup {None}]
    /\ groups \in Seq(GroupSet) /\ given \in Nat
    /\ IsFiniteSet(pend) /\ \A e \in pend : e.folder \in Paths \ {Root} /\ e.id \in 1..given
    /\ pass = [at |-> pass.at, dirs |-> pass.dirs, due |-> pass.due]
    /\ pass.at \in {"none", "reading", "read", "blind"}
    /\ pass.dirs \subseteq Paths \ {Root} /\ IsFiniteSet(pass.dirs)
    /\ \A o \in Ops : InFlight(o) => SeenTypes(op[o])

(* No id is given twice, also not to a folder that a manager remembers. *)
OwnIds ==
    /\ \A i, j \in DOMAIN groups : groups[i].id = groups[j].id => i = j
    /\ \A i \in DOMAIN groups : groups[i].id <= given
    /\ \A e, d \in pend : e.id = d.id => e = d

FolderTypes == DiskTypes /\ CanvasTypes /\ OwnIds

LEMMA RenderedIs ==
    ASSUME NEW changed \in BOOLEAN, NEW refreshed \in BOOLEAN, Rendered(changed, refreshed)
    PROVE  /\ refreshed => pass'.at = "reading"
           /\ changed /\ ~refreshed =>
                 \/ pass'.at = "reading"
                 \/ pass'.at = "none" /\ missed' = (missed \/ pass.at # "none")
           /\ pass'.at = "read" => pass.at = "read" /\ pass'.dirs = pass.dirs
           /\ pass'.at \in {"none", "reading", pass.at}
           /\ pass'.dirs \in {{}, pass.dirs}
           /\ pass' = [at |-> pass'.at, dirs |-> pass'.dirs, due |-> pass'.due]
<1> DEFINE due == pass.due /\ \E f \in Files : pieces'[f] # None
           next == IF refreshed \/ (changed /\ due) THEN "reading"
                   ELSE IF changed THEN "none" ELSE pass.at
<1>1. /\ pass' = [at |-> next, dirs |-> IF next = "read" THEN pass.dirs ELSE {}, due |-> pass.due]
      /\ missed' = (next # "reading" /\ (missed \/ (changed /\ pass.at # "none")))
  BY DEF Rendered
<1>2. /\ pass'.at = next /\ pass'.dirs = IF next = "read" THEN pass.dirs ELSE {}
      /\ pass' = [at |-> pass'.at, dirs |-> pass'.dirs, due |-> pass'.due]
  BY <1>1
<1>3. CASE next = "reading"
  BY <1>2, <1>3
<1>4. CASE next # "reading" /\ changed
  BY <1>1, <1>2, <1>4
<1>5. CASE next # "reading" /\ ~changed
  BY <1>2, <1>5
<1> QED BY <1>3, <1>4, <1>5

LEMMA ManagersKeep ==
    ASSUME NEW entries, NEW changed, Managers(entries, changed)
    PROVE  pend' \subseteq entries
BY DEF Managers

(* What operations saw stays as it is when one of them goes on. *)
LEMMA SeenStays ==
    ASSUME Shapes, CanvasTypes, NEW o \in Ops, NEW stage, Goes(o, stage),
           stage \in {"done", "followed"} \/ InFlight(o)
    PROVE  \A q \in Ops : InFlight(q)' => SeenTypes(op'[q])
<1>1. CASE stage \in {"done", "followed"}
  BY <1>1, Ended DEF CanvasTypes, InFlight
<1>2. CASE stage \notin {"done", "followed"}
  <2>1. UnderWay(op[o]) /\ SeenTypes(op[o])
    BY <1>2 DEF Shapes, InFlight, CanvasTypes
  <2>2. /\ \A q \in Ops \ {o} : op'[q] = op[q]
        /\ op'[o].what = op[o].what /\ op'[o].pieces = op[o].pieces /\ op'[o].groups = op[o].groups
    BY <1>2, <2>1, GoesOn
  <2>3. SeenTypes(op'[o])
    BY <2>1, <2>2 DEF SeenTypes
  <2> QED BY <2>2, <2>3 DEF CanvasTypes, InFlight
<1> QED BY <1>1, <1>2

(* A change of the canvas, and a pass that was cancelled, begun, ended or left alone. *)
LEMMA CanvasChanges ==
    ASSUME CanvasTypes,
           pieces' \in [Files -> Paths \cup {None}], groups' \in Seq(GroupSet),
           given' \in Nat,
           NEW entries, IsFiniteSet(entries), pend' \subseteq entries,
           \A e \in entries : e.folder \in Paths \ {Root} /\ e.id \in 1..given',
           \/ UNCHANGED pass \/ pass' = [at |-> "none", dirs |-> {}, due |-> FALSE]
           \/ \E c, r \in BOOLEAN : Rendered(c, r),
           \A q \in Ops : InFlight(q)' => SeenTypes(op'[q])
    PROVE  CanvasTypes'
<1>1. IsFiniteSet(pend')
  BY FS_Subset
<1>2. /\ pass'.at \in {"none", "reading", "read", "blind"}
      /\ pass'.dirs \subseteq Paths \ {Root} /\ IsFiniteSet(pass'.dirs)
      /\ pass' = [at |-> pass'.at, dirs |-> pass'.dirs, due |-> pass'.due]
  <2>1. CASE UNCHANGED pass
    BY <2>1 DEF CanvasTypes
  <2>2. CASE \E c, r \in BOOLEAN : Rendered(c, r)
    <3>1. /\ pass'.at \in {"none", "reading", pass.at} /\ pass'.dirs \in {{}, pass.dirs}
          /\ pass' = [at |-> pass'.at, dirs |-> pass'.dirs, due |-> pass'.due]
      BY <2>2, RenderedIs
    <3> QED BY <3>1, FS_EmptySet DEF CanvasTypes
  <2>3. CASE pass' = [at |-> "none", dirs |-> {}, due |-> FALSE]
    BY <2>3, FS_EmptySet
  <2> QED BY <2>1, <2>2, <2>3
<1> QED BY <1>1, <1>2 DEF CanvasTypes

LEMMA CanvasStays ==
    ASSUME CanvasTypes, UNCHANGED <<pieces, groups, given>>, pend' \subseteq pend,
           UNCHANGED pass \/ \E c, r \in BOOLEAN : Rendered(c, r),
           \A q \in Ops : InFlight(q)' => SeenTypes(op'[q])
    PROVE  CanvasTypes'
<1>1. IsFiniteSet(pend) /\ \A e \in pend : e.folder \in Paths \ {Root} /\ e.id \in 1..given
  BY DEF CanvasTypes
<1>2. pieces \in [Files -> Paths \cup {None}] /\ groups \in Seq(GroupSet) /\ given \in Nat
  BY DEF CanvasTypes
<1> QED BY <1>1, <1>2, CanvasChanges

LEMMA IdsStay ==
    ASSUME OwnIds, UNCHANGED <<groups, given>>, pend' \subseteq pend
    PROVE  OwnIds'
BY DEF OwnIds

(* Groups that lose files, or go. *)
LEMMA LosingFiles ==
    ASSUME NEW gs \in Seq(GroupSet), NEW F
    PROVE  /\ WithoutFiles(gs, F) \in Seq(GroupSet) /\ DOMAIN WithoutFiles(gs, F) = DOMAIN gs
           /\ \A i \in DOMAIN gs :
                 /\ WithoutFiles(gs, F)[i].id = gs[i].id
                 /\ WithoutFiles(gs, F)[i].folder = gs[i].folder
                 /\ WithoutFiles(gs, F)[i].members = gs[i].members \ F
<1>1. Len(gs) \in Nat /\ DOMAIN gs = 1..Len(gs) /\ \A i \in 1..Len(gs) : gs[i] \in GroupSet
  BY LenProperties
<1>2. WithoutFiles(gs, F) = [i \in 1..Len(gs) |-> [gs[i] EXCEPT !.members = @ \ F]]
  BY <1>1 DEF WithoutFiles
<1>3. \A i \in 1..Len(gs) :
         /\ [gs[i] EXCEPT !.members = @ \ F] \in GroupSet
         /\ [gs[i] EXCEPT !.members = @ \ F].id = gs[i].id
         /\ [gs[i] EXCEPT !.members = @ \ F].folder = gs[i].folder
         /\ [gs[i] EXCEPT !.members = @ \ F].members = gs[i].members \ F
  BY <1>1 DEF GroupSet
<1>4. WithoutFiles(gs, F) \in [1..Len(gs) -> GroupSet]
  BY <1>2, <1>3
<1>5. WithoutFiles(gs, F) \in Seq(GroupSet) /\ DOMAIN WithoutFiles(gs, F) = 1..Len(gs)
  BY <1>1, <1>4, SeqDef
<1>6. \A i \in 1..Len(gs) : WithoutFiles(gs, F)[i] = [gs[i] EXCEPT !.members = @ \ F]
  BY <1>2
<1> QED BY <1>1, <1>3, <1>5, <1>6

(* Groups that are a part of those there were keep what told them apart. *)
LEMMA PartApart ==
    ASSUME NEW a, NEW r, NEW S \in SUBSET DOMAIN a, NEW nth \in Bijection(DOMAIN r, S), NEW key,
           \A k \in DOMAIN r : r[k] = a[nth[k]],
           \A i, j \in DOMAIN a : key[a[i]] = key[a[j]] => i = j
    PROVE  \A k, l \in DOMAIN r : key[r[k]] = key[r[l]] => k = l
<1>1. \A k \in DOMAIN r : nth[k] \in DOMAIN a
  BY DEF Bijection, Injection
<1>2. \A k, l \in DOMAIN r : nth[k] = nth[l] => k = l
  BY DEF Bijection, Injection, IsInjective
<1> QED BY <1>1, <1>2

TheId == [g \in GroupSet |-> g.id]
TheFolder == [g \in GroupSet |-> g.folder]

LEMMA Keys ==
    ASSUME NEW gs \in Seq(GroupSet), NEW i \in DOMAIN gs
    PROVE  gs[i] \in GroupSet /\ TheId[gs[i]] = gs[i].id /\ TheFolder[gs[i]] = gs[i].folder
BY LenProperties DEF TheId, TheFolder

LEMMA KnownPaths == ASSUME FolderTypes  PROVE Known \subseteq Paths \ {Root}
<1>1. \A i \in DOMAIN groups : groups[i].folder \in Paths \ {Root}
  BY Keys DEF FolderTypes, CanvasTypes, GroupSet
<1> QED BY <1>1 DEF Known, FolderTypes, DiskTypes

LEMMA AskedTypes ==
    ASSUME FolderTypes, NEW o \in Ops, Begin(o)
    PROVE  \/ \E what : WhatTypes(what) /\ Begins(o, what)
           \/ \E f \in Files : RemoveFromCanvas(o, f)
<1>1. Known \subseteq Paths \ {Root} /\ Root \in Paths
  BY KnownPaths, EmptySeq DEF Root, Paths
<1>2. Folders \subseteq Paths \ {Root}
  BY FolderPaths
<1>3. \A f \in Files : pieces[f] \in Paths \cup {None} /\ at[f] \in Paths \cup {None}
  BY DEF FolderTypes, CanvasTypes, DiskTypes
<1>4. ASSUME NEW f \in Files, NEW to \in Known \cup {Root}, AskMoveFile(o, f, to)
      PROVE  \E what : WhatTypes(what) /\ Begins(o, what)
  <2>1. PICK from \in {pieces[f], at[f]} \ {None, to} :
           Begins(o, [kind |-> "file", file |-> f, from |-> from, to |-> to])
    BY <1>4 DEF AskMoveFile
  <2>2. from \in Paths /\ to \in Paths
    BY <1>1, <1>3
  <2>3. WhatTypes([kind |-> "file", file |-> f, from |-> from, to |-> to])
    BY <2>2 DEF WhatTypes
  <2> QED BY <2>1, <2>3
<1>5. ASSUME NEW from \in Known, NEW to \in Folders, AskMoveFolder(o, from, to)
      PROVE  \E what : WhatTypes(what) /\ Begins(o, what)
  <2>1. WhatTypes([kind |-> "folder", from |-> from, to |-> to])
    BY <1>1, <1>2 DEF WhatTypes
  <2> QED BY <1>5, <2>1 DEF AskMoveFolder
<1>6. ASSUME NEW f \in Files, AskDeleteFile(o, f)
      PROVE  \E what : WhatTypes(what) /\ Begins(o, what)
  <2>1. PICK from \in {pieces[f], at[f]} \ {None} :
           Begins(o, [kind |-> "rmfile", file |-> f, from |-> from])
    BY <1>6 DEF AskDeleteFile
  <2>2. from \in Paths
    BY <1>3
  <2>3. WhatTypes([kind |-> "rmfile", file |-> f, from |-> from])
    BY <2>2 DEF WhatTypes
  <2> QED BY <2>1, <2>3
<1>7. ASSUME NEW d \in Folders, AskForFolder(o, d)
      PROVE  \E what : WhatTypes(what) /\ Begins(o, what)
  <2>1. /\ WhatTypes([kind |-> "rmdir", from |-> d])
        /\ WhatTypes([kind |-> "mkdir", from |-> d]) /\ WhatTypes([kind |-> "mkgroup", from |-> d])
        /\ \A id : WhatTypes([kind |-> "rmgroup", from |-> d, group |-> id])
    BY <1>2 DEF WhatTypes
  <2> QED BY <1>7, <2>1 DEF AskForFolder
<1> QED BY <1>4, <1>5, <1>6, <1>7 DEF Begin

LEMMA BeginsTypes ==
    ASSUME Shapes, FolderTypes, NEW o \in Ops, NEW what, WhatTypes(what), Begins(o, what)
    PROVE  FolderTypes'
<1>1. /\ UNCHANGED <<dirs, at, pieces, groups, given, pend, pass>>
      /\ op' = [op EXCEPT ![o] = [at |-> "asked", what |-> what,
                                  pieces |-> pieces, groups |-> groups, render |-> render]]
  BY DEF Begins, treeVars, canvasVars
<1>2. /\ \A q \in Ops \ {o} : op'[q] = op[q]
      /\ op'[o] = [at |-> "asked", what |-> what, pieces |-> pieces, groups |-> groups,
                   render |-> render]
  BY <1>1 DEF Shapes
<1>3. op'[o].what = what /\ op'[o].pieces = pieces /\ op'[o].groups = groups
  BY <1>2
<1>4. SeenTypes(op'[o])
  BY <1>3 DEF SeenTypes, FolderTypes, CanvasTypes
<1>5. \A q \in Ops : InFlight(q)' => SeenTypes(op'[q])
  BY <1>2, <1>4 DEF InFlight, FolderTypes, CanvasTypes
<1>6. CanvasTypes'
  BY <1>1, <1>5, CanvasStays DEF FolderTypes
<1>7. DiskTypes' /\ OwnIds'
  BY <1>1, IdsStay DEF FolderTypes, DiskTypes
<1> QED BY <1>6, <1>7 DEF FolderTypes

LEMMA FollowRenameTypes ==
    ASSUME Shapes, FolderTypes, NEW o \in Ops, NEW f \in Files, FollowRename(o, f)
    PROVE  FolderTypes'
<1>1. PICK w : /\ w = [kind |-> "follow", file |-> f, from |-> pieces[f], to |-> at[f]]
               /\ op' = [op EXCEPT ![o] = [at |-> "made", what |-> w, pieces |-> pieces,
                                           groups |-> groups, render |-> render]]
  BY DEF FollowRename
<1>2. UNCHANGED <<dirs, at, pieces, groups, given, pend, pass>> /\ pieces[f] # None /\ at[f] # None
  BY DEF FollowRename, treeVars, canvasVars
<1>3. /\ \A q \in Ops \ {o} : op'[q] = op[q]
      /\ op'[o] = [at |-> "made", what |-> w, pieces |-> pieces, groups |-> groups,
                   render |-> render]
  BY <1>1 DEF Shapes
<1>4. op'[o].what = w /\ op'[o].pieces = pieces /\ op'[o].groups = groups
  BY <1>3
<1>5. pieces[f] \in Paths /\ at[f] \in Paths
  BY <1>2 DEF FolderTypes, CanvasTypes, DiskTypes
<1>6. WhatTypes(w)
  BY <1>1, <1>5 DEF WhatTypes
<1>7. SeenTypes(op'[o])
  BY <1>4, <1>6 DEF SeenTypes, FolderTypes, CanvasTypes
<1>8. \A q \in Ops : InFlight(q)' => SeenTypes(op'[q])
  BY <1>3, <1>7 DEF InFlight, FolderTypes, CanvasTypes
<1>9. CanvasTypes'
  BY <1>2, <1>8, CanvasStays DEF FolderTypes
<1>10. DiskTypes' /\ OwnIds'
  BY <1>2, IdsStay DEF FolderTypes, DiskTypes
<1> QED BY <1>9, <1>10 DEF FolderTypes

(* The disk changes and the canvas does not. *)
LEMMA OnlyDisk ==
    ASSUME FolderTypes, UNCHANGED <<pieces, groups, given, pass>>, pend' \subseteq pend,
           DiskTypes', \A q \in Ops : InFlight(q)' => SeenTypes(op'[q])
    PROVE  FolderTypes'
BY CanvasStays, IdsStay DEF FolderTypes

LEMMA EffectTypes == ASSUME Shapes, FolderTypes, NEW o \in Ops, Effect(o)  PROVE FolderTypes'
<1> DEFINE w == op[o].what
<1>1. UNCHANGED <<pieces, groups, given, pass, pend>> /\ op[o].at = "asked" /\ Goes(o, "made")
  BY DEF Effect, canvasVars
<1>2. \A q \in Ops : InFlight(q)' => SeenTypes(op'[q])
  BY <1>1, SeenStays DEF InFlight, FolderTypes
<1>3. WhatTypes(w)
  BY <1>1 DEF FolderTypes, CanvasTypes, InFlight, SeenTypes
<1>4. DiskTypes'
  <2>1. CASE w.kind = "file" /\ MoveFileOnDisk(w.file, w.from, w.to)
    BY <1>3, <2>1, FileMovedOnDisk DEF WhatTypes, FolderTypes
  <2>2. CASE w.kind = "folder" /\ MoveFolderOnDisk(w.from, w.to)
    BY <1>3, <2>2, FolderMovedOnDisk DEF WhatTypes, FolderTypes
  <2>3. CASE w.kind = "rmfile" /\ UNCHANGED dirs
             /\ at' = [at EXCEPT ![w.file] = IF @ = w.from THEN None ELSE @]
    BY <2>3 DEF FolderTypes, DiskTypes
  <2>4. CASE w.kind \in {"rmdir", "rmgroup"} /\ RemoveOnDisk(w.from)
    BY <2>4, RemovedOnDisk DEF FolderTypes
  <2>5. CASE w.kind \in {"mkdir", "mkgroup"} /\ MakeOnDisk(w.from)
    BY <1>3, <2>5, MadeOnDisk DEF WhatTypes, FolderTypes
  <2> QED BY <2>1, <2>2, <2>3, <2>4, <2>5 DEF Effect
<1> QED BY <1>1, <1>2, <1>4, OnlyDisk

LEMMA FrontIsPath == ASSUME NEW p \in Paths  PROVE Front(p) \in Paths
<1>1. Len(p) \in Nat /\ \A i \in 1..Len(p) - 1 : p[i] \in Names
  BY LenProperties DEF Paths
<1> QED BY <1>1, SubSeqProperties DEF Front, Paths

LEMMA ParentsMadeArePaths ==
    ASSUME NEW w, WhatTypes(w)
    PROVE  \E p \in Paths : ParentsMade(w) \subseteq {p}
<1>1. CASE w.kind = "file" /\ at[w.file] = w.from
  <2>1. ParentsMade(w) = {w.to} /\ w.to \in Paths
    BY <1>1 DEF ParentsMade, WhatTypes
  <2> QED BY <2>1
<1>2. CASE w.kind = "folder" /\ w.from \in dirs
  <2>1. ParentsMade(w) = {Front(w.to)} /\ Front(w.to) \in Paths
    BY <1>2, FrontIsPath DEF ParentsMade, WhatTypes
  <2> QED BY <2>1
<1>3. CASE w.kind \in {"mkdir", "mkgroup"}
  <2>1. ParentsMade(w) = {Front(w.from)} /\ Front(w.from) \in Paths
    BY <1>3, FrontIsPath DEF ParentsMade, WhatTypes
  <2> QED BY <2>1
<1>4. CASE /\ ~(w.kind = "file" /\ at[w.file] = w.from) /\ ~(w.kind = "folder" /\ w.from \in dirs)
           /\ w.kind \notin {"mkdir", "mkgroup"}
  <2>1. ParentsMade(w) = {}
    BY <1>4 DEF ParentsMade
  <2> QED BY <2>1, EmptySeq DEF Paths
<1> QED BY <1>1, <1>2, <1>3, <1>4

LEMMA RefusedTypes == ASSUME Shapes, FolderTypes, NEW o \in Ops, Refused(o)  PROVE FolderTypes'
<1> DEFINE w == op[o].what
<1>1. UNCHANGED <<pieces, groups, given, pass>> /\ op[o].at = "asked" /\ pend' \subseteq pend
  BY ManagersKeep DEF Refused, canvasVars
<1>2. PICK stage \in {"refused", "done"} : Goes(o, stage)
  BY DEF Refused
<1>3. \A q \in Ops : InFlight(q)' => SeenTypes(op'[q])
  BY <1>1, <1>2, SeenStays DEF InFlight, FolderTypes
<1>4. PICK left \in LeftOf(w), made \in SUBSET ParentsMade(w) :
         /\ dirs' = left.dirs \cup UNION {WithParents(p) : p \in made}
         /\ at' = [f \in Files |-> IF f \in left.lost THEN None ELSE at[f]]
  BY DEF Refused
<1>5. PICK gone \in SUBSET dirs, lost \in SUBSET Files :
         /\ left = [dirs |-> dirs \ gone, lost |-> lost]
         /\ {f \in Files : at[f] \in gone} \subseteq lost
  BY DEF LeftOf
<1>6. left.dirs = dirs \ gone /\ left.lost = lost
  BY <1>5
<1>7. PICK p \in Paths : made \subseteq {p}
  BY <1>1, ParentsMadeArePaths DEF FolderTypes, CanvasTypes, InFlight, SeenTypes
<1>8. /\ UNION {WithParents(q) : q \in made} \subseteq Paths \ {Root}
      /\ IsFiniteSet(UNION {WithParents(q) : q \in made})
  <2>1. UNION {WithParents(q) : q \in made} \in {{}, WithParents(p)}
    BY <1>7
  <2> QED BY <2>1, ParentsArePaths, FS_EmptySet
<1>9. IsFiniteSet(dirs \ gone) /\ dirs \ gone \subseteq Paths \ {Root}
  BY FS_Subset DEF FolderTypes, DiskTypes
<1>10. dirs' \subseteq Paths \ {Root} /\ IsFiniteSet(dirs')
  BY <1>4, <1>6, <1>8, <1>9, FS_Union
<1>11. DiskTypes'
  BY <1>4, <1>5, <1>6, <1>10 DEF FolderTypes, DiskTypes
<1> QED BY <1>1, <1>3, <1>11, OnlyDisk

LEMMA OutsideTypes == ASSUME FolderTypes, Outside  PROVE FolderTypes'
<1>1. UNCHANGED <<pieces, groups, given, pend, pass, op>>
  BY DEF Outside, canvasVars
<1>2. Folders \subseteq Paths \ {Root} /\ dirs \subseteq Paths /\ Root \in Paths
  BY FolderPaths, EmptySeq DEF FolderTypes, DiskTypes, Root, Paths
<1>3. \/ \E d \in Folders : MakeOnDisk(d)
      \/ \E f \in Files, to \in dirs \cup {Root} : MoveFileOnDisk(f, at[f], to)
      \/ \E from \in dirs, to \in Folders : MoveFolderOnDisk(from, to)
      \/ \E d \in dirs : RemoveOnDisk(d)
  BY DEF Outside
<1>4. DiskTypes'
  BY <1>2, <1>3, MadeOnDisk, FileMovedOnDisk, FolderMovedOnDisk, RemovedOnDisk DEF FolderTypes
<1>5. \A q \in Ops : InFlight(q)' => SeenTypes(op'[q])
  BY <1>1 DEF FolderTypes, CanvasTypes, InFlight
<1> QED BY <1>1, <1>4, <1>5, OnlyDisk

(* The canvas stays as it is, and so does the disk. *)
LEMMA NothingTypes ==
    ASSUME Shapes, FolderTypes, UNCHANGED <<dirs, at, pieces, groups, given>>, pend' \subseteq pend,
           UNCHANGED pass \/ \E c, r \in BOOLEAN : Rendered(c, r),
           \/ UNCHANGED op
           \/ \E o \in Ops, stage \in {"done", "followed"} : Goes(o, stage)
    PROVE  FolderTypes'
<1>1. \A q \in Ops : InFlight(q)' => SeenTypes(op'[q])
  <2>1. CASE UNCHANGED op
    BY <2>1 DEF FolderTypes, CanvasTypes, InFlight
  <2>2. CASE \E o \in Ops, stage \in {"done", "followed"} : Goes(o, stage)
    BY <2>2, SeenStays DEF FolderTypes
  <2> QED BY <2>1, <2>2
<1>2. CanvasTypes'
  BY <1>1, CanvasStays DEF FolderTypes
<1> QED BY <1>2, IdsStay DEF FolderTypes, DiskTypes

LEMMA RefreshTypes == ASSUME Shapes, FolderTypes, NEW o \in Ops, Refresh(o)  PROVE FolderTypes'
<1>1. /\ UNCHANGED <<dirs, at, pieces, groups, given>> /\ pend' \subseteq pend
      /\ Rendered(FALSE, TRUE) /\ Goes(o, "done")
  BY ManagersKeep DEF Refresh, treeVars, canvasVars
<1> QED BY <1>1, NothingTypes

LEMMA RedrawTypes == ASSUME Shapes, FolderTypes, Redraw  PROVE FolderTypes'
<1>1. /\ UNCHANGED <<dirs, at, pieces, groups, given, op>> /\ pend' \subseteq pend
      /\ Rendered(TRUE, FALSE)
  BY ManagersKeep DEF Redraw, treeVars, canvasVars
<1> QED BY <1>1, NothingTypes

LEMMA CheckTreeTypes == ASSUME Shapes, FolderTypes, CheckTree  PROVE FolderTypes'
<1>1. /\ UNCHANGED <<dirs, at, pieces, groups, given, op>> /\ pend' \subseteq pend
      /\ Rendered(FALSE, TRUE)
  BY ManagersKeep DEF CheckTree, treeVars, canvasVars
<1> QED BY <1>1, NothingTypes

LEMMA ListedTypes == ASSUME FolderTypes, ReadTree \/ TreeUnread  PROVE FolderTypes'
<1>1. UNCHANGED <<dirs, at, pieces, groups, given, op, pend>> /\ pass.at = "reading"
  BY DEF ReadTree, TreeUnread, treeVars, canvasVars
<1>2. \/ pass' = [pass EXCEPT !.at = "read", !.dirs = dirs]
      \/ pass' = [pass EXCEPT !.at = "blind"]
  BY DEF ReadTree, TreeUnread
<1>3. /\ pass'.at \in {"none", "reading", "read", "blind"}
      /\ pass'.dirs \in {dirs, pass.dirs}
      /\ pass' = [at |-> pass'.at, dirs |-> pass'.dirs, due |-> pass'.due]
  BY <1>2 DEF FolderTypes, CanvasTypes
<1>4. CanvasTypes'
  BY <1>1, <1>3 DEF FolderTypes, CanvasTypes, DiskTypes, InFlight
<1> QED BY <1>1, <1>4, IdsStay DEF FolderTypes, DiskTypes

LEMMA FewerGroups ==
    ASSUME FolderTypes, given' = given, pend' \subseteq pend,
           \/ \E ids : groups' = Without(groups, ids)
           \/ \E F : groups' = WithoutFiles(groups, F)
    PROVE  groups' \in Seq(GroupSet) /\ OwnIds'
<1>1. /\ groups \in Seq(GroupSet)
      /\ \A i, j \in DOMAIN groups : TheId[groups[i]] = TheId[groups[j]] => i = j
      /\ \A i \in DOMAIN groups : groups[i].id <= given
  BY Keys DEF FolderTypes, CanvasTypes, OwnIds
<1>2. ASSUME NEW ids, groups' = Without(groups, ids)  PROVE groups' \in Seq(GroupSet) /\ OwnIds'
  <2>1. /\ groups' \in Seq(GroupSet)
        /\ \E nth \in Bijection(DOMAIN groups', Left(groups, ids)) :
              \A k \in DOMAIN groups' : groups'[k] = groups[nth[k]]
    BY <1>1, <1>2, WithoutIs
  <2>2. PICK nth \in Bijection(DOMAIN groups', Left(groups, ids)) :
           \A k \in DOMAIN groups' : groups'[k] = groups[nth[k]]
    BY <2>1
  <2>3. Left(groups, ids) \in SUBSET DOMAIN groups
    BY DEF Left
  <2>4. \A k, l \in DOMAIN groups' : TheId[groups'[k]] = TheId[groups'[l]] => k = l
    BY <1>1, <2>2, <2>3, PartApart
  <2>5. \A k \in DOMAIN groups' : nth[k] \in DOMAIN groups
    BY <2>3 DEF Bijection, Injection
  <2>6. \A k, l \in DOMAIN groups' : groups'[k].id = groups'[l].id => k = l
    BY <2>1, <2>4, Keys
  <2>7. \A k \in DOMAIN groups' : groups'[k].id <= given
    BY <1>1, <2>2, <2>5
  <2> QED BY <2>1, <2>6, <2>7 DEF FolderTypes, OwnIds
<1>3. ASSUME NEW F, groups' = WithoutFiles(groups, F)  PROVE groups' \in Seq(GroupSet) /\ OwnIds'
  <2>1. /\ groups' \in Seq(GroupSet) /\ DOMAIN groups' = DOMAIN groups
        /\ \A i \in DOMAIN groups : groups'[i].id = groups[i].id
    BY <1>1, <1>3, LosingFiles
  <2> QED BY <2>1 DEF FolderTypes, OwnIds
<1> QED BY <1>2, <1>3

(* Pieces and groups leave the canvas, and an operation ends. *)
LEMMA LeavingTypes ==
    ASSUME Shapes, FolderTypes, UNCHANGED <<dirs, at, given>>, pend' \subseteq pend,
           pieces' \in [Files -> Paths \cup {None}],
           \/ \E ids : groups' = Without(groups, ids)
           \/ \E F : groups' = WithoutFiles(groups, F),
           \E c, r \in BOOLEAN : Rendered(c, r),
           NEW o \in Ops, Goes(o, "done")
    PROVE  FolderTypes'
<1>1. groups' \in Seq(GroupSet) /\ OwnIds'
  BY FewerGroups
<1>2. \A q \in Ops : InFlight(q)' => SeenTypes(op'[q])
  BY SeenStays DEF FolderTypes
<1>3. /\ given' \in Nat /\ IsFiniteSet(pend)
      /\ \A e \in pend : e.folder \in Paths \ {Root} /\ e.id \in 1..given'
  BY DEF FolderTypes, CanvasTypes
<1>4. CanvasTypes'
  BY <1>1, <1>2, <1>3, CanvasChanges DEF FolderTypes
<1> QED BY <1>1, <1>4 DEF FolderTypes, DiskTypes

LEMMA RemoveFromCanvasTypes ==
    ASSUME Shapes, FolderTypes, NEW o \in Ops, NEW f \in Files, RemoveFromCanvas(o, f)
    PROVE  FolderTypes'
<1>1. /\ UNCHANGED <<dirs, at, given>> /\ pend' \subseteq pend /\ Rendered(TRUE, TRUE)
      /\ Goes(o, "done") /\ groups' = WithoutFiles(groups, {f})
      /\ pieces' = [pieces EXCEPT ![f] = None]
  BY ManagersKeep DEF RemoveFromCanvas, treeVars
<1>2. pieces' \in [Files -> Paths \cup {None}]
  BY <1>1 DEF FolderTypes, CanvasTypes
<1> QED BY <1>1, <1>2, LeavingTypes

LEMMA ClearTypes == ASSUME Shapes, FolderTypes, NEW o \in Ops, Clear(o)  PROVE FolderTypes'
<1> DEFINE v == op[o]
<1>1. /\ UNCHANGED <<dirs, at, given>> /\ Goes(o, "done")
      /\ pieces' = Deleted(v, groups).pieces /\ groups' = Deleted(v, groups).groups
      /\ \E c \in BOOLEAN : Rendered(c, TRUE)
  BY DEF Clear, treeVars
<1>2. \E E \in SUBSET pend : \E c : Managers(E, c)
  BY DEF Clear
<1>3. pend' \subseteq pend
  BY <1>2, ManagersKeep
<1>4. \E F : pieces' = [f \in Files |-> IF f \in F THEN None ELSE pieces[f]]
  BY <1>1 DEF Deleted
<1>5. pieces' \in [Files -> Paths \cup {None}]
  BY <1>4 DEF FolderTypes, CanvasTypes
<1>6. (\E ids : groups' = Without(groups, ids)) \/ (\E F : groups' = WithoutFiles(groups, F))
  BY <1>1 DEF Deleted
<1> QED BY <1>1, <1>3, <1>5, <1>6, LeavingTypes

LEMMA ClearGroupTypes == ASSUME Shapes, FolderTypes, NEW o \in Ops, ClearGroup(o)  PROVE FolderTypes'
<1>1. /\ UNCHANGED <<dirs, at, given, pieces>> /\ pend' \subseteq pend /\ Rendered(TRUE, TRUE)
      /\ Goes(o, "done") /\ \E ids : groups' = Without(groups, ids)
  BY ManagersKeep DEF ClearGroup, treeVars
<1>2. pieces' \in [Files -> Paths \cup {None}]
  BY <1>1 DEF FolderTypes, CanvasTypes
<1> QED BY <1>1, <1>2, LeavingTypes

LEMMA AddGroupTypes == ASSUME Shapes, FolderTypes, NEW o \in Ops, AddGroup(o)  PROVE FolderTypes'
<1> DEFINE d == op[o].what.from
           g == [id |-> given + 1, folder |-> d, members |-> {}]
<1>1. /\ UNCHANGED <<dirs, at, pieces>> /\ pend' \subseteq pend /\ Rendered(TRUE, TRUE)
      /\ Goes(o, "done") /\ given' = given + 1 /\ groups' = Append(groups, g)
      /\ op[o].at \in {"made", "refused"} /\ op[o].what.kind = "mkgroup"
  BY ManagersKeep DEF AddGroup, treeVars
<1>2. d \in Paths \ {Root} /\ given \in Nat /\ groups \in Seq(GroupSet)
  BY <1>1, FolderPaths DEF FolderTypes, CanvasTypes, InFlight, SeenTypes, WhatTypes
<1>3. g \in GroupSet /\ g.id = given + 1
  BY <1>2 DEF GroupSet
<1>4. /\ groups' \in Seq(GroupSet) /\ DOMAIN groups = 1..Len(groups) /\ Len(groups) \in Nat
      /\ DOMAIN groups' = 1..Len(groups) + 1
      /\ \A i \in 1..Len(groups) : groups'[i] = groups[i]
      /\ groups'[Len(groups) + 1] = g
  BY <1>1, <1>2, <1>3, AppendProperties, LenProperties
<1>5. \A i \in DOMAIN groups : groups[i].id \in Nat /\ groups[i].id <= given
  BY <1>2, Keys DEF FolderTypes, OwnIds, GroupSet
<1>6. \A i \in DOMAIN groups' : i \in DOMAIN groups \/ i = Len(groups) + 1
  BY <1>4
<1>7. /\ \A i \in DOMAIN groups' : groups'[i].id <= given + 1
      /\ \A i, j \in DOMAIN groups' : groups'[i].id = groups'[j].id => i = j
  <2> HIDE DEF g
  <2> QED BY <1>2, <1>3, <1>4, <1>5, <1>6 DEF FolderTypes, OwnIds
<1>8. OwnIds'
  BY <1>1, <1>7 DEF FolderTypes, OwnIds
<1>9. \A q \in Ops : InFlight(q)' => SeenTypes(op'[q])
  BY <1>1, SeenStays DEF FolderTypes
<1>10. /\ given' \in Nat /\ IsFiniteSet(pend) /\ pieces' \in [Files -> Paths \cup {None}]
       /\ \A e \in pend : e.folder \in Paths \ {Root} /\ e.id \in 1..given'
  BY <1>1, <1>2 DEF FolderTypes, CanvasTypes
<1>11. CanvasTypes'
  BY <1>1, <1>4, <1>9, <1>10, CanvasChanges DEF FolderTypes
<1> QED BY <1>1, <1>8, <1>11 DEF FolderTypes, DiskTypes

LEMMA NextPathIs ==
    ASSUME NEW w, WhatTypes(w), NEW p \in Paths
    PROVE  NextPath(w, p) \in Paths /\ (p # Root => NextPath(w, p) # Root)
<1>1. CASE w.kind = "folder" /\ Under(p, w.from)
  <2>1. w.from \in Paths /\ w.to \in Paths \ {Root}
    BY <1>1, FolderPaths DEF WhatTypes
  <2> QED BY <1>1, <2>1, RebasedIsPath DEF NextPath
<1>2. CASE ~(w.kind = "folder" /\ Under(p, w.from))
  BY <1>2 DEF NextPath
<1> QED BY <1>1, <1>2

(* What a move makes of a group, and the groups it makes. *)
Moved(v, g) == {h \in ToSet(v.groups) : h.id = g.id /\ NextPath(v.what, h.folder) # h.folder}
NewPath(v, g) == IF Moved(v, g) = {} THEN g.folder
                 ELSE NextPath(v.what, (CHOOSE h \in Moved(v, g) : TRUE).folder)
Into(v, e) == {f \in Homeless(v) : Dest(v, f) = e.folder}
NewMembers(v, g, made) ==
    LET F == Affected(v.what, v.pieces) IN
    ((g.members \ {f \in F : Leaves(v, f, g)}) \cup {f \in F : Joins(v, f, g)})
        \cup UNION {Into(v, e) : e \in {e \in made : e.id = g.id}}
NewGroup(v, e) == [id |-> e.id, folder |-> e.folder, members |-> Into(v, e)]
KeptGroups(v, gs, made) ==
    [i \in DOMAIN gs |-> [id |-> gs[i].id, folder |-> NewPath(v, gs[i]),
                         members |-> NewMembers(v, gs[i], made)]]
NewGroups(v, S) == [e \in S |-> NewGroup(v, e)]
Unshown(made, gs) == {e \in made : \A i \in DOMAIN gs : gs[i].id # e.id}

LEMMA SyncedIs ==
    ASSUME NEW v, SeenTypes(v), NEW gs \in Seq(GroupSet), NEW made, IsFiniteSet(made),
           \A e \in made : e.folder \in Paths \ {Root} /\ e.id \in Nat
    PROVE  /\ KeptGroups(v, gs, made) \in Seq(GroupSet)
           /\ Adds(Synced(v, gs, made), KeptGroups(v, gs, made), Unshown(made, gs),
                   NewGroups(v, Unshown(made, gs)))
           /\ NewGroups(v, Unshown(made, gs)) \in [Unshown(made, gs) -> GroupSet]
<1> DEFINE kept == KeptGroups(v, gs, made)
           S == Unshown(made, gs)
           new == SetToSeq(S)
           F == NewGroups(v, S)
           b == [i \in DOMAIN new |->
                   [id |-> new[i].id, folder |-> new[i].folder, members |-> Into(v, new[i])]]
<1>1. Synced(v, gs, made) = kept \o b
  BY DEF Synced, KeptGroups, NewPath, NewMembers, Moved, Into, Unshown
<1>2. S \subseteq made /\ IsFiniteSet(S)
  BY FS_Subset DEF Unshown
<1>3. \A i \in DOMAIN new : new[i] \in S
  BY <1>2, SetToSeqIs DEF Bijection, Injection
<1>4. b = [i \in DOMAIN new |-> b[i]] /\ \A i \in DOMAIN new : b[i] = F[new[i]]
  BY <1>3 DEF NewGroup, NewGroups
<1>5. \A e : Into(v, e) \subseteq Files
  BY DEF Into, Homeless, Affected
<1>6. F \in [S -> GroupSet]
  BY <1>2, <1>5 DEF NewGroup, NewGroups, GroupSet
<1>7. Len(gs) \in Nat /\ DOMAIN gs = 1..Len(gs)
  BY LenProperties
<1>8. ASSUME NEW g \in GroupSet  PROVE NewPath(v, g) \in Paths \ {Root}
  <2>1. CASE Moved(v, g) = {}
    BY <2>1 DEF NewPath, GroupSet
  <2>2. CASE Moved(v, g) # {}
    <3>1. (CHOOSE h \in Moved(v, g) : TRUE) \in Moved(v, g)
      BY <2>2
    <3>2. \A h \in Moved(v, g) : h \in GroupSet
      BY Keys DEF Moved, ToSet, SeenTypes
    <3>3. \A h \in Moved(v, g) : NextPath(v.what, h.folder) \in Paths \ {Root}
      BY <3>2, NextPathIs DEF SeenTypes, GroupSet
    <3> QED BY <2>2, <3>1, <3>3 DEF NewPath
  <2> QED BY <2>1, <2>2
<1>9. ASSUME NEW g \in GroupSet  PROVE NewMembers(v, g, made) \subseteq Files
  BY <1>5 DEF NewMembers, Affected, GroupSet
<1>10. ASSUME NEW i \in DOMAIN gs  PROVE kept[i] \in GroupSet
  <2>1. gs[i] \in GroupSet
    BY Keys
  <2>2. NewPath(v, gs[i]) \in Paths \ {Root} /\ NewMembers(v, gs[i], made) \subseteq Files
    BY <1>8, <1>9, <2>1
  <2>3. kept[i] = [id |-> gs[i].id, folder |-> NewPath(v, gs[i]),
                   members |-> NewMembers(v, gs[i], made)]
    BY DEF KeptGroups
  <2> HIDE DEF kept
  <2> QED BY <2>1, <2>2, <2>3 DEF GroupSet
<1>11. kept \in Seq(GroupSet)
  <2>1. kept \in [1..Len(gs) -> GroupSet]
    BY <1>7, <1>10 DEF KeptGroups
  <2> QED BY <1>7, <2>1, SeqIs
<1>12. b \in [DOMAIN SetToSeq(S) -> GroupSet] /\ \A i \in DOMAIN SetToSeq(S) : b[i] = F[SetToSeq(S)[i]]
  BY <1>3, <1>4, <1>6
<1>13. Adds(kept \o b, kept, S, F)
  <2> HIDE DEF b, F, S, kept
  <2> QED BY <1>2, <1>6, <1>11, <1>12, JoinedAdds
<1> QED BY <1>1, <1>6, <1>11, <1>13

Need(v) == {Dest(v, f) : f \in Homeless(v)}

LEMMA NeedTypes ==
    ASSUME NEW v, SeenTypes(v), v.what.kind \in {"file", "folder", "follow"}
    PROVE  Need(v) \subseteq Paths \ {Root} /\ IsFiniteSet(Need(v))
<1>1. ASSUME NEW f \in Homeless(v)  PROVE Dest(v, f) \in Paths \ {Root}
  <2>1. v.pieces[f] \in Paths /\ Dest(v, f) # Root
    BY DEF Homeless, Affected, SeenTypes
  <2>2. CASE v.what.kind = "folder"
    BY <2>1, <2>2, NextPathIs DEF Dest, SeenTypes
  <2>3. CASE v.what.kind # "folder"
    BY <2>1, <2>3 DEF Dest, SeenTypes, WhatTypes
  <2> QED BY <2>2, <2>3
<1>2. IsFiniteSet(Homeless(v))
  <2>1. Homeless(v) \in SUBSET Files
    BY DEF Homeless, Affected
  <2> QED BY <2>1, FS_Subset, FoldersAssumption
<1>3. [f \in Homeless(v) |-> Dest(v, f)] \in Surjection(Homeless(v), Need(v))
  BY DEF Surjection, Need
<1>4. IsFiniteSet(Need(v))
  BY <1>2, <1>3, FS_Surjection
<1> QED BY <1>1, <1>4 DEF Need

(* The entries by which a move makes or fills groups, and those it remembers. *)
Mine(v) == {e \in pend : e.render = v.render /\ e.folder \in Need(v)}
Kept(v) == {[folder |-> e.folder, id |-> e.id] : e \in Mine(v)}
Fresh(v) == Allocated(Need(v) \ {e.folder : e \in Kept(v)})
Made(v) == Kept(v) \cup Fresh(v)
Remembered(v) == {[folder |-> e.folder, id |-> e.id, render |-> v.render] : e \in Fresh(v)}

LEMMA FollowIs ==
    ASSUME NEW o, Follow(o), NEW v, v = op[o]
    PROVE  /\ v.at = "made" /\ v.what.kind \in {"file", "folder", "follow"}
           /\ UNCHANGED <<dirs, at, unseen, overlapped, entangled>>
           /\ pieces' = [f \in Files |-> IF f \in Affected(v.what, v.pieces) /\ pieces[f] # None
                                         THEN Dest(v, f) ELSE pieces[f]]
           /\ groups' = Synced(v, groups, Made(v))
           /\ given' = given + Cardinality(Fresh(v))
           /\ strayed' = strayed \ {f \in Affected(v.what, v.pieces) :
                                       v.what.kind = "follow" /\ at[f] = v.what.to}
           /\ Goes(o, "followed") /\ Managers(pend \cup Remembered(v), TRUE)
           /\ Rendered(TRUE, FALSE)
<1>1. /\ v.at = "made" /\ v.what.kind \in {"file", "folder", "follow"}
      /\ UNCHANGED <<dirs, at, unseen, overlapped, entangled>>
      /\ pieces' = [f \in Files |-> IF f \in Affected(v.what, v.pieces) /\ pieces[f] # None
                                    THEN Dest(v, f) ELSE pieces[f]]
      /\ strayed' = strayed \ {f \in Affected(v.what, v.pieces) :
                                  v.what.kind = "follow" /\ at[f] = v.what.to}
      /\ Goes(o, "followed") /\ Rendered(TRUE, FALSE)
  BY DEF Follow, treeVars
<1>2. groups' = Synced(v, groups, Made(v)) /\ given' = given + Cardinality(Fresh(v))
  BY DEF Follow, Need, Mine, Kept, Fresh, Made
<1>3. Managers(pend \cup Remembered(v), TRUE)
  BY ZenonT(60) DEF Follow, Need, Mine, Kept, Fresh, Remembered
<1> QED BY <1>1, <1>2, <1>3

LEMMA MadeTypes ==
    ASSUME FolderTypes, NEW v, SeenTypes(v), v.what.kind \in {"file", "folder", "follow"}
    PROVE  /\ Cardinality(Fresh(v)) \in Nat /\ IsFiniteSet(Made(v)) /\ IsFiniteSet(Remembered(v))
           /\ \A e \in Made(v) : /\ e.folder \in Need(v)
                                 /\ e.id \in 1..given + Cardinality(Fresh(v))
           /\ \A e, c \in Made(v) : e.id = c.id => e = c
           /\ \A e \in Remembered(v) : /\ e.folder \in Paths \ {Root}
                                       /\ e.id \in given + 1..given + Cardinality(Fresh(v))
           /\ \A e, c \in Remembered(v) : e.id = c.id => e = c
           /\ (\A e, c \in Fresh(v) : e.folder = c.folder => e = c)
           /\ \A d \in Need(v) : \E e \in Made(v) : e.folder = d
<1> DEFINE rest == Need(v) \ {e.folder : e \in Kept(v)}
<1>1. Need(v) \subseteq Paths \ {Root} /\ IsFiniteSet(Need(v)) /\ given \in Nat
  BY NeedTypes DEF FolderTypes, CanvasTypes
<1>2. IsFiniteSet(rest) /\ rest \subseteq Need(v)
  BY <1>1, FS_Subset
<1>3. /\ Cardinality(Fresh(v)) \in Nat
      /\ IsFiniteSet(Fresh(v)) /\ Cardinality(Fresh(v)) = Cardinality(rest)
      /\ \A e \in Fresh(v) : /\ e = [folder |-> e.folder, id |-> e.id] /\ e.folder \in rest
                             /\ e.id \in given + 1..given + Cardinality(Fresh(v))
      /\ \A d \in rest : \E e \in Fresh(v) : e.folder = d
      /\ \A e, c \in Fresh(v) : e.id = c.id \/ e.folder = c.folder => e = c
  <2> HIDE DEF rest
  <2>1. Fresh(v) = Allocated(rest)
    BY DEF Fresh, rest
  <2> QED BY <1>1, <1>2, <2>1, AllocatedIs
<1>4. Mine(v) \subseteq pend /\ IsFiniteSet(Mine(v))
  BY FS_Subset DEF Mine, FolderTypes, CanvasTypes
<1>5. IsFiniteSet(Kept(v))
  <2>1. [e \in Mine(v) |-> [folder |-> e.folder, id |-> e.id]] \in Surjection(Mine(v), Kept(v))
    BY DEF Surjection, Kept
  <2> QED BY <1>4, <2>1, FS_Surjection
<1>6. ASSUME NEW e \in Kept(v)
      PROVE  /\ e.folder \in Need(v) /\ e.id \in 1..given
             /\ \E m \in Mine(v) : e = [folder |-> m.folder, id |-> m.id] /\ e.id = m.id
  <2>1. PICK m \in Mine(v) : e = [folder |-> m.folder, id |-> m.id]
    BY DEF Kept
  <2>2. e.folder = m.folder /\ e.id = m.id
    BY <2>1
  <2> QED BY <1>4, <2>1, <2>2 DEF Mine, FolderTypes, CanvasTypes
<1>7. ASSUME NEW e \in Kept(v), NEW c \in Kept(v), e.id = c.id  PROVE e = c
  <2>1. PICK m \in Mine(v) : e = [folder |-> m.folder, id |-> m.id] /\ e.id = m.id
    BY <1>6
  <2>2. PICK n \in Mine(v) : c = [folder |-> n.folder, id |-> n.id] /\ c.id = n.id
    BY <1>6
  <2>3. m = n
    BY <1>4, <1>7, <2>1, <2>2 DEF FolderTypes, OwnIds
  <2> QED BY <2>1, <2>2, <2>3
<1>8. IsFiniteSet(Made(v))
  BY <1>3, <1>5, FS_Union DEF Made
<1>9. ASSUME NEW e \in Made(v)
      PROVE  e.folder \in Need(v) /\ e.id \in 1..given + Cardinality(Fresh(v))
  <2>1. CASE e \in Kept(v)
    BY <1>1, <1>3, <1>6, <2>1
  <2>2. CASE e \in Fresh(v)
    BY <1>1, <1>2, <1>3, <2>2
  <2> QED BY <2>1, <2>2 DEF Made
<1>10. ASSUME NEW e \in Made(v), NEW c \in Made(v), e.id = c.id  PROVE e = c
  <2>1. \A k \in Kept(v), n \in Fresh(v) : k.id # n.id
    <3>1. \A k \in Kept(v) : k.id \in 1..given
      BY <1>6
    <3> QED BY <1>1, <1>3, <3>1
  <2> QED BY <1>3, <1>7, <1>10, <2>1 DEF Made
<1>11. IsFiniteSet(Remembered(v))
  <2>1. [e \in Fresh(v) |-> [folder |-> e.folder, id |-> e.id, render |-> v.render]]
           \in Surjection(Fresh(v), Remembered(v))
    BY DEF Surjection, Remembered
  <2> QED BY <1>3, <2>1, FS_Surjection
<1>12. ASSUME NEW e \in Remembered(v)
       PROVE  \E m \in Fresh(v) : /\ e = [folder |-> m.folder, id |-> m.id, render |-> v.render]
                                  /\ e.folder = m.folder /\ e.id = m.id
  BY DEF Remembered
<1>13. ASSUME NEW e \in Remembered(v)
       PROVE  e.folder \in Paths \ {Root} /\ e.id \in given + 1..given + Cardinality(Fresh(v))
  BY <1>1, <1>2, <1>3, <1>12
<1>14. ASSUME NEW e \in Remembered(v), NEW c \in Remembered(v), e.id = c.id  PROVE e = c
  <2>1. PICK m \in Fresh(v) : e = [folder |-> m.folder, id |-> m.id, render |-> v.render] /\ e.id = m.id
    BY <1>12
  <2>2. PICK n \in Fresh(v) : c = [folder |-> n.folder, id |-> n.id, render |-> v.render] /\ c.id = n.id
    BY <1>12
  <2>3. m = n
    BY <1>3, <1>14, <2>1, <2>2
  <2> QED BY <2>1, <2>2, <2>3
<1>15. ASSUME NEW d \in Need(v)  PROVE \E e \in Made(v) : e.folder = d
  <2>1. CASE d \in rest
    BY <1>3, <2>1 DEF Made
  <2>2. CASE d \notin rest
    BY <2>2 DEF Made
  <2> QED BY <2>1, <2>2
<1> QED BY <1>3, <1>8, <1>9, <1>10, <1>11, <1>13, <1>14, <1>15

LEMMA FollowAlters ==
    ASSUME NEW o, Follow(o)
    PROVE  pend' \subseteq pend \cup Remembered(op[o])
<1>1. Managers(pend \cup Remembered(op[o]), TRUE)
  BY FollowIs
<1> QED BY <1>1, ManagersKeep

LEMMA FollowTypes == ASSUME Shapes, FolderTypes, NEW o \in Ops, Follow(o)  PROVE FolderTypes'
<1> DEFINE v == op[o]
           n == Cardinality(Fresh(v))
           kept == KeptGroups(v, groups, Made(v))
           S == Unshown(Made(v), groups)
           F == NewGroups(v, S)
<1>1. /\ v.at = "made" /\ v.what.kind \in {"file", "folder", "follow"}
      /\ UNCHANGED <<dirs, at>> /\ Goes(o, "followed") /\ given' = given + n
      /\ groups' = Synced(v, groups, Made(v)) /\ Rendered(TRUE, FALSE)
      /\ pieces' = [f \in Files |-> IF f \in Affected(v.what, v.pieces) /\ pieces[f] # None
                                    THEN Dest(v, f) ELSE pieces[f]]
  BY FollowIs
<1>20. pend' \subseteq pend \cup Remembered(v)
  BY FollowAlters
<1>2. SeenTypes(v) /\ groups \in Seq(GroupSet) /\ given \in Nat
  BY <1>1 DEF FolderTypes, CanvasTypes, InFlight
<1>3. /\ n \in Nat /\ IsFiniteSet(Made(v)) /\ IsFiniteSet(Remembered(v))
      /\ \A e \in Made(v) : e.folder \in Need(v) /\ e.id \in 1..given + n
      /\ \A e, c \in Made(v) : e.id = c.id => e = c
      /\ \A e \in Remembered(v) : e.folder \in Paths \ {Root} /\ e.id \in given + 1..given + n
      /\ \A e, c \in Remembered(v) : e.id = c.id => e = c
  BY <1>1, <1>2, MadeTypes
<1>4. \A e \in Made(v) : e.folder \in Paths \ {Root} /\ e.id \in Nat
  BY <1>1, <1>2, <1>3, NeedTypes
<1>5. kept \in Seq(GroupSet) /\ Adds(groups', kept, S, F) /\ F \in [S -> GroupSet]
  <2>1. /\ kept \in Seq(GroupSet) /\ Adds(Synced(v, groups, Made(v)), kept, S, F)
        /\ F \in [S -> GroupSet]
    BY <1>2, <1>3, <1>4, SyncedIs
  <2> HIDE DEF kept, S, F
  <2> QED BY <1>1, <2>1
<1>6. /\ groups' \in Seq(GroupSet) /\ DOMAIN kept \subseteq DOMAIN groups'
      /\ \A i \in DOMAIN kept : groups'[i] = kept[i]
      /\ \A k \in DOMAIN groups' \ DOMAIN kept : \E e \in S : groups'[k] = F[e]
  <2> HIDE DEF kept, S, F
  <2> QED BY <1>5, AddedIs
<1>21. /\ DOMAIN kept = DOMAIN groups
      /\ \A i \in DOMAIN groups : kept[i].id = groups[i].id
  BY DEF KeptGroups
<1>22. \A e \in S : F[e].id = e.id /\ e \in Made(v)
  BY DEF NewGroups, NewGroup, Unshown
<1> HIDE DEF kept, F
<1>7. \A i \in DOMAIN groups' : \/ i \in DOMAIN groups /\ groups'[i].id = groups[i].id
                                \/ \E e \in S : groups'[i].id = e.id
  BY <1>6, <1>21, <1>22
<1>8. \A i \in DOMAIN groups' : groups'[i].id <= given + n
  <2>1. \A i \in DOMAIN groups : groups[i].id \in Nat /\ groups[i].id <= given
    BY <1>2, Keys DEF FolderTypes, OwnIds, GroupSet
  <2>2. \A e \in S : e.id \in 1..given + n
    BY <1>3, <1>22
  <2> HIDE DEF S
  <2> QED BY <1>2, <1>3, <1>7, <2>1, <2>2
<1>9. \A i, j \in DOMAIN groups' : groups'[i].id = groups'[j].id => i = j
  <2>1. \A i \in DOMAIN kept : TheId[kept[i]] = groups[i].id
    BY <1>5, <1>21, Keys
  <2>2. \A e \in S : TheId[F[e]] = e.id
    BY <1>5, <1>22 DEF TheId
  <2>3. \A e, c \in S : TheId[F[e]] = TheId[F[c]] => e = c
    BY <1>3, <1>22, <2>2
  <2>4. \A i \in DOMAIN kept, e \in S : TheId[kept[i]] # TheId[F[e]]
    BY <1>21, <2>1, <2>2 DEF Unshown
  <2>6. \A i, j \in DOMAIN kept : TheId[kept[i]] = TheId[kept[j]] => i = j
    BY <1>21, <2>1 DEF FolderTypes, OwnIds
  <2>5. \A i, j \in DOMAIN groups' : TheId[groups'[i]] = TheId[groups'[j]] => i = j
    <3> HIDE DEF S
    <3> QED BY <1>5, <2>6, <2>3, <2>4, JoinedApart
  <2> QED BY <1>6, <2>5, Keys
<1>10. OwnIds'
  <2>1. \A e, c \in pend \cup Remembered(v) : e.id = c.id => e = c
    <3>1. \A e \in pend : e.id \in 1..given
      BY DEF FolderTypes, CanvasTypes
    <3>2. \A e \in pend, c \in Remembered(v) : e.id # c.id
      BY <1>2, <1>3, <3>1
    <3> QED BY <1>3, <3>2 DEF FolderTypes, OwnIds
  <2> QED BY <1>1, <1>20, <1>8, <1>9, <2>1 DEF OwnIds
<1>11. pieces' \in [Files -> Paths \cup {None}]
  <2>1. ASSUME NEW f \in Files, f \in Affected(v.what, v.pieces)  PROVE Dest(v, f) \in Paths
    <3>1. v.pieces[f] \in Paths
      BY <1>2, <2>1 DEF Affected, SeenTypes
    <3> QED BY <1>1, <1>2, <3>1, NextPathIs DEF Dest, SeenTypes, WhatTypes
  <2> QED BY <1>1, <2>1 DEF FolderTypes, CanvasTypes
<1>12. IsFiniteSet(pend \cup Remembered(v))
  BY <1>3, FS_Union DEF FolderTypes, CanvasTypes
<1>13. \A e \in pend \cup Remembered(v) : e.folder \in Paths \ {Root} /\ e.id \in 1..given'
  BY <1>1, <1>2, <1>3 DEF FolderTypes, CanvasTypes
<1>14. \A q \in Ops : InFlight(q)' => SeenTypes(op'[q])
  BY <1>1, SeenStays DEF FolderTypes
<1>15. given' \in Nat
  BY <1>1, <1>2, <1>3
<1>16. CanvasTypes'
  BY <1>1, <1>20, <1>6, <1>11, <1>12, <1>13, <1>14, <1>15, CanvasChanges DEF FolderTypes
<1> QED BY <1>1, <1>10, <1>16 DEF FolderTypes, DiskTypes

(* The groups that the pass takes off the canvas, and those it puts there. *)
Dropped == {groups[i].id : i \in DOMAIN groups \ Survivors}
PassGroups ==
    [e \in Allocated(Wanting) |-> [id |-> e.id, folder |-> e.folder,
                                   members |-> {f \in Files : pieces[f] = e.folder}]]

LEMMA WantingTypes ==
    ASSUME FolderTypes
    PROVE  Wanting \subseteq Paths \ {Root} /\ IsFiniteSet(Wanting)
<1>1. [f \in Files |-> pieces[f]] \in Surjection(Files, {pieces[f] : f \in Files})
  BY DEF Surjection
<1>2. IsFiniteSet({pieces[f] : f \in Files})
  BY <1>1, FS_Surjection, FoldersAssumption
<1>3. IsFiniteSet(PlacedFolders) /\ PlacedFolders \subseteq Paths \ {Root}
  <2>1. PlacedFolders \in SUBSET {pieces[f] : f \in Files}
    BY DEF PlacedFolders
  <2> QED BY <1>2, <2>1, FS_Subset DEF PlacedFolders, FolderTypes, CanvasTypes
<1>4. IsFiniteSet(pass.dirs) /\ pass.dirs \subseteq Paths \ {Root}
  BY DEF FolderTypes, CanvasTypes
<1>5. IsFiniteSet(PlacedFolders \cup pass.dirs)
  BY <1>3, <1>4, FS_Union
<1>6. Wanting \in SUBSET (PlacedFolders \cup pass.dirs)
  BY DEF Wanting
<1> QED BY <1>3, <1>4, <1>5, <1>6, FS_Subset

LEMMA ReconcileIs ==
    ASSUME FolderTypes, Reconcile
    PROVE  /\ Without(groups, Dropped) \in Seq(GroupSet)
           /\ Adds(groups', Without(groups, Dropped), Allocated(Wanting), PassGroups)
           /\ PassGroups \in [Allocated(Wanting) -> GroupSet]
           /\ Cardinality(Wanting) \in Nat
           /\ given' = given + Cardinality(Wanting)
<1> DEFINE S == Allocated(Wanting)
           a == Without(groups, Dropped)
           F == PassGroups
           new == SetToSeq(S)
           b == [i \in DOMAIN new |->
                     [id |-> new[i].id, folder |-> new[i].folder,
                      members |-> {f \in Files : pieces[f] = new[i].folder}]]
<1>1. groups' = a \o b /\ given' = given + Cardinality(Wanting)
  BY DEF Reconcile, Dropped
<1>2. groups \in Seq(GroupSet) /\ given \in Nat
  BY DEF FolderTypes, CanvasTypes
<1>3. a \in Seq(GroupSet)
  BY <1>2, WithoutIs
<1>4. Wanting \subseteq Paths \ {Root} /\ IsFiniteSet(Wanting)
  BY WantingTypes
<1>5. /\ Cardinality(Wanting) \in Nat /\ IsFiniteSet(S)
      /\ \A e \in S : e.folder \in Wanting /\ e.id \in given + 1..given + Cardinality(Wanting)
  BY <1>2, <1>4, AllocatedIs
<1>6. \A e \in S : e.folder \in Paths \ {Root} /\ e.id \in Nat
  BY <1>2, <1>4, <1>5
<1>7. F \in [S -> GroupSet]
  BY <1>6 DEF PassGroups, GroupSet
<1>8. \A i \in DOMAIN new : new[i] \in S
  BY <1>5, SetToSeqIs DEF Bijection, Injection
<1>9. /\ b \in [DOMAIN SetToSeq(S) -> GroupSet]
      /\ \A i \in DOMAIN SetToSeq(S) : b[i] = F[SetToSeq(S)[i]]
  <2>1. \A i \in DOMAIN new : b[i] = F[new[i]]
    BY <1>8 DEF PassGroups
  <2>2. b = [i \in DOMAIN new |-> b[i]]
    OBVIOUS
  <2> QED BY <1>7, <1>8, <2>1, <2>2
<1>10. Adds(a \o b, a, S, F)
  <2> HIDE DEF a, b, F, S
  <2> QED BY <1>3, <1>5, <1>7, <1>9, JoinedAdds
<1>11. Adds(groups', a, S, F)
  <2> HIDE DEF a, b, F, S
  <2> QED BY <1>1, <1>10
<1> QED BY <1>1, <1>3, <1>5, <1>7, <1>11

(* Each group that stays was there, and keeps its id, its folder and its members. *)
LEMMA StayedIs ==
    ASSUME groups \in Seq(GroupSet), OwnIds
    PROVE  /\ \A k \in DOMAIN Without(groups, Dropped) :
                 \E i \in Survivors : Without(groups, Dropped)[k] = groups[i]
           /\ \A i \in Survivors :
                 \E k \in DOMAIN Without(groups, Dropped) : Without(groups, Dropped)[k] = groups[i]
<1>1. Left(groups, Dropped) = Survivors
  BY DEF Left, Dropped, Survivors, OwnIds
<1>2. PICK nth \in Bijection(DOMAIN Without(groups, Dropped), Left(groups, Dropped)) :
         \A k \in DOMAIN Without(groups, Dropped) : Without(groups, Dropped)[k] = groups[nth[k]]
  BY WithoutIs
<1>3. \A k \in DOMAIN Without(groups, Dropped) : nth[k] \in Survivors
  BY <1>1, <1>2 DEF Bijection, Injection
<1>4. \A i \in Survivors : \E k \in DOMAIN Without(groups, Dropped) : nth[k] = i
  BY <1>1, <1>2 DEF Bijection, Surjection
<1> QED BY <1>2, <1>3, <1>4

(* What tells the groups there were apart tells apart those that stay. *)
LEMMA StayApart ==
    ASSUME groups \in Seq(GroupSet), OwnIds, NEW key,
           \A i, j \in Survivors : key[groups[i]] = key[groups[j]] => i = j
    PROVE  \A k, l \in DOMAIN Without(groups, Dropped) :
              key[Without(groups, Dropped)[k]] = key[Without(groups, Dropped)[l]] => k = l
<1>1. Left(groups, Dropped) = Survivors
  BY DEF Left, Dropped, Survivors, OwnIds
<1>2. PICK nth \in Bijection(DOMAIN Without(groups, Dropped), Left(groups, Dropped)) :
         \A k \in DOMAIN Without(groups, Dropped) : Without(groups, Dropped)[k] = groups[nth[k]]
  BY WithoutIs
<1>3. \A k \in DOMAIN Without(groups, Dropped) : nth[k] \in Survivors
  BY <1>1, <1>2 DEF Bijection, Injection
<1>4. \A k, l \in DOMAIN Without(groups, Dropped) : nth[k] = nth[l] => k = l
  BY <1>2 DEF Bijection, Injection, IsInjective
<1> QED BY <1>2, <1>3, <1>4

LEMMA ReconcileTypes == ASSUME Shapes, FolderTypes, Reconcile  PROVE FolderTypes'
<1> DEFINE a == Without(groups, Dropped)
           S == Allocated(Wanting)
           F == PassGroups
           n == Cardinality(Wanting)
<1>1. /\ UNCHANGED <<dirs, at, pieces, op>> /\ pass' = [at |-> "none", dirs |-> {}, due |-> FALSE]
      /\ pend' \subseteq pend
  BY ManagersKeep DEF Reconcile, treeVars
<1>2. /\ a \in Seq(GroupSet) /\ Adds(groups', a, S, F) /\ F \in [S -> GroupSet] /\ n \in Nat
      /\ given' = given + n
  BY ReconcileIs
<1>3. groups \in Seq(GroupSet) /\ given \in Nat /\ OwnIds
  BY DEF FolderTypes, CanvasTypes
<1>4. /\ \A e \in S : e.folder \in Wanting /\ e.id \in given + 1..given + n
      /\ \A e, c \in S : e.id = c.id => e = c
  BY <1>3, WantingTypes, AllocatedIs
<1>5. \A e \in S : F[e].id = e.id
  BY DEF PassGroups
<1>6. \A i \in DOMAIN groups : groups[i].id \in Nat /\ groups[i].id <= given
  BY <1>3, Keys DEF OwnIds, GroupSet
<1>7. \A k \in DOMAIN a : a[k].id \in Nat /\ a[k].id <= given
  <2>1. \A k \in DOMAIN a : \E i \in DOMAIN groups : a[k] = groups[i]
    BY <1>3, StayedIs DEF Survivors
  <2> HIDE DEF a
  <2> QED BY <1>6, <2>1
<1>8. \A k, l \in DOMAIN a : TheId[a[k]] = TheId[a[l]] => k = l
  <2>1. \A i, j \in Survivors : TheId[groups[i]] = TheId[groups[j]] => i = j
    BY <1>3, Keys DEF OwnIds, Survivors
  <2> QED BY <1>3, <2>1, StayApart
<1> HIDE DEF a, F, S
<1>9. /\ groups' \in Seq(GroupSet) /\ DOMAIN a \subseteq DOMAIN groups'
      /\ \A i \in DOMAIN a : groups'[i] = a[i]
      /\ \A k \in DOMAIN groups' \ DOMAIN a : \E e \in S : groups'[k] = F[e]
  BY <1>2, AddedIs
<1>10. \A i \in DOMAIN groups' : groups'[i].id <= given + n
  <2>1. \A i \in DOMAIN a : groups'[i].id <= given + n
    BY <1>2, <1>3, <1>7, <1>9
  <2>2. \A i \in DOMAIN groups' \ DOMAIN a : groups'[i].id <= given + n
    BY <1>2, <1>3, <1>4, <1>5, <1>9
  <2> QED BY <2>1, <2>2
<1>11. \A i, j \in DOMAIN groups' : groups'[i].id = groups'[j].id => i = j
  <2>1. \A e \in S : TheId[F[e]] = e.id
    BY <1>2, <1>5 DEF TheId
  <2>2. \A e, c \in S : TheId[F[e]] = TheId[F[c]] => e = c
    BY <1>4, <2>1
  <2>3. \A i \in DOMAIN a : TheId[a[i]] = a[i].id
    BY <1>2, Keys
  <2>4. \A i \in DOMAIN a, e \in S : TheId[a[i]] # TheId[F[e]]
    BY <1>2, <1>3, <1>4, <1>7, <2>1, <2>3
  <2>5. \A i, j \in DOMAIN groups' : TheId[groups'[i]] = TheId[groups'[j]] => i = j
    BY <1>2, <1>8, <2>2, <2>4, JoinedApart
  <2> QED BY <1>9, <2>5, Keys
<1>12. OwnIds'
  BY <1>1, <1>2, <1>3, <1>10, <1>11 DEF OwnIds
<1>13. \A q \in Ops : InFlight(q)' => SeenTypes(op'[q])
  BY <1>1 DEF FolderTypes, CanvasTypes, InFlight
<1>14. /\ given' \in Nat /\ IsFiniteSet(pend) /\ pieces' \in [Files -> Paths \cup {None}]
       /\ \A e \in pend : e.folder \in Paths \ {Root} /\ e.id \in 1..given'
  BY <1>1, <1>2, <1>3 DEF FolderTypes, CanvasTypes
<1>15. CanvasTypes'
  BY <1>1, <1>9, <1>13, <1>14, CanvasChanges DEF FolderTypes
<1> QED BY <1>1, <1>12, <1>15 DEF FolderTypes, DiskTypes

LEMMA FoldersStart == ASSUME FoldersInit  PROVE FolderTypes
<1> DEFINE parents == {WithParents(Home[f]) : f \in Files}
           ds == SetToSeq(dirs)
           gs == [i \in DOMAIN ds |-> [id |-> i, folder |-> ds[i],
                                       members |-> {f \in Files : Home[f] = ds[i]}]]
<1>1. /\ at = Home /\ pieces = Home /\ dirs = UNION parents /\ groups = gs
      /\ given = Cardinality(dirs) /\ pend = {}
      /\ pass = [at |-> "reading", dirs |-> {}, due |-> TRUE]
      /\ \A o \in Ops : op[o].at = "new"
  BY DEF FoldersInit
<1>2. Home \in [Files -> Paths] /\ IsFiniteSet(Files)
  <2>1. Root \in Paths
    BY EmptySeq DEF Paths, Root
  <2> QED BY <2>1, FolderPaths, FoldersAssumption
<1>3. \A f \in Files : /\ WithParents(Home[f]) \subseteq Paths \ {Root}
                       /\ IsFiniteSet(WithParents(Home[f]))
                       /\ Home[f] \in {Root} \cup WithParents(Home[f])
  BY <1>2, ParentsArePaths
<1>4. IsFiniteSet(parents)
  <2>1. [f \in Files |-> WithParents(Home[f])] \in Surjection(Files, parents)
    BY DEF Surjection
  <2> QED BY <1>2, <2>1, FS_Surjection
<1>5. IsFiniteSet(dirs)
  <2>1. \A P \in parents : IsFiniteSet(P)
    BY <1>3
  <2> HIDE DEF parents
  <2> QED BY <1>1, <1>4, <2>1, FS_UNION
<1>6. dirs \subseteq Paths \ {Root} /\ \A f \in Files : Home[f] \in {None, Root} \cup dirs
  BY <1>1, <1>3
<1>7. DiskTypes
  BY <1>1, <1>2, <1>5, <1>6 DEF DiskTypes
<1>8. /\ given \in Nat /\ DOMAIN ds = 1..given /\ \A i \in 1..given : ds[i] \in dirs
  BY <1>1, <1>5, SetToSeqIs DEF Bijection, Injection
<1>9. /\ groups \in Seq(GroupSet) /\ DOMAIN groups = 1..given
      /\ \A i \in 1..given : groups[i].id = i
  <2>1. \A i \in 1..given : gs[i] \in GroupSet /\ gs[i].id = i
    BY <1>6, <1>8 DEF GroupSet
  <2>2. groups = [i \in 1..given |-> gs[i]]
    BY <1>1, <1>8
  <2> HIDE DEF gs
  <2>3. groups \in [1..given -> GroupSet]
    BY <2>1, <2>2
  <2> QED BY <1>8, <2>1, <2>2, <2>3, SeqIs
<1>10. CanvasTypes
  <2>1. \A o \in Ops : ~InFlight(o)
    BY <1>1 DEF InFlight
  <2>2. pieces \in [Files -> Paths \cup {None}]
    BY <1>1, <1>2
  <2>3. /\ pass = [at |-> pass.at, dirs |-> pass.dirs, due |-> pass.due]
        /\ pass.at = "reading" /\ pass.dirs = {}
    BY <1>1
  <2>4. IsFiniteSet(pend) /\ IsFiniteSet(pass.dirs) /\ \A e \in pend : FALSE
    BY <1>1, <2>3, FS_EmptySet
  <2> QED BY <1>8, <1>9, <2>1, <2>2, <2>3, <2>4 DEF CanvasTypes
<1>11. OwnIds
  <2>1. \A i, j \in DOMAIN groups : groups[i].id = groups[j].id => i = j
    BY <1>9
  <2>2. \A i \in DOMAIN groups : groups[i].id <= given
    BY <1>8, <1>9
  <2>3. \A e, c \in pend : e.id = c.id => e = c
    BY <1>1
  <2> QED BY <2>1, <2>2, <2>3 DEF OwnIds
<1> QED BY <1>7, <1>10, <1>11 DEF FolderTypes

LEMMA TypesKept == ASSUME PiecesInv, FolderTypes, [FoldersNext]_folderVars  PROVE FolderTypes'
<1> Shapes
  BY DEF PiecesInv
<1>1. ASSUME NEW o \in Ops, Begin(o)  PROVE FolderTypes'
  BY <1>1, AskedTypes, BeginsTypes, RemoveFromCanvasTypes
<1>2. ASSUME NEW o \in Ops, NEW f \in Files, FollowRename(o, f)  PROVE FolderTypes'
  BY <1>2, FollowRenameTypes
<1>3. ASSUME NEW o \in Ops, Effect(o)  PROVE FolderTypes'
  BY <1>3, EffectTypes
<1>4. ASSUME NEW o \in Ops, Refused(o)  PROVE FolderTypes'
  BY <1>4, RefusedTypes
<1>5. ASSUME NEW o \in Ops, Follow(o)  PROVE FolderTypes'
  BY <1>5, FollowTypes
<1>6. ASSUME NEW o \in Ops, Refresh(o)  PROVE FolderTypes'
  BY <1>6, RefreshTypes
<1>7. ASSUME NEW o \in Ops, Clear(o) \/ ClearGroup(o) \/ AddGroup(o)  PROVE FolderTypes'
  BY <1>7, ClearTypes, ClearGroupTypes, AddGroupTypes
<1>8. CASE ReadTree \/ TreeUnread
  BY <1>8, ListedTypes
<1>9. CASE Reconcile
  BY <1>9, ReconcileTypes
<1>10. CASE Redraw
  BY <1>10, RedrawTypes
<1>11. CASE Outside
  BY <1>11, OutsideTypes
<1>12. CASE CheckTree
  BY <1>12, CheckTreeTypes
<1>13. CASE TakeStamp \/ UNCHANGED folderVars
  <2>1. UNCHANGED <<dirs, at, pieces, groups, given, pend, pass, op>>
    BY <1>13 DEF TakeStamp, folderVars, treeVars, canvasVars
  <2> QED BY <2>1, NothingTypes
<1> QED BY <1>1, <1>2, <1>3, <1>4, <1>5, <1>6, <1>7, <1>8, <1>9, <1>10, <1>11, <1>12, <1>13
        DEF FoldersNext

----------------------------------------------------------------------------
(* Every folder is drawn: what a pass that has run leaves on the canvas, and what the disk and
   the pass do to that                                                              *)

Drawn ==
    /\ \A d \in dirs : Cardinality(Owners(d, groups)) = 1
    /\ \A i \in DOMAIN groups : groups[i].folder \in dirs \cup PlacedFolders

(* What the pass read holds while the tree is not seen to change and no change was missed, and
   once it has run the canvas shows it, until an operation changes the canvas and has yet to
   refresh.                                                                          *)
DrawnControl ==
    /\ pass.at = "read" /\ ~missed /\ ~unseen => pass.dirs = dirs
    /\ pass.at = "none" /\ ~missed /\ ~unseen /\ (\A o \in Ops : op[o].at # "followed") => Drawn

(* The first of a set of places. *)
LEMMA FirstOf ==
    ASSUME NEW S \in SUBSET Nat, IsFiniteSet(S), S # {}
    PROVE  \E i \in S : \A j \in S : i <= j
<1>1. PICK rank \in Bijection(S, 1..Cardinality(S)) :
         \A i \in S : rank[i] = Cardinality({j \in S : j <= i})
  BY NthIs
<1>2. Cardinality(S) \in Nat /\ Cardinality(S) # 0
  BY FS_CardinalityType, FS_EmptySet
<1>3. PICK i \in S : rank[i] = 1
  BY <1>1, <1>2 DEF Bijection, Surjection
<1> DEFINE below == {j \in S : j <= i}
<1>4. Cardinality(below) = 1 /\ i \in below
  BY <1>1, <1>3
<1>5. IsFiniteSet(below)
  BY FS_Subset
<1>6. PICK e : below = {e}
  BY <1>4, <1>5, FS_Singleton
<1>7. \A j \in S : j <= i => j = i
  BY <1>4, <1>6
<1> QED BY <1>7

(* The first group of a folder that is alive survives, and no other of that folder. *)
LEMMA FirstSurvives ==
    ASSUME groups \in Seq(GroupSet), NEW i \in DOMAIN groups, Alive(groups[i].folder)
    PROVE  \E j \in Survivors : groups[j].folder = groups[i].folder
<1> DEFINE S == {j \in DOMAIN groups : groups[j].folder = groups[i].folder}
<1>1. Len(groups) \in Nat /\ DOMAIN groups = 1..Len(groups)
  BY LenProperties
<1>2. S \in SUBSET Nat /\ S \in SUBSET (1..Len(groups)) /\ i \in S
  BY <1>1
<1>3. IsFiniteSet(S)
  <2>1. IsFiniteSet(1..Len(groups))
    BY <1>1, FS_Interval
  <2> HIDE DEF S
  <2> QED BY <1>2, <2>1, FS_Subset
<1>4. PICK j \in S : \A k \in S : j <= k
  <2> HIDE DEF S
  <2> QED BY <1>2, <1>3, FirstOf
<1>5. ~Duplicate(j)
  <2>1. \A k \in 1..j - 1 : k \in DOMAIN groups /\ ~(j <= k)
    BY <1>1, <1>2
  <2> QED BY <1>4, <2>1 DEF Duplicate
<1> QED BY <1>4, <1>5 DEF Survivors

LEMMA SurvivorsApart ==
    ASSUME groups \in Seq(GroupSet)
    PROVE  \A i, j \in Survivors : groups[i].folder = groups[j].folder => i = j
<1>1. Len(groups) \in Nat /\ DOMAIN groups = 1..Len(groups)
  BY LenProperties
<1>2. ASSUME NEW i \in Survivors, NEW j \in Survivors, groups[i].folder = groups[j].folder, i < j
      PROVE  FALSE
  <2>1. i \in 1..j - 1
    BY <1>1, <1>2 DEF Survivors
  <2> QED BY <1>2, <2>1 DEF Survivors, Duplicate
<1>3. ASSUME NEW i \in Survivors, NEW j \in Survivors, groups[i].folder = groups[j].folder
      PROVE  i = j
  <2>1. ~(i < j) /\ ~(j < i)
    BY <1>2, <1>3
  <2> QED BY <1>1, <2>1 DEF Survivors
<1> QED BY <1>3

(* After the pass no folder has two groups, whatever there was before it. *)
LEMMA FoldersApart ==
    ASSUME FolderTypes, Reconcile
    PROVE  \A i, j \in DOMAIN groups' : groups'[i].folder = groups'[j].folder => i = j
<1> DEFINE a == Without(groups, Dropped)
           S == Allocated(Wanting)
           F == PassGroups
<1>1. a \in Seq(GroupSet) /\ Adds(groups', a, S, F) /\ F \in [S -> GroupSet]
  BY ReconcileIs
<1>2. groups \in Seq(GroupSet) /\ given \in Nat /\ OwnIds
  BY DEF FolderTypes, CanvasTypes
<1>3. /\ \A e \in S : e.folder \in Wanting
      /\ \A e, c \in S : e.folder = c.folder => e = c
  BY <1>2, WantingTypes, AllocatedIs
<1>4. \A e \in S : F[e].folder = e.folder
  BY DEF PassGroups
<1>5. \A k \in DOMAIN a : \E i \in DOMAIN groups : a[k] = groups[i]
  BY <1>2, StayedIs DEF Survivors
<1>6. \A k, l \in DOMAIN a : TheFolder[a[k]] = TheFolder[a[l]] => k = l
  <2>1. \A i, j \in Survivors : TheFolder[groups[i]] = TheFolder[groups[j]] => i = j
    BY <1>2, SurvivorsApart, Keys DEF Survivors
  <2> QED BY <1>2, <2>1, StayApart
<1> HIDE DEF a, F, S
<1>7. \A e \in S : TheFolder[F[e]] = e.folder
  BY <1>1, <1>4 DEF TheFolder
<1>8. \A e, c \in S : TheFolder[F[e]] = TheFolder[F[c]] => e = c
  BY <1>3, <1>7
<1>9. \A i \in DOMAIN a : TheFolder[a[i]] = a[i].folder
  BY <1>1, Keys
<1>10. \A d \in Wanting, i \in DOMAIN groups : groups[i].folder # d
  BY DEF Wanting
<1>11. \A i \in DOMAIN a, e \in S : TheFolder[a[i]] # TheFolder[F[e]]
  BY <1>3, <1>5, <1>7, <1>9, <1>10
<1>12. \A i, j \in DOMAIN groups' : TheFolder[groups'[i]] = TheFolder[groups'[j]] => i = j
  BY <1>1, <1>6, <1>8, <1>11, JoinedApart
<1>13. groups' \in Seq(GroupSet)
  BY <1>1, AddedIs
<1> QED BY <1>12, <1>13, Keys

(* What the pass leaves on the canvas: the groups of folders that are alive, and a group of
   each folder that wanted one. *)
LEMMA ReconciledIs ==
    ASSUME FolderTypes, Reconcile
    PROVE  /\ \A k \in DOMAIN groups' :
                 \/ \E i \in Survivors : groups'[k] = groups[i]
                 \/ /\ groups'[k].folder \in Wanting
                    /\ groups'[k].members = {f \in Files : pieces[f] = groups'[k].folder}
           /\ \A i \in Survivors : \E k \in DOMAIN groups' : groups'[k] = groups[i]
           /\ \A d \in Wanting : \E k \in DOMAIN groups' :
                 /\ groups'[k].folder = d
                 /\ groups'[k].members = {f \in Files : pieces[f] = d}
<1> DEFINE a == Without(groups, Dropped)
           S == Allocated(Wanting)
           F == PassGroups
<1>1. a \in Seq(GroupSet) /\ Adds(groups', a, S, F)
  BY ReconcileIs
<1>2. groups \in Seq(GroupSet) /\ given \in Nat /\ OwnIds
  BY DEF FolderTypes, CanvasTypes
<1>3. (\A e \in S : e.folder \in Wanting) /\ \A d \in Wanting : \E e \in S : e.folder = d
  BY <1>2, WantingTypes, AllocatedIs
<1>4. \A e \in S : /\ F[e].folder = e.folder
                   /\ F[e].members = {f \in Files : pieces[f] = e.folder}
  BY DEF PassGroups
<1>5. /\ \A k \in DOMAIN a : \E i \in Survivors : a[k] = groups[i]
      /\ \A i \in Survivors : \E k \in DOMAIN a : a[k] = groups[i]
  BY <1>2, StayedIs
<1> HIDE DEF a, F, S
<1>6. /\ groups' \in Seq(GroupSet) /\ DOMAIN a \subseteq DOMAIN groups'
      /\ \A i \in DOMAIN a : groups'[i] = a[i]
      /\ \A k \in DOMAIN groups' \ DOMAIN a : \E e \in S : groups'[k] = F[e]
      /\ \A e \in S : \E k \in DOMAIN groups' \ DOMAIN a : groups'[k] = F[e]
  BY <1>1, AddedIs
<1>7. ASSUME NEW k \in DOMAIN groups'
      PROVE  \/ \E i \in Survivors : groups'[k] = groups[i]
             \/ /\ groups'[k].folder \in Wanting
                /\ groups'[k].members = {f \in Files : pieces[f] = groups'[k].folder}
  <2>1. CASE k \in DOMAIN a
    BY <1>5, <1>6, <2>1
  <2>2. CASE k \notin DOMAIN a
    <3>1. PICK e \in S : groups'[k] = F[e]
      BY <1>6, <2>2
    <3> QED BY <1>3, <1>4, <3>1
  <2> QED BY <2>1, <2>2
<1>8. \A i \in Survivors : \E k \in DOMAIN groups' : groups'[k] = groups[i]
  BY <1>5, <1>6
<1>9. ASSUME NEW d \in Wanting
      PROVE  \E k \in DOMAIN groups' : /\ groups'[k].folder = d
                                       /\ groups'[k].members = {f \in Files : pieces[f] = d}
  <2>1. PICK e \in S : e.folder = d
    BY <1>3
  <2>2. PICK k \in DOMAIN groups' : groups'[k] = F[e]
    BY <1>6
  <2> QED BY <1>4, <2>1, <2>2
<1> QED BY <1>7, <1>8, <1>9

LEMMA ReconcileDraws ==
    ASSUME FolderTypes, Reconcile, pass.at = "read", pass.dirs = dirs
    PROVE  Drawn'
<1>1. UNCHANGED <<dirs, pieces>>
  BY DEF Reconcile, treeVars
<1>2. groups \in Seq(GroupSet)
  BY DEF FolderTypes, CanvasTypes
<1>3. \A d : Alive(d) <=> d \in dirs
  BY DEF Alive
<1>4. ASSUME NEW d \in dirs  PROVE Cardinality(Owners(d, groups')) = 1
  <2>1. \E k \in DOMAIN groups' : groups'[k].folder = d
    <3>1. CASE d \in Wanting
      BY <3>1, ReconciledIs
    <3>2. CASE d \notin Wanting
      <4>1. PICK i \in DOMAIN groups : groups[i].folder = d
        BY <3>2 DEF Wanting
      <4>2. PICK j \in Survivors : groups[j].folder = d
        BY <1>2, <1>3, <4>1, FirstSurvives
      <4> QED BY <4>2, ReconciledIs
    <3> QED BY <3>1, <3>2
  <2>2. PICK k \in DOMAIN groups' : groups'[k].folder = d
    BY <2>1
  <2>3. Owners(d, groups') = {k}
    BY <2>2, FoldersApart DEF Owners
  <2> QED BY <2>3, FS_Singleton
<1>5. ASSUME NEW k \in DOMAIN groups'  PROVE groups'[k].folder \in dirs \cup PlacedFolders
  <2>1. \A i \in Survivors : groups[i].folder \in dirs
    BY <1>3 DEF Survivors
  <2>2. Wanting \subseteq dirs \cup PlacedFolders
    BY DEF Wanting
  <2> QED BY <2>1, <2>2, ReconciledIs
<1> QED BY <1>1, <1>4, <1>5 DEF Drawn, Owners, PlacedFolders

(* The pass is begun anew, or dropped and known to be. *)
LEMMA BegunAnew ==
    ASSUME \/ \E c \in BOOLEAN : Rendered(c, TRUE)
           \/ pass.at # "none" /\ Rendered(TRUE, FALSE)
           \/ (\E o \in Ops : op'[o].at = "followed") /\ Rendered(TRUE, FALSE)
           \/ unseen' /\ pass' = pass
    PROVE  DrawnControl'
<1>1. CASE \E c \in BOOLEAN : Rendered(c, TRUE)
  BY <1>1, RenderedIs DEF DrawnControl
<1>2. CASE pass.at # "none" /\ Rendered(TRUE, FALSE)
  BY <1>2, RenderedIs DEF DrawnControl
<1>3. CASE (\E o \in Ops : op'[o].at = "followed") /\ Rendered(TRUE, FALSE)
  BY <1>3, RenderedIs DEF DrawnControl
<1>4. CASE unseen' /\ pass' = pass
  BY <1>4 DEF DrawnControl
<1> QED BY <1>1, <1>2, <1>3, <1>4

(* The disk and the canvas stay as they are, or the tree is known to have changed. *)
LEMMA DrawnStays ==
    ASSUME DrawnControl, UNCHANGED <<pieces, groups, pass, missed>>,
           unseen' \/ (~unseen /\ dirs' = dirs),
           \A o \in Ops : op[o].at = "followed" => op'[o].at = "followed"
    PROVE  DrawnControl'
BY DEF DrawnControl, Drawn, Owners, PlacedFolders

LEMMA DrawnKept ==
    ASSUME PiecesInv, FolderTypes, DrawnControl, [FoldersNext]_folderVars
    PROVE  DrawnControl'
<1> Shapes
  BY DEF PiecesInv
<1>1. ASSUME NEW o \in Ops, Begin(o)  PROVE DrawnControl'
  <2>1. CASE \E what : Begins(o, what)
    <3>1. /\ UNCHANGED <<dirs, pieces, groups, pass, missed, unseen>> /\ op[o].at = "new"
          /\ \A q \in Ops \ {o} : op'[q] = op[q]
      BY <2>1 DEF Begins, IsNext, treeVars, canvasVars, Shapes
    <3> QED BY <3>1, DrawnStays
  <2>2. CASE \E f \in Files : RemoveFromCanvas(o, f)
    BY <2>2, BegunAnew DEF RemoveFromCanvas
  <2> QED BY <1>1, <2>1, <2>2, AskedTypes
<1>2. ASSUME NEW o \in Ops, NEW f \in Files, FollowRename(o, f)  PROVE DrawnControl'
  <2>1. /\ UNCHANGED <<dirs, pieces, groups, pass, missed, unseen>> /\ op[o].at = "new"
        /\ \A q \in Ops \ {o} : op'[q] = op[q]
    BY <1>2 DEF FollowRename, IsNext, treeVars, canvasVars, Shapes
  <2> QED BY <2>1, DrawnStays
<1>3. ASSUME NEW o \in Ops, Effect(o) \/ Refused(o)  PROVE DrawnControl'
  <2>1. /\ UNCHANGED <<pieces, groups, pass, missed>> /\ op[o].at = "asked"
        /\ unseen' = (unseen \/ treeVars' # treeVars)
        /\ \E stage \in {"made", "refused", "done"} : Goes(o, stage)
    BY <1>3 DEF Effect, Refused, canvasVars
  <2>2. \A q \in Ops \ {o} : op'[q] = op[q]
    BY <2>1, GoesOn DEF Shapes
  <2>3. unseen' \/ (~unseen /\ dirs' = dirs)
    BY <2>1 DEF treeVars
  <2> QED BY <2>1, <2>2, <2>3, DrawnStays
<1>5. ASSUME NEW o \in Ops, Follow(o)  PROVE DrawnControl'
  <2>1. Goes(o, "followed") /\ Rendered(TRUE, FALSE)
    BY <1>5 DEF Follow
  <2> QED BY <2>1, Ended, BegunAnew
<1>6. ASSUME NEW o \in Ops, Refresh(o) \/ Clear(o) \/ ClearGroup(o) \/ AddGroup(o)
      PROVE  DrawnControl'
  <2>1. \E c \in BOOLEAN : Rendered(c, TRUE)
    BY <1>6 DEF Refresh, Clear, ClearGroup, AddGroup
  <2> QED BY <2>1, BegunAnew
<1>8. CASE ReadTree
  <2>1. pass'.at = "read" /\ pass'.dirs = dirs /\ dirs' = dirs
    BY <1>8 DEF ReadTree, treeVars, FolderTypes, CanvasTypes
  <2> QED BY <2>1 DEF DrawnControl
<1>9. CASE TreeUnread
  <2>1. pass'.at = "blind"
    BY <1>9 DEF TreeUnread, FolderTypes, CanvasTypes
  <2> QED BY <2>1 DEF DrawnControl
<1>10. CASE Reconcile
  <2>1. /\ UNCHANGED unseen /\ pass' = [at |-> "none", dirs |-> {}, due |-> FALSE]
        /\ missed' = (missed \/ pass.at = "blind") /\ pass.at \in {"read", "blind"}
    BY <1>10 DEF Reconcile
  <2>2. pass'.at = "none"
    BY <2>1
  <2>3. ~missed' /\ ~unseen' => pass.at = "read" /\ pass.dirs = dirs
    BY <2>1 DEF DrawnControl
  <2> QED BY <1>10, <2>2, <2>3, ReconcileDraws DEF DrawnControl
<1>11. CASE Redraw
  BY <1>11, BegunAnew DEF Redraw
<1>12. CASE Outside
  BY <1>12, BegunAnew DEF Outside
<1>13. CASE CheckTree
  BY <1>13, BegunAnew DEF CheckTree
<1>15. CASE TakeStamp
  <2>1. /\ UNCHANGED <<dirs, pieces, groups, pass, op>>
        /\ missed' = (missed \/ (unseen /\ pass.at # "reading"))
    BY <1>15 DEF TakeStamp, treeVars, canvasVars
  <2>2. CASE missed' \/ pass.at = "reading"
    BY <2>1, <2>2 DEF DrawnControl
  <2>3. CASE ~missed' /\ pass.at # "reading"
    <3>1. ~missed /\ ~unseen
      BY <2>1, <2>3
    <3> QED BY <2>1, <3>1 DEF DrawnControl, Drawn, Owners, PlacedFolders
  <2> QED BY <2>2, <2>3
<1>14. CASE UNCHANGED folderVars
  BY <1>14, DrawnStays DEF folderVars, treeVars, canvasVars, DrawnControl, Drawn, Owners, PlacedFolders
<1> QED BY <1>1, <1>2, <1>3, <1>5, <1>6, <1>8, <1>9, <1>10, <1>11, <1>12, <1>13, <1>14, <1>15
        DEF FoldersNext

LEMMA DrawnStart == ASSUME FoldersInit  PROVE DrawnControl
<1>1. pass.at = "reading"
  BY DEF FoldersInit
<1> QED BY <1>1 DEF DrawnControl

----------------------------------------------------------------------------
(* Members follow their files: a piece is in the group of its folder while nothing meets halfway *)

(* What keeps pieces and groups together while nothing meets halfway: a file is in no group
   but its folder's; a piece that is shown is in one, or its folder has none and the pass
   is to make it; no folder has two; the tree that was read has every folder of a piece;
   and a move finds the room it made, and the groups that it saw. *)
Calm == ~overlapped /\ ~entangled
Shown(f) == pieces[f] \notin {None, Root}
Covered(f) == \E i \in DOMAIN groups : f \in groups[i].members

InOwnGroup ==
    \A i \in DOMAIN groups : \A f \in groups[i].members : pieces[f] \in {None, groups[i].folder}
InSomeGroup ==
    \A f \in Files \ strayed : Shown(f) =>
        \/ Covered(f)
        \/ /\ Owners(pieces[f], groups) = {} /\ \A o \in Ops : Resting(o)
           /\ pass.at # "none" \/ missed
OneGroupEach == \A i, j \in DOMAIN groups : groups[i].folder = groups[j].folder => i = j
ReadHolds ==
    pass.at = "read" /\ (\A o \in Ops : op[o].at # "made") =>
        \A f \in Files \ strayed : Shown(f) => pieces[f] \in pass.dirs
Room(w) == \A i \in DOMAIN groups : Under(groups[i].folder, w.to) => Under(groups[i].folder, w.from)
RoomMade ==
    \A o \in Ops :
        /\ op[o].at = "made" /\ op[o].what.kind = "folder" => Room(op[o].what)
        /\ InFlight(o) /\ op[o].what.kind = "mkgroup" => Owners(op[o].what.from, groups) = {}
ViewHolds(v) ==
    /\ DOMAIN v.groups = DOMAIN groups
    /\ \A i \in DOMAIN groups :
          /\ v.groups[i].id = groups[i].id /\ v.groups[i].folder = groups[i].folder
          /\ \A f \in Files : pieces[f] # None =>
                (f \in v.groups[i].members <=> f \in groups[i].members)
ViewsHold == \A o \in Ops : InFlight(o) => ViewHolds(op[o])
Settled == /\ InOwnGroup /\ InSomeGroup /\ OneGroupEach
           /\ ReadHolds /\ RoomMade /\ ViewsHold

NonePending == ~overlapped /\ (\A o \in Ops : op[o].at # "followed") => pend = {}

MembersInv == NonePending /\ (Calm => Settled)

LEMMA MinIs ==
    ASSUME NEW gs \in Seq(GroupSet), NEW S \in SUBSET DOMAIN gs, S # {}
    PROVE  Min(S) \in S
<1>1. Len(gs) \in Nat /\ DOMAIN gs = 1..Len(gs)
  BY LenProperties
<1>2. S \in SUBSET Nat /\ S \in SUBSET (1..Len(gs))
  BY <1>1
<1>3. IsFiniteSet(S)
  <2>1. IsFiniteSet(1..Len(gs))
    BY <1>1, FS_Interval
  <2> QED BY <1>2, <2>1, FS_Subset
<1>4. \E i \in S : \A j \in S : i <= j
  BY <1>2, <1>3, FirstOf
<1> QED BY <1>4 DEF Min

LEMMA RebasedUnder ==
    ASSUME NEW p \in Paths, NEW from \in Paths, NEW to \in Paths, Under(p, from)
    PROVE  Under(Rebased(p, from, to), to)
<1> DEFINE rest == SubSeq(p, Len(from) + 1, Len(p))
           r == to \o rest
<1>1. Len(from) \in Nat /\ Len(p) \in Nat /\ Len(from) <= Len(p) /\ Len(to) \in Nat
  BY DEF Paths, Under, IsPrefix
<1>2. rest \in Seq(Names)
  BY <1>1, SubSeqProperties DEF Paths
<1>3. /\ Len(rest) \in Nat /\ r \in Seq(Names) /\ Len(r) = Len(to) + Len(rest)
      /\ \A i \in 1..Len(to) : r[i] = to[i]
  <2>1. /\ r \in Seq(Names) /\ Len(r) = Len(to) + Len(rest)
        /\ \A i \in 1..Len(to) + Len(rest) : r[i] = IF i <= Len(to) THEN to[i] ELSE rest[i - Len(to)]
    BY <1>2, ConcatProperties DEF Paths
  <2>2. Len(rest) \in Nat
    BY <1>2, LenProperties
  <2> HIDE DEF r, rest
  <2> QED BY <1>1, <2>1, <2>2
<1> HIDE DEF r, rest
<1>4. /\ SubSeq(r, 1, Len(to)) \in Seq(Names) /\ Len(SubSeq(r, 1, Len(to))) = Len(to)
      /\ \A i \in 1..Len(to) : SubSeq(r, 1, Len(to))[i] = r[i]
  <2>1. \A i \in 1..Len(to) : r[i] \in Names
    BY <1>1, <1>3, ElementOfSeq DEF Paths
  <2>2. /\ SubSeq(r, 1, Len(to)) \in Seq(Names)
        /\ Len(SubSeq(r, 1, Len(to))) = IF 1 <= Len(to) THEN Len(to) - 1 + 1 ELSE 0
        /\ \A i \in 1..Len(to) - 1 + 1 : SubSeq(r, 1, Len(to))[i] = r[1 + i - 1]
    BY <1>1, <2>1, SubSeqProperties
  <2> QED BY <1>1, <2>2
<1>5. SubSeq(r, 1, Len(to)) = to
  BY <1>3, <1>4, SeqEqual DEF Paths
<1>6. SubSeq(to, 1, Len(to)) = to
  BY SubSeqFull DEF Paths
<1>7. Under(r, to)
  BY <1>1, <1>3, <1>5, <1>6 DEF Under, IsPrefix
<1> QED BY <1>7 DEF r, rest, Rebased

(* A move that finds room keeps folders apart. *)
LEMMA NextPathApart ==
    ASSUME NEW w, WhatTypes(w), NEW p \in Paths, NEW q \in Paths,
           w.kind = "folder" => (Under(p, w.to) => Under(p, w.from)),
           w.kind = "folder" => (Under(q, w.to) => Under(q, w.from)),
           NextPath(w, p) = NextPath(w, q)
    PROVE  p = q
<1>1. CASE w.kind # "folder"
  BY <1>1 DEF NextPath
<1>2. CASE w.kind = "folder"
  <2>1. w.from \in Paths /\ w.to \in Paths
    BY <1>2, FolderPaths DEF WhatTypes
  <2>2. CASE Under(p, w.from) /\ Under(q, w.from)
    BY <1>2, <2>1, <2>2, RebasedInjective DEF NextPath
  <2>3. CASE Under(p, w.from) /\ ~Under(q, w.from)
    <3>1. q = Rebased(p, w.from, w.to)
      BY <1>2, <2>3 DEF NextPath
    <3> QED BY <1>2, <2>1, <2>3, <3>1, RebasedUnder
  <2>4. CASE ~Under(p, w.from) /\ Under(q, w.from)
    <3>1. p = Rebased(q, w.from, w.to)
      BY <1>2, <2>4 DEF NextPath
    <3> QED BY <1>2, <2>1, <2>4, <3>1, RebasedUnder
  <2>5. CASE ~Under(p, w.from) /\ ~Under(q, w.from)
    BY <2>5 DEF NextPath
  <2> QED BY <2>2, <2>3, <2>4, <2>5
<1> QED BY <1>1, <1>2

(* The group of a shown piece, as the operation saw it. *)
LEMMA OwnGroupIs ==
    ASSUME groups \in Seq(GroupSet), InOwnGroup, OneGroupEach, NEW v, ViewHolds(v),
           NEW f \in Files, pieces[f] # None
    PROVE  /\ \A i \in DOMAIN groups : f \in groups[i].members => GroupOf(v, f) = {v.groups[i]}
           /\ ~Covered(f) => GroupOf(v, f) = {}
<1>1. GroupsOf(f, v.groups) = {i \in DOMAIN groups : f \in groups[i].members}
  BY DEF GroupsOf, ViewHolds
<1>2. ASSUME NEW i \in DOMAIN groups, f \in groups[i].members
      PROVE  GroupOf(v, f) = {v.groups[i]}
  <2>1. GroupsOf(f, v.groups) = {i}
    <3>1. \A j \in DOMAIN groups : f \in groups[j].members => j = i
      BY <1>2 DEF InOwnGroup, OneGroupEach
    <3> QED BY <1>1, <1>2, <3>1
  <2>2. i \in Nat
    BY LenProperties
  <2>3. Max({i}) = i
    BY <2>2 DEF Max
  <2> QED BY <2>1, <2>3 DEF GroupOf
<1>3. ASSUME ~Covered(f)  PROVE GroupOf(v, f) = {}
  BY <1>1, <1>3 DEF Covered, GroupOf
<1> QED BY <1>2, <1>3

LEMMA ViewIs ==
    ASSUME FolderTypes, NEW v, SeenTypes(v), ViewHolds(v), NEW i \in DOMAIN groups
    PROVE  /\ v.groups[i].id = groups[i].id /\ v.groups[i].folder = groups[i].folder
           /\ groups[i].folder \in Paths
           /\ \A j \in DOMAIN v.groups : v.groups[j].id = groups[i].id => j = i
           /\ NewPath(v, groups[i]) = NextPath(v.what, groups[i].folder)
<1>1. groups \in Seq(GroupSet) /\ v.groups \in Seq(GroupSet)
  BY DEF FolderTypes, CanvasTypes, SeenTypes
<1>2. v.groups[i].id = groups[i].id /\ v.groups[i].folder = groups[i].folder
  BY DEF ViewHolds
<1>3. \A j \in DOMAIN v.groups : v.groups[j].id = groups[i].id => j = i
  BY DEF ViewHolds, FolderTypes, OwnIds
<1>4. \A h \in ToSet(v.groups) : h.id = groups[i].id => h.folder = groups[i].folder
  BY <1>2, <1>3 DEF ToSet
<1>5. NewPath(v, groups[i]) = NextPath(v.what, groups[i].folder)
  <2>1. CASE Moved(v, groups[i]) = {}
    <3>1. i \in DOMAIN v.groups
      BY DEF ViewHolds
    <3>2. v.groups[i] \in ToSet(v.groups)
      BY <3>1 DEF ToSet
    <3>3. NextPath(v.what, groups[i].folder) = groups[i].folder
      BY <1>2, <2>1, <3>2 DEF Moved
    <3> QED BY <2>1, <3>3 DEF NewPath
  <2>2. CASE Moved(v, groups[i]) # {}
    <3>1. (CHOOSE h \in Moved(v, groups[i]) : TRUE) \in Moved(v, groups[i])
      BY <2>2
    <3>2. (CHOOSE h \in Moved(v, groups[i]) : TRUE).folder = groups[i].folder
      BY <1>4, <3>1 DEF Moved
    <3> QED BY <2>2, <3>2 DEF NewPath
  <2> QED BY <2>1, <2>2
<1>6. groups[i].folder \in Paths
  BY <1>1, Keys DEF GroupSet
<1> QED BY <1>2, <1>3, <1>5, <1>6

(* A move that met nothing halfway: every group goes where the move takes its folder, and
   loses and gains the files that the plan says; the groups made are new.         *)
LEMMA FollowedIs ==
    ASSUME FolderTypes, NEW o \in Ops, Follow(o), pend = {}, ViewHolds(op[o]), OneGroupEach,
           SeenTypes(op[o]), op[o].what.kind = "folder" => Room(op[o].what)
    PROVE  LET v == op[o]
               F == Affected(v.what, v.pieces) IN
           /\ DOMAIN groups \subseteq DOMAIN groups'
           /\ \A i \in DOMAIN groups :
                 /\ groups'[i].folder = NextPath(v.what, groups[i].folder)
                 /\ groups'[i].members = (groups[i].members \ {f \in F : Leaves(v, f, groups[i])})
                                         \cup {f \in F : Joins(v, f, groups[i])}
           /\ \A k \in DOMAIN groups' \ DOMAIN groups :
                 /\ groups'[k].folder \in Need(v)
                 /\ groups'[k].members = {f \in Homeless(v) : Dest(v, f) = groups'[k].folder}
           /\ \A d \in Need(v) : \E k \in DOMAIN groups' : 
                 /\ groups'[k].folder = d
                 /\ groups'[k].members = {f \in Homeless(v) : Dest(v, f) = d}
           /\ OneGroupEach'
<1> DEFINE v == op[o]
           n == Cardinality(Fresh(v))
           E == Fresh(v)
           kept == KeptGroups(v, groups, E)
           F == NewGroups(v, E)
<1>1. v.what.kind \in {"file", "folder", "follow"} /\ groups' = Synced(v, groups, Made(v))
  BY FollowIs
<1>2. groups \in Seq(GroupSet) /\ given \in Nat /\ OwnIds /\ SeenTypes(v)
  BY DEF FolderTypes, CanvasTypes
<1>3. Mine(v) = {} /\ Kept(v) = {} /\ Made(v) = E /\ E = Allocated(Need(v))
  BY DEF Mine, Kept, Made, Fresh
<1>4. Need(v) \subseteq Paths \ {Root} /\ IsFiniteSet(Need(v))
  BY <1>1, <1>2, NeedTypes
<1>5. /\ IsFiniteSet(E) /\ Cardinality(Need(v)) \in Nat
      /\ \A e \in E : e.folder \in Need(v) /\ e.id \in given + 1..given + Cardinality(Need(v))
      /\ \A d \in Need(v) : \E e \in E : e.folder = d
      /\ \A e, c \in E : e.folder = c.folder => e = c
  BY <1>2, <1>3, <1>4, AllocatedIs
<1>6. \A e \in E : e.folder \in Paths \ {Root} /\ e.id \in Nat /\ e.id > given
  BY <1>2, <1>4, <1>5
<1>7. Unshown(E, groups) = E
  <2>1. \A i \in DOMAIN groups : groups[i].id \in Nat /\ groups[i].id <= given
    BY <1>2, Keys DEF OwnIds, GroupSet
  <2> QED BY <1>2, <1>6, <2>1 DEF Unshown
<1>8. kept \in Seq(GroupSet) /\ Adds(groups', kept, E, F) /\ F \in [E -> GroupSet]
  <2>1. /\ KeptGroups(v, groups, E) \in Seq(GroupSet)
        /\ Adds(Synced(v, groups, E), KeptGroups(v, groups, E), Unshown(E, groups),
                NewGroups(v, Unshown(E, groups)))
        /\ NewGroups(v, Unshown(E, groups)) \in [Unshown(E, groups) -> GroupSet]
    BY <1>2, <1>5, <1>6, SyncedIs
  <2> QED BY <1>1, <1>3, <1>7, <2>1
<1>9. /\ DOMAIN kept = DOMAIN groups
      /\ \A i \in DOMAIN groups : kept[i].folder = NewPath(v, groups[i])
                                  /\ kept[i].members = NewMembers(v, groups[i], E)
  BY DEF KeptGroups
<1>10. \A e \in E : /\ F[e].folder = e.folder
                    /\ F[e].members = {f \in Homeless(v) : Dest(v, f) = e.folder}
  BY DEF NewGroups, NewGroup, Into
<1> HIDE DEF kept, F, E
<1>11. /\ groups' \in Seq(GroupSet) /\ DOMAIN kept \subseteq DOMAIN groups'
       /\ \A i \in DOMAIN kept : groups'[i] = kept[i]
       /\ \A k \in DOMAIN groups' \ DOMAIN kept : \E e \in E : groups'[k] = F[e]
       /\ \A e \in E : \E k \in DOMAIN groups' \ DOMAIN kept : groups'[k] = F[e]
  BY <1>8, AddedIs
<1>12. ASSUME NEW i \in DOMAIN groups
       PROVE  /\ kept[i].folder = NextPath(v.what, groups[i].folder)
              /\ kept[i].members =
                    (groups[i].members \ {f \in Affected(v.what, v.pieces) : Leaves(v, f, groups[i])})
                    \cup {f \in Affected(v.what, v.pieces) : Joins(v, f, groups[i])}
  <2>1. kept[i].folder = NextPath(v.what, groups[i].folder)
    BY <1>2, <1>9, ViewIs
  <2>2. {e \in E : e.id = groups[i].id} = {}
    <3>1. groups[i].id \in Nat /\ groups[i].id <= given
      BY <1>2, Keys DEF OwnIds, GroupSet
    <3> QED BY <1>2, <1>6, <3>1
  <2>3. UNION {Into(v, e) : e \in {e \in E : e.id = groups[i].id}} = {}
    BY <2>2
  <2> QED BY <1>9, <2>1, <2>3 DEF NewMembers
<1>13. ASSUME NEW k \in DOMAIN groups' \ DOMAIN groups
       PROVE  /\ groups'[k].folder \in Need(v)
              /\ groups'[k].members = {f \in Homeless(v) : Dest(v, f) = groups'[k].folder}
  <2>1. PICK e \in E : groups'[k] = F[e]
    BY <1>9, <1>11
  <2> QED BY <1>5, <1>10, <2>1
<1>14. ASSUME NEW d \in Need(v)
       PROVE  \E k \in DOMAIN groups' :
                 /\ groups'[k].folder = d
                 /\ groups'[k].members = {f \in Homeless(v) : Dest(v, f) = d}
  <2>1. PICK e \in E : e.folder = d
    BY <1>5
  <2>2. PICK k \in DOMAIN groups' : groups'[k] = F[e]
    BY <1>11
  <2> QED BY <1>10, <2>1, <2>2
<1>15. ASSUME NEW i \in DOMAIN groups, NEW j \in DOMAIN groups, kept[i].folder = kept[j].folder
       PROVE  i = j
  <2>1. NextPath(v.what, groups[i].folder) = NextPath(v.what, groups[j].folder)
    BY <1>12, <1>15
  <2>2. groups[i].folder \in Paths /\ groups[j].folder \in Paths
    BY <1>2, ViewIs
  <2>3. groups[i].folder = groups[j].folder
    BY <1>2, <2>1, <2>2, NextPathApart DEF Room, SeenTypes
  <2> QED BY <2>3 DEF OneGroupEach
<1>16. ASSUME NEW i \in DOMAIN groups, NEW e \in E  PROVE kept[i].folder # F[e].folder
  <2>1. PICK f \in Homeless(v) : e.folder = Dest(v, f)
    BY <1>5 DEF Need
  <2>2. ~Stays(v, f) /\ NewOwners(v, f) = {}
    BY <2>1 DEF Homeless
  <2>3. i \in DOMAIN v.groups /\ v.groups[i].folder = groups[i].folder
    BY DEF ViewHolds
  <2>4. NextPath(v.what, v.groups[i].folder) # Dest(v, f)
    BY <2>2, <2>3 DEF Stays, NewOwners
  <2> QED BY <1>10, <1>12, <2>1, <2>3, <2>4
<1>17. OneGroupEach'
  <2>1. \A i \in DOMAIN kept : TheFolder[kept[i]] = kept[i].folder
    BY <1>8, Keys
  <2>2. \A e \in E : TheFolder[F[e]] = F[e].folder
    BY <1>8 DEF TheFolder
  <2>3. \A i, j \in DOMAIN kept : TheFolder[kept[i]] = TheFolder[kept[j]] => i = j
    BY <1>9, <1>15, <2>1
  <2>4. \A e, c \in E : TheFolder[F[e]] = TheFolder[F[c]] => e = c
    BY <1>5, <1>10, <2>2
  <2>5. \A i \in DOMAIN kept, e \in E : TheFolder[kept[i]] # TheFolder[F[e]]
    BY <1>9, <1>16, <2>1, <2>2
  <2>6. \A i, j \in DOMAIN groups' : TheFolder[groups'[i]] = TheFolder[groups'[j]] => i = j
    BY <1>8, <2>3, <2>4, <2>5, JoinedApart
  <2> QED BY <1>11, <2>6, Keys DEF OneGroupEach
<1> QED BY <1>9, <1>11, <1>12, <1>13, <1>14, <1>17

(* A file that the move takes along is afterwards in the group of where it goes to. *)
LEMMA TakenAlong ==
    ASSUME FolderTypes, Settled, NEW v, SeenTypes(v), ViewHolds(v),
           NEW f \in Affected(v.what, v.pieces), pieces[f] # None
    PROVE  /\ \A i \in DOMAIN groups :
                 f \in groups[i].members /\ ~Leaves(v, f, groups[i]) =>
                    NextPath(v.what, groups[i].folder) = Dest(v, f)
           /\ \A i \in DOMAIN groups :
                 Joins(v, f, groups[i]) => NextPath(v.what, groups[i].folder) = Dest(v, f)
           /\ Dest(v, f) # Root /\ f \notin Homeless(v) => \E i \in DOMAIN groups :
                 (f \in groups[i].members /\ ~Leaves(v, f, groups[i])) \/ Joins(v, f, groups[i])
<1>1. f \in Files /\ groups \in Seq(GroupSet) /\ v.groups \in Seq(GroupSet)
  BY DEF Affected, FolderTypes, CanvasTypes, SeenTypes
<1>2. DOMAIN v.groups = DOMAIN groups
  BY DEF ViewHolds
<1>3. \A i \in DOMAIN groups : f \in groups[i].members => GroupOf(v, f) = {v.groups[i]}
  BY <1>1, OwnGroupIs DEF Settled
<1>4. ~Covered(f) => GroupOf(v, f) = {}
  BY <1>1, OwnGroupIs DEF Settled
<1>5. \A i \in DOMAIN groups : v.groups[i].id = groups[i].id /\ v.groups[i].folder = groups[i].folder
  BY DEF ViewHolds
<1>6. ASSUME NEW i \in DOMAIN groups, f \in groups[i].members
      PROVE  /\ Stays(v, f) <=> NextPath(v.what, groups[i].folder) = Dest(v, f)
             /\ Leaves(v, f, groups[i]) <=> ~Stays(v, f)
  BY <1>3, <1>5, <1>6 DEF Stays, Leaves
<1>7. ASSUME NewOwners(v, f) # {}
      PROVE  /\ Min(NewOwners(v, f)) \in DOMAIN groups
             /\ NextPath(v.what, groups[Min(NewOwners(v, f))].folder) = Dest(v, f)
  <2>1. NewOwners(v, f) \in SUBSET DOMAIN v.groups
    BY DEF NewOwners
  <2>2. Min(NewOwners(v, f)) \in NewOwners(v, f)
    BY <1>1, <1>7, <2>1, MinIs
  <2> QED BY <1>2, <1>5, <2>2 DEF NewOwners
<1>8. ASSUME NEW i \in DOMAIN groups, Joins(v, f, groups[i])
      PROVE  NextPath(v.what, groups[i].folder) = Dest(v, f)
  <2>1. NewOwners(v, f) # {} /\ v.groups[Min(NewOwners(v, f))].id = groups[i].id
    BY <1>8 DEF Joins
  <2>2. Min(NewOwners(v, f)) = i
    BY <1>2, <1>7, <2>1, ViewIs
  <2> QED BY <1>7, <2>1, <2>2
<1>9. ASSUME Dest(v, f) # Root, f \notin Homeless(v)
      PROVE  \E i \in DOMAIN groups :
                (f \in groups[i].members /\ ~Leaves(v, f, groups[i])) \/ Joins(v, f, groups[i])
  <2>1. Stays(v, f) \/ NewOwners(v, f) # {}
    BY <1>9 DEF Homeless
  <2>2. CASE Stays(v, f)
    <3>1. Covered(f)
      BY <1>4, <2>2 DEF Stays
    <3> QED BY <1>6, <2>2, <3>1 DEF Covered
  <2>3. CASE ~Stays(v, f)
    <3>1. NewOwners(v, f) # {}
      BY <2>1, <2>3
    <3>2. Joins(v, f, groups[Min(NewOwners(v, f))])
      BY <1>5, <1>7, <2>3, <3>1 DEF Joins
    <3> QED BY <1>7, <3>1, <3>2
  <2> QED BY <2>2, <2>3
<1> QED BY <1>6, <1>8, <1>9

LEMMA FollowSettles ==
    ASSUME PiecesInv, FolderTypes, Calm, NonePending, Settled, NEW o \in Ops, Follow(o)
    PROVE  Settled'
<1> DEFINE v == op[o]
           F == Affected(v.what, v.pieces)
<1>1. /\ v.at = "made" /\ v.what.kind \in {"file", "folder", "follow"}
      /\ pieces' = [f \in Files |-> IF f \in F /\ pieces[f] # None THEN Dest(v, f) ELSE pieces[f]]
      /\ strayed' = strayed \ {f \in F : v.what.kind = "follow" /\ at[f] = v.what.to}
      /\ Goes(o, "followed") /\ Rendered(TRUE, FALSE)
  BY FollowIs
<1>2. ~Resting(o) /\ \A q \in Ops \ {o} : Resting(q)
  BY <1>1 DEF PiecesInv, OpsAlone, Calm, Resting
<1>3. SeenTypes(v) /\ ViewHolds(v) /\ (v.what.kind = "folder" => Room(v.what))
  BY <1>1 DEF FolderTypes, CanvasTypes, InFlight, Settled, ViewsHold, RoomMade
<1>4. pend = {}
  BY <1>1, <1>2 DEF NonePending, Calm, Resting
<1>5. \A f \in Files : pieces[f] # None => v.pieces[f] = pieces[f]
  BY <1>1 DEF PiecesInv, PiecesAimed, AsSeen, Calm
<1>6. /\ DOMAIN groups \subseteq DOMAIN groups'
      /\ \A i \in DOMAIN groups :
            /\ groups'[i].folder = NextPath(v.what, groups[i].folder)
            /\ groups'[i].members = (groups[i].members \ {f \in F : Leaves(v, f, groups[i])})
                                    \cup {f \in F : Joins(v, f, groups[i])}
      /\ \A k \in DOMAIN groups' \ DOMAIN groups :
            /\ groups'[k].folder \in Need(v)
            /\ groups'[k].members = {f \in Homeless(v) : Dest(v, f) = groups'[k].folder}
      /\ \A d \in Need(v) : \E k \in DOMAIN groups' :
            /\ groups'[k].folder = d
            /\ groups'[k].members = {f \in Homeless(v) : Dest(v, f) = d}
      /\ OneGroupEach'
  BY <1>3, <1>4, FollowedIs DEF Settled
<1>7. op'[o].at = "followed" /\ \A q \in Ops \ {o} : op'[q] = op[q]
  BY <1>1, Ended DEF PiecesInv
<1>8. groups \in Seq(GroupSet) /\ \A i \in DOMAIN groups : groups[i].members \subseteq Files
  <2>1. groups \in Seq(GroupSet)
    BY DEF FolderTypes, CanvasTypes
  <2> QED BY <2>1, Keys DEF GroupSet
<1>9. F \subseteq Files /\ Homeless(v) \subseteq F
  BY DEF Affected, Homeless
<1> HIDE DEF v, F
<1>10. ASSUME NEW f \in F, pieces[f] # None  PROVE pieces'[f] = Dest(v, f)
  BY <1>1, <1>9, <1>10
<1>11. ASSUME NEW f \in Files, f \notin F \/ pieces[f] = None  PROVE pieces'[f] = pieces[f]
  BY <1>1, <1>11
<1>12. ASSUME NEW k \in DOMAIN groups', NEW f \in groups'[k].members
       PROVE  pieces'[f] \in {None, groups'[k].folder}
  <2>1. f \in Files
    BY <1>6, <1>8, <1>9
  <2>2. CASE pieces[f] = None
    BY <1>11, <2>1, <2>2
  <2>3. CASE pieces[f] # None /\ k \notin DOMAIN groups
    <3>1. f \in F /\ Dest(v, f) = groups'[k].folder
      BY <1>6, <1>9, <2>3
    <3> QED BY <1>10, <2>3, <3>1
  <2>4. CASE pieces[f] # None /\ k \in DOMAIN groups /\ f \in F
    <3>1. (f \in groups[k].members /\ ~Leaves(v, f, groups[k])) \/ Joins(v, f, groups[k])
      BY <1>6, <2>4
    <3>2. NextPath(v.what, groups[k].folder) = Dest(v, f)
      <4>1. f \in Affected(v.what, v.pieces)
        BY <2>4 DEF F
      <4> QED BY <1>3, <2>4, <3>1, <4>1, TakenAlong
    <3> QED BY <1>6, <1>10, <2>4, <3>2
  <2>5. CASE pieces[f] # None /\ k \in DOMAIN groups /\ f \notin F
    <3>1. f \in groups[k].members
      BY <1>6, <2>5
    <3>2. pieces[f] = groups[k].folder
      BY <2>5, <3>1 DEF Settled, InOwnGroup
    <3>3. NextPath(v.what, pieces[f]) = pieces[f]
      BY <1>5, <2>1, <2>5 DEF F, Affected, NextPath
    <3> QED BY <1>6, <1>11, <2>1, <2>5, <3>2, <3>3
  <2> QED BY <2>2, <2>3, <2>4, <2>5
<1>13. ASSUME NEW f \in Files \ strayed', pieces'[f] \notin {None, Root}
       PROVE  \E k \in DOMAIN groups' : f \in groups'[k].members
  <2>1. pieces[f] # None
    BY <1>11, <1>13
  <2>2. CASE f \in F
    <3>1. Dest(v, f) # Root /\ f \in Affected(v.what, v.pieces)
      BY <1>10, <1>13, <2>1, <2>2 DEF F
    <3>2. CASE f \in Homeless(v)
      <4>1. Dest(v, f) \in Need(v)
        BY <3>2 DEF Need
      <4> QED BY <1>6, <3>2, <4>1
    <3>3. CASE f \notin Homeless(v)
      <4>1. PICK i \in DOMAIN groups :
               (f \in groups[i].members /\ ~Leaves(v, f, groups[i])) \/ Joins(v, f, groups[i])
        BY <1>3, <2>1, <3>1, <3>3, TakenAlong
      <4> QED BY <1>6, <2>2, <4>1
    <3> QED BY <3>2, <3>3
  <2>3. CASE f \notin F
    <3>1. f \notin strayed /\ pieces'[f] = pieces[f]
      BY <1>1, <1>11, <1>13, <2>3
    <3>2. Covered(f)
      BY <1>2, <1>13, <3>1 DEF Settled, InSomeGroup, Shown
    <3>3. PICK i \in DOMAIN groups : f \in groups[i].members
      BY <3>2 DEF Covered
    <3> QED BY <1>6, <2>3, <3>3
  <2> QED BY <2>2, <2>3
<1>14. InOwnGroup' /\ InSomeGroup'
  BY <1>12, <1>13 DEF InOwnGroup, InSomeGroup, Shown, Covered
<1>15. ReadHolds'
  <2>1. pass'.at # "read"
    BY <1>1, RenderedIs
  <2> QED BY <2>1 DEF ReadHolds
<1>16. RoomMade' /\ ViewsHold'
  <2>1. \A q \in Ops : op'[q].at \notin {"asked", "made", "refused"}
    BY <1>2, <1>7 DEF Resting
  <2> QED BY <2>1 DEF RoomMade, ViewsHold, InFlight
<1> QED BY <1>6, <1>14, <1>15, <1>16 DEF Settled

(* Nothing is left of an operation that was under way alone. *)
LEMMA OthersRest ==
    ASSUME OpsAlone, ~overlapped, NEW o \in Ops, ~Resting(o)
    PROVE  \A q \in Ops \ {o} : Resting(q)
BY DEF OpsAlone

(* The canvas and what the operations saw of it stay; a pass may end, be read or begin. *)
LEMMA SettledStays ==
    ASSUME Settled, UNCHANGED <<pieces, groups>>, strayed \subseteq strayed',
           (\A o \in Ops : Resting(o)) => \A o \in Ops : Resting(o)',
           pass.at # "none" \/ missed => pass'.at # "none" \/ missed',
           \/ pass'.at # "read" \/ ReadHolds'
           \/ /\ UNCHANGED pass
              /\ \/ \E o \in Ops : op'[o].at = "made"
                 \/ \A o \in Ops : op[o].at # "made",
           \A o \in Ops : InFlight(o)' =>
               \/ op'[o] = op[o]
               \/ /\ InFlight(o) /\ op'[o].what = op[o].what /\ op'[o].groups = op[o].groups
                  /\ op'[o].at = "made" /\ op[o].what.kind = "folder" => Room(op[o].what)
    PROVE  Settled'
<1>1. InOwnGroup' /\ InSomeGroup' /\ OneGroupEach'
  BY DEF Settled, InOwnGroup, InSomeGroup, OneGroupEach, Shown, Covered, Owners
<1>2. ReadHolds'
  BY DEF Settled, ReadHolds, Shown
<1>3. ASSUME NEW o \in Ops
      PROVE  /\ op'[o].at = "made" /\ op'[o].what.kind = "folder" => Room(op[o].what) /\ op'[o].what = op[o].what
             /\ InFlight(o)' => op'[o].what = op[o].what /\ op'[o].groups = op[o].groups /\ InFlight(o)
  BY DEF InFlight, Settled, RoomMade
<1>4. RoomMade'
  BY <1>3 DEF Settled, RoomMade, Room, InFlight, Owners
<1>5. ViewsHold'
  BY <1>3 DEF Settled, ViewsHold, ViewHolds, InFlight
<1> QED BY <1>1, <1>2, <1>4, <1>5 DEF Settled

(* An operation that begins while each folder has its group. *)
LEMMA BeginningSettles ==
    ASSUME FolderTypes, Settled, UNCHANGED <<pieces, groups, pass, missed, strayed>>,
           NEW o \in Ops, \A q \in Ops : Resting(q), ~Ungrouped,
           \A q \in Ops \ {o} : op'[q] = op[q],
           op'[o].groups = groups,
           \/ op'[o].at = "asked"
           \/ op'[o].at = "made" /\ op'[o].what.kind = "follow",
           op'[o].what.kind = "mkgroup" => Owners(op'[o].what.from, groups) = {}
    PROVE  Settled'
<1>1. \A q \in Ops \ {o} : ~InFlight(q)' /\ op'[q].at # "made"
  BY DEF Resting, InFlight
<1>2. InOwnGroup' /\ OneGroupEach'
  BY DEF Settled, InOwnGroup, OneGroupEach
<1>3. InSomeGroup'
  BY DEF Settled, InSomeGroup, Shown, Covered, Ungrouped
<1>4. ReadHolds'
  BY DEF Settled, ReadHolds, Shown, Resting
<1>5. RoomMade'
  BY <1>1 DEF RoomMade, Owners
<1>6. ViewHolds(op[o])'
  BY DEF ViewHolds
<1>7. ViewsHold'
  BY <1>1, <1>6 DEF ViewsHold
<1> QED BY <1>2, <1>3, <1>4, <1>5, <1>7 DEF Settled

(* Groups leave the canvas, or files leave it and their groups, and nothing is in flight. *)
LEMMA LeavingSettles ==
    ASSUME FolderTypes, Settled,
           \A f \in Files : pieces'[f] \in {None, pieces[f]},
           \/ \E ids : groups' = Without(groups, ids)
           \/ \E F : /\ groups' = WithoutFiles(groups, F)
                     /\ \A f \in Files \cap F : pieces'[f] = None,
           strayed' = strayed, NEW o \in Ops, ~Resting(o),
           \A q \in Ops : Resting(q)', pass'.at = "reading"
    PROVE  Settled'
<1>1. groups \in Seq(GroupSet)
  BY DEF FolderTypes, CanvasTypes
<1>2. RoomMade' /\ ViewsHold' /\ ReadHolds'
  BY DEF RoomMade, ViewsHold, ReadHolds, Resting, InFlight
<1>3. ASSUME NEW ids, groups' = Without(groups, ids)
      PROVE  /\ \A k \in DOMAIN groups' : \E i \in DOMAIN groups : groups'[k] = groups[i]
             /\ \A i \in DOMAIN groups :
                   (\E k \in DOMAIN groups' : groups'[k] = groups[i]) \/ Owners(groups[i].folder, groups') = {}
             /\ OneGroupEach'
  <2>1. PICK nth \in Bijection(DOMAIN Without(groups, ids), Left(groups, ids)) :
           \A k \in DOMAIN Without(groups, ids) : Without(groups, ids)[k] = groups[nth[k]]
    BY <1>1, WithoutIs
  <2>2. \A k \in DOMAIN groups' : nth[k] \in DOMAIN groups /\ groups'[k] = groups[nth[k]]
    BY <1>3, <2>1 DEF Bijection, Injection, Left
  <2>3. \A k, l \in DOMAIN groups' : nth[k] = nth[l] => k = l
    BY <1>3, <2>1 DEF Bijection, Injection, IsInjective
  <2>4. OneGroupEach'
    BY <2>2, <2>3 DEF Settled, OneGroupEach
  <2>5. ASSUME NEW i \in DOMAIN groups, Owners(groups[i].folder, groups') # {}
        PROVE  \E k \in DOMAIN groups' : groups'[k] = groups[i]
    <3>1. PICK k \in DOMAIN groups' : groups'[k].folder = groups[i].folder
      BY <2>5 DEF Owners
    <3>2. nth[k] = i
      BY <2>2, <3>1 DEF Settled, OneGroupEach
    <3> QED BY <2>2, <3>2
  <2> QED BY <2>2, <2>4, <2>5
<1>4. ASSUME NEW F, groups' = WithoutFiles(groups, F), \A f \in Files \cap F : pieces'[f] = None
      PROVE  /\ DOMAIN groups' = DOMAIN groups
             /\ \A i \in DOMAIN groups : /\ groups'[i].folder = groups[i].folder
                                         /\ groups'[i].members = groups[i].members \ F
  BY <1>1, <1>4, LosingFiles
<1>5. \A f \in Files \ strayed : Shown(f) => Covered(f)
  BY DEF Settled, InSomeGroup
<1>6. ASSUME NEW f \in Files \ strayed, pieces'[f] \notin {None, Root}
      PROVE  (\E i \in DOMAIN groups' : f \in groups'[i].members) \/ Owners(pieces'[f], groups') = {}
  <2>1. pieces'[f] = pieces[f]
    BY <1>6
  <2>2. PICK i \in DOMAIN groups : f \in groups[i].members
    BY <1>5, <1>6, <2>1 DEF Shown, Covered
  <2>3. groups[i].folder = pieces[f]
    BY <1>6, <2>1, <2>2 DEF Settled, InOwnGroup
  <2>4. CASE \E ids : groups' = Without(groups, ids)
    BY <1>3, <2>1, <2>2, <2>3, <2>4
  <2>5. CASE \E F : /\ groups' = WithoutFiles(groups, F)
                    /\ \A g \in Files \cap F : pieces'[g] = None
    BY <1>4, <1>6, <2>2, <2>5
  <2> QED BY <2>4, <2>5
<1>7. InSomeGroup'
  BY <1>6 DEF InSomeGroup, Shown, Covered, Owners
<1>8. ASSUME NEW k \in DOMAIN groups'
      PROVE  \E i \in DOMAIN groups : /\ groups'[k].folder = groups[i].folder
                                      /\ groups'[k].members \subseteq groups[i].members
  BY <1>3, <1>4
<1>9. \A i \in DOMAIN groups : groups[i].members \subseteq Files
  BY <1>1, Keys DEF GroupSet
<1>10. InOwnGroup'
  BY <1>8, <1>9 DEF Settled, InOwnGroup
<1>11. OneGroupEach'
  BY <1>3, <1>4 DEF Settled, OneGroupEach
<1> QED BY <1>2, <1>7, <1>10, <1>11 DEF Settled

LEMMA RemoveFromCanvasSettles ==
    ASSUME PiecesInv, FolderTypes, Settled, NEW o \in Ops, NEW f \in Files, RemoveFromCanvas(o, f)
    PROVE  Settled'
<1>1. /\ pieces' = [pieces EXCEPT ![f] = None] /\ groups' = WithoutFiles(groups, {f})
      /\ strayed' = strayed /\ op[o].at = "new" /\ Goes(o, "done") /\ Rendered(TRUE, TRUE)
  BY DEF RemoveFromCanvas, IsNext, history
<1>2. op'[o].at = "done" /\ \A q \in Ops \ {o} : op'[q] = op[q]
  BY <1>1, Ended DEF PiecesInv
<1>3. pass'.at = "reading"
  BY <1>1, RenderedIs
<1>4. \A g \in Files : pieces'[g] = IF g = f THEN None ELSE pieces[g]
  BY <1>1 DEF PiecesInv, Shapes
<1>5. groups \in Seq(GroupSet)
  BY DEF FolderTypes, CanvasTypes
<1>6. /\ DOMAIN groups' = DOMAIN groups
      /\ \A i \in DOMAIN groups : /\ groups'[i].id = groups[i].id
                                  /\ groups'[i].folder = groups[i].folder
                                  /\ groups'[i].members = groups[i].members \ {f}
  BY <1>1, <1>5, LosingFiles
<1>20. \A i \in DOMAIN groups : groups[i].members \subseteq Files
  BY <1>5, Keys DEF GroupSet
<1>7. InOwnGroup' /\ OneGroupEach'
  BY <1>4, <1>6, <1>20 DEF Settled, InOwnGroup, OneGroupEach
<1>8. InSomeGroup'
  <2> SUFFICES ASSUME NEW g \in Files \ strayed, pieces'[g] \notin {None, Root}
               PROVE  \/ \E i \in DOMAIN groups' : g \in groups'[i].members
                      \/ Owners(pieces'[g], groups') = {} /\ \A q \in Ops : Resting(q)'
    BY <1>1, <1>3 DEF InSomeGroup, Shown, Covered, Owners
  <2>1. g # f /\ pieces'[g] = pieces[g]
    BY <1>4
  <2>2. CASE Covered(g)
    BY <1>6, <2>1, <2>2 DEF Covered
  <2>3. CASE Owners(pieces[g], groups) = {} /\ \A q \in Ops : Resting(q)
    BY <1>2, <1>6, <2>1, <2>3 DEF Owners, Resting
  <2> QED BY <2>1, <2>2, <2>3 DEF Settled, InSomeGroup, Shown
<1>9. \A q \in Ops : InFlight(q)' => InFlight(q) /\ op'[q] = op[q]
  BY <1>2 DEF InFlight
<1>10. RoomMade'
  BY <1>2, <1>6, <1>9 DEF Settled, RoomMade, Room, Owners
<1>11. ViewsHold'
  BY <1>4, <1>6, <1>9 DEF Settled, ViewsHold, ViewHolds
<1>12. ReadHolds'
  BY <1>3 DEF ReadHolds
<1> QED BY <1>7, <1>8, <1>10, <1>11, <1>12 DEF Settled

LEMMA ReconcileSettles ==
    ASSUME PiecesInv, FolderTypes, Calm, Settled, Reconcile, ~entangled'
    PROVE  Settled'
<1>1. /\ UNCHANGED <<pieces, op, strayed>> /\ pass.at \in {"read", "blind"}
      /\ pass' = [at |-> "none", dirs |-> {}, due |-> FALSE]
      /\ groups' # groups => \A o \in Ops : Resting(o)
  BY DEF Reconcile
<1>2. groups \in Seq(GroupSet)
  BY DEF FolderTypes, CanvasTypes
<1>3. /\ \A k \in DOMAIN groups' :
            \/ \E i \in Survivors : groups'[k] = groups[i]
            \/ /\ groups'[k].folder \in Wanting
               /\ groups'[k].members = {f \in Files : pieces[f] = groups'[k].folder}
      /\ \A i \in Survivors : \E k \in DOMAIN groups' : groups'[k] = groups[i]
      /\ \A d \in Wanting : \E k \in DOMAIN groups' :
            /\ groups'[k].folder = d
            /\ groups'[k].members = {f \in Files : pieces[f] = d}
  BY ReconciledIs
<1>4. OneGroupEach'
  BY FoldersApart DEF OneGroupEach
<1>5. InOwnGroup'
  <2>1. \A i \in Survivors : \A f \in groups[i].members : pieces[f] \in {None, groups[i].folder}
    BY DEF Survivors, Settled, InOwnGroup
  <2>2. \A k \in DOMAIN groups' : \A f \in groups'[k].members : pieces[f] \in {None, groups'[k].folder}
    BY <1>3, <2>1
  <2> QED BY <1>1, <2>2 DEF InOwnGroup
<1>6. ASSUME NEW f \in Files \ strayed, pieces[f] \notin {None, Root}
      PROVE  \E k \in DOMAIN groups' : f \in groups'[k].members
  <2>1. pieces[f] \in PlacedFolders
    BY <1>6 DEF PlacedFolders
  <2>2. CASE pieces[f] \in Wanting
    BY <1>3, <1>6, <2>2
  <2>3. CASE pieces[f] \notin Wanting
    <3>1. Owners(pieces[f], groups) # {}
      BY <2>1, <2>3 DEF Wanting, Owners
    <3>2. PICK i \in DOMAIN groups : f \in groups[i].members
      BY <1>6, <3>1 DEF Settled, InSomeGroup, Shown, Covered
    <3>3. groups[i].folder = pieces[f]
      BY <1>6, <3>2 DEF Settled, InOwnGroup
    <3>4. CASE groups' = groups
      BY <3>2, <3>4
    <3>5. CASE groups' # groups
      <4>1. \A o \in Ops : op[o].at # "made"
        BY <1>1, <3>5 DEF Resting
      <4>2. Alive(groups[i].folder)
        BY <1>1, <1>6, <2>1, <3>3, <4>1 DEF Alive, Settled, ReadHolds, Shown
      <4>3. PICK j \in Survivors : groups[j].folder = groups[i].folder
        BY <1>2, <4>2, FirstSurvives
      <4>4. j = i
        BY <4>3 DEF Survivors, Settled, OneGroupEach
      <4> QED BY <1>3, <3>2, <4>3, <4>4
    <3> QED BY <3>4, <3>5
  <2> QED BY <2>2, <2>3
<1>7. InSomeGroup'
  BY <1>1, <1>6 DEF InSomeGroup, Shown, Covered
<1>8. ReadHolds'
  BY <1>1 DEF ReadHolds
<1>9. RoomMade' /\ ViewsHold'
  <2>1. CASE groups' = groups
    BY <1>1, <2>1 DEF Settled, RoomMade, Room, Owners, ViewsHold, ViewHolds, InFlight
  <2>2. CASE groups' # groups
    BY <1>1, <2>2 DEF RoomMade, ViewsHold, InFlight, Resting
  <2> QED BY <2>1, <2>2
<1> QED BY <1>4, <1>5, <1>7, <1>8, <1>9 DEF Settled

LEMMA AddGroupSettles ==
    ASSUME PiecesInv, FolderTypes, Calm, Settled, NEW o \in Ops, AddGroup(o)
    PROVE  Settled'
<1> DEFINE d == op[o].what.from
           g == [id |-> given + 1, folder |-> d, members |-> {}]
           n == Len(groups)
<1>1. /\ op[o].at \in {"made", "refused"} /\ op[o].what.kind = "mkgroup"
      /\ UNCHANGED <<pieces, strayed>> /\ groups' = Append(groups, g)
      /\ Goes(o, "done") /\ Rendered(TRUE, TRUE)
  BY DEF AddGroup, history
<1>2. SeenTypes(op[o]) /\ groups \in Seq(GroupSet) /\ given \in Nat /\ Owners(d, groups) = {}
  BY <1>1 DEF FolderTypes, CanvasTypes, InFlight, Settled, RoomMade
<1>3. d \in Paths \ {Root}
  BY <1>1, <1>2, FolderPaths DEF SeenTypes, WhatTypes
<1>4. g \in GroupSet /\ g.folder = d /\ g.members = {}
  BY <1>2, <1>3 DEF GroupSet
<1>5. /\ n \in Nat /\ DOMAIN groups = 1..n /\ DOMAIN groups' = 1..n + 1
      /\ \A i \in 1..n : groups'[i] = groups[i]
      /\ groups'[n + 1] = g
  BY <1>1, <1>2, <1>4, AppendProperties, LenProperties
<1> HIDE DEF g, n, d
<1>6. \A i \in DOMAIN groups' : \/ i \in DOMAIN groups /\ groups'[i] = groups[i]
                                \/ i = n + 1 /\ groups'[i].folder = d /\ groups'[i].members = {}
  BY <1>4, <1>5
<1>7. \A i \in DOMAIN groups : i \in DOMAIN groups' /\ groups'[i] = groups[i]
  BY <1>5
<1>8. \A i \in DOMAIN groups : groups[i].folder # d
  BY <1>2 DEF Owners
<1>9. InOwnGroup' /\ OneGroupEach'
  BY <1>1, <1>6, <1>8 DEF Settled, InOwnGroup, OneGroupEach
<1>10. ~Resting(o)
  BY <1>1 DEF Resting
<1>11. InSomeGroup'
  BY <1>1, <1>7, <1>10 DEF Settled, InSomeGroup, Shown, Covered
<1>12. \A q \in Ops : Resting(q)'
  BY <1>1, <1>10, Ended, OthersRest DEF PiecesInv, Calm, Resting
<1>13. pass'.at = "reading"
  BY <1>1, RenderedIs
<1>14. RoomMade' /\ ViewsHold' /\ ReadHolds'
  BY <1>12, <1>13 DEF RoomMade, ViewsHold, ReadHolds, Resting, InFlight
<1> QED BY <1>9, <1>11, <1>14 DEF Settled

LEMMA ClearSettles ==
    ASSUME PiecesInv, FolderTypes, Calm, Settled, NEW o \in Ops, Clear(o) \/ ClearGroup(o)
    PROVE  Settled'
<1>1. /\ op[o].at \in {"made", "refused"} /\ Goes(o, "done") /\ strayed' = strayed
      /\ \E c \in BOOLEAN : Rendered(c, TRUE)
  BY DEF Clear, ClearGroup, history
<1>2. ~Resting(o)
  BY <1>1 DEF Resting
<1>3. \A q \in Ops : Resting(q)'
  BY <1>1, <1>2, Ended, OthersRest DEF PiecesInv, Calm, Resting
<1>4. pass'.at = "reading"
  BY <1>1, RenderedIs
<1>5. CASE ClearGroup(o)
  <2>1. pieces' = pieces /\ \E ids : groups' = Without(groups, ids)
    BY <1>5 DEF ClearGroup
  <2> QED BY <1>1, <1>2, <1>3, <1>4, <2>1, LeavingSettles
<1>6. CASE Clear(o)
  <2>1. /\ pieces' = Deleted(op[o], groups).pieces /\ groups' = Deleted(op[o], groups).groups
    BY <1>6 DEF Clear
  <2>2. \E F : /\ pieces' = [f \in Files |-> IF f \in F THEN None ELSE pieces[f]]
               /\ groups' = WithoutFiles(groups, F) \/ \E ids : groups' = Without(groups, ids)
    BY <2>1 DEF Deleted
  <2>3. PICK F : /\ pieces' = [f \in Files |-> IF f \in F THEN None ELSE pieces[f]]
                 /\ groups' = WithoutFiles(groups, F) \/ \E ids : groups' = Without(groups, ids)
    BY <2>2
  <2>4. \A f \in Files : pieces'[f] = IF f \in F THEN None ELSE pieces[f]
    BY <2>3
  <2>5. \/ \E ids : groups' = Without(groups, ids)
        \/ \E G : /\ groups' = WithoutFiles(groups, G)
                  /\ \A f \in Files \cap G : pieces'[f] = None
    BY <2>3, <2>4
  <2> QED BY <1>1, <1>2, <1>3, <1>4, <2>4, <2>5, LeavingSettles
<1> QED BY <1>5, <1>6

(* A group is made only of a folder that has none. *)
LEMMA AsksForNoGroup ==
    ASSUME NEW o \in Ops, Begin(o)
    PROVE  \/ \E what : /\ Begins(o, what)
                        /\ what.kind = "mkgroup" => Owners(what.from, groups) = {}
           \/ \E f \in Files : RemoveFromCanvas(o, f)
<1>1. ASSUME NEW f, NEW to, AskMoveFile(o, f, to)
      PROVE  \E what : Begins(o, what) /\ what.kind # "mkgroup"
  <2>1. PICK from : Begins(o, [kind |-> "file", file |-> f, from |-> from, to |-> to])
    BY <1>1 DEF AskMoveFile
  <2> QED BY <2>1
<1>2. ASSUME NEW from, NEW to, AskMoveFolder(o, from, to)
      PROVE  \E what : Begins(o, what) /\ what.kind # "mkgroup"
  <2>1. Begins(o, [kind |-> "folder", from |-> from, to |-> to])
    BY <1>2 DEF AskMoveFolder
  <2> QED BY <2>1
<1>3. ASSUME NEW f, AskDeleteFile(o, f)
      PROVE  \E what : Begins(o, what) /\ what.kind # "mkgroup"
  <2>1. PICK from : Begins(o, [kind |-> "rmfile", file |-> f, from |-> from])
    BY <1>3 DEF AskDeleteFile
  <2> QED BY <2>1
<1>4. ASSUME NEW d, AskForFolder(o, d)
      PROVE  \E what : /\ Begins(o, what)
                       /\ what.kind = "mkgroup" => Owners(what.from, groups) = {}
  <2>1. CASE Begins(o, [kind |-> "rmdir", from |-> d])
    BY <2>1
  <2>2. CASE \E i \in Owners(d, groups) :
                Begins(o, [kind |-> "rmgroup", from |-> d, group |-> groups[i].id])
    BY <2>2
  <2>3. CASE Begins(o, [kind |-> "mkdir", from |-> d])
    BY <2>3
  <2>4. CASE Owners(d, groups) = {} /\ Begins(o, [kind |-> "mkgroup", from |-> d])
    BY <2>4
  <2> QED BY <1>4, <2>1, <2>2, <2>3, <2>4 DEF AskForFolder
<1> QED BY <1>1, <1>2, <1>3, <1>4 DEF Begin

LEMMA BeginsSettles ==
    ASSUME PiecesInv, FolderTypes, Settled, NEW o \in Ops, Calm', NEW what, Begins(o, what),
           what.kind = "mkgroup" => Owners(what.from, groups) = {}
    PROVE  Settled'
<1>1. /\ UNCHANGED <<pieces, groups, pass, missed, strayed>> /\ ~Ungrouped
      /\ \A q \in Ops : Resting(q)
      /\ op' = [op EXCEPT ![o] = [at |-> "asked", what |-> what,
                                  pieces |-> pieces, groups |-> groups, render |-> render]]
  BY DEF Begins, Calm, canvasVars
<1>2. /\ \A q \in Ops \ {o} : op'[q] = op[q]
      /\ op'[o] = [at |-> "asked", what |-> what, pieces |-> pieces, groups |-> groups,
                   render |-> render]
  BY <1>1 DEF PiecesInv, Shapes
<1>3. op'[o].at = "asked" /\ op'[o].what = what /\ op'[o].groups = groups
  BY <1>2
<1> QED BY <1>1, <1>2, <1>3, BeginningSettles

LEMMA FollowRenameSettles ==
    ASSUME PiecesInv, FolderTypes, Settled, NEW o \in Ops, Calm', NEW f \in Files, FollowRename(o, f)
    PROVE  Settled'
<1>1. PICK w : /\ w.kind = "follow"
               /\ op' = [op EXCEPT ![o] = [at |-> "made", what |-> w, pieces |-> pieces,
                                           groups |-> groups, render |-> render]]
  BY DEF FollowRename
<1>2. /\ UNCHANGED <<pieces, groups, pass, missed, strayed>> /\ ~Ungrouped
      /\ \A q \in Ops : Resting(q)
  BY DEF FollowRename, Calm, canvasVars
<1>3. /\ \A q \in Ops \ {o} : op'[q] = op[q]
      /\ op'[o] = [at |-> "made", what |-> w, pieces |-> pieces, groups |-> groups,
                   render |-> render]
  BY <1>1 DEF PiecesInv, Shapes
<1>4. op'[o].at = "made" /\ op'[o].what = w /\ op'[o].groups = groups
  BY <1>3
<1> QED BY <1>1, <1>2, <1>3, <1>4, BeginningSettles

LEMMA EffectSettles ==
    ASSUME PiecesInv, FolderTypes, Calm, Settled, NEW o \in Ops, Effect(o), ~entangled'
    PROVE  Settled'
<1>1. /\ UNCHANGED <<pieces, groups, pass, missed, strayed>> /\ op[o].at = "asked"
      /\ Goes(o, "made") /\ (op[o].what.kind = "folder" => ~TakesPlace(op[o].what))
  BY DEF Effect, canvasVars
<1>2. /\ op'[o].at = "made" /\ \A q \in Ops \ {o} : op'[q] = op[q]
      /\ op'[o].what = op[o].what /\ op'[o].groups = op[o].groups
  BY <1>1, GoesOn DEF PiecesInv, Shapes
<1>3. op[o].what.kind = "folder" => Room(op[o].what)
  BY <1>1 DEF TakesPlace, Room
<1>4. ~Resting(o) /\ InFlight(o)
  BY <1>1 DEF Resting, InFlight
<1> QED BY <1>1, <1>2, <1>3, <1>4, SettledStays

LEMMA RefusedSettles ==
    ASSUME PiecesInv, FolderTypes, Calm, Settled, NEW o \in Ops, Refused(o)
    PROVE  Settled'
<1>1. UNCHANGED <<pieces, groups, pass, missed>> /\ strayed \subseteq strayed' /\ op[o].at = "asked"
  BY DEF Refused, canvasVars
<1>2. PICK stage \in {"refused", "done"} : Goes(o, stage)
  BY DEF Refused
<1>3. /\ op'[o].at = stage /\ \A q \in Ops \ {o} : op'[q] = op[q]
      /\ stage = "refused" => op'[o].what = op[o].what /\ op'[o].groups = op[o].groups
  BY <1>1, <1>2, GoesOn DEF PiecesInv, Shapes
<1>4. ~Resting(o) /\ InFlight(o)
  BY <1>1 DEF Resting, InFlight
<1>5. \A q \in Ops : op[q].at # "made"
  BY <1>1, <1>4, OthersRest DEF PiecesInv, Calm, Resting
<1>6. \A q \in Ops : InFlight(q)' =>
         \/ op'[q] = op[q]
         \/ /\ InFlight(q) /\ op'[q].what = op[q].what /\ op'[q].groups = op[q].groups
            /\ op'[q].at = "made" /\ op[q].what.kind = "folder" => Room(op[q].what)
  BY <1>2, <1>3, <1>4 DEF InFlight
<1> QED BY <1>1, <1>4, <1>5, <1>6, SettledStays

LEMMA RefreshSettles ==
    ASSUME PiecesInv, Settled, NEW o \in Ops, Refresh(o)
    PROVE  Settled'
<1>1. UNCHANGED <<pieces, groups, strayed>> /\ op[o].at \in {"made", "followed"}
      /\ Goes(o, "done") /\ Rendered(FALSE, TRUE)
  BY DEF Refresh, canvasVars, history
<1>2. op'[o].at = "done" /\ \A q \in Ops \ {o} : op'[q] = op[q]
  BY <1>1, Ended DEF PiecesInv
<1>3. pass'.at = "reading"
  BY <1>1, RenderedIs
<1>4. ~Resting(o) /\ \A q \in Ops : InFlight(q)' => op'[q] = op[q]
  BY <1>1, <1>2 DEF Resting, InFlight
<1> QED BY <1>1, <1>3, <1>4, SettledStays

(* The tree that is read has the folder of each piece that is shown. *)
LEMMA ReadTreeSettles ==
    ASSUME PiecesInv, FolderTypes, Calm, Settled, ReadTree
    PROVE  Settled'
<1>1. /\ UNCHANGED <<pieces, groups, op, strayed, missed>>
      /\ pass'.at = "read" /\ pass'.dirs = dirs
  BY DEF ReadTree, canvasVars, history, FolderTypes, CanvasTypes
<1>2. ASSUME \A o \in Ops : op[o].at # "made", NEW f \in Files \ strayed, pieces[f] \notin {None, Root}
      PROVE  pieces[f] \in dirs
  BY <1>2 DEF PiecesInv, PiecesAimed, Calm, FolderTypes, DiskTypes
<1>3. ReadHolds'
  BY <1>1, <1>2 DEF ReadHolds, Shown
<1> QED BY <1>1, <1>3, SettledStays DEF Resting, InFlight

LEMMA PassSettles ==
    ASSUME PiecesInv, FolderTypes, Settled,
           TreeUnread \/ Redraw \/ TakeStamp \/ CheckTree \/ Outside
    PROVE  Settled'
<1>1. UNCHANGED <<pieces, groups, op>> /\ strayed \subseteq strayed'
  BY DEF TreeUnread, Redraw, TakeStamp, CheckTree, Outside, canvasVars, history
<1>2. CASE TreeUnread
  <2>1. pass'.at = "blind"
    BY <1>2 DEF TreeUnread, FolderTypes, CanvasTypes
  <2> QED BY <1>1, <2>1, SettledStays DEF Resting, InFlight
<1>3. CASE CheckTree
  <2>1. pass'.at = "reading"
    BY <1>3, RenderedIs DEF CheckTree
  <2> QED BY <1>1, <2>1, SettledStays DEF Resting, InFlight
<1>4. CASE Redraw
  <2>1. pass'.at = "reading" \/ (pass'.at = "none" /\ missed' = (missed \/ pass.at # "none"))
    BY <1>4, RenderedIs DEF Redraw
  <2>2. pass.at # "none"
    BY <1>4 DEF Redraw
  <2> QED BY <1>1, <2>1, <2>2, SettledStays DEF Resting, InFlight
<1>5. CASE TakeStamp \/ Outside
  <2>1. UNCHANGED pass /\ (missed => missed')
    <3>1. CASE TakeStamp
      BY <3>1 DEF TakeStamp
    <3>2. CASE Outside
      <4>1. UNCHANGED <<pass, missed>>
        BY <3>2 DEF Outside
      <4> QED BY <4>1
    <3> QED BY <1>5, <3>1, <3>2
  <2>2. InOwnGroup' /\ InSomeGroup' /\ OneGroupEach'
    BY <1>1, <2>1 DEF Settled, InOwnGroup, InSomeGroup, OneGroupEach, Shown, Covered, Owners, Resting
  <2>3. ReadHolds' /\ RoomMade' /\ ViewsHold'
    BY <1>1, <2>1 DEF Settled, ReadHolds, RoomMade, Room, ViewsHold, ViewHolds, Shown, Owners, InFlight
  <2> QED BY <2>2, <2>3 DEF Settled
<1> QED BY <1>2, <1>3, <1>4, <1>5

(* What managers remember lasts as long as the one operation that has followed. *)
LEMMA PendStays ==
    ASSUME NonePending, ~overlapped' => ~overlapped, pend' \subseteq pend,
           \A q \in Ops : op[q].at = "followed" => op'[q].at = "followed"
    PROVE  NonePending'
BY DEF NonePending

LEMMA NonePendingKept ==
    ASSUME PiecesInv, FolderTypes, NonePending, [FoldersNext]_folderVars
    PROVE  NonePending'
<1> Shapes /\ OpsAlone /\ overlapped \in BOOLEAN
  BY DEF PiecesInv, Shapes
<1>1. ASSUME NEW o \in Ops, Begin(o)  PROVE NonePending'
  <2>1. CASE \E what : Begins(o, what)
    <3>1. /\ pend' = pend /\ op[o].at = "new" /\ \A q \in Ops \ {o} : op'[q] = op[q]
          /\ ~overlapped' => ~overlapped
      BY <2>1 DEF Begins, IsNext, Shapes
    <3> QED BY <3>1, PendStays
  <2>2. CASE \E f \in Files : RemoveFromCanvas(o, f)
    <3>1. /\ Goes(o, "done") /\ op[o].at = "new" /\ pend' \subseteq pend /\ overlapped' = overlapped
      BY <2>2, ManagersKeep DEF RemoveFromCanvas, IsNext, history
    <3>2. \A q \in Ops \ {o} : op'[q] = op[q]
      BY <3>1, Ended
    <3> QED BY <3>1, <3>2, PendStays
  <2> QED BY <1>1, <2>1, <2>2, AsksForNoGroup
<1>2. ASSUME NEW o \in Ops, NEW f \in Files, FollowRename(o, f)  PROVE NonePending'
  <2>1. /\ pend' = pend /\ op[o].at = "new" /\ \A q \in Ops \ {o} : op'[q] = op[q]
        /\ ~overlapped' => ~overlapped
    BY <1>2 DEF FollowRename, IsNext, Shapes
  <2> QED BY <2>1, PendStays
<1>3. ASSUME NEW o \in Ops, Effect(o) \/ Refused(o)  PROVE NonePending'
  <2>1. /\ op[o].at = "asked" /\ overlapped' = overlapped
        /\ \E stage \in {"made", "refused", "done"} : Goes(o, stage)
    BY <1>3 DEF Effect, Refused
  <2>2. pend' \subseteq pend
    BY <1>3, ManagersKeep DEF Effect, Refused
  <2>3. \A q \in Ops \ {o} : op'[q] = op[q]
    BY <2>1, GoesOn DEF Shapes
  <2> QED BY <2>1, <2>2, <2>3, PendStays
<1>4. ASSUME NEW o \in Ops, Follow(o)  PROVE NonePending'
  <2>1. Goes(o, "followed")
    BY <1>4 DEF Follow
  <2> QED BY <2>1, Ended DEF NonePending
<1>5. ASSUME NEW o \in Ops, Clear(o) \/ ClearGroup(o) \/ AddGroup(o)  PROVE NonePending'
  <2>1. /\ op[o].at \in {"made", "refused"} /\ overlapped' = overlapped /\ Goes(o, "done")
        /\ \E E \in SUBSET pend : \E c : Managers(E, c)
    BY <1>5 DEF Clear, ClearGroup, AddGroup, history
  <2>2. pend' \subseteq pend
    BY <2>1, ManagersKeep
  <2>3. \A q \in Ops \ {o} : op'[q] = op[q]
    BY <2>1, Ended
  <2> QED BY <2>1, <2>2, <2>3, PendStays
<1>6. ASSUME NEW o \in Ops, Refresh(o)  PROVE NonePending'
  <2>1. /\ op[o].at \in {"made", "followed"} /\ overlapped' = overlapped /\ Goes(o, "done")
        /\ Managers(pend, FALSE)
    BY <1>6 DEF Refresh, history
  <2>2. op'[o].at = "done" /\ \A q \in Ops \ {o} : op'[q] = op[q]
    BY <2>1, Ended
  <2>3. ~Resting(o)
    BY <2>1 DEF Resting
  <2>4. ASSUME ~overlapped  PROVE pend' = {}
    <3>1. \A q \in Ops : op'[q].at \in {"new", "done"}
      BY <2>2, <2>3, <2>4, OthersRest DEF Resting
    <3> QED BY <2>1, <3>1 DEF Managers
  <2> QED BY <2>1, <2>4 DEF NonePending
<1>7. CASE Reconcile \/ Redraw \/ CheckTree
  <2>1. op' = op /\ overlapped' = overlapped /\ \E c : Managers(pend, c)
    BY <1>7 DEF Reconcile, Redraw, CheckTree, history
  <2>2. pend' \subseteq pend
    BY <2>1, ManagersKeep
  <2> QED BY <2>1, <2>2, PendStays
<1>8. CASE ReadTree \/ TreeUnread \/ Outside \/ TakeStamp \/ UNCHANGED folderVars
  <2>1. op' = op /\ overlapped' = overlapped /\ pend' = pend
    BY <1>8 DEF ReadTree, TreeUnread, Outside, TakeStamp, folderVars, history
  <2> QED BY <2>1, PendStays
<1> QED BY <1>1, <1>2, <1>3, <1>4, <1>5, <1>6, <1>7, <1>8 DEF FoldersNext

LEMMA MembersKept ==
    ASSUME PiecesInv, FolderTypes, MembersInv, [FoldersNext]_folderVars
    PROVE  MembersInv'
<1>1. NonePending'
  BY NonePendingKept DEF MembersInv
<1> SUFFICES ASSUME Calm'  PROVE Settled'
  BY <1>1 DEF MembersInv
<1> overlapped \in BOOLEAN /\ NonePending
  BY DEF PiecesInv, Shapes, MembersInv
<1>2. ASSUME NEW o \in Ops, Begin(o)  PROVE Settled'
  <2>1. Calm
    BY <1>2, AsksForNoGroup DEF Calm, Begins, RemoveFromCanvas, history
  <2>2. Settled
    BY <2>1 DEF MembersInv
  <2> QED BY <1>2, <2>2, AsksForNoGroup, BeginsSettles, RemoveFromCanvasSettles
<1>3. ASSUME NEW o \in Ops, NEW f \in Files, FollowRename(o, f)  PROVE Settled'
  <2>1. Calm
    BY <1>3 DEF Calm, FollowRename
  <2> QED BY <1>3, <2>1, FollowRenameSettles DEF MembersInv
<1>4. ASSUME NEW o \in Ops, Effect(o)  PROVE Settled'
  <2>1. Calm
    BY <1>4 DEF Calm, Effect
  <2> QED BY <1>4, <2>1, EffectSettles DEF MembersInv, Calm
<1>5. ASSUME NEW o \in Ops, Refused(o)  PROVE Settled'
  <2>1. Calm
    BY <1>5 DEF Calm, Refused
  <2> QED BY <1>5, <2>1, RefusedSettles DEF MembersInv
<1>6. ASSUME NEW o \in Ops, Follow(o)  PROVE Settled'
  <2>1. Calm
    BY <1>6 DEF Calm, Follow
  <2> QED BY <1>6, <2>1, FollowSettles DEF MembersInv
<1>7. ASSUME NEW o \in Ops, Refresh(o)  PROVE Settled'
  <2>1. Calm
    BY <1>7 DEF Calm, Refresh, history
  <2> QED BY <1>7, <2>1, RefreshSettles DEF MembersInv
<1>8. ASSUME NEW o \in Ops, Clear(o) \/ ClearGroup(o) \/ AddGroup(o)  PROVE Settled'
  <2>20. UNCHANGED <<overlapped, entangled>>
    BY <1>8 DEF Clear, ClearGroup, AddGroup, history
  <2>1. Calm
    BY <2>20 DEF Calm
  <2> QED BY <1>8, <2>1, ClearSettles, AddGroupSettles DEF MembersInv
<1>9. CASE ReadTree
  <2>1. Calm
    BY <1>9 DEF Calm, ReadTree, history
  <2> QED BY <1>9, <2>1, ReadTreeSettles DEF MembersInv
<1>10. CASE TreeUnread \/ Redraw \/ TakeStamp \/ CheckTree \/ Outside
  <2>20. UNCHANGED <<overlapped, entangled>>
    BY <1>10 DEF TreeUnread, Redraw, TakeStamp, CheckTree, Outside, history
  <2>1. Calm
    BY <2>20 DEF Calm
  <2> QED BY <1>10, <2>1, PassSettles DEF MembersInv
<1>11. CASE Reconcile
  <2>1. Calm
    BY <1>11 DEF Calm, Reconcile
  <2> QED BY <1>11, <2>1, ReconcileSettles DEF MembersInv, Calm
<1>12. CASE UNCHANGED folderVars
  <2>1. UNCHANGED <<pieces, groups, op, strayed, overlapped, entangled, pass, missed>>
    BY <1>12 DEF folderVars, canvasVars, history
  <2>2. Settled
    BY <2>1 DEF Calm, MembersInv
  <2>3. InOwnGroup' /\ InSomeGroup' /\ OneGroupEach'
    BY <2>1, <2>2 DEF Settled, InOwnGroup, InSomeGroup, OneGroupEach, Shown, Covered, Owners, Resting
  <2>4. ReadHolds' /\ RoomMade' /\ ViewsHold'
    BY <2>1, <2>2 DEF Settled, ReadHolds, RoomMade, Room, ViewsHold, ViewHolds, Shown, Owners, InFlight
  <2> QED BY <2>3, <2>4 DEF Settled
<1> QED BY <1>2, <1>3, <1>4, <1>5, <1>6, <1>7, <1>8, <1>9, <1>10, <1>11, <1>12 DEF FoldersNext

LEMMA MembersStart == ASSUME FoldersInit  PROVE MembersInv
<1>1. /\ pieces = Home /\ dirs = UNION {WithParents(Home[f]) : f \in Files}
      /\ pend = {} /\ pass = [at |-> "reading", dirs |-> {}, due |-> TRUE]
      /\ \A o \in Ops : op[o].at = "new"
  BY DEF FoldersInit
<1>2. PICK ds : /\ ds = SetToSeq(dirs)
                /\ groups = [i \in DOMAIN ds |-> [id |-> i, folder |-> ds[i],
                                                  members |-> {f \in Files : Home[f] = ds[i]}]]
  BY DEF FoldersInit
<1>3. IsFiniteSet(dirs)
  BY FoldersStart DEF FolderTypes, DiskTypes
<1>4. /\ \A d \in dirs : \E i \in DOMAIN ds : ds[i] = d
      /\ \A i, j \in DOMAIN ds : ds[i] = ds[j] => i = j
  BY <1>2, <1>3, SetToSeqIs DEF Bijection, Injection, Surjection, IsInjective
<1>5. /\ DOMAIN groups = DOMAIN ds
      /\ \A i \in DOMAIN ds : /\ groups[i].folder = ds[i]
                              /\ groups[i].members = {f \in Files : Home[f] = ds[i]}
  BY <1>2
<1>6. InOwnGroup /\ OneGroupEach
  BY <1>1, <1>4, <1>5 DEF InOwnGroup, OneGroupEach
<1>7. ASSUME NEW f \in Files, Home[f] \notin {None, Root}  PROVE Home[f] \in dirs
  BY <1>1, <1>7, FoldersStart DEF FoldersInit, FolderTypes, DiskTypes
<1>8. InSomeGroup
  BY <1>1, <1>4, <1>5, <1>7 DEF InSomeGroup, Shown, Covered
<1>9. ReadHolds /\ RoomMade /\ ViewsHold
  BY <1>1 DEF ReadHolds, RoomMade, ViewsHold, InFlight
<1> QED BY <1>1, <1>6, <1>8, <1>9 DEF MembersInv, Settled, NonePending

----------------------------------------------------------------------------
(* The theorems about FolderGroups *)

FolderInv == PiecesInv /\ FolderTypes /\ DrawnControl /\ MembersInv

(* The invariant of every behaviour of the canvas and the disk: where pieces stand against files,
   types and ids, what a pass leaves drawn, and which group a piece is in.             *)
THEOREM FoldersInvariant == FoldersSpec => []FolderInv
<1>1. FoldersInit => FolderInv
  BY PiecesStart, FoldersStart, DrawnStart, MembersStart DEF FolderInv
<1>2. FolderInv /\ [FoldersNext]_folderVars => FolderInv'
  BY PiecesKept, TypesKept, DrawnKept, MembersKept DEF FolderInv
<1> QED BY <1>1, <1>2, PTL DEF FoldersSpec

(* When all is quiet, and no two operations were ever under way together, a piece on the canvas
   names the folder that its file is in, but for the files that another program moved or that a
   failed call moved in part: what followMovedPaths and deletePipeline write on the canvas is what
   the disk did, for any folders, files and number of operations.                         *)
THEOREM PiecesAlwaysFollow == FoldersSpec => []PiecesFollowFiles
<1>1. FolderInv => PiecesFollowFiles
  BY DEF FolderInv, PiecesInv, PiecesAimed, PiecesFollowFiles, Quiet, Resting
<1> QED BY <1>1, FoldersInvariant, PTL

(* When all is quiet and no change of the tree was missed, by a pass that was dropped or blind or
   by a first check that came too late, the groups on the canvas are those of the folders on the
   disk, one each: whatever meets halfway, the pass (reconcileGroupsWithFolders.js) sets it right. *)
THEOREM FoldersAreDrawn == FoldersSpec => []EveryFolderDrawn
<1>1. FolderInv => EveryFolderDrawn
  BY DEF FolderInv, DrawnControl, Drawn, EveryFolderDrawn, Quiet, Resting
<1> QED BY <1>1, FoldersInvariant, PTL

(* When all is quiet, no change of the tree was missed, and operations met neither each other nor
   a folder without its group, a piece is in the group of its folder and in no other
   (buildMembershipPlan, applyFsSyncPlan); one whose file strayed may be in none.         *)
THEOREM MembersAlwaysFollow == FoldersSpec => []MembersFollowFiles
<1>1. ASSUME FolderInv, Quiet, ~missed, Calm, NEW f \in Files, pieces[f] # None
      PROVE  LET homes == {groups[i].folder : i \in GroupsOf(f, groups)} IN
             /\ homes \subseteq {pieces[f]}
             /\ f \in strayed \/ homes = {pieces[f]} \ {Root}
  <2> DEFINE homes == {groups[i].folder : i \in GroupsOf(f, groups)}
  <2>1. Settled /\ groups \in Seq(GroupSet)
    BY <1>1 DEF FolderInv, MembersInv, FolderTypes, CanvasTypes
  <2>2. homes \subseteq {pieces[f]}
    BY <1>1, <2>1 DEF GroupsOf, Settled, InOwnGroup
  <2>3. Root \notin homes
    BY <2>1, Keys DEF GroupsOf, GroupSet
  <2>4. ASSUME f \notin strayed, pieces[f] # Root  PROVE pieces[f] \in homes
    <3>1. Covered(f)
      BY <1>1, <2>1, <2>4 DEF Settled, InSomeGroup, Shown, Quiet
    <3>2. PICK i \in DOMAIN groups : f \in groups[i].members
      BY <3>1 DEF Covered
    <3>3. groups[i].folder \in homes
      BY <3>2 DEF GroupsOf
    <3> QED BY <2>2, <3>3
  <2> HIDE DEF homes
  <2>5. homes \subseteq {pieces[f]} /\ (f \in strayed \/ homes = {pieces[f]} \ {Root})
    BY <2>2, <2>3, <2>4
  <2> QED BY <2>5 DEF homes
<1>2. FolderInv => MembersFollowFiles
  BY <1>1 DEF MembersFollowFiles, Calm
<1> QED BY <1>2, FoldersInvariant, PTL
=============================================================================
