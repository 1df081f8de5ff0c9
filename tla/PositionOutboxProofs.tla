------------------------- MODULE PositionOutboxProofs -------------------------
(***************************************************************************)
(* Proofs about PositionOutbox, under Prompt: no database holds a position *)
(* made in another project, no saved position goes back, and no position   *)
(* on the screen is forgotten.                                             *)
(*                                                                         *)
(* Everything rests on one fact, WriteIsShown: the fence lets a batch      *)
(* through only when the workspace that is open, the project shown, the    *)
(* epoch presented and the epoch of the box are one.  That holds because   *)
(* commands and answers keep their order (Orderly), so it is always known  *)
(* which workspace the backend holds (Aligned), and because a load that    *)
(* was just opened meets no effect that is due.                            *)
(***************************************************************************)
EXTENDS PositionOutbox, SequenceTheorems, TLAPS

(* What is called and not heard, in the order in which it will be heard. *)
Line == answers \o queue

(* One batch, one read and one switch are under way at a time; no read follows an open. *)
Orderly ==
    /\ \A i \in DOMAIN Line : Line[i].op = "moves" => writing # None /\ Line[i].batch = writing
    /\ writing # None => \E i \in DOMAIN Line : Line[i].op = "moves"
    /\ \A i \in DOMAIN Line, j \in DOMAIN Line :
          Line[i].op = "moves" /\ Line[j].op = "moves" => i = j
    /\ \A i \in DOMAIN Line, j \in DOMAIN Line :
          Line[i].op = "read" /\ Line[j].op = "read" => i = j
    /\ \A i \in DOMAIN Line, j \in DOMAIN Line :
          Line[i].op \in {"close", "open"} /\ Line[j].op \in {"close", "open"} => i = j
    /\ \A i \in DOMAIN Line, j \in DOMAIN Line :
          Line[i].op = "open" /\ Line[j].op = "read" => j < i
    /\ \A i \in DOMAIN Line : Line[i].op = "close" =>
          switching # None /\ switching.stage = "closing"
    /\ \A i \in DOMAIN Line : Line[i].op = "open" =>
          switching # None /\ switching.stage = "opening"

(* Which workspace the backend holds. *)
Aligned ==
    /\ workspace # None => workspace.epoch <= opens
    /\ switching = None => workspace = IF incoming = None THEN shown ELSE incoming.load
    /\ switching # None => incoming = None
    /\ switching # None /\ switching.stage = "closing" =>
          shown # None /\ workspace \in {shown, None}
    /\ switching # None /\ switching.stage = "opening" /\ workspace # None =>
          workspace.epoch > epoch
    /\ \A i \in DOMAIN queue : queue[i].op = "open" => workspace = None
    /\ \A i \in DOMAIN answers : answers[i].op = "close" => workspace = None
    /\ \A i \in DOMAIN answers : answers[i].op = "open" => workspace = answers[i].load

(* A load that was opened holds what is in its database until it is rendered. *)
Loading ==
    /\ \A i \in DOMAIN answers : answers[i].op = "open" /\ answers[i].load # None =>
          answers[i].at = db[answers[i].load.home]
    /\ \A i \in DOMAIN answers : answers[i].op = "open" /\ answers[i].load = None =>
          answers[i].at = NoMoves
    /\ incoming # None /\ incoming.load = None => incoming.at = NoMoves
    /\ incoming # None /\ incoming.load # None =>
          /\ epoch = incoming.load.epoch /\ boxEpoch < epoch /\ ~due
          /\ incoming.at = db[incoming.load.home]
          /\ \A i \in DOMAIN Line : Line[i].op # "read"
    /\ shown # None /\ (incoming # None => incoming.load = None) => epoch = shown.epoch
    /\ shown # None => shown.epoch <= epoch

(* The pieces on the screen, and the read that sets them again. *)
Screen ==
    /\ shown = None => pieces = NoMoves
    /\ shown # None =>
          /\ pieces \in Full
          /\ \A x \in Pieces : pieces[x].home = shown.home
          /\ \A x \in Pieces : db[shown.home][x].n <= pieces[x].n /\ pieces[x].n <= moves
    /\ \A h \in Projects, x \in Pieces : db[h][x].n <= moves
    /\ shown # None => \A i \in DOMAIN Line :
          Line[i].op = "read" /\ Line[i].epoch = shown.epoch =>
             ~loaded /\ boxEpoch < shown.epoch /\ Line[i].at = db[shown.home]
    /\ CanPersist /\ loaded /\ last = NoMoves /\ ~gone /\ Pieces # {} =>
          due /\ pieces = db[shown.home]
    /\ CanPersist /\ loaded /\ ~due /\ ~gone => last = pieces

(* A flush for good waits only while nothing new is collected. *)
Fresh ==
    /\ shown # None /\ last = NoMoves /\ Pieces # {} => boxEpoch < shown.epoch
    /\ chained => writing # None
    /\ chained /\ ~gone =>
          /\ last = NoMoves
          /\ shown # None =>
                /\ ~loaded /\ boxEpoch < shown.epoch
                /\ \A i \in DOMAIN Line : Line[i].op = "read" =>
                      \E j \in DOMAIN Line : j < i /\ Line[j].op = "moves"
    /\ last = NoMoves /\ ~gone /\ ~chained =>
          Empty(box) /\ (writing # None => writing.final)
    /\ writing # None /\ writing.final /\ ~gone /\ shown # None =>
          \A i \in DOMAIN queue :
             queue[i].op = "moves" => queue[i].epoch # shown.epoch

(* x waits in a batch that comes back when it is refused. *)
Returns(x) == writing # None /\ ~writing.final /\ x \in DOMAIN writing.moves

(* All positions last seen are of one project; each is in the box, in the batch, or saved. *)
Seen ==
    /\ \A x \in DOMAIN last, y \in DOMAIN last : last[x].home = last[y].home
    /\ ~gone => \A x \in DOMAIN last :
          IF x \in DOMAIN box THEN box[x] = last[x]
          ELSE IF Returns(x) THEN writing.moves[x] = last[x]
          ELSE db[last[x].home][x] = last[x]
    /\ \A i \in DOMAIN answers : answers[i].op = "moves" /\ answers[i].ok =>
          \A x \in DOMAIN answers[i].batch.moves :
             db[answers[i].batch.moves[x].home][x] = answers[i].batch.moves[x]

(* What the fence would let through is of the project shown, and between the database and
   what was last seen.                                                              *)
Rising ==
    /\ shown # None /\ boxEpoch = shown.epoch => \A x \in DOMAIN last :
          /\ last[x].home = shown.home
          /\ db[shown.home][x].n <= last[x].n /\ last[x].n <= pieces[x].n
    /\ shown # None => \A i \in DOMAIN queue :
          queue[i].op = "moves" /\ queue[i].epoch = shown.epoch =>
             \A x \in DOMAIN queue[i].batch.moves :
                /\ queue[i].batch.moves[x].home = shown.home
                /\ db[shown.home][x].n <= queue[i].batch.moves[x].n
                /\ queue[i].batch.moves[x].n <= last[x].n
    /\ \A i \in DOMAIN queue : queue[i].op = "moves" => queue[i].epoch <= boxEpoch

Own == \A h \in Projects, x \in Pieces : db[h][x].home = h

IInv ==
    /\ TypeOK /\ Orderly /\ Aligned /\ Loading /\ Screen /\ Fresh /\ Seen /\ Rising /\ Own


-----------------------------------------------------------------------------
(* The line *)

(* A command runs: its answer takes its place. *)
LEMMA Answered ==
    ASSUME NEW S, NEW a \in Seq(S), NEW q \in Seq(S), q # <<>>, NEW b \in S
    PROVE  LET l == a \o q
               m == Append(a, b) \o Tail(q)
           IN /\ l \in Seq(S) /\ m \in Seq(S) /\ DOMAIN m = DOMAIN l
              /\ Len(a) + 1 \in DOMAIN l
              /\ l[Len(a) + 1] = Head(q) /\ m[Len(a) + 1] = b
              /\ \A i \in DOMAIN l : i # Len(a) + 1 => m[i] = l[i]
              /\ \A i \in DOMAIN Tail(q) : Tail(q)[i] = q[i + 1] /\ i + 1 \in DOMAIN q
              /\ 1 \in DOMAIN q /\ q[1] = Head(q)
              /\ Append(a, b)[Len(a) + 1] = b
              /\ DOMAIN Append(a, b) = DOMAIN a \cup {Len(a) + 1}
              /\ \A i \in DOMAIN a : Append(a, b)[i] = a[i] /\ i # Len(a) + 1
<1>1. /\ Append(a, b) \in Seq(S) /\ Len(Append(a, b)) = Len(a) + 1
      /\ Tail(q) \in Seq(S) /\ Len(Tail(q)) = Len(q) - 1 /\ Len(q) \in Nat \ {0}
      /\ \A i \in 1..Len(q) - 1 : Tail(q)[i] = q[i + 1]
    BY EmptySeq
<1>2. /\ a \o q \in Seq(S) /\ Append(a, b) \o Tail(q) \in Seq(S)
      /\ Len(a \o q) = Len(a) + Len(q) /\ Len(Append(a, b) \o Tail(q)) = Len(a) + Len(q)
    BY <1>1
<1>3. \A i \in 1..Len(a) + Len(q) :
          /\ (a \o q)[i] = IF i <= Len(a) THEN a[i] ELSE q[i - Len(a)]
          /\ (Append(a, b) \o Tail(q))[i] =
                 IF i <= Len(a) + 1 THEN Append(a, b)[i] ELSE Tail(q)[i - (Len(a) + 1)]
    BY <1>1, <1>2
<1>4. \A i \in 1..Len(a) + 1 : Append(a, b)[i] = IF i <= Len(a) THEN a[i] ELSE b
    BY <1>1
<1>5. DOMAIN a = 1..Len(a) /\ DOMAIN q = 1..Len(q) /\ Head(q) = q[1] /\ Len(a) \in Nat
    BY <1>1
<1>6. ASSUME NEW i \in 1..Len(a) + Len(q), i # Len(a) + 1
      PROVE  (Append(a, b) \o Tail(q))[i] = (a \o q)[i]
  <2>1. CASE i <= Len(a)
      BY <1>3, <1>4, <1>5, <2>1
  <2>2. CASE i > Len(a) + 1
    <3>1. i - (Len(a) + 1) \in 1..Len(q) - 1 /\ i - (Len(a) + 1) + 1 = i - Len(a)
        BY <1>1, <1>5, <2>2
    <3> QED BY <1>1, <1>3, <1>5, <2>2, <3>1
  <2> QED BY <1>5, <1>6, <2>1, <2>2
<1>7. Len(a) + 1 \in 1..Len(a) + Len(q)
    BY <1>1, <1>5
<1>8. (a \o q)[Len(a) + 1] = q[1] /\ (Append(a, b) \o Tail(q))[Len(a) + 1] = b
    BY <1>3, <1>4, <1>5, <1>7
<1>9. /\ DOMAIN (a \o q) = 1..Len(a) + Len(q) /\ DOMAIN (Append(a, b) \o Tail(q)) = 1..Len(a) + Len(q)
      /\ DOMAIN Tail(q) = 1..Len(q) - 1 /\ DOMAIN Append(a, b) = 1..Len(a) + 1
    BY <1>1, <1>2
<1> QED BY <1>1, <1>2, <1>4, <1>5, <1>6, <1>7, <1>8, <1>9

(* m is l with t after it, and m is l without its first entry and with t after it. *)
Lengthens(l, m, t) ==
    /\ Len(l) \in Nat /\ DOMAIN l = 1..Len(l) /\ DOMAIN m = 1..Len(l) + Len(t)
    /\ \A i \in DOMAIN l : m[i] = l[i]
    /\ \A i \in 1..Len(t) : m[Len(l) + i] = t[i]
Shifts(l, m, t) ==
    /\ Len(l) \in Nat \ {0} /\ DOMAIN l = 1..Len(l) /\ DOMAIN m = 1..Len(l) - 1 + Len(t)
    /\ \A i \in 1..Len(l) - 1 : m[i] = l[i + 1]
    /\ \A i \in 1..Len(t) : m[Len(l) - 1 + i] = t[i]

(* An answer is heard, and commands are called. *)
LEMMA HeardAndCalled ==
    ASSUME NEW S, NEW a \in Seq(S), NEW q \in Seq(S), NEW t \in Seq(S), a # <<>>
    PROVE  /\ Shifts(a \o q, Tail(a) \o (q \o t), t)
           /\ (a \o q)[1] = Head(a)
           /\ \A i \in DOMAIN Tail(a) : Tail(a)[i] = a[i + 1] /\ i + 1 \in DOMAIN a
<1>1. /\ Tail(a) \in Seq(S) /\ Len(Tail(a)) = Len(a) - 1 /\ Len(a) \in Nat \ {0}
      /\ \A i \in 1..Len(a) - 1 : Tail(a)[i] = a[i + 1]
      /\ Len(q) \in Nat /\ Len(t) \in Nat /\ DOMAIN a = 1..Len(a) /\ DOMAIN Tail(a) = 1..Len(a) - 1
      /\ Head(a) = a[1]
    BY EmptySeq
<1>2. /\ a \o q \in Seq(S) /\ q \o t \in Seq(S) /\ Len(a \o q) = Len(a) + Len(q)
      /\ Len(q \o t) = Len(q) + Len(t)
    BY <1>1
<1>3. Tail(a) \o (q \o t) \in Seq(S) /\ Len(Tail(a) \o (q \o t)) = Len(a) - 1 + Len(q) + Len(t)
    BY <1>1, <1>2
<1>4. /\ \A i \in 1..Len(a) + Len(q) : (a \o q)[i] = IF i <= Len(a) THEN a[i] ELSE q[i - Len(a)]
      /\ \A i \in 1..Len(q) + Len(t) : (q \o t)[i] = IF i <= Len(q) THEN q[i] ELSE t[i - Len(q)]
    BY <1>1, <1>2
<1>5. \A i \in 1..Len(a) - 1 + Len(q) + Len(t) : (Tail(a) \o (q \o t))[i] =
          IF i <= Len(a) - 1 THEN Tail(a)[i] ELSE (q \o t)[i - (Len(a) - 1)]
    BY <1>1, <1>2, <1>3
<1>6. ASSUME NEW i \in 1..Len(a) + Len(q) - 1
      PROVE  (Tail(a) \o (q \o t))[i] = (a \o q)[i + 1]
  <2>0. i \in 1..Len(a) - 1 + Len(q) + Len(t) /\ i + 1 \in 1..Len(a) + Len(q)
      BY <1>1
  <2>1. CASE i <= Len(a) - 1
      BY <1>1, <1>4, <1>5, <2>0, <2>1
  <2>2. CASE i > Len(a) - 1
    <3>1. i - (Len(a) - 1) \in 1..Len(q) /\ i - (Len(a) - 1) = i + 1 - Len(a)
          /\ i - (Len(a) - 1) \in 1..Len(q) + Len(t)
        BY <1>1, <2>2
    <3>2. (Tail(a) \o (q \o t))[i] = q[i + 1 - Len(a)]
        BY <1>1, <1>4, <1>5, <2>0, <2>2, <3>1
    <3> QED BY <1>1, <1>4, <2>0, <2>2, <3>2
  <2> QED BY <1>1, <2>1, <2>2
<1>7. ASSUME NEW i \in 1..Len(t)
      PROVE  (Tail(a) \o (q \o t))[Len(a) + Len(q) - 1 + i] = t[i]
  <2>1. /\ Len(a) + Len(q) - 1 + i \in 1..Len(a) - 1 + Len(q) + Len(t)
        /\ Len(a) + Len(q) - 1 + i > Len(a) - 1
        /\ Len(a) + Len(q) - 1 + i - (Len(a) - 1) = Len(q) + i
        /\ Len(q) + i \in 1..Len(q) + Len(t) /\ Len(q) + i > Len(q) /\ Len(q) + i - Len(q) = i
      BY <1>1
  <2> QED BY <1>1, <1>4, <1>5, <2>1
<1>8. (a \o q)[1] = a[1] /\ 1 \in 1..Len(a) + Len(q)
    BY <1>1, <1>4
<1>9. DOMAIN (a \o q) = 1..Len(a) + Len(q)
      /\ DOMAIN (Tail(a) \o (q \o t)) = 1..Len(a) - 1 + Len(q) + Len(t)
      /\ Len(a) - 1 + Len(q) + Len(t) = Len(a \o q) - 1 + Len(t)
    BY <1>1, <1>2, <1>3
<1> QED BY <1>1, <1>2, <1>3, <1>6, <1>7, <1>8, <1>9 DEF Shifts

(* Commands are called. *)
LEMMA Called ==
    ASSUME NEW S, NEW a \in Seq(S), NEW q \in Seq(S), NEW t \in Seq(S)
    PROVE  Lengthens(a \o q, a \o (q \o t), t) /\ Lengthens(q, q \o t, t)
<1>1. Len(a) \in Nat /\ Len(q) \in Nat /\ Len(t) \in Nat /\ DOMAIN a = 1..Len(a) /\ DOMAIN q = 1..Len(q)
    OBVIOUS
<1>2. /\ a \o q \in Seq(S) /\ q \o t \in Seq(S) /\ Len(a \o q) = Len(a) + Len(q)
      /\ Len(q \o t) = Len(q) + Len(t) /\ DOMAIN (q \o t) = 1..Len(q) + Len(t)
      /\ DOMAIN (a \o q) = 1..Len(a) + Len(q)
    BY <1>1
<1>3. /\ a \o (q \o t) \in Seq(S)
      /\ DOMAIN (a \o (q \o t)) = 1..Len(a) + Len(q) + Len(t)
    BY <1>1, <1>2
<1>4. \A i \in 1..Len(q) + Len(t) : (q \o t)[i] = IF i <= Len(q) THEN q[i] ELSE t[i - Len(q)]
    BY <1>1, <1>2
<1>5. ASSUME NEW i \in 1..Len(t)  PROVE (q \o t)[Len(q) + i] = t[i]
  <2>1. Len(q) + i \in 1..Len(q) + Len(t) /\ Len(q) + i > Len(q) /\ Len(q) + i - Len(q) = i
      BY <1>1
  <2> QED BY <1>4, <2>1
<1>6. ASSUME NEW i \in 1..Len(q)  PROVE (q \o t)[i] = q[i]
    BY <1>1, <1>4
<1>7. \A i \in 1..Len(a) + Len(q) : (a \o q)[i] = IF i <= Len(a) THEN a[i] ELSE q[i - Len(a)]
    BY <1>1, <1>2
<1>8. \A i \in 1..Len(a) + Len(q) + Len(t) :
          (a \o (q \o t))[i] = IF i <= Len(a) THEN a[i] ELSE (q \o t)[i - Len(a)]
    BY <1>1, <1>2, <1>3
<1>9. ASSUME NEW i \in 1..Len(a) + Len(q)  PROVE (a \o (q \o t))[i] = (a \o q)[i]
  <2>1. i \in 1..Len(a) + Len(q) + Len(t) /\ (i > Len(a) => i - Len(a) \in 1..Len(q))
      BY <1>1
  <2> QED BY <1>6, <1>7, <1>8, <2>1
<1>10. ASSUME NEW i \in 1..Len(t)  PROVE (a \o (q \o t))[Len(a) + Len(q) + i] = t[i]
  <2>1. /\ Len(a) + Len(q) + i \in 1..Len(a) + Len(q) + Len(t) /\ Len(a) + Len(q) + i > Len(a)
        /\ Len(a) + Len(q) + i - Len(a) = Len(q) + i
      BY <1>1
  <2>2. (a \o (q \o t))[Len(a) + Len(q) + i] = (q \o t)[Len(a) + Len(q) + i - Len(a)]
      BY <1>8, <2>1
  <2> QED BY <1>5, <2>1, <2>2
<1> QED BY <1>1, <1>2, <1>3, <1>5, <1>6, <1>9, <1>10, SMTT(30) DEF Lengthens

-----------------------------------------------------------------------------
(* Positions, boxes, commands and answers *)

Entries == Commands \cup Replies

LEMMA NoneApart ==
    /\ None \notin Projects /\ None \notin Batches /\ None \notin Loads
    /\ None \notin Arrivals /\ None \notin Switches
BY OutboxAssumption

LEMMA BoxShape ==
    ASSUME NEW f \in Boxes
    PROVE  /\ DOMAIN f \subseteq Pieces
           /\ \A x \in DOMAIN f : f[x] \in Positions /\ f[x].home \in Projects /\ f[x].n \in Nat
           /\ f \in [DOMAIN f -> Positions]
           /\ Empty(f) <=> f = NoMoves
<1>1. PICK D \in SUBSET Pieces : f \in [D -> Positions]
    BY DEF Boxes
<1>2. DOMAIN f = D /\ f \in [DOMAIN f -> Positions]
    BY <1>1
<1>3. \A p \in Positions : p.home \in Projects /\ p.n \in Nat
    BY OutboxAssumption DEF Positions
<1>4. Empty(f) => f = NoMoves
    BY <1>2 DEF Empty, NoMoves
<1>5. f = NoMoves => Empty(f)
    BY DEF Empty, NoMoves
<1> QED BY <1>1, <1>2, <1>3, <1>4, <1>5

LEMMA FullShape ==
    ASSUME NEW f \in Full
    PROVE  /\ f \in Boxes /\ DOMAIN f = Pieces
           /\ \A x \in Pieces : f[x] \in Positions /\ f[x].home \in Projects /\ f[x].n \in Nat
           /\ f = NoMoves <=> Pieces = {}
<1>1. f \in Boxes /\ DOMAIN f = Pieces
    BY DEF Full, Boxes
<1> QED BY <1>1, BoxShape DEF Empty

LEMMA NothingIsABox == NoMoves \in Boxes /\ DOMAIN NoMoves = {}
<1>1. {} \in SUBSET Pieces /\ NoMoves \in [{} -> Positions]
    BY DEF NoMoves
<1> QED BY <1>1 DEF Boxes, NoMoves

LEMMA MergedShape ==
    ASSUME NEW f \in Boxes, NEW g \in Boxes
    PROVE  /\ Merged(f, g) \in Boxes
           /\ DOMAIN Merged(f, g) = DOMAIN f \cup DOMAIN g
           /\ \A x \in DOMAIN f \cup DOMAIN g :
                 Merged(f, g)[x] = IF x \in DOMAIN g THEN g[x] ELSE f[x]
<1>1. DOMAIN f \cup DOMAIN g \in SUBSET Pieces
    BY BoxShape
<1>2. \A x \in DOMAIN f : f[x] \in Positions
    BY BoxShape
<1>3. \A x \in DOMAIN g : g[x] \in Positions
    BY BoxShape
<1>4. Merged(f, g) \in [DOMAIN f \cup DOMAIN g -> Positions]
    BY <1>2, <1>3 DEF Merged
<1>5. Merged(f, g) \in Boxes
    BY <1>1, <1>4 DEF Boxes
<1> QED BY <1>5 DEF Merged

LEMMA MergedFull ==
    ASSUME NEW f \in Full, NEW g \in Boxes
    PROVE  Merged(f, g) \in Full
<1>1. f \in Boxes /\ DOMAIN f = Pieces
    BY FullShape
<1>2. DOMAIN g \subseteq Pieces
    BY BoxShape
<1>3. Merged(f, g) \in Boxes /\ DOMAIN Merged(f, g) = DOMAIN f \cup DOMAIN g
    BY <1>1, MergedShape
<1>4. DOMAIN Merged(f, g) = Pieces
    BY <1>1, <1>2, <1>3
<1>5. Merged(f, g) \in [DOMAIN Merged(f, g) -> Positions]
    BY <1>3, BoxShape
<1> QED BY <1>4, <1>5 DEF Full

LEMMA CommandShape ==
    ASSUME NEW c \in Commands
    PROVE  /\ c.op \in {"close", "open", "moves", "read"}
           /\ c.op = "close" => c \in Closes
           /\ c.op = "open" => c \in Calls /\ c.home \in Projects
           /\ c.op = "moves" => /\ c \in Sends /\ c.epoch \in Nat /\ c.batch \in Batches
                                /\ c.batch.moves \in Boxes /\ c.batch.final \in BOOLEAN
           /\ c.op = "read" => c \in Reads /\ c.epoch \in Nat /\ c.at \in Full
<1>1. c.op = "close" => c \in Closes
    BY DEF Commands, Closes, Calls, Sends, Reads
<1>2. c.op = "open" => c \in Calls /\ c.home \in Projects
    BY DEF Commands, Closes, Calls, Sends, Reads
<1>3. c.op = "moves" => c \in Sends /\ c.epoch \in Nat /\ c.batch \in Batches
    BY OutboxAssumption DEF Commands, Closes, Calls, Sends, Reads
<1>4. c.op = "read" => c \in Reads /\ c.epoch \in Nat /\ c.at \in Full
    BY OutboxAssumption DEF Commands, Closes, Calls, Sends, Reads
<1>5. c.op \in {"close", "open", "moves", "read"}
    BY DEF Commands, Closes, Calls, Sends, Reads
<1>6. \A b \in Batches : b.moves \in Boxes /\ b.final \in BOOLEAN
    BY DEF Batches
<1> QED BY <1>1, <1>2, <1>3, <1>4, <1>5, <1>6

LEMMA ReplyShape ==
    ASSUME NEW a \in Replies
    PROVE  /\ a.op \in {"close", "open", "moves", "read"}
           /\ a.op = "close" => a \in Closes
           /\ a.op = "open" => a \in Opened /\ a.load \in Loads \cup {None} /\ a.at \in Boxes
           /\ a.op = "moves" => /\ a \in Written /\ a.ok \in BOOLEAN /\ a.batch \in Batches
                                /\ a.batch.moves \in Boxes /\ a.batch.final \in BOOLEAN
           /\ a.op = "read" => a \in Reads /\ a.epoch \in Nat /\ a.at \in Full
<1>1. a.op = "close" => a \in Closes
    BY DEF Replies, Closes, Opened, Written, Reads
<1>2. a.op = "open" => a \in Opened /\ a.load \in Loads \cup {None} /\ a.at \in Boxes
    BY DEF Replies, Closes, Opened, Written, Reads
<1>3. a.op = "moves" => a \in Written /\ a.ok \in BOOLEAN /\ a.batch \in Batches
    BY DEF Replies, Closes, Opened, Written, Reads
<1>4. a.op = "read" => a \in Reads /\ a.epoch \in Nat /\ a.at \in Full
    BY OutboxAssumption DEF Replies, Closes, Opened, Written, Reads
<1>5. a.op \in {"close", "open", "moves", "read"}
    BY DEF Replies, Closes, Opened, Written, Reads
<1>6. \A b \in Batches : b.moves \in Boxes /\ b.final \in BOOLEAN
    BY DEF Batches
<1> QED BY <1>1, <1>2, <1>3, <1>4, <1>5, <1>6

LEMMA LoadShape ==
    ASSUME NEW l \in Loads
    PROVE  l.home \in Projects /\ l.epoch \in Nat /\ l # None
BY NoneApart, OutboxAssumption DEF Loads

LEMMA LineShape ==
    ASSUME TypeOK
    PROVE  /\ answers \in Seq(Entries) /\ queue \in Seq(Entries) /\ Line \in Seq(Entries)
           /\ Len(Line) \in Nat /\ DOMAIN Line = 1..Len(Line) /\ Len(answers) \in Nat
           /\ \A i \in DOMAIN answers : answers[i] \in Replies /\ i \in DOMAIN Line /\ Line[i] = answers[i]
           /\ \A i \in DOMAIN queue : /\ queue[i] \in Commands /\ Len(answers) + i \in DOMAIN Line
                                      /\ Line[Len(answers) + i] = queue[i]
           /\ answers # <<>> => 1 \in DOMAIN answers /\ answers[1] = Head(answers)
           /\ queue # <<>> => 1 \in DOMAIN queue /\ queue[1] = Head(queue)
<1>1. answers \in Seq(Replies) /\ queue \in Seq(Commands)
    BY DEF TypeOK
<1>2. answers \in Seq(Entries) /\ queue \in Seq(Entries)
    BY <1>1 DEF Entries
<1>3. \A i \in DOMAIN answers : answers[i] \in Replies
    BY <1>1
<1>4. \A i \in DOMAIN queue : queue[i] \in Commands
    BY <1>1
<1>5. Line \in Seq(Entries) /\ Len(Line) = Len(answers) + Len(queue) /\ Len(answers) \in Nat /\ Len(queue) \in Nat
    BY <1>2 DEF Line
<1>6. DOMAIN answers = 1..Len(answers) /\ DOMAIN queue = 1..Len(queue) /\ DOMAIN Line = 1..Len(Line)
    BY <1>2, <1>5
<1>7. \A i \in 1..Len(Line) : Line[i] = IF i <= Len(answers) THEN answers[i] ELSE queue[i - Len(answers)]
    BY <1>2, <1>5 DEF Line
<1>8. ASSUME NEW i \in DOMAIN queue
      PROVE  Len(answers) + i \in DOMAIN Line /\ Line[Len(answers) + i] = queue[i]
  <2>1. Len(answers) + i \in 1..Len(Line) /\ Len(answers) + i > Len(answers) /\ Len(answers) + i - Len(answers) = i
      BY <1>5, <1>6
  <2> QED BY <1>6, <1>7, <2>1
<1>9. ASSUME NEW i \in DOMAIN answers  PROVE i \in DOMAIN Line /\ Line[i] = answers[i]
    BY <1>5, <1>6, <1>7
<1>10. (answers # <<>> => Len(answers) > 0) /\ (queue # <<>> => Len(queue) > 0)
    BY <1>1, EmptySeq
<1>11. /\ answers # <<>> => 1 \in DOMAIN answers /\ answers[1] = Head(answers)
       /\ queue # <<>> => 1 \in DOMAIN queue /\ queue[1] = Head(queue)
    BY <1>1, <1>5, <1>6, <1>10
<1> QED BY <1>2, <1>3, <1>4, <1>5, <1>6, <1>8, <1>9, <1>11

-----------------------------------------------------------------------------
(* The backend *)

frontVars == <<switchVars, screenVars, boxVars, gone>>

(* The two are not both of the kinds of which there is one at a time. *)
Apart(a, b) ==
    /\ a.op = "moves" => b.op # "moves"
    /\ a.op \in {"close", "open"} => b.op \notin {"close", "open"}

(* What a command that runs leaves of the line *)
LEMMA RunShape ==
    ASSUME IInv, NEW a \in Replies, queue # <<>>, Head(queue).op = a.op,
           queue' = Tail(queue), answers' = Append(answers, a), UNCHANGED frontVars,
           a.op = "moves" => a.batch = Head(queue).batch,
           a.op = "read" => a = Head(queue)
    PROVE  /\ Orderly'
           /\ Head(queue) \in Commands
           /\ 1 \in DOMAIN queue /\ queue[1] = Head(queue)
           /\ queue' \in Seq(Commands) /\ answers' \in Seq(Replies)
           /\ DOMAIN Line' = DOMAIN Line
           /\ \A i \in DOMAIN Line : /\ Line'[i].op = Line[i].op
                                     /\ Line[i].op = "read" => Line'[i] = Line[i]
           /\ \A i \in DOMAIN queue' : queue'[i] = queue[i + 1] /\ i + 1 \in DOMAIN queue
           /\ \A i \in DOMAIN answers' : \/ answers'[i] = a
                                        \/ /\ i \in DOMAIN answers /\ answers'[i] = answers[i]
                                           /\ Apart(a, answers[i])
           /\ \A i \in DOMAIN queue' : Apart(a, queue'[i])
<1> USE DEF IInv
<1> DEFINE k == Len(answers) + 1
<1>1. UNCHANGED <<switching, writing>>
    BY DEF frontVars, switchVars, boxVars
<1>2. a \in Entries
    BY DEF Entries
<1>3. answers \in Seq(Entries) /\ queue \in Seq(Entries) /\ answers \in Seq(Replies) /\ queue \in Seq(Commands)
    BY LineShape DEF TypeOK
<1>4. Line = answers \o queue /\ Line' = Append(answers, a) \o Tail(queue)
    BY DEF Line
<1>5. /\ DOMAIN Line' = DOMAIN Line /\ k \in DOMAIN Line
      /\ Line[k] = Head(queue) /\ Line'[k] = a
      /\ \A i \in DOMAIN Line : i # k => Line'[i] = Line[i]
  <2> DEFINE l == answers \o queue
             m == Append(answers, a) \o Tail(queue)
  <2>1. /\ DOMAIN m = DOMAIN l /\ k \in DOMAIN l
        /\ l[k] = Head(queue) /\ m[k] = a
        /\ \A i \in DOMAIN l : i # k => m[i] = l[i]
      BY <1>2, <1>3, Answered
  <2>2. Line = l /\ Line' = m
      BY <1>4
  <2> HIDE DEF l, m, k
  <2> QED BY <2>1, <2>2
<1>6. /\ \A i \in DOMAIN queue' : queue'[i] = queue[i + 1] /\ i + 1 \in DOMAIN queue
      /\ 1 \in DOMAIN queue /\ queue[1] = Head(queue)
      /\ DOMAIN answers' = DOMAIN answers \cup {k} /\ answers'[k] = a
      /\ \A i \in DOMAIN answers : answers'[i] = answers[i] /\ i # k
    BY <1>2, <1>3, <1>4, Answered
<1>7. Head(queue) \in Commands
    BY <1>3, <1>6, LineShape
<1>8. queue' \in Seq(Commands) /\ answers' \in Seq(Replies)
    BY <1>3
<1>9. \A i \in DOMAIN Line : /\ Line'[i].op = Line[i].op
                             /\ Line[i].op = "read" => Line'[i] = Line[i]
                             /\ Line[i].op = "moves" => Line'[i].batch = Line[i].batch
    BY <1>5
<1>10. Orderly'
    BY <1>1, <1>5, <1>9, SMTT(30) DEF Orderly
<1>11. ASSUME NEW i \in DOMAIN Line, i # k  PROVE Apart(a, Line[i])
    BY <1>5, <1>11 DEF Orderly, Apart
<1>12. ASSUME NEW i \in DOMAIN queue'  PROVE Apart(a, queue'[i])
  <2>1. queue'[i] = queue[i + 1] /\ i + 1 \in DOMAIN queue /\ Len(answers) + (i + 1) # k
      BY <1>3, <1>6
  <2>2. Line[Len(answers) + (i + 1)] = queue[i + 1] /\ Len(answers) + (i + 1) \in DOMAIN Line
      BY <2>1, LineShape
  <2> QED BY <1>11, <2>1, <2>2
<1>13. ASSUME NEW i \in DOMAIN answers  PROVE Apart(a, answers[i])
    BY <1>6, <1>11, LineShape
<1> QED BY <1>5, <1>6, <1>7, <1>8, <1>9, <1>10, <1>12, <1>13

LEMMA RunFresh ==
    ASSUME IInv, NEW a \in Replies, queue # <<>>, Head(queue).op = a.op,
           queue' = Tail(queue), answers' = Append(answers, a), UNCHANGED frontVars,
           a.op = "moves" => a.batch = Head(queue).batch,
           a.op = "read" => a = Head(queue)
    PROVE  Fresh'
<1> USE DEF IInv
<1>1. UNCHANGED <<shown, loaded, last, box, boxEpoch, writing, chained, gone>>
    BY DEF frontVars, screenVars, boxVars
<1>2. /\ DOMAIN Line' = DOMAIN Line
      /\ \A i \in DOMAIN Line : Line'[i].op = Line[i].op
      /\ \A i \in DOMAIN queue' : queue'[i] = queue[i + 1] /\ i + 1 \in DOMAIN queue
    BY RunShape
<1>3. chained /\ ~gone /\ shown # None =>
          \A i \in DOMAIN Line' : Line'[i].op = "read" =>
             \E j \in DOMAIN Line' : j < i /\ Line'[j].op = "moves"
    BY <1>2 DEF Fresh
<1>4. writing # None /\ writing.final /\ ~gone /\ shown # None =>
          \A i \in DOMAIN queue' : queue'[i].op = "moves" => queue'[i].epoch # shown.epoch
    BY <1>2 DEF Fresh
<1> QED BY <1>1, <1>3, <1>4 DEF Fresh

(* A command that writes nothing leaves the frontend's part as it is. *)
LEMMA RunKeeps ==
    ASSUME IInv, NEW a \in Replies, queue # <<>>, Head(queue).op = a.op,
           queue' = Tail(queue), answers' = Append(answers, a), UNCHANGED frontVars, db' = db,
           a.op = "moves" => a.batch = Head(queue).batch /\ ~a.ok,
           a.op = "read" => a = Head(queue),
           a.op = "open" => a.at = IF a.load = None THEN NoMoves ELSE db[a.load.home]
    PROVE  Orderly' /\ Loading' /\ Screen' /\ Fresh' /\ Seen' /\ Rising' /\ Own'
<1> USE DEF IInv
<1>1. UNCHANGED <<epoch, switching, incoming, shown, loaded, pieces, due, moves, last, box,
                  boxEpoch, writing, chained, gone, db>>
    BY DEF frontVars, switchVars, screenVars, boxVars
<1>2. /\ Orderly'
      /\ DOMAIN Line' = DOMAIN Line
      /\ \A i \in DOMAIN Line : /\ Line'[i].op = Line[i].op
                                /\ Line[i].op = "read" => Line'[i] = Line[i]
      /\ \A i \in DOMAIN queue' : queue'[i] = queue[i + 1] /\ i + 1 \in DOMAIN queue
      /\ \A i \in DOMAIN answers' : \/ answers'[i] = a
                                    \/ /\ i \in DOMAIN answers /\ answers'[i] = answers[i]
                                       /\ Apart(a, answers[i])
    BY RunShape
<1>3. Loading'
    BY <1>1, <1>2 DEF Loading
<1>4. Screen'
    BY <1>1, <1>2 DEF Screen, CanPersist
<1>5. Fresh'
    BY RunFresh
<1>6. Seen'
  <2>1. \A i \in DOMAIN answers' : answers'[i].op = "moves" /\ answers'[i].ok =>
            \A x \in DOMAIN answers'[i].batch.moves :
               db[answers'[i].batch.moves[x].home][x] = answers'[i].batch.moves[x]
      BY <1>2 DEF Seen
  <2>2. \A i \in DOMAIN answers' : answers'[i].op = "moves" /\ answers'[i].ok =>
            \A x \in DOMAIN answers'[i].batch.moves :
               db'[answers'[i].batch.moves[x].home][x] = answers'[i].batch.moves[x]
      BY <1>1, <2>1
  <2>3. \A x : Returns(x)' <=> Returns(x)
      BY <1>1 DEF Returns
  <2>4. ~gone' => \A x \in DOMAIN last' :
            IF x \in DOMAIN box' THEN box'[x] = last'[x]
            ELSE IF Returns(x)' THEN writing'.moves[x] = last'[x]
            ELSE db'[last'[x].home][x] = last'[x]
      BY <1>1, <2>3 DEF Seen
  <2>5. \A x \in DOMAIN last', y \in DOMAIN last' : last'[x].home = last'[y].home
      BY <1>1 DEF Seen
  <2> QED BY <2>2, <2>4, <2>5 DEF Seen
<1>7. Rising'
    BY <1>1, <1>2 DEF Rising
<1> QED BY <1>1, <1>2, <1>3, <1>4, <1>5, <1>6, <1>7 DEF Own

LEMMA RunCloseKeeps == ASSUME IInv, RunClose  PROVE IInv'
<1> USE DEF IInv
<1> DEFINE a == [op |-> "close"]
<1>1. /\ queue # <<>> /\ Head(queue).op = "close" /\ queue' = Tail(queue)
      /\ workspace' = None /\ answers' = Append(answers, a)
      /\ UNCHANGED <<opens, db, frontVars>>
    BY DEF RunClose, Runs, Answers, frontVars
<1>2. a \in Replies /\ a.op = "close"
    BY DEF Replies, Closes
<1> HIDE DEF a
<1>3. Orderly' /\ Loading' /\ Screen' /\ Fresh' /\ Seen' /\ Rising' /\ Own'
    BY <1>1, <1>2, RunKeeps
<1>4. UNCHANGED <<epoch, switching, incoming, shown>>
    BY <1>1 DEF frontVars, switchVars, screenVars
<1>5. /\ queue' \in Seq(Commands) /\ answers' \in Seq(Replies)
      /\ 1 \in DOMAIN queue /\ queue[1] = Head(queue)
      /\ \A i \in DOMAIN answers' : \/ answers'[i] = a
                                    \/ /\ i \in DOMAIN answers /\ answers'[i] = answers[i]
                                       /\ Apart(a, answers[i])
    BY <1>1, <1>2, RunShape
<1>6. TypeOK'
    BY <1>1, <1>5 DEF TypeOK, frontVars, switchVars, screenVars, boxVars
<1>7. switching # None /\ switching.stage = "closing"
  <2>1. Line[Len(answers) + 1] = Head(queue) /\ Len(answers) + 1 \in DOMAIN Line
      BY <1>5, LineShape
  <2> QED BY <1>1, <2>1 DEF Orderly
<1>8. \A i \in DOMAIN answers' : answers'[i].op # "open"
    BY <1>2, <1>5 DEF Apart
<1>9. Aligned'
    BY <1>1, <1>4, <1>7, <1>8 DEF Aligned
<1> QED BY <1>3, <1>6, <1>9

LEMMA RunOpenKeeps == ASSUME IInv, RunOpen  PROVE IInv'
<1> USE DEF IInv
<1>1. PICK a : /\ queue # <<>> /\ Head(queue).op = "open" /\ queue' = Tail(queue)
               /\ answers' = Append(answers, a)
               /\ UNCHANGED <<db, frontVars>>
               /\ \/ /\ opens < MaxOpens /\ opens' = opens + 1
                     /\ workspace' = [home |-> Head(queue).home, epoch |-> opens + 1]
                     /\ a = [op |-> "open", load |-> workspace', at |-> db[Head(queue).home]]
                  \/ /\ a = [op |-> "open", load |-> None, at |-> NoMoves]
                     /\ UNCHANGED <<opens, workspace>>
    BY DEF RunOpen, Runs, Answers, frontVars, Minted
<1>2. /\ Head(queue) \in Commands /\ Head(queue) = queue[1] /\ 1 \in DOMAIN queue
    BY <1>1, LineShape
<1>3. Head(queue).home \in Projects
    BY <1>1, <1>2, CommandShape
<1>4. workspace = None
    BY <1>1, <1>2 DEF Aligned
<1>5. /\ opens \in 0..MaxOpens /\ epoch \in 0..opens /\ MaxOpens \in Nat
      /\ db[Head(queue).home] \in Full
    BY <1>3, OutboxAssumption DEF TypeOK
<1>6. /\ a.op = "open" /\ a.load = workspace' /\ a.at \in Boxes
      /\ workspace' \in Loads \cup {None} /\ opens' \in 0..MaxOpens /\ opens <= opens'
      /\ a \in Opened
      /\ a.at = IF a.load = None THEN NoMoves ELSE db[a.load.home]
      /\ workspace' # None => workspace'.epoch > epoch /\ workspace'.epoch <= opens'
  <2>1. CASE /\ opens < MaxOpens /\ opens' = opens + 1
             /\ workspace' = [home |-> Head(queue).home, epoch |-> opens + 1]
             /\ a = [op |-> "open", load |-> workspace', at |-> db[Head(queue).home]]
    <3>1. workspace' \in Loads /\ workspace'.home = Head(queue).home /\ workspace'.epoch > epoch
        BY <1>3, <1>5, <2>1 DEF Loads
    <3>2. db[Head(queue).home] \in Boxes
        BY <1>5, FullShape
    <3>3. workspace' # None /\ workspace'.epoch = opens + 1
        BY <2>1, <3>1, LoadShape
    <3>4. a.op = "open" /\ a.load = workspace' /\ a.at = db[Head(queue).home] /\ a \in Opened
        BY <2>1, <3>1, <3>2 DEF Opened
    <3> QED BY <1>5, <2>1, <3>1, <3>2, <3>3, <3>4
  <2>2. CASE /\ a = [op |-> "open", load |-> None, at |-> NoMoves]
             /\ UNCHANGED <<opens, workspace>>
      BY <1>4, <1>5, <2>2, NothingIsABox DEF Opened
  <2> QED BY <1>1, <2>1, <2>2
<1>7. a \in Replies
    BY <1>6 DEF Replies
<1>8. Orderly' /\ Loading' /\ Screen' /\ Fresh' /\ Seen' /\ Rising' /\ Own'
    BY <1>1, <1>6, <1>7, RunKeeps
<1>9. UNCHANGED <<epoch, switching, incoming, shown>>
    BY <1>1 DEF frontVars, switchVars, screenVars
<1>10. /\ queue' \in Seq(Commands) /\ answers' \in Seq(Replies)
       /\ \A i \in DOMAIN answers' : \/ answers'[i] = a
                                     \/ /\ i \in DOMAIN answers /\ answers'[i] = answers[i]
                                        /\ Apart(a, answers[i])
       /\ \A i \in DOMAIN queue' : Apart(a, queue'[i])
    BY <1>1, <1>6, <1>7, RunShape
<1>11. TypeOK'
  <2>1. epoch \in 0..opens'
      BY <1>5, <1>6
  <2> QED BY <1>1, <1>6, <1>10, <2>1 DEF TypeOK, frontVars, switchVars, screenVars, boxVars
<1>12. switching # None /\ switching.stage = "opening" /\ incoming = None
  <2>1. Line[Len(answers) + 1] = Head(queue) /\ Len(answers) + 1 \in DOMAIN Line
      BY <1>2, LineShape
  <2> QED BY <1>1, <2>1 DEF Orderly, Aligned
<1>13. /\ \A i \in DOMAIN answers' : answers'[i].op = "open" => answers'[i] = a
       /\ \A i \in DOMAIN answers' : answers'[i].op # "close"
       /\ \A i \in DOMAIN queue' : queue'[i].op # "open"
    BY <1>6, <1>10 DEF Apart
<1>14. Aligned'
    BY <1>6, <1>9, <1>12, <1>13 DEF Aligned
<1> QED BY <1>8, <1>11, <1>14

LEMMA RunReadKeeps == ASSUME IInv, RunRead  PROVE IInv'
<1> USE DEF IInv
<1> DEFINE a == Head(queue)
<1>1. /\ queue # <<>> /\ a.op = "read" /\ queue' = Tail(queue)
      /\ answers' = Append(answers, a) /\ UNCHANGED <<rustVars, frontVars>>
    BY DEF RunRead, Runs, Answers, frontVars
<1>2. a \in Commands
    BY <1>1, LineShape
<1>3. a \in Replies
    BY <1>1, <1>2, CommandShape DEF Replies
<1> HIDE DEF a
<1>4. UNCHANGED <<opens, workspace, db>>
    BY <1>1 DEF rustVars
<1>5. Orderly' /\ Loading' /\ Screen' /\ Fresh' /\ Seen' /\ Rising' /\ Own'
    BY <1>1, <1>3, <1>4, RunKeeps DEF a
<1>6. UNCHANGED <<epoch, switching, incoming, shown>>
    BY <1>1 DEF frontVars, switchVars, screenVars
<1>7. /\ queue' \in Seq(Commands) /\ answers' \in Seq(Replies)
      /\ \A i \in DOMAIN queue' : queue'[i] = queue[i + 1] /\ i + 1 \in DOMAIN queue
      /\ \A i \in DOMAIN answers' : \/ answers'[i] = a
                                    \/ /\ i \in DOMAIN answers /\ answers'[i] = answers[i]
                                       /\ Apart(a, answers[i])
    BY <1>1, <1>3, RunShape DEF a
<1>8. TypeOK'
    BY <1>1, <1>4, <1>7 DEF TypeOK, frontVars, switchVars, screenVars, boxVars
<1>9. Aligned'
    BY <1>1, <1>4, <1>6, <1>7 DEF Aligned
<1> QED BY <1>5, <1>8, <1>9

(* What the fence lets through is of the project shown, and of its own epoch. *)
LEMMA WriteIsShown ==
    ASSUME IInv, queue # <<>>, Head(queue).op = "moves", Fenced(Head(queue).epoch)
    PROVE  /\ shown # None /\ workspace = shown /\ epoch = shown.epoch
           /\ boxEpoch = shown.epoch /\ Head(queue).epoch = shown.epoch
           /\ incoming = None /\ (switching # None => switching.stage # "opening")
<1> USE DEF IInv
<1>1. /\ 1 \in DOMAIN queue /\ queue[1] = Head(queue) /\ Head(queue) \in Commands
    BY LineShape
<1>2. Head(queue).epoch \in Nat /\ Head(queue).epoch <= boxEpoch
    BY <1>1, CommandShape DEF Rising
<1>3. boxEpoch \in Nat /\ epoch \in Nat /\ boxEpoch <= epoch
    BY OutboxAssumption DEF TypeOK
<1>4. workspace # None /\ workspace.epoch = Head(queue).epoch
    BY DEF Fenced
<1>5. CASE switching = None
  <2>1. incoming = None
    <3> SUFFICES ASSUME incoming # None  PROVE FALSE
        OBVIOUS
    <3>1. incoming.load # None /\ workspace = incoming.load
        BY <1>4, <1>5 DEF Aligned
    <3> QED BY <1>2, <1>3, <1>4, <3>1 DEF Loading
  <2>2. workspace = shown
      BY <1>5, <2>1 DEF Aligned
  <2>3. epoch = shown.epoch
      BY <1>4, <2>1, <2>2 DEF Loading
  <2> QED BY <1>2, <1>3, <1>4, <1>5, <2>1, <2>2, <2>3
<1>6. CASE switching # None
  <2>1. switching.stage \in {"closing", "opening"}
      BY <1>6 DEF TypeOK, Switches
  <2>2. switching.stage # "opening"
      BY <1>2, <1>3, <1>4, <1>6 DEF Aligned
  <2>3. shown # None /\ workspace = shown /\ incoming = None
      BY <1>4, <1>6, <2>1, <2>2 DEF Aligned
  <2>4. epoch = shown.epoch
      BY <2>3 DEF Loading
  <2> QED BY <1>2, <1>3, <1>4, <2>2, <2>3, <2>4
<1> QED BY <1>5, <1>6

LEMMA RunMovesKeeps ==
    ASSUME IInv, NEW ok \in BOOLEAN, RunMoves(ok)
    PROVE  IInv'
<1> USE DEF IInv
<1> DEFINE c == Head(queue)
           a == [op |-> "moves", ok |-> ok, batch |-> c.batch]
<1>1. /\ queue # <<>> /\ c.op = "moves" /\ queue' = Tail(queue)
      /\ answers' = Append(answers, a) /\ UNCHANGED <<workspace, opens, frontVars>>
    BY DEF RunMoves, Runs, Answers, frontVars
<1>2. /\ c \in Commands /\ 1 \in DOMAIN queue /\ queue[1] = c
    BY <1>1, LineShape
<1>3. c.batch \in Batches /\ c.batch.moves \in Boxes /\ c.epoch \in Nat
    BY <1>1, <1>2, CommandShape
<1>4. a \in Replies /\ a.op = "moves" /\ a.batch = c.batch /\ a.ok = ok
    BY <1>3 DEF Replies, Written
<1>5. ok => /\ Fenced(c.epoch)
            /\ db' = [db EXCEPT ![workspace.home] = Merged(@, c.batch.moves)]
    BY DEF RunMoves
<1>6. ~ok => db' = db
    BY DEF RunMoves
<1> HIDE DEF a
<1>7. UNCHANGED <<epoch, switching, incoming, shown, loaded, pieces, due, moves, last, box,
                  boxEpoch, writing, chained, gone>>
    BY <1>1 DEF frontVars, switchVars, screenVars, boxVars
<1>8. /\ Orderly'
      /\ queue' \in Seq(Commands) /\ answers' \in Seq(Replies)
      /\ DOMAIN Line' = DOMAIN Line
      /\ \A i \in DOMAIN Line : /\ Line'[i].op = Line[i].op
                                /\ Line[i].op = "read" => Line'[i] = Line[i]
      /\ \A i \in DOMAIN queue' : queue'[i] = queue[i + 1] /\ i + 1 \in DOMAIN queue
      /\ \A i \in DOMAIN answers' : \/ answers'[i] = a
                                    \/ /\ i \in DOMAIN answers /\ answers'[i] = answers[i]
                                       /\ Apart(a, answers[i])
      /\ \A i \in DOMAIN queue' : Apart(a, queue'[i])
    BY <1>1, <1>4, RunShape
<1>9. Fresh'
    BY <1>1, <1>4, RunFresh
<1>10. Aligned'
    BY <1>1, <1>4, <1>7, <1>8 DEF Aligned
<1>11. CASE ~ok
  <2>1. db' = db
      BY <1>6, <1>11
  <2>2. Loading' /\ Screen' /\ Seen' /\ Rising' /\ Own'
      BY <1>1, <1>4, <1>11, <2>1, RunKeeps
  <2>3. TypeOK'
      BY <1>1, <1>8, <2>1 DEF TypeOK, frontVars, switchVars, screenVars, boxVars
  <2> QED BY <1>8, <1>9, <1>10, <2>2, <2>3
<1>12. CASE ok
  <2> DEFINE h == shown.home
             m == c.batch.moves
  <2>1. /\ shown # None /\ workspace = shown /\ epoch = shown.epoch
        /\ boxEpoch = shown.epoch /\ c.epoch = shown.epoch /\ incoming = None
        /\ switching # None => switching.stage # "opening"
      BY <1>1, <1>5, <1>12, WriteIsShown
  <2>2. h \in Projects /\ db \in [Projects -> Full]
      BY <2>1, LoadShape DEF TypeOK
  <2>3. db' = [db EXCEPT ![h] = Merged(db[h], m)]
      BY <1>5, <1>12, <2>1, <2>2
  <2>4. /\ DOMAIN m \subseteq Pieces /\ db[h] \in Full /\ DOMAIN db[h] = Pieces /\ db[h] \in Boxes
      BY <1>3, <2>2, BoxShape, FullShape
  <2>5. Merged(db[h], m) \in Full
      BY <1>3, <2>4, MergedFull
  <2>6. \A x \in Pieces : Merged(db[h], m)[x] = IF x \in DOMAIN m THEN m[x] ELSE db[h][x]
    <3>1. \A x \in DOMAIN db[h] \cup DOMAIN m :
              Merged(db[h], m)[x] = IF x \in DOMAIN m THEN m[x] ELSE db[h][x]
        BY <1>3, <2>4, MergedShape
    <3> QED BY <2>4, <3>1
  <2>7. /\ db' \in [Projects -> Full]
        /\ \A g \in Projects : g # h => db'[g] = db[g]
        /\ \A x \in Pieces : db'[h][x] = IF x \in DOMAIN m THEN m[x] ELSE db[h][x]
      BY <2>2, <2>3, <2>5, <2>6
  <2>8. \A x \in DOMAIN m : /\ m[x].home = h /\ db[h][x].n <= m[x].n /\ m[x].n <= last[x].n
      BY <1>1, <1>2, <2>1 DEF Rising
  <2>9. Pieces # {} => last # NoMoves /\ last \in Full /\ DOMAIN last = Pieces
    <3>1. boxEpoch \in Nat
        BY DEF TypeOK
    <3> QED BY <2>1, <3>1, FullShape DEF Fresh, TypeOK
  <2>10. c.batch = writing /\ writing # None
    <3>1. Line[Len(answers) + 1] = c /\ Len(answers) + 1 \in DOMAIN Line
        BY <1>2, LineShape
    <3> QED BY <1>1, <3>1 DEF Orderly
  <2>11. ~gone => ~writing.final
      BY <1>1, <1>2, <2>1, <2>10 DEF Fresh
  <2> HIDE DEF h, m
  <2>12. TypeOK'
      BY <1>1, <1>8, <2>7 DEF TypeOK, frontVars, switchVars, screenVars, boxVars
  <2>13. Own'
      BY <2>7, <2>8 DEF Own
  <2>14. \A x \in Pieces : db'[h][x].n <= last[x].n /\ last[x].n <= pieces[x].n /\ last[x].home = h
      BY <2>1, <2>7, <2>8, <2>9 DEF Rising, h
  <2>15. Rising'
    <3>1. \A i \in DOMAIN queue' : queue'[i].op # "moves"
        BY <1>4, <1>8 DEF Apart
    <3>2. \A x \in DOMAIN last : x \in Pieces
        BY FullShape, NothingIsABox DEF TypeOK
    <3> QED BY <1>7, <2>14, <3>1, <3>2 DEF Rising, h
  <2>16. Screen'
    <3>1. pieces \in Full /\ \A x \in Pieces : pieces[x].n <= moves /\ pieces[x].n \in Nat /\ last[x].n \in Nat
        BY <2>1, <2>9, FullShape DEF Screen
    <3>2. \A x \in Pieces : db'[h][x].n <= pieces[x].n /\ db'[h][x].n <= moves
      <4> TAKE x \in Pieces
      <4>1. db'[h][x].n \in Nat /\ moves \in Nat
          BY <2>2, <2>7, FullShape DEF TypeOK
      <4> QED BY <2>14, <3>1, <4>1
    <3>3. \A g \in Projects, x \in Pieces : db'[g][x].n <= moves
        BY <2>7, <3>2 DEF Screen
    <3>4. \A i \in DOMAIN Line' : Line'[i].op = "read" => Line'[i].epoch # shown.epoch
      <4>1. boxEpoch \in Nat
          BY DEF TypeOK
      <4> QED BY <1>8, <2>1, <4>1 DEF Screen
    <3>5. ~(CanPersist /\ loaded /\ last = NoMoves /\ ~gone /\ Pieces # {})
        BY <2>9
    <3> QED BY <1>7, <2>1, <3>2, <3>3, <3>4, <3>5 DEF Screen, CanPersist, h
  <2>17. Loading'
    <3>1. ASSUME NEW i \in DOMAIN answers', answers'[i].op = "open"
          PROVE  FALSE
      <4>1. i \in DOMAIN answers /\ answers[i].op = "open"
          BY <1>4, <1>8, <3>1
      <4>2. Line[i] = answers[i] /\ i \in DOMAIN Line
          BY <4>1, LineShape
      <4> QED BY <2>1, <4>1, <4>2 DEF Orderly
    <3> QED BY <1>7, <1>8, <2>1, <3>1 DEF Loading
  <2>18. Seen'
    <3>1. ASSUME ~gone, NEW x \in DOMAIN last, x \notin DOMAIN box, ~Returns(x)
          PROVE  db'[last[x].home][x] = last[x]
      <4>1. x \in Pieces /\ last[x].home \in Projects
          BY FullShape, NothingIsABox DEF TypeOK
      <4>2. db[last[x].home][x] = last[x]
          BY <3>1 DEF Seen
      <4>3. x \notin DOMAIN m
          BY <2>10, <2>11, <3>1 DEF Returns, m
      <4> QED BY <2>7, <4>1, <4>2, <4>3
    <3>2. ASSUME NEW i \in DOMAIN answers', answers'[i].op = "moves",
                 NEW x \in DOMAIN answers'[i].batch.moves
          PROVE  db'[answers'[i].batch.moves[x].home][x] = answers'[i].batch.moves[x]
      <4>1. answers'[i] = a
          BY <1>4, <1>8, <3>2 DEF Apart
      <4>2. answers'[i].batch.moves = m
          BY <1>4, <4>1 DEF m
      <4>3. x \in DOMAIN m /\ x \in Pieces
          BY <2>4, <3>2, <4>2 DEF m, h
      <4> QED BY <2>7, <2>8, <4>2, <4>3
    <3> QED BY <1>7, <3>1, <3>2 DEF Seen, Returns
  <2> QED BY <1>8, <1>9, <1>10, <2>12, <2>13, <2>15, <2>16, <2>17, <2>18
<1> QED BY <1>11, <1>12

-----------------------------------------------------------------------------
(* Calls *)

(* What a batch that leaves, if there is anything to send, adds to the queue *)
LEMMA SendShape ==
    ASSUME TypeOK, NEW moved \in Boxes, NEW final \in BOOLEAN, NEW then \in Seq(Commands),
           SendBatch(moved, final, then)
    PROVE  /\ box' = NoMoves /\ box' \in Boxes
           /\ \/ Empty(moved) /\ writing' = None /\ queue' = queue \o then
              \/ /\ ~Empty(moved) /\ writing' # None /\ writing' \in Batches
                 /\ writing'.moves = moved /\ writing'.final = final
                 /\ \E c \in Commands :
                       /\ c.op = "moves" /\ c.epoch = boxEpoch /\ c.batch = writing'
                       /\ <<c>> \o then \in Seq(Commands)
                       /\ queue' = queue \o (<<c>> \o then)
<1>1. box' = NoMoves /\ box' \in Boxes
    BY NothingIsABox DEF SendBatch
<1>2. CASE Empty(moved)
    BY <1>1, <1>2 DEF SendBatch
<1>3. CASE ~Empty(moved)
  <2> DEFINE c == [op |-> "moves", epoch |-> boxEpoch, batch |-> writing']
  <2>1. /\ writing' = [moves |-> moved, final |-> final]
        /\ queue' = queue \o <<c>> \o then
      BY <1>3 DEF SendBatch, BatchEpoch
  <2>2. writing' \in Batches /\ writing' # None
      BY <2>1, NoneApart DEF Batches
  <2>3. boxEpoch \in 0..MaxOpens
      BY OutboxAssumption DEF TypeOK
  <2>4. c \in Commands /\ c.op = "moves" /\ c.epoch = boxEpoch /\ c.batch = writing'
      BY <2>2, <2>3 DEF Commands, Sends
  <2> HIDE DEF c
  <2>5. queue \in Seq(Commands) /\ <<c>> \in Seq(Commands) /\ <<c>> \o then \in Seq(Commands)
      BY <2>4 DEF TypeOK
  <2>6. (queue \o <<c>>) \o then = queue \o (<<c>> \o then)
      BY <2>5, ConcatAssociative
  <2>7. queue' = queue \o (<<c>> \o then)
      BY <2>1, <2>6
  <2>8. writing'.moves = moved /\ writing'.final = final
      BY <2>1
  <2> QED BY <1>1, <1>3, <2>2, <2>4, <2>5, <2>7, <2>8
<1> QED BY <1>2, <1>3

LEMMA Grown ==
    ASSUME TypeOK, NEW t \in Seq(Commands), queue' = queue \o t, answers' = answers
    PROVE  /\ queue' \in Seq(Commands)
           /\ Len(Line) \in Nat /\ DOMAIN Line = 1..Len(Line)
           /\ DOMAIN Line' = 1..Len(Line) + Len(t)
           /\ \A i \in DOMAIN Line : Line'[i] = Line[i]
           /\ \A i \in 1..Len(t) : Line'[Len(Line) + i] = t[i]
           /\ \A i \in DOMAIN queue' : \/ i \in DOMAIN queue /\ queue'[i] = queue[i]
                                       \/ \E j \in 1..Len(t) : queue'[i] = t[j]
<1>1. /\ answers \in Seq(Entries) /\ queue \in Seq(Entries) /\ t \in Seq(Entries)
      /\ queue' \in Seq(Commands)
    BY LineShape DEF TypeOK, Entries
<1>2. Line = answers \o queue /\ Line' = answers \o (queue \o t)
    BY DEF Line
<1>3. Lengthens(answers \o queue, answers \o (queue \o t), t) /\ Lengthens(queue, queue \o t, t)
    BY <1>1, Called
<1>4. /\ DOMAIN queue' = 1..Len(queue) + Len(t) /\ DOMAIN queue = 1..Len(queue)
      /\ \A i \in DOMAIN queue : queue'[i] = queue[i]
      /\ \A i \in 1..Len(t) : queue'[Len(queue) + i] = t[i]
    BY <1>3 DEF Lengthens
<1>5. ASSUME NEW i \in DOMAIN queue', i \notin DOMAIN queue
      PROVE  \E j \in 1..Len(t) : queue'[i] = t[j]
  <2>1. Len(queue) \in Nat /\ Len(t) \in Nat
      BY <1>1
  <2>2. i - Len(queue) \in 1..Len(t) /\ Len(queue) + (i - Len(queue)) = i
      BY <1>4, <1>5, <2>1
  <2>3. queue'[Len(queue) + (i - Len(queue))] = t[i - Len(queue)]
      BY <1>4, <2>2
  <2> QED BY <2>2, <2>3
<1>6. Lengthens(Line, Line', t)
    BY <1>2, <1>3
<1> QED BY <1>1, <1>4, <1>5, <1>6 DEF Lengthens

(* One command is called. *)
LEMMA GrownByOne ==
    ASSUME TypeOK, NEW c \in Commands, queue' = Append(queue, c) \/ queue' = queue \o <<c>>,
           answers' = answers
    PROVE  /\ queue' \in Seq(Commands)
           /\ Len(Line) \in Nat /\ DOMAIN Line = 1..Len(Line)
           /\ DOMAIN Line' = 1..Len(Line) + 1
           /\ \A i \in DOMAIN Line : Line'[i] = Line[i]
           /\ Line'[Len(Line) + 1] = c /\ Len(Line) + 1 \in DOMAIN Line'
           /\ \A i \in DOMAIN Line' : \/ i \in DOMAIN Line /\ Line'[i] = Line[i] /\ i < Len(Line) + 1
                                      \/ i = Len(Line) + 1 /\ Line'[i] = c
           /\ \A i \in DOMAIN queue' : (i \in DOMAIN queue /\ queue'[i] = queue[i]) \/ queue'[i] = c
<1> DEFINE t == <<c>>
<1>1. t \in Seq(Commands) /\ Len(t) = 1 /\ t[1] = c
    OBVIOUS
<1>2. queue \in Seq(Commands)
    BY DEF TypeOK
<1>3. queue' = queue \o t
    BY <1>2
<1> HIDE DEF t
<1>4. /\ queue' \in Seq(Commands)
      /\ Len(Line) \in Nat /\ DOMAIN Line = 1..Len(Line)
      /\ DOMAIN Line' = 1..Len(Line) + Len(t)
      /\ \A i \in DOMAIN Line : Line'[i] = Line[i]
      /\ \A i \in 1..Len(t) : Line'[Len(Line) + i] = t[i]
      /\ \A i \in DOMAIN queue' : \/ i \in DOMAIN queue /\ queue'[i] = queue[i]
                                  \/ \E j \in 1..Len(t) : queue'[i] = t[j]
    BY <1>1, <1>3, Grown
<1> QED BY <1>1, <1>4

(* Nothing of what the invariant speaks of changes. *)
LEMMA Unmoved ==
    ASSUME IInv, UNCHANGED <<rustVars, queue, answers, switchVars, screenVars>>,
           UNCHANGED <<last, box, boxEpoch, writing, chained, gone>>,
           timer' \in BOOLEAN, retry' \in BOOLEAN
    PROVE  IInv'
<1> USE DEF IInv
<1>1. UNCHANGED <<workspace, opens, db, epoch, switching, incoming, shown, loaded, pieces, due, moves>>
    BY DEF rustVars, switchVars, screenVars
<1>2. Line' = Line
    BY DEF Line
<1>3. TypeOK'
    BY <1>1 DEF TypeOK
<1>4. Orderly' /\ Aligned'
    BY <1>1, <1>2 DEF Orderly, Aligned
<1>5. Loading' /\ Screen'
    BY <1>1, <1>2 DEF Loading, Screen, CanPersist
<1>6. Fresh' /\ Seen' /\ Rising' /\ Own'
    BY <1>1, <1>2 DEF Fresh, Seen, Returns, Rising, Own
<1> QED BY <1>3, <1>4, <1>5, <1>6

(* The box leaves as a batch: the line stays in order. *)
LEMMA BatchLeaves ==
    ASSUME IInv, NEW final \in BOOLEAN, ~gone, writing = None, ~Empty(box),
           SendBatch(box, final, <<>>), chained' = chained,
           timer' \in BOOLEAN, retry' \in BOOLEAN, gone' \in BOOLEAN,
           UNCHANGED <<rustVars, answers, switchVars, screenVars, last, boxEpoch>>
    PROVE  /\ TypeOK' /\ Orderly' /\ Aligned' /\ Loading' /\ Rising' /\ Own'
           /\ writing' # None /\ writing'.moves = box /\ writing'.final = final
           /\ DOMAIN box' = {} /\ ~chained /\ last # NoMoves
           /\ \A i \in DOMAIN Line' : Line'[i].op = "read" => i \in DOMAIN Line /\ Line'[i] = Line[i]
<1> USE DEF IInv
<1>1. UNCHANGED <<workspace, opens, db, epoch, switching, incoming, shown, loaded, pieces, due, moves>>
    BY DEF rustVars, switchVars, screenVars
<1>2. box \in Boxes /\ queue \in Seq(Commands) /\ boxEpoch \in Nat
    BY OutboxAssumption DEF TypeOK
<1>3. <<>> \in Seq(Commands)
    OBVIOUS
<1>4. /\ box' = NoMoves /\ box' \in Boxes
      /\ writing' # None /\ writing' \in Batches /\ writing'.moves = box /\ writing'.final = final
      /\ \E c \in Commands : /\ c.op = "moves" /\ c.epoch = boxEpoch /\ c.batch = writing'
                             /\ queue' = queue \o (<<c>> \o <<>>)
  <2>1. /\ box' = NoMoves /\ box' \in Boxes
        /\ \/ Empty(box) /\ writing' = None /\ queue' = queue \o <<>>
           \/ /\ ~Empty(box) /\ writing' # None /\ writing' \in Batches
              /\ writing'.moves = box /\ writing'.final = final
              /\ \E c \in Commands :
                    /\ c.op = "moves" /\ c.epoch = boxEpoch /\ c.batch = writing'
                    /\ <<c>> \o <<>> \in Seq(Commands)
                    /\ queue' = queue \o (<<c>> \o <<>>)
      BY <1>2, <1>3, SendShape
  <2> QED BY <2>1
<1>5. PICK c \in Commands : /\ c.op = "moves" /\ c.epoch = boxEpoch /\ c.batch = writing'
                            /\ queue' = queue \o (<<c>> \o <<>>)
    BY <1>4
<1>6. <<c>> \in Seq(Commands)
    OBVIOUS
<1>7. queue' = queue \o <<c>>
    BY <1>5, <1>6, ConcatEmptySeq
<1>8. /\ queue' \in Seq(Commands)
      /\ Len(Line) \in Nat /\ DOMAIN Line = 1..Len(Line)
      /\ DOMAIN Line' = 1..Len(Line) + 1
      /\ \A i \in DOMAIN Line : Line'[i] = Line[i]
      /\ Line'[Len(Line) + 1] = c /\ Len(Line) + 1 \in DOMAIN Line'
      /\ \A i \in DOMAIN Line' : \/ i \in DOMAIN Line /\ Line'[i] = Line[i] /\ i < Len(Line) + 1
                                 \/ i = Len(Line) + 1 /\ Line'[i] = c
      /\ \A i \in DOMAIN queue' : (i \in DOMAIN queue /\ queue'[i] = queue[i]) \/ queue'[i] = c
    BY <1>7, GrownByOne
<1>9. ~chained /\ last # NoMoves /\ \A i \in DOMAIN Line : Line[i].op # "moves"
    BY DEF Fresh, Orderly
<1>10. TypeOK'
    BY <1>1, <1>4, <1>8 DEF TypeOK
<1>11. Orderly'
  <2>1. \A i \in DOMAIN Line' : Line'[i].op # "moves" => i \in DOMAIN Line /\ Line'[i] = Line[i]
      BY <1>5, <1>8
  <2>2. \A i \in DOMAIN Line' : Line'[i].op = "moves" => i = Len(Line) + 1 /\ Line'[i] = c
      BY <1>8, <1>9
  <2>3. \A i \in DOMAIN Line', j \in DOMAIN Line' :
            Line'[i].op = "moves" /\ Line'[j].op = "moves" => i = j
      BY <2>2
  <2>4. \E i \in DOMAIN Line' : Line'[i].op = "moves"
      BY <1>5, <1>8
  <2>5. \A i \in DOMAIN Line' : Line'[i].op = "moves" => Line'[i].batch = writing'
      BY <1>5, <2>2
  <2> QED BY <1>1, <1>4, <2>1, <2>3, <2>4, <2>5 DEF Orderly
<1>12. Aligned'
    BY <1>1, <1>5, <1>8 DEF Aligned
<1>13. \A i \in DOMAIN Line' : Line'[i].op = "read" => i \in DOMAIN Line /\ Line'[i] = Line[i]
    BY <1>5, <1>8
<1>14. Loading'
    BY <1>1, <1>13 DEF Loading
<1>15. DOMAIN box \subseteq DOMAIN last
    BY <1>2, <1>9, BoxShape, FullShape DEF TypeOK
<1>16. DOMAIN box' = {}
    BY <1>4, NothingIsABox
<1>17. Rising'
  <2>1. shown # None /\ c.epoch = shown.epoch =>
            \A x \in DOMAIN c.batch.moves :
               /\ c.batch.moves[x].home = shown.home
               /\ db[shown.home][x].n <= c.batch.moves[x].n
               /\ c.batch.moves[x].n <= last[x].n
    <3> SUFFICES ASSUME shown # None, c.epoch = shown.epoch, NEW x \in DOMAIN box
                 PROVE  /\ box[x].home = shown.home
                        /\ db[shown.home][x].n <= box[x].n /\ box[x].n <= last[x].n
        BY <1>4, <1>5
    <3>1. x \in DOMAIN last /\ box[x] = last[x] /\ last[x].n \in Nat
        BY <1>2, <1>15, BoxShape DEF Seen
    <3> QED BY <1>5, <3>1 DEF Rising
  <2>2. c.epoch <= boxEpoch
      BY <1>2, <1>5
  <2> QED BY <1>1, <1>8, <2>1, <2>2 DEF Rising
<1>18. Own'
    BY <1>1 DEF Own
<1> QED BY <1>4, <1>9, <1>10, <1>11, <1>12, <1>13, <1>14, <1>16, <1>17, <1>18

(* Nothing is in the box: no batch leaves. *)
LEMMA NothingLeaves ==
    ASSUME TypeOK, NEW final \in BOOLEAN, writing = None, Empty(box), SendBatch(box, final, <<>>)
    PROVE  box' = box /\ writing' = writing /\ queue' = queue
<1>1. box \in Boxes /\ queue \in Seq(Commands)
    BY DEF TypeOK
<1>2. box' = NoMoves /\ writing' = None /\ queue' = queue \o <<>>
    BY DEF SendBatch
<1> QED BY <1>1, <1>2, BoxShape, ConcatEmptySeq

LEMMA FlushKeeps ==
    ASSUME IInv, ~gone, Flush, timer' \in BOOLEAN, retry' \in BOOLEAN,
           UNCHANGED <<rustVars, answers, switchVars, screenVars, last, boxEpoch, gone>>
    PROVE  IInv'
<1> USE DEF IInv
<1>1. UNCHANGED <<workspace, opens, db, epoch, switching, incoming, shown, loaded, pieces, due, moves>>
    BY DEF rustVars, switchVars, screenVars
<1>2. CASE ~MayFlush
    BY <1>2, Unmoved DEF Flush
<1>3. CASE MayFlush
  <2>1. SendBatch(box, FALSE, <<>>) /\ UNCHANGED chained /\ writing = None
      BY <1>3 DEF Flush, MayFlush
  <2>2. CASE Empty(box)
    <3>1. box' = box /\ writing' = writing /\ queue' = queue
        BY <2>1, <2>2, NothingLeaves
    <3> QED BY <2>1, <3>1, Unmoved
  <2>3. CASE ~Empty(box)
    <3>1. gone' \in BOOLEAN
        BY DEF TypeOK
    <3>2. /\ TypeOK' /\ Orderly' /\ Aligned' /\ Loading' /\ Rising' /\ Own'
          /\ writing' # None /\ writing'.moves = box /\ writing'.final = FALSE
          /\ DOMAIN box' = {} /\ ~chained /\ last # NoMoves
          /\ \A i \in DOMAIN Line' : Line'[i].op = "read" => i \in DOMAIN Line /\ Line'[i] = Line[i]
        BY <2>1, <2>3, <3>1, BatchLeaves
    <3>3. Screen'
        BY <1>1, <3>2 DEF Screen, CanPersist
    <3>4. Fresh'
        BY <1>1, <2>1, <3>2 DEF Fresh
    <3>5. Seen'
      <4>1. \A x \in DOMAIN last : x \in DOMAIN box => Returns(x)' /\ writing'.moves[x] = last[x]
          BY <3>2 DEF Seen, Returns
      <4>2. \A x \in DOMAIN last : x \notin DOMAIN box => ~Returns(x)' /\ ~Returns(x)
          BY <2>1, <3>2 DEF Returns
      <4> QED BY <1>1, <3>2, <4>1, <4>2 DEF Seen
    <3> QED BY <3>2, <3>3, <3>4, <3>5
  <2> QED BY <2>2, <2>3
<1> QED BY <1>2, <1>3

LEMMA SwitchKeeps ==
    ASSUME IInv, NEW h \in Projects \cup {None}, Switch(h)
    PROVE  IInv'
<1> USE DEF IInv
<1>1. PICK c : /\ queue' = Append(queue, c)
               /\ \/ /\ shown # None /\ c = [op |-> "close"]
                     /\ switching' = [to |-> h, stage |-> "closing"]
                  \/ /\ shown = None /\ c = [op |-> "open", home |-> h]
                     /\ switching' = [to |-> h, stage |-> "opening"]
               /\ ~gone /\ switching = None /\ incoming = None /\ (h = None => shown # None)
    BY DEF Switch, Call
<1>2. UNCHANGED <<workspace, opens, db, answers, epoch, incoming, shown, loaded, pieces, due, moves,
                  last, box, boxEpoch, timer, retry, writing, chained, gone>>
    BY DEF Switch, rustVars, screenVars, boxVars
<1>3. /\ c \in Commands /\ c.op \in {"close", "open"}
      /\ switching' \in Switches /\ switching' # None
      /\ c.op = "close" => switching'.stage = "closing" /\ shown # None
      /\ c.op = "open" => switching'.stage = "opening" /\ shown = None
  <2>1. CASE shown # None /\ c = [op |-> "close"] /\ switching' = [to |-> h, stage |-> "closing"]
    <3>1. switching' \in Switches
        BY <2>1 DEF Switches
    <3> QED BY <2>1, <3>1, NoneApart DEF Commands, Closes
  <2>2. CASE /\ shown = None /\ c = [op |-> "open", home |-> h]
             /\ switching' = [to |-> h, stage |-> "opening"]
    <3>1. switching' \in Switches
        BY <2>2 DEF Switches
    <3>2. h \in Projects
        BY <1>1, <2>2
    <3> QED BY <2>2, <3>1, <3>2, NoneApart DEF Commands, Calls
  <2> QED BY <1>1, <2>1, <2>2
<1>4. /\ queue' \in Seq(Commands)
      /\ Len(Line) \in Nat /\ DOMAIN Line = 1..Len(Line)
      /\ DOMAIN Line' = 1..Len(Line) + 1
      /\ \A i \in DOMAIN Line : Line'[i] = Line[i]
      /\ Line'[Len(Line) + 1] = c /\ Len(Line) + 1 \in DOMAIN Line'
      /\ \A i \in DOMAIN Line' : \/ i \in DOMAIN Line /\ Line'[i] = Line[i] /\ i < Len(Line) + 1
                                 \/ i = Len(Line) + 1 /\ Line'[i] = c
      /\ \A i \in DOMAIN queue' : (i \in DOMAIN queue /\ queue'[i] = queue[i]) \/ queue'[i] = c
    BY <1>1, <1>2, <1>3, GrownByOne
<1>5. TypeOK'
    BY <1>2, <1>3, <1>4 DEF TypeOK
<1>6. workspace = shown /\ \A i \in DOMAIN Line : Line[i].op \notin {"close", "open"}
    BY <1>1 DEF Aligned, Orderly
<1>7. \A i \in DOMAIN Line' : Line'[i].op \in {"read", "moves"} => i \in DOMAIN Line /\ Line'[i] = Line[i]
    BY <1>3, <1>4
<1>8. Orderly'
  <2>1. \A i \in DOMAIN Line' : Line'[i].op \in {"close", "open"} => i = Len(Line) + 1 /\ Line'[i] = c
      BY <1>4, <1>6
  <2>2. \A i \in DOMAIN Line', j \in DOMAIN Line' :
            Line'[i].op \in {"close", "open"} /\ Line'[j].op \in {"close", "open"} => i = j
      BY <2>1
  <2>3. \A i \in DOMAIN Line', j \in DOMAIN Line' : Line'[i].op = "open" /\ Line'[j].op = "read" => j < i
      BY <1>4, <1>7, <2>1
  <2>4. \A i \in DOMAIN Line' : /\ Line'[i].op = "close" => switching'.stage = "closing"
                                /\ Line'[i].op = "open" => switching'.stage = "opening"
      BY <1>3, <2>1
  <2>5. writing # None => \E i \in DOMAIN Line' : Line'[i].op = "moves"
      BY <1>4 DEF Orderly
  <2>6. \A i \in DOMAIN Line', j \in DOMAIN Line' :
            /\ Line'[i].op = "moves" /\ Line'[j].op = "moves" => i = j
            /\ Line'[i].op = "read" /\ Line'[j].op = "read" => i = j
      BY <1>7 DEF Orderly
  <2>7. \A i \in DOMAIN Line' : Line'[i].op = "moves" => writing # None /\ Line'[i].batch = writing
      BY <1>7 DEF Orderly
  <2> QED BY <1>2, <1>3, <2>2, <2>3, <2>4, <2>5, <2>6, <2>7 DEF Orderly
<1>9. Aligned'
  <2>1. \A i \in DOMAIN queue' : queue'[i].op = "open" => workspace = None
      BY <1>3, <1>4, <1>6 DEF Aligned
  <2>2. switching'.stage \in {"closing", "opening"}
      BY <1>3 DEF Switches
  <2>3. /\ switching'.stage = "closing" => shown # None
        /\ switching'.stage = "opening" => shown = None
      BY <1>1
  <2> QED BY <1>1, <1>2, <1>3, <1>6, <2>1, <2>3 DEF Aligned
<1>10. Loading'
    BY <1>2, <1>7 DEF Loading
<1>11. Screen'
    BY <1>2, <1>7 DEF Screen, CanPersist
<1>12. Fresh'
  <2>1. chained /\ shown # None =>
            \A i \in DOMAIN Line' : Line'[i].op = "read" =>
               \E j \in DOMAIN Line' : j < i /\ Line'[j].op = "moves"
    <3> SUFFICES ASSUME chained, shown # None, NEW i \in DOMAIN Line', Line'[i].op = "read"
                 PROVE  \E j \in DOMAIN Line' : j < i /\ Line'[j].op = "moves"
        OBVIOUS
    <3>1. i \in DOMAIN Line /\ Line[i].op = "read"
        BY <1>7
    <3>2. PICK j \in DOMAIN Line : j < i /\ Line[j].op = "moves"
        BY <1>1, <3>1 DEF Fresh
    <3>3. j \in DOMAIN Line' /\ Line'[j] = Line[j]
        BY <1>4
    <3> QED BY <3>2, <3>3
  <2>2. \A i \in DOMAIN queue' : queue'[i].op = "moves" => i \in DOMAIN queue /\ queue'[i] = queue[i]
      BY <1>3, <1>4
  <2> QED BY <1>2, <2>1, <2>2 DEF Fresh
<1>13. Seen' /\ Own'
    BY <1>2 DEF Seen, Returns, Own
<1>14. Rising'
  <2>1. \A i \in DOMAIN queue' : queue'[i].op = "moves" => i \in DOMAIN queue /\ queue'[i] = queue[i]
      BY <1>3, <1>4
  <2> QED BY <1>2, <2>1 DEF Rising
<1> QED BY <1>5, <1>8, <1>9, <1>10, <1>11, <1>12, <1>13, <1>14

LEMMA ChurnKeeps == ASSUME Prompt, IInv, Churn  PROVE IInv'
<1> USE DEF IInv
<1>1. /\ ~gone /\ incoming = None /\ shown # None /\ due' = TRUE
      /\ UNCHANGED <<workspace, opens, db, queue, answers, epoch, switching, incoming, shown, loaded,
                     pieces, moves, last, box, boxEpoch, timer, retry, writing, chained, gone>>
    BY DEF Churn, Rendered, rustVars, switchVars, boxVars
<1>2. Line' = Line
    BY <1>1 DEF Line
<1>3. TypeOK'
    BY <1>1 DEF TypeOK
<1>4. Orderly' /\ Aligned'
    BY <1>1, <1>2 DEF Orderly, Aligned
<1>5. Loading' /\ Screen'
    BY <1>1, <1>2 DEF Loading, Screen, CanPersist
<1>6. Fresh' /\ Seen' /\ Rising' /\ Own'
    BY <1>1, <1>2 DEF Fresh, Seen, Returns, Rising, Own
<1> QED BY <1>3, <1>4, <1>5, <1>6

LEMMA MoveKeeps == ASSUME Prompt, IInv, NEW x \in Pieces, Move(x)  PROVE IInv'
<1> USE DEF IInv
<1>1. /\ ~gone /\ incoming = None /\ ~(due /\ loaded /\ Empty(last))
      /\ x \in DOMAIN pieces /\ moves < MaxMoves /\ moves' = moves + 1 /\ due' = TRUE
      /\ pieces' = [pieces EXCEPT ![x] = [home |-> shown.home, n |-> moves + 1]]
      /\ UNCHANGED <<workspace, opens, db, queue, answers, epoch, switching, incoming, shown, loaded,
                     last, box, boxEpoch, timer, retry, writing, chained, gone>>
    BY DEF Move, Rendered, rustVars, switchVars, boxVars
<1>2. Line' = Line
    BY <1>1 DEF Line
<1>3. shown # None /\ shown.home \in Projects
    BY <1>1, NothingIsABox, LoadShape DEF Screen, TypeOK
<1>4. moves \in Nat /\ MaxMoves \in Nat /\ moves' \in 0..MaxMoves
    BY <1>1, OutboxAssumption DEF TypeOK
<1>5. pieces \in Full
    BY <1>3 DEF Screen
<1>6. /\ pieces' \in Full /\ pieces'[x].home = shown.home /\ pieces'[x].n = moves + 1
      /\ \A y \in Pieces : y # x => pieces'[y] = pieces[y]
  <2> DEFINE p == [home |-> shown.home, n |-> moves + 1]
  <2>1. p \in Positions /\ p.home = shown.home /\ p.n = moves + 1
      BY <1>1, <1>3, <1>4 DEF Positions
  <2>2. pieces' = [pieces EXCEPT ![x] = p]
      BY <1>1
  <2> HIDE DEF p
  <2> QED BY <1>5, <2>1, <2>2 DEF Full
<1>7. pieces' \in Boxes
    BY <1>6, FullShape
<1>8. TypeOK'
    BY <1>1, <1>4, <1>7 DEF TypeOK
<1>9. Orderly' /\ Aligned'
    BY <1>1, <1>2 DEF Orderly, Aligned
<1>10. Loading'
    BY <1>1, <1>2 DEF Loading
<1>11. \A h \in Projects, y \in Pieces : db[h][y].n \in Nat /\ db[h][y].n <= moves
    BY FullShape DEF Screen, TypeOK
<1>12. ASSUME NEW y \in Pieces
       PROVE  /\ pieces'[y].home = shown.home /\ pieces'[y].n <= moves'
              /\ db[shown.home][y].n <= pieces'[y].n /\ pieces[y].n <= pieces'[y].n
              /\ pieces[y].n \in Nat /\ pieces'[y].n \in Nat
  <2>1. /\ pieces[y].home = shown.home /\ db[shown.home][y].n <= pieces[y].n /\ pieces[y].n <= moves
        /\ pieces[y].n \in Nat
      BY <1>3, <1>5, FullShape DEF Screen
  <2>2. db[shown.home][y].n <= moves /\ db[shown.home][y].n \in Nat
      BY <1>3, <1>11
  <2>3. CASE y = x
      BY <1>1, <1>4, <1>6, <2>1, <2>2, <2>3
  <2>4. CASE y # x
      BY <1>1, <1>4, <1>6, <2>1, <2>4
  <2> QED BY <2>3, <2>4
<1>13. ~(CanPersist /\ loaded /\ last = NoMoves /\ Pieces # {})
    BY <1>1 DEF Screen, Empty, NoMoves
<1>14. \A h \in Projects, y \in Pieces : db[h][y].n <= moves'
    BY <1>1, <1>4, <1>11
<1>15. Screen'
    BY <1>1, <1>2, <1>3, <1>6, <1>12, <1>13, <1>14 DEF Screen, CanPersist
<1>16. Fresh' /\ Seen' /\ Own'
    BY <1>1, <1>2 DEF Fresh, Seen, Returns, Own
<1>17. Rising'
  <2>1. shown # None /\ boxEpoch = shown.epoch => \A y \in DOMAIN last : last[y].n <= pieces'[y].n
    <3> SUFFICES ASSUME boxEpoch = shown.epoch, NEW y \in DOMAIN last
                 PROVE  last[y].n <= pieces'[y].n
        OBVIOUS
    <3>1. y \in Pieces /\ last[y].n \in Nat
        BY FullShape, NothingIsABox DEF TypeOK
    <3>2. last[y].n <= pieces[y].n
        BY <1>3 DEF Rising
    <3> QED BY <1>12, <3>1, <3>2
  <2> QED BY <1>1, <2>1 DEF Rising
<1> QED BY <1>8, <1>9, <1>10, <1>15, <1>16, <1>17

(* The position effect: nothing is new, or a first look, or what moved is collected. *)
LEMMA RunEffectKeeps == ASSUME IInv, RunEffect  PROVE IInv'
<1> USE DEF IInv
<1>1. /\ ~gone /\ due /\ due' = FALSE
      /\ UNCHANGED <<workspace, opens, db, queue, answers, epoch, switching, incoming, shown, loaded,
                     pieces, moves, retry, writing, chained, gone>>
    BY DEF RunEffect, rustVars, switchVars
<1>2. Line' = Line
    BY <1>1 DEF Line
<1>3. timer' \in BOOLEAN
    BY DEF RunEffect
<1>4. Orderly' /\ Aligned'
    BY <1>1, <1>2 DEF Orderly, Aligned
<1>5. incoming # None => incoming.load = None
    BY <1>1 DEF Loading
<1>6. CASE ~(CanPersist /\ loaded)
  <2>1. UNCHANGED <<last, box, boxEpoch>>
      BY <1>6 DEF RunEffect
  <2>2. TypeOK'
      BY <1>1, <1>3, <2>1 DEF TypeOK
  <2>3. Loading' /\ Screen'
      BY <1>1, <1>2, <1>5, <1>6, <2>1 DEF Loading, Screen, CanPersist
  <2>4. Fresh' /\ Seen' /\ Rising' /\ Own'
      BY <1>1, <1>2, <2>1 DEF Fresh, Seen, Returns, Rising, Own
  <2> QED BY <1>4, <2>2, <2>3, <2>4
<1>7. CASE CanPersist /\ loaded
  <2>1. /\ last' = pieces
        /\ IF Empty(last) \/ Moved = {}
           THEN UNCHANGED <<box, boxEpoch>>
           ELSE /\ box' = Merged(box, [x \in Moved |-> pieces[x]])
                /\ boxEpoch' = IF Empty(box) THEN epoch ELSE boxEpoch
      BY <1>7 DEF RunEffect, Collected
  <2>2. shown # None /\ epoch = shown.epoch /\ pieces \in Full
      BY <1>5, <1>7 DEF CanPersist, Loading, Screen
  <2>3. /\ DOMAIN pieces = Pieces /\ pieces \in Boxes
        /\ \A x \in Pieces : pieces[x] \in Positions /\ pieces[x].n \in Nat /\ pieces[x].home = shown.home
        /\ pieces = NoMoves <=> Pieces = {}
      BY <2>2, FullShape DEF Screen
  <2>4. ~chained
      BY <1>1, <1>7, <2>2 DEF Fresh
  <2>5. boxEpoch \in Nat /\ epoch \in Nat /\ boxEpoch <= epoch
      BY OutboxAssumption DEF TypeOK
  <2>6. \A x \in Pieces : db[shown.home][x].n <= pieces[x].n
      BY <2>2 DEF Screen
  <2>7. last = NoMoves <=> Empty(last)
      BY FullShape, BoxShape, NothingIsABox DEF TypeOK
  <2>8. CASE last = NoMoves /\ Pieces # {}
    <3>1. UNCHANGED <<box, boxEpoch>>
        BY <2>1, <2>7, <2>8
    <3>2. boxEpoch < shown.epoch
        BY <2>2, <2>8 DEF Fresh
    <3>3. DOMAIN box = {} /\ (writing # None => writing.final)
        BY <1>1, <2>4, <2>8 DEF Fresh, Empty
    <3>4. pieces = db[shown.home]
        BY <1>1, <1>7, <2>8 DEF Screen
    <3>5. last' # NoMoves /\ last' \in Full
        BY <2>1, <2>2, <2>3, <2>8
    <3>6. TypeOK'
        BY <1>1, <1>3, <3>1, <3>5 DEF TypeOK
    <3>7. Loading'
        BY <1>1, <1>2, <1>5, <3>1 DEF Loading
    <3>8. Screen'
        BY <1>1, <1>2, <2>1, <3>1, <3>5 DEF Screen, CanPersist
    <3>9. Fresh'
        BY <1>1, <1>2, <2>4, <3>1, <3>5 DEF Fresh
    <3>10. Seen'
      <4>1. \A x \in Pieces : db[pieces[x].home][x] = pieces[x]
          BY <2>3, <3>4
      <4>2. \A x \in Pieces : ~Returns(x)'
          BY <1>1, <3>3 DEF Returns
      <4> QED BY <1>1, <2>1, <2>3, <3>1, <3>3, <4>1, <4>2 DEF Seen
    <3>11. Rising'
      <4>1. \A i \in DOMAIN queue : queue[i].op = "moves" => queue[i].epoch # shown.epoch
        <5> SUFFICES ASSUME NEW i \in DOMAIN queue, queue[i].op = "moves"
                     PROVE  queue[i].epoch # shown.epoch
            OBVIOUS
        <5>1. queue[i] \in Commands
            BY LineShape
        <5>2. queue[i].epoch \in Nat /\ queue[i].epoch <= boxEpoch
            BY <5>1, CommandShape DEF Rising
        <5> QED BY <2>2, <2>5, <3>2, <5>2
      <4>2. boxEpoch # shown.epoch
          BY <2>2, <2>5, <3>2
      <4> QED BY <1>1, <3>1, <4>1, <4>2 DEF Rising
    <3> QED BY <1>1, <1>4, <3>6, <3>7, <3>8, <3>9, <3>10, <3>11 DEF Own
  <2>9. CASE Pieces = {} \/ (last # NoMoves /\ Moved = {})
    <3>1. last' = last /\ UNCHANGED <<box, boxEpoch>>
      <4>1. CASE Pieces = {}
        <5>1. last = NoMoves /\ pieces = NoMoves
            BY <2>3, <4>1, FullShape DEF TypeOK
        <5> QED BY <2>1, <2>7, <5>1
      <4>2. CASE last # NoMoves /\ Moved = {}
        <5>1. last \in Full
            BY <4>2 DEF TypeOK
        <5>2. \A x \in Pieces : last[x] = pieces[x]
            BY <2>3, <4>2 DEF Moved
        <5>3. last = pieces
            BY <2>2, <5>1, <5>2 DEF Full
        <5> QED BY <2>1, <4>2, <5>3
      <4> QED BY <2>9, <4>1, <4>2
    <3>2. TypeOK'
        BY <1>1, <1>3, <3>1 DEF TypeOK
    <3>3. Loading'
        BY <1>1, <1>2, <1>5, <3>1 DEF Loading
    <3>4. last # NoMoves \/ Pieces = {}
        BY <2>9
    <3>5. Screen'
        BY <1>1, <1>2, <2>1, <3>1, <3>4 DEF Screen, CanPersist
    <3>6. Fresh' /\ Seen' /\ Rising' /\ Own'
        BY <1>1, <1>2, <3>1 DEF Fresh, Seen, Returns, Rising, Own
    <3> QED BY <1>4, <3>2, <3>3, <3>5, <3>6
  <2>10. CASE last # NoMoves /\ Moved # {} /\ Pieces # {}
    <3> DEFINE new == [x \in Moved |-> pieces[x]]
    <3>1. Moved \subseteq Pieces
        BY <2>3 DEF Moved
    <3>2. new \in Boxes /\ DOMAIN new = Moved /\ \A x \in Moved : new[x] = pieces[x]
      <4>1. new \in [Moved -> Positions]
          BY <2>3, <3>1
      <4> QED BY <3>1, <4>1 DEF Boxes
    <3>3. box' = Merged(box, new) /\ boxEpoch' = IF Empty(box) THEN epoch ELSE boxEpoch
        BY <2>1, <2>7, <2>10
    <3> HIDE DEF new
    <3>4. box \in Boxes /\ DOMAIN box \subseteq Pieces
        BY BoxShape DEF TypeOK
    <3>5. /\ box' \in Boxes /\ DOMAIN box' = DOMAIN box \cup Moved
          /\ \A x \in DOMAIN box \cup Moved : box'[x] = IF x \in Moved THEN pieces[x] ELSE box[x]
        BY <3>2, <3>3, <3>4, MergedShape
    <3>6. /\ last \in Full /\ DOMAIN last = Pieces /\ last' # NoMoves /\ last' \in Full
          /\ \A x \in Pieces : last[x].n \in Nat
        BY <2>1, <2>2, <2>3, <2>10, FullShape DEF TypeOK
    <3>7. \A x \in Pieces : x \notin Moved => last[x] = pieces[x]
        BY <2>3 DEF Moved
    <3>8. boxEpoch' \in Nat /\ boxEpoch <= boxEpoch' /\ boxEpoch' <= epoch /\ boxEpoch' \in 0..epoch
        BY <2>5, <3>3
    <3>9. TypeOK'
        BY <1>1, <1>3, <3>5, <3>6, <3>8 DEF TypeOK
    <3>10. Loading'
        BY <1>1, <1>2, <1>5 DEF Loading
    <3>11. Screen'
        BY <1>1, <1>2, <1>7, <2>1, <2>2, <3>6 DEF Screen, CanPersist
    <3>12. Fresh'
        BY <1>1, <1>2, <2>4, <3>6 DEF Fresh
    <3>13. Seen'
      <4>1. \A x \in DOMAIN last', y \in DOMAIN last' : last'[x].home = last'[y].home
          BY <2>1, <2>3
      <4>2. ASSUME NEW x \in DOMAIN last'
            PROVE  IF x \in DOMAIN box' THEN box'[x] = last'[x]
                   ELSE IF Returns(x)' THEN writing'.moves[x] = last'[x]
                   ELSE db'[last'[x].home][x] = last'[x]
        <5>1. x \in Pieces /\ Returns(x)' = Returns(x)
            BY <1>1, <2>1, <2>3 DEF Returns
        <5>2. CASE x \in Moved
            BY <2>1, <3>5, <5>2
        <5>3. CASE x \notin Moved
          <6>1. last'[x] = last[x]
              BY <2>1, <3>7, <5>1, <5>3
          <6>2. x \in DOMAIN box' <=> x \in DOMAIN box
              BY <3>5, <5>3
          <6>3. x \in DOMAIN box => box'[x] = box[x]
              BY <3>5, <5>3
          <6>4. IF x \in DOMAIN box THEN box[x] = last[x]
                ELSE IF Returns(x) THEN writing.moves[x] = last[x]
                ELSE db[last[x].home][x] = last[x]
              BY <1>1, <3>6, <5>1 DEF Seen
          <6> QED BY <1>1, <5>1, <6>1, <6>2, <6>3, <6>4
        <5> QED BY <5>2, <5>3
      <4> QED BY <1>1, <4>1, <4>2 DEF Seen
    <3>14. Rising'
      <4>1. \A x \in Pieces : last'[x].home = shown.home /\ db[shown.home][x].n <= last'[x].n
                              /\ last'[x].n <= pieces[x].n
          BY <2>1, <2>3, <2>6
      <4>2. ASSUME NEW i \in DOMAIN queue, queue[i].op = "moves"
            PROVE  /\ queue[i].epoch <= boxEpoch'
                   /\ queue[i].epoch = shown.epoch =>
                         \A x \in DOMAIN queue[i].batch.moves :
                            /\ queue[i].batch.moves[x].home = shown.home
                            /\ db[shown.home][x].n <= queue[i].batch.moves[x].n
                            /\ queue[i].batch.moves[x].n <= last'[x].n
        <5>1. queue[i] \in Commands
            BY LineShape
        <5>2. queue[i].epoch \in Nat /\ queue[i].epoch <= boxEpoch /\ queue[i].batch.moves \in Boxes
            BY <4>2, <5>1, CommandShape DEF Rising
        <5>3. queue[i].epoch <= boxEpoch'
            BY <2>5, <3>8, <5>2
        <5>4. ASSUME queue[i].epoch = shown.epoch, NEW x \in DOMAIN queue[i].batch.moves
              PROVE  /\ queue[i].batch.moves[x].home = shown.home
                     /\ db[shown.home][x].n <= queue[i].batch.moves[x].n
                     /\ queue[i].batch.moves[x].n <= last'[x].n
          <6>1. x \in Pieces /\ queue[i].batch.moves[x].n \in Nat
              BY <5>2, <5>4, BoxShape
          <6>2. boxEpoch = shown.epoch
              BY <2>2, <2>5, <5>2, <5>4
          <6>3. last[x].n <= pieces[x].n
              BY <2>2, <3>6, <6>1, <6>2 DEF Rising
          <6>4. /\ queue[i].batch.moves[x].home = shown.home
                /\ db[shown.home][x].n <= queue[i].batch.moves[x].n
                /\ queue[i].batch.moves[x].n <= last[x].n
              BY <2>2, <4>2, <5>4 DEF Rising
          <6> QED BY <2>1, <2>3, <3>6, <6>1, <6>3, <6>4
        <5> QED BY <5>3, <5>4
      <4>3. DOMAIN last' = Pieces
          BY <2>1, <2>3
      <4> QED BY <1>1, <4>1, <4>2, <4>3 DEF Rising
    <3> QED BY <1>1, <1>4, <3>9, <3>10, <3>11, <3>12, <3>13, <3>14 DEF Own
  <2> QED BY <2>8, <2>9, <2>10
<1> QED BY <1>6, <1>7

-----------------------------------------------------------------------------
(* Answers *)

LEMMA Shifted ==
    ASSUME TypeOK, answers # <<>>, answers' = Tail(answers),
           NEW t \in Seq(Commands), queue' = queue \o t
    PROVE  /\ Len(Line) \in Nat \ {0} /\ DOMAIN Line = 1..Len(Line) /\ 1 \in DOMAIN Line
           /\ Line[1] = Head(answers) /\ Head(answers) \in Replies
           /\ 1 \in DOMAIN answers /\ answers[1] = Head(answers)
           /\ DOMAIN Line' = 1..Len(Line) - 1 + Len(t)
           /\ \A i \in 1..Len(Line) - 1 : Line'[i] = Line[i + 1]
           /\ \A i \in 1..Len(t) : Line'[Len(Line) - 1 + i] = t[i]
           /\ queue' \in Seq(Commands) /\ answers' \in Seq(Replies)
           /\ \A i \in DOMAIN answers' : answers'[i] = answers[i + 1] /\ i + 1 \in DOMAIN answers
           /\ \A i \in DOMAIN queue' : \/ i \in DOMAIN queue /\ queue'[i] = queue[i]
                                       \/ \E j \in 1..Len(t) : queue'[i] = t[j]
<1>1. /\ answers \in Seq(Entries) /\ queue \in Seq(Entries) /\ t \in Seq(Entries)
      /\ queue' \in Seq(Commands) /\ answers' \in Seq(Replies)
    BY LineShape DEF TypeOK, Entries
<1>2. Line = answers \o queue /\ Line' = Tail(answers) \o (queue \o t)
    BY DEF Line
<1>3. Shifts(answers \o queue, Tail(answers) \o (queue \o t), t) /\ (answers \o queue)[1] = Head(answers)
    BY <1>1, HeardAndCalled
<1>4. \A i \in DOMAIN answers' : answers'[i] = answers[i + 1] /\ i + 1 \in DOMAIN answers
    BY <1>1, HeardAndCalled
<1>5. /\ DOMAIN queue' = 1..Len(queue) + Len(t) /\ DOMAIN queue = 1..Len(queue)
      /\ \A i \in DOMAIN queue : queue'[i] = queue[i]
      /\ \A i \in 1..Len(t) : queue'[Len(queue) + i] = t[i]
  <2>1. Lengthens(queue, queue \o t, t)
      BY <1>1, Called
  <2> QED BY <2>1 DEF Lengthens
<1>6. ASSUME NEW i \in DOMAIN queue', i \notin DOMAIN queue
      PROVE  \E j \in 1..Len(t) : queue'[i] = t[j]
  <2>1. Len(queue) \in Nat /\ Len(t) \in Nat
      BY <1>1
  <2>2. i - Len(queue) \in 1..Len(t) /\ Len(queue) + (i - Len(queue)) = i
      BY <1>5, <1>6, <2>1
  <2>3. queue'[Len(queue) + (i - Len(queue))] = t[i - Len(queue)]
      BY <1>5, <2>2
  <2> QED BY <2>2, <2>3
<1>7. 1 \in DOMAIN answers /\ answers[1] = Head(answers) /\ Head(answers) \in Replies
    BY LineShape
<1>8. Shifts(Line, Line', t) /\ Line[1] = Head(answers)
    BY <1>2, <1>3
<1>9. 1 \in DOMAIN Line
    BY <1>8 DEF Shifts
<1> QED BY <1>1, <1>4, <1>5, <1>6, <1>7, <1>8, <1>9 DEF Shifts

(* An answer is heard and nothing is called. *)
LEMMA Heard ==
    ASSUME TypeOK, answers # <<>>, answers' = Tail(answers), queue' = queue
    PROVE  /\ 1 \in DOMAIN Line /\ Line[1] = Head(answers) /\ Head(answers) \in Replies
           /\ 1 \in DOMAIN answers /\ answers[1] = Head(answers)
           /\ \A i \in DOMAIN Line' : i \in Nat \ {0} /\ i + 1 \in DOMAIN Line /\ Line'[i] = Line[i + 1]
           /\ \A i \in DOMAIN Line : i \in Nat \ {0} /\
                 (i # 1 => i - 1 \in DOMAIN Line' /\ Line'[i - 1] = Line[i])
           /\ answers' \in Seq(Replies)
           /\ \A i \in DOMAIN answers' : answers'[i] = answers[i + 1] /\ i + 1 \in DOMAIN answers
<1>1. <<>> \in Seq(Commands) /\ Len(<<>>) = 0
    OBVIOUS
<1>2. queue' = queue \o <<>>
    BY ConcatEmptySeq DEF TypeOK
<1>3. /\ Len(Line) \in Nat \ {0} /\ DOMAIN Line = 1..Len(Line) /\ 1 \in DOMAIN Line
      /\ Line[1] = Head(answers) /\ Head(answers) \in Replies
      /\ 1 \in DOMAIN answers /\ answers[1] = Head(answers)
      /\ DOMAIN Line' = 1..Len(Line) - 1 + Len(<<>>)
      /\ \A i \in 1..Len(Line) - 1 : Line'[i] = Line[i + 1]
      /\ answers' \in Seq(Replies)
      /\ \A i \in DOMAIN answers' : answers'[i] = answers[i + 1] /\ i + 1 \in DOMAIN answers
    BY <1>1, <1>2, Shifted
<1>4. DOMAIN Line' = 1..Len(Line) - 1
    BY <1>1, <1>3
<1>5. ASSUME NEW i \in DOMAIN Line'
      PROVE  i \in Nat \ {0} /\ i + 1 \in DOMAIN Line /\ Line'[i] = Line[i + 1]
    BY <1>3, <1>4
<1>6. ASSUME NEW i \in DOMAIN Line, i # 1
      PROVE  i - 1 \in DOMAIN Line' /\ Line'[i - 1] = Line[i]
  <2>1. i - 1 \in 1..Len(Line) - 1 /\ (i - 1) + 1 = i
      BY <1>3, <1>6
  <2>2. Line'[i - 1] = Line[(i - 1) + 1]
      BY <1>3, <2>1
  <2> QED BY <1>4, <2>1, <2>2
<1>7. \A i \in DOMAIN Line : i \in Nat \ {0}
    BY <1>3
<1> QED BY <1>3, <1>5, <1>6, <1>7

(* An answer is heard and a command is called. *)
LEMMA HeardCalling ==
    ASSUME TypeOK, answers # <<>>, answers' = Tail(answers), NEW c \in Commands,
           queue' = Append(queue, c) \/ queue' = queue \o <<c>>
    PROVE  /\ 1 \in DOMAIN Line /\ Line[1] = Head(answers) /\ Head(answers) \in Replies
           /\ 1 \in DOMAIN answers /\ answers[1] = Head(answers)
           /\ Len(Line) \in Nat /\ Len(Line) \in DOMAIN Line' /\ Line'[Len(Line)] = c
           /\ \A i \in DOMAIN Line' :
                 /\ i \in Nat \ {0}
                 /\ \/ i < Len(Line) /\ i + 1 \in DOMAIN Line /\ Line'[i] = Line[i + 1]
                    \/ i = Len(Line) /\ Line'[i] = c
           /\ \A i \in DOMAIN Line : i \in Nat \ {0} /\
                 (i # 1 => i - 1 \in DOMAIN Line' /\ Line'[i - 1] = Line[i])
           /\ answers' \in Seq(Replies) /\ queue' \in Seq(Commands)
           /\ \A i \in DOMAIN answers' : answers'[i] = answers[i + 1] /\ i + 1 \in DOMAIN answers
           /\ \A i \in DOMAIN queue' : (i \in DOMAIN queue /\ queue'[i] = queue[i]) \/ queue'[i] = c
<1> DEFINE t == <<c>>
<1>1. t \in Seq(Commands) /\ Len(t) = 1 /\ t[1] = c
    OBVIOUS
<1>2. queue \in Seq(Commands)
    BY DEF TypeOK
<1>3. queue' = queue \o t
  <2>1. queue \in Seq(Commands) /\ Append(queue, c) = queue \o <<c>>
      BY <1>2, AppendIsConcat
  <2> QED BY <2>1
<1> HIDE DEF t
<1>4. /\ Len(Line) \in Nat \ {0} /\ DOMAIN Line = 1..Len(Line) /\ 1 \in DOMAIN Line
      /\ Line[1] = Head(answers) /\ Head(answers) \in Replies
      /\ 1 \in DOMAIN answers /\ answers[1] = Head(answers)
      /\ DOMAIN Line' = 1..Len(Line) - 1 + Len(t)
      /\ \A i \in 1..Len(Line) - 1 : Line'[i] = Line[i + 1]
      /\ \A i \in 1..Len(t) : Line'[Len(Line) - 1 + i] = t[i]
      /\ queue' \in Seq(Commands) /\ answers' \in Seq(Replies)
      /\ \A i \in DOMAIN answers' : answers'[i] = answers[i + 1] /\ i + 1 \in DOMAIN answers
      /\ \A i \in DOMAIN queue' : \/ i \in DOMAIN queue /\ queue'[i] = queue[i]
                                  \/ \E j \in 1..Len(t) : queue'[i] = t[j]
    BY <1>1, <1>3, Shifted
<1>5. DOMAIN Line' = 1..Len(Line) /\ Len(Line) \in DOMAIN Line'
    BY <1>1, <1>4
<1>6. Line'[Len(Line)] = c
  <2>1. 1 \in 1..Len(t) /\ Len(Line) - 1 + 1 = Len(Line)
      BY <1>1, <1>4
  <2>2. Line'[Len(Line) - 1 + 1] = t[1]
      BY <1>4, <2>1
  <2> QED BY <1>1, <2>1, <2>2
<1>7. ASSUME NEW i \in DOMAIN Line'
      PROVE  /\ i \in Nat \ {0}
             /\ \/ i < Len(Line) /\ i + 1 \in DOMAIN Line /\ Line'[i] = Line[i + 1]
                \/ i = Len(Line) /\ Line'[i] = c
    BY <1>4, <1>5, <1>6
<1>8. ASSUME NEW i \in DOMAIN Line, i # 1
      PROVE  i - 1 \in DOMAIN Line' /\ Line'[i - 1] = Line[i]
  <2>1. i - 1 \in 1..Len(Line) - 1 /\ (i - 1) + 1 = i
      BY <1>4, <1>8
  <2>2. Line'[i - 1] = Line[(i - 1) + 1]
      BY <1>4, <2>1
  <2>3. i - 1 \in DOMAIN Line'
      BY <1>4, <1>5, <2>1
  <2> QED BY <2>1, <2>2, <2>3
<1>9. /\ \A i \in DOMAIN Line : i \in Nat \ {0}
      /\ \A i \in DOMAIN queue' : (i \in DOMAIN queue /\ queue'[i] = queue[i]) \/ queue'[i] = c
    BY <1>1, <1>4
<1> QED BY <1>4, <1>5, <1>6, <1>7, <1>8, <1>9

LEMMA HeardOrder ==
    ASSUME IInv, answers # <<>>, answers' = Tail(answers), queue' = queue,
           writing' = IF Head(answers).op = "moves" THEN None ELSE writing,
           Head(answers).op \notin {"close", "open"} => switching' = switching
    PROVE  /\ Orderly'
           /\ Head(answers).op = "open" => \A i \in DOMAIN Line' : Line'[i].op # "read"
           /\ Head(answers).op = "read" => \A i \in DOMAIN Line' : Line'[i].op # "read"
<1> USE DEF IInv
<1>1. /\ 1 \in DOMAIN Line /\ Line[1] = Head(answers)
      /\ \A i \in DOMAIN Line' : i \in Nat \ {0} /\ i + 1 \in DOMAIN Line /\ Line'[i] = Line[i + 1]
      /\ \A i \in DOMAIN Line : i \in Nat \ {0} /\
            (i # 1 => i - 1 \in DOMAIN Line' /\ Line'[i - 1] = Line[i])
    BY Heard
<1>2. ASSUME NEW i \in DOMAIN Line'
      PROVE  i \in Nat /\ i + 1 \in DOMAIN Line /\ Line'[i] = Line[i + 1] /\ i + 1 # 1
    BY <1>1
<1>3. \A i \in DOMAIN Line' : Line'[i].op = "moves" => writing' # None /\ Line'[i].batch = writing'
    BY <1>1, <1>2 DEF Orderly
<1>4. writing' # None => \E i \in DOMAIN Line' : Line'[i].op = "moves"
  <2> SUFFICES ASSUME writing' # None  PROVE \E i \in DOMAIN Line' : Line'[i].op = "moves"
      OBVIOUS
  <2>1. writing # None /\ Head(answers).op # "moves"
      OBVIOUS
  <2>2. PICK i \in DOMAIN Line : Line[i].op = "moves"
      BY <2>1 DEF Orderly
  <2>3. i # 1
      BY <1>1, <2>1, <2>2
  <2> QED BY <1>1, <2>2, <2>3
<1>5. ASSUME NEW i \in DOMAIN Line', NEW j \in DOMAIN Line'
      PROVE  /\ Line'[i].op = "moves" /\ Line'[j].op = "moves" => i = j
             /\ Line'[i].op = "read" /\ Line'[j].op = "read" => i = j
             /\ Line'[i].op \in {"close", "open"} /\ Line'[j].op \in {"close", "open"} => i = j
             /\ Line'[i].op = "open" /\ Line'[j].op = "read" => j < i
  <2>1. /\ i + 1 \in DOMAIN Line /\ Line'[i] = Line[i + 1] /\ i \in Nat
        /\ j + 1 \in DOMAIN Line /\ Line'[j] = Line[j + 1] /\ j \in Nat
      BY <1>2
  <2>2. /\ Line'[i].op = "moves" /\ Line'[j].op = "moves" => i + 1 = j + 1
        /\ Line'[i].op = "read" /\ Line'[j].op = "read" => i + 1 = j + 1
        /\ Line'[i].op \in {"close", "open"} /\ Line'[j].op \in {"close", "open"} => i + 1 = j + 1
        /\ Line'[i].op = "open" /\ Line'[j].op = "read" => j + 1 < i + 1
      BY <2>1 DEF Orderly
  <2> QED BY <2>1, <2>2
<1>6. ASSUME NEW i \in DOMAIN Line', Line'[i].op \in {"close", "open"}
      PROVE  /\ switching' = switching
             /\ Line'[i].op = "close" => switching # None /\ switching.stage = "closing"
             /\ Line'[i].op = "open" => switching # None /\ switching.stage = "opening"
  <2>1. i + 1 \in DOMAIN Line /\ Line'[i] = Line[i + 1] /\ i + 1 # 1
      BY <1>2
  <2>2. Head(answers).op \notin {"close", "open"}
      BY <1>1, <1>6, <2>1 DEF Orderly
  <2> QED BY <1>6, <2>1, <2>2 DEF Orderly
<1>7. Orderly'
    BY <1>3, <1>4, <1>5, <1>6 DEF Orderly
<1>8. ASSUME Head(answers).op = "open", NEW i \in DOMAIN Line'  PROVE Line'[i].op # "read"
  <2>1. i + 1 \in DOMAIN Line /\ Line'[i] = Line[i + 1] /\ ~(i + 1 < 1)
      BY <1>2
  <2> QED BY <1>1, <1>8, <2>1 DEF Orderly
<1>9. ASSUME Head(answers).op = "read", NEW i \in DOMAIN Line'  PROVE Line'[i].op # "read"
  <2>1. i + 1 \in DOMAIN Line /\ Line'[i] = Line[i + 1] /\ i + 1 # 1
      BY <1>2
  <2> QED BY <1>1, <1>9, <2>1 DEF Orderly
<1> QED BY <1>7, <1>8, <1>9

(* Unless it is the batch that was heard, what waits for it still does. *)
LEMMA HeardWaits ==
    ASSUME IInv, answers # <<>>, answers' = Tail(answers), queue' = queue,
           Head(answers).op # "moves", chained, ~gone, shown # None
    PROVE  \A i \in DOMAIN Line' : Line'[i].op = "read" =>
              \E j \in DOMAIN Line' : j < i /\ Line'[j].op = "moves"
<1> USE DEF IInv
<1>1. /\ 1 \in DOMAIN Line /\ Line[1] = Head(answers)
      /\ \A i \in DOMAIN Line' : i \in Nat \ {0} /\ i + 1 \in DOMAIN Line /\ Line'[i] = Line[i + 1]
      /\ \A i \in DOMAIN Line : i \in Nat \ {0} /\
            (i # 1 => i - 1 \in DOMAIN Line' /\ Line'[i - 1] = Line[i])
    BY Heard
<1> SUFFICES ASSUME NEW i \in DOMAIN Line', Line'[i].op = "read"
             PROVE  \E j \in DOMAIN Line' : j < i /\ Line'[j].op = "moves"
    OBVIOUS
<1>2. i + 1 \in DOMAIN Line /\ Line[i + 1].op = "read" /\ i \in Nat
    BY <1>1
<1>3. PICK j \in DOMAIN Line : j < i + 1 /\ Line[j].op = "moves"
    BY <1>2 DEF Fresh
<1>4. j # 1 /\ j \in Nat
    BY <1>1, <1>3
<1>5. j - 1 \in DOMAIN Line' /\ Line'[j - 1].op = "moves"
    BY <1>1, <1>3, <1>4
<1>6. j - 1 < i
    BY <1>2, <1>3, <1>4
<1> QED BY <1>5, <1>6

LEMMA HearOpenKeeps == ASSUME Prompt, IInv, HearOpen  PROVE IInv'
<1> USE DEF IInv
<1> DEFINE a == Head(answers)
<1>1. /\ ~gone /\ answers # <<>> /\ a.op = "open" /\ answers' = Tail(answers)
      /\ ~due /\ switching' = None
      /\ epoch' = IF a.load = None THEN epoch ELSE a.load.epoch
      /\ incoming' = [load |-> a.load, at |-> a.at]
      /\ UNCHANGED <<workspace, opens, db, queue, shown, loaded, pieces, due, moves,
                     last, box, boxEpoch, timer, retry, writing, chained, gone>>
    BY DEF HearOpen, Hear, rustVars, screenVars, boxVars
<1>2. /\ 1 \in DOMAIN Line /\ Line[1] = a /\ a \in Replies
      /\ 1 \in DOMAIN answers /\ answers[1] = a
      /\ answers' \in Seq(Replies)
      /\ \A i \in DOMAIN answers' : answers'[i] = answers[i + 1] /\ i + 1 \in DOMAIN answers
    BY <1>1, Heard
<1>3. a.load \in Loads \cup {None} /\ a.at \in Boxes
    BY <1>1, <1>2, ReplyShape
<1>4. /\ workspace = a.load /\ switching # None /\ switching.stage = "opening" /\ incoming = None
      /\ a.load # None => a.at = db[a.load.home] /\ a.load.epoch > epoch /\ a.load.epoch <= opens
      /\ a.load = None => a.at = NoMoves
    BY <1>1, <1>2 DEF Aligned, Loading, Orderly
<1> HIDE DEF a
<1>5. incoming' \in Arrivals /\ incoming' # None /\ incoming'.load = a.load /\ incoming'.at = a.at
    BY <1>1, <1>3, NoneApart DEF Arrivals
<1>6. a.load # None => a.load.epoch \in Nat
    BY <1>3, LoadShape
<1>7. opens \in Nat /\ epoch \in Nat /\ boxEpoch \in Nat /\ boxEpoch <= epoch /\ epoch <= opens
    BY OutboxAssumption DEF TypeOK
<1>8. /\ epoch' \in 0..opens /\ boxEpoch \in 0..epoch' /\ epoch <= epoch' /\ epoch' \in Nat
      /\ a.load # None => boxEpoch < epoch'
    BY <1>1, <1>4, <1>6, <1>7
<1>9. TypeOK'
    BY <1>1, <1>2, <1>5, <1>8 DEF TypeOK
<1>10. Orderly' /\ \A i \in DOMAIN Line' : Line'[i].op # "read"
    BY <1>1, HeardOrder DEF a
<1>11. Aligned'
  <2>1. \A i \in DOMAIN answers' : answers'[i].op # "open"
    <3> SUFFICES ASSUME NEW i \in DOMAIN answers', answers'[i].op = "open"  PROVE FALSE
        OBVIOUS
    <3>1. i + 1 \in DOMAIN Line /\ Line[i + 1].op = "open"
        BY <1>2, LineShape
    <3>2. i \in Nat \ {0}
        BY <1>2
    <3>3. i + 1 # 1
        BY <3>2
    <3> QED BY <1>1, <1>2, <3>1, <3>3 DEF Orderly
  <2> QED BY <1>1, <1>2, <1>4, <1>5, <2>1 DEF Aligned
<1>12. Loading'
  <2>1. \A i \in DOMAIN answers' : answers'[i].op = "open" =>
            answers'[i].at = IF answers'[i].load = None THEN NoMoves ELSE db[answers'[i].load.home]
      BY <1>2 DEF Loading
  <2>2. shown # None => shown.epoch <= epoch'
    <3> SUFFICES ASSUME shown # None  PROVE shown.epoch <= epoch'
        OBVIOUS
    <3>1. shown.epoch \in Nat /\ shown.epoch <= epoch
        BY LoadShape DEF Loading, TypeOK
    <3> QED BY <1>7, <1>8, <3>1
  <2>3. shown # None /\ (incoming' # None => incoming'.load = None) => epoch' = shown.epoch
      BY <1>1, <1>4, <1>5 DEF Loading
  <2> QED BY <1>1, <1>4, <1>5, <1>8, <1>10, <2>1, <2>2, <2>3 DEF Loading
<1>13. Screen'
    BY <1>1, <1>10 DEF Screen, CanPersist
<1>14. Fresh'
    BY <1>1, <1>10 DEF Fresh
<1>15. Seen' /\ Rising' /\ Own'
    BY <1>1, <1>2 DEF Seen, Returns, Rising, Own
<1> QED BY <1>9, <1>10, <1>11, <1>12, <1>13, <1>14, <1>15

LEMMA HearReadKeeps == ASSUME IInv, HearRead  PROVE IInv'
<1> USE DEF IInv
<1> DEFINE a == Head(answers)
<1>1. /\ ~gone /\ answers # <<>> /\ a.op = "read" /\ answers' = Tail(answers)
      /\ IF shown # None /\ a.epoch = shown.epoch
         THEN loaded' = TRUE /\ pieces' = a.at /\ due' = TRUE
         ELSE UNCHANGED <<loaded, pieces, due>>
      /\ UNCHANGED <<workspace, opens, db, queue, epoch, switching, incoming, shown, moves,
                     last, box, boxEpoch, timer, retry, writing, chained, gone>>
    BY DEF HearRead, Hear, rustVars, switchVars, boxVars
<1>2. /\ 1 \in DOMAIN Line /\ Line[1] = a /\ a \in Replies
      /\ answers' \in Seq(Replies)
      /\ \A i \in DOMAIN answers' : answers'[i] = answers[i + 1] /\ i + 1 \in DOMAIN answers
    BY <1>1, Heard
<1>3. a.at \in Full
    BY <1>1, <1>2, ReplyShape
<1>4. Orderly' /\ \A i \in DOMAIN Line' : Line'[i].op # "read"
    BY <1>1, HeardOrder
<1>5. Aligned'
    BY <1>1, <1>2 DEF Aligned
<1>6. Seen' /\ Own'
    BY <1>1, <1>2 DEF Seen, Returns, Own
<1> HIDE DEF a
<1>7. CASE ~(shown # None /\ a.epoch = shown.epoch)
  <2>1. UNCHANGED <<loaded, pieces, due>>
      BY <1>1, <1>7
  <2>2. TypeOK'
      BY <1>1, <1>2, <2>1 DEF TypeOK
  <2>3. Loading' /\ Screen'
      BY <1>1, <1>2, <1>4, <2>1 DEF Loading, Screen, CanPersist
  <2>4. Fresh' /\ Rising'
      BY <1>1, <1>4, <2>1 DEF Fresh, Rising
  <2> QED BY <1>4, <1>5, <1>6, <2>2, <2>3, <2>4
<1>8. CASE shown # None /\ a.epoch = shown.epoch
  <2>1. loaded' = TRUE /\ pieces' = a.at /\ due' = TRUE
      BY <1>1, <1>8
  <2>2. ~loaded /\ boxEpoch < shown.epoch /\ a.at = db[shown.home]
      BY <1>1, <1>2, <1>8 DEF Screen
  <2>3. pieces' \in Boxes /\ pieces' \in Full
      BY <1>3, <2>1, FullShape
  <2>4. TypeOK'
      BY <1>1, <1>2, <2>1, <2>3 DEF TypeOK
  <2>5. incoming # None => incoming.load = None
      BY <1>1, <1>2 DEF Loading
  <2>6. Loading'
      BY <1>1, <1>2, <1>4, <2>5 DEF Loading
  <2>7. shown.home \in Projects /\ shown.epoch \in Nat /\ boxEpoch \in Nat
      BY <1>8, LoadShape DEF TypeOK
  <2>8. Screen'
    <3>1. \A x \in Pieces : /\ pieces'[x].home = shown.home /\ pieces'[x].n <= moves
                            /\ db[shown.home][x].n <= pieces'[x].n
      <4> TAKE x \in Pieces
      <4>1. db[shown.home][x].n \in Nat /\ db[shown.home][x].home = shown.home
            /\ db[shown.home][x].n <= moves
          BY <2>7, FullShape DEF Own, Screen, TypeOK
      <4> QED BY <2>1, <2>2, <4>1
    <3> QED BY <1>1, <1>4, <1>8, <2>1, <2>2, <2>3, <3>1 DEF Screen, CanPersist
  <2>9. ~chained
    <3> SUFFICES ASSUME chained  PROVE FALSE
        OBVIOUS
    <3>1. PICK j \in DOMAIN Line : j < 1 /\ Line[j].op = "moves"
        BY <1>1, <1>2, <1>8 DEF Fresh
    <3> QED BY <3>1, LineShape
  <2>10. Fresh'
      BY <1>1, <2>9 DEF Fresh
  <2>11. boxEpoch # shown.epoch
      BY <2>2, <2>7
  <2>12. Rising'
      BY <1>1, <2>11 DEF Rising
  <2> QED BY <1>4, <1>5, <1>6, <2>4, <2>6, <2>8, <2>10, <2>12
<1> QED BY <1>7, <1>8

LEMMA HearCloseKeeps == ASSUME IInv, HearClose  PROVE IInv'
<1> USE DEF IInv
<1>1. /\ ~gone /\ answers # <<>> /\ Head(answers).op = "close" /\ answers' = Tail(answers)
      /\ UNCHANGED <<workspace, opens, db, epoch, shown, loaded, pieces, due, moves,
                     last, box, boxEpoch, timer, retry, writing, chained, gone>>
    BY DEF HearClose, Hear, rustVars, screenVars, boxVars
<1>2. /\ 1 \in DOMAIN answers /\ answers[1] = Head(answers)
      /\ 1 \in DOMAIN Line /\ Line[1] = Head(answers)
    BY <1>1, LineShape
<1>3. /\ switching \in Switches /\ switching.to \in Projects \cup {None}
      /\ switching.stage = "closing" /\ switching # None
      /\ workspace = None /\ shown # None /\ incoming = None /\ epoch = shown.epoch
  <2>1. switching # None /\ switching.stage = "closing" /\ workspace = None
      BY <1>1, <1>2 DEF Orderly, Aligned
  <2>2. switching \in Switches /\ switching.to \in Projects \cup {None}
      BY <2>1 DEF TypeOK, Switches
  <2>3. shown # None /\ incoming = None
      BY <2>1 DEF Aligned
  <2> QED BY <2>1, <2>2, <2>3 DEF Loading
<1>4. Seen' /\ Own'
  <2>1. \A i \in DOMAIN answers' : answers'[i] = answers[i + 1] /\ i + 1 \in DOMAIN answers
      BY <1>1, HeardAndCalled, LineShape, EmptySeq
  <2> QED BY <1>1, <2>1 DEF Seen, Returns, Own
<1>5. CASE switching.to = None
  <2>1. /\ incoming' = [load |-> None, at |-> NoMoves] /\ switching' = None /\ queue' = queue
      BY <1>5 DEF HearClose
  <2>2. /\ answers' \in Seq(Replies)
        /\ \A i \in DOMAIN Line' : i \in Nat \ {0} /\ i + 1 \in DOMAIN Line /\ Line'[i] = Line[i + 1]
        /\ \A i \in DOMAIN answers' : answers'[i] = answers[i + 1] /\ i + 1 \in DOMAIN answers
      BY <1>1, <2>1, Heard
  <2>3. incoming' \in Arrivals /\ incoming' # None /\ incoming'.load = None /\ incoming'.at = NoMoves
      BY <2>1, NothingIsABox, NoneApart DEF Arrivals
  <2>4. TypeOK'
      BY <1>1, <2>1, <2>2, <2>3 DEF TypeOK
  <2>5. Orderly'
      BY <1>1, <2>1, HeardOrder
  <2>6. Aligned'
      BY <1>1, <1>3, <2>1, <2>2, <2>3 DEF Aligned
  <2>7. Loading'
      BY <1>1, <1>3, <2>2, <2>3 DEF Loading
  <2>8. Screen'
      BY <1>1, <2>2 DEF Screen, CanPersist
  <2>9. Fresh'
    <3>1. chained /\ ~gone /\ shown # None =>
              \A i \in DOMAIN Line' : Line'[i].op = "read" =>
                 \E j \in DOMAIN Line' : j < i /\ Line'[j].op = "moves"
        BY <1>1, <2>1, HeardWaits
    <3> QED BY <1>1, <2>1, <3>1 DEF Fresh
  <2>10. Rising'
      BY <1>1, <2>1 DEF Rising
  <2> QED BY <1>4, <2>4, <2>5, <2>6, <2>7, <2>8, <2>9, <2>10
<1>6. CASE switching.to # None
  <2> DEFINE c == [op |-> "open", home |-> switching.to]
  <2>1. /\ queue' = Append(queue, c) /\ incoming' = None
        /\ switching' = [switching EXCEPT !.stage = "opening"]
      BY <1>3, <1>6 DEF HearClose, Call
  <2>2. c \in Commands /\ c.op = "open"
      BY <1>3, <1>6 DEF Commands, Calls
  <2> HIDE DEF c
  <2>3. switching' \in Switches /\ switching' # None /\ switching'.stage = "opening"
    <3>1. switching' \in Switches /\ switching'.stage = "opening"
        BY <1>3, <2>1 DEF Switches
    <3> QED BY <3>1, NoneApart
  <2>4. /\ answers' \in Seq(Replies) /\ queue' \in Seq(Commands)
        /\ Len(Line) \in Nat /\ Len(Line) \in DOMAIN Line' /\ Line'[Len(Line)] = c
        /\ \A i \in DOMAIN Line' :
              /\ i \in Nat \ {0}
              /\ \/ i < Len(Line) /\ i + 1 \in DOMAIN Line /\ Line'[i] = Line[i + 1]
                 \/ i = Len(Line) /\ Line'[i] = c
        /\ \A i \in DOMAIN Line : i \in Nat \ {0} /\
              (i # 1 => i - 1 \in DOMAIN Line' /\ Line'[i - 1] = Line[i])
        /\ \A i \in DOMAIN answers' : answers'[i] = answers[i + 1] /\ i + 1 \in DOMAIN answers
        /\ \A i \in DOMAIN queue' : (i \in DOMAIN queue /\ queue'[i] = queue[i]) \/ queue'[i] = c
      BY <1>1, <2>1, <2>2, HeardCalling
  <2>5. TypeOK'
      BY <1>1, <2>1, <2>3, <2>4 DEF TypeOK
  <2>6. \A i \in DOMAIN Line' : Line'[i].op \in {"read", "moves"} =>
            i \in Nat /\ i < Len(Line) /\ i + 1 \in DOMAIN Line /\ Line'[i] = Line[i + 1]
      BY <2>2, <2>4
  <2>7. \A i \in DOMAIN Line' : Line'[i].op \in {"close", "open"} => i = Len(Line) /\ Line'[i] = c
    <3> SUFFICES ASSUME NEW i \in DOMAIN Line', Line'[i].op \in {"close", "open"}, i # Len(Line)
                 PROVE  FALSE
        BY <2>4
    <3>1. i \in Nat \ {0} /\ i + 1 \in DOMAIN Line /\ Line'[i] = Line[i + 1]
        BY <2>4
    <3>2. i + 1 # 1
        BY <3>1
    <3> QED BY <1>1, <1>2, <3>1, <3>2 DEF Orderly
  <2>8. Orderly'
    <3>1. ASSUME NEW i \in DOMAIN Line', NEW j \in DOMAIN Line'
          PROVE  /\ Line'[i].op = "moves" /\ Line'[j].op = "moves" => i = j
                 /\ Line'[i].op = "read" /\ Line'[j].op = "read" => i = j
      <4>1. /\ Line'[i].op = "moves" /\ Line'[j].op = "moves" => i + 1 = j + 1
            /\ Line'[i].op = "read" /\ Line'[j].op = "read" => i + 1 = j + 1
          BY <2>6 DEF Orderly
      <4> QED BY <2>4, <4>1
    <3>2. ASSUME NEW i \in DOMAIN Line', NEW j \in DOMAIN Line',
                 Line'[i].op = "open", Line'[j].op = "read"
          PROVE  j < i
        BY <2>6, <2>7, <3>2
    <3>3. \A i \in DOMAIN Line' : Line'[i].op = "moves" => writing # None /\ Line'[i].batch = writing
        BY <2>6 DEF Orderly
    <3>4. writing # None => \E i \in DOMAIN Line' : Line'[i].op = "moves"
      <4> SUFFICES ASSUME writing # None  PROVE \E i \in DOMAIN Line' : Line'[i].op = "moves"
          OBVIOUS
      <4>1. PICK i \in DOMAIN Line : Line[i].op = "moves"
          BY DEF Orderly
      <4>2. i # 1
          BY <1>1, <1>2, <4>1
      <4> QED BY <2>4, <4>1, <4>2
    <3>5. \A i \in DOMAIN Line', j \in DOMAIN Line' :
              Line'[i].op \in {"close", "open"} /\ Line'[j].op \in {"close", "open"} => i = j
        BY <2>7
    <3>6. \A i \in DOMAIN Line' : Line'[i].op # "close"
        BY <2>2, <2>7
    <3> QED BY <1>1, <2>3, <3>1, <3>2, <3>3, <3>4, <3>5, <3>6 DEF Orderly
  <2>9. Aligned'
      BY <1>1, <1>3, <2>1, <2>3, <2>4 DEF Aligned
  <2>10. Loading'
      BY <1>1, <1>3, <2>1, <2>4 DEF Loading
  <2>11. Screen'
      BY <1>1, <2>6 DEF Screen, CanPersist
  <2>12. Fresh'
    <3>1. chained =>
              \A i \in DOMAIN Line' : Line'[i].op = "read" =>
                 \E j \in DOMAIN Line' : j < i /\ Line'[j].op = "moves"
      <4> SUFFICES ASSUME chained, NEW i \in DOMAIN Line', Line'[i].op = "read"
                   PROVE  \E j \in DOMAIN Line' : j < i /\ Line'[j].op = "moves"
          OBVIOUS
      <4>1. i + 1 \in DOMAIN Line /\ Line[i + 1].op = "read" /\ i \in Nat
          BY <2>6
      <4>2. PICK j \in DOMAIN Line : j < i + 1 /\ Line[j].op = "moves"
          BY <1>1, <1>3, <4>1 DEF Fresh
      <4>3. j # 1 /\ j \in Nat
          BY <1>1, <1>2, <2>4, <4>2
      <4>4. j - 1 \in DOMAIN Line' /\ Line'[j - 1].op = "moves"
          BY <2>4, <4>2, <4>3
      <4>5. j - 1 < i
          BY <4>1, <4>2, <4>3
      <4> QED BY <4>4, <4>5
    <3>2. \A i \in DOMAIN queue' : queue'[i].op = "moves" => i \in DOMAIN queue /\ queue'[i] = queue[i]
        BY <2>2, <2>4
    <3> QED BY <1>1, <3>1, <3>2 DEF Fresh
  <2>13. Rising'
    <3>1. \A i \in DOMAIN queue' : queue'[i].op = "moves" => i \in DOMAIN queue /\ queue'[i] = queue[i]
        BY <2>2, <2>4
    <3> QED BY <1>1, <3>1 DEF Rising
  <2> QED BY <1>4, <2>5, <2>8, <2>9, <2>10, <2>11, <2>12, <2>13
<1> QED BY <1>5, <1>6

LEMMA HearMovesKeeps == ASSUME IInv, HearMoves  PROVE IInv'
<1> USE DEF IInv
<1> DEFINE a == Head(answers)
           rest == IF a.ok \/ a.batch.final THEN box ELSE Merged(a.batch.moves, box)
<1>1. /\ ~gone /\ answers # <<>> /\ a.op = "moves" /\ answers' = Tail(answers)
      /\ UNCHANGED <<workspace, opens, db, epoch, switching, incoming, shown, loaded, pieces, due,
                     moves, last, boxEpoch, timer, gone>>
    BY DEF HearMoves, Hear, rustVars, switchVars, screenVars
<1>2. /\ 1 \in DOMAIN answers /\ answers[1] = a
      /\ 1 \in DOMAIN Line /\ Line[1] = a /\ a \in Replies
    BY <1>1, LineShape
<1>3. /\ a.batch \in Batches /\ a.batch.moves \in Boxes /\ a.batch.final \in BOOLEAN
    BY <1>1, <1>2, ReplyShape
<1>4. writing # None /\ a.batch = writing
    BY <1>1, <1>2 DEF Orderly
<1>5. box \in Boxes /\ boxEpoch \in Nat
    BY OutboxAssumption DEF TypeOK
<1>6. rest \in Boxes
    BY <1>3, <1>5, MergedShape
<1>7. \A i \in DOMAIN Line : i # 1 => Line[i].op # "moves"
    BY <1>1, <1>2 DEF Orderly
<1>8. \A i \in DOMAIN queue : queue[i].op # "moves"
  <2> SUFFICES ASSUME NEW i \in DOMAIN queue  PROVE queue[i].op # "moves"
      OBVIOUS
  <2>1. Len(answers) + i \in DOMAIN Line /\ Line[Len(answers) + i] = queue[i]
      BY LineShape
  <2>2. Len(answers) + i # 1
    <3>1. Len(answers) \in Nat /\ Len(answers) >= 1 /\ i \in Nat \ {0}
        BY <1>1, <1>2 DEF TypeOK
    <3> QED BY <3>1
  <2> QED BY <1>7, <2>1, <2>2
<1>9. CASE chained
  <2>1. /\ chained' = FALSE /\ retry' = FALSE /\ SendBatch(rest, TRUE, <<>>)
      BY <1>9 DEF HearMoves, Requeued
  <2>2. <<>> \in Seq(Commands)
      OBVIOUS
  <2> HIDE DEF rest, a
  <2>3. /\ box' = NoMoves /\ box' \in Boxes
        /\ \/ Empty(rest) /\ writing' = None /\ queue' = queue \o <<>>
           \/ /\ ~Empty(rest) /\ writing' # None /\ writing' \in Batches
              /\ writing'.moves = rest /\ writing'.final = TRUE
              /\ \E c \in Commands :
                    /\ c.op = "moves" /\ c.epoch = boxEpoch /\ c.batch = writing'
                    /\ <<c>> \o <<>> \in Seq(Commands)
                    /\ queue' = queue \o (<<c>> \o <<>>)
      BY <1>6, <2>1, <2>2, SendShape
  <2>4. /\ last = NoMoves /\ (shown # None => ~loaded /\ boxEpoch < shown.epoch)
        /\ DOMAIN last = {} /\ Empty(box') /\ DOMAIN box' = {}
      BY <1>1, <1>9, <2>3, NothingIsABox DEF Fresh, Empty
  <2>5. shown # None => shown.epoch \in Nat
      BY LoadShape DEF TypeOK
  <2>6. CASE Empty(rest)
    <3>1. writing' = None /\ queue' = queue
        BY <2>3, <2>6, ConcatEmptySeq DEF TypeOK
    <3>2. /\ \A i \in DOMAIN Line' : i \in Nat \ {0} /\ i + 1 \in DOMAIN Line /\ Line'[i] = Line[i + 1]
          /\ answers' \in Seq(Replies)
          /\ \A i \in DOMAIN answers' : answers'[i] = answers[i + 1] /\ i + 1 \in DOMAIN answers
        BY <1>1, <3>1, Heard DEF a
    <3>3. TypeOK'
        BY <1>1, <2>1, <2>3, <3>1, <3>2 DEF TypeOK
    <3>4. Orderly'
        BY <1>1, <3>1, HeardOrder DEF a
    <3>5. Aligned' /\ Loading'
        BY <1>1, <3>1, <3>2 DEF Aligned, Loading
    <3>6. Screen'
        BY <1>1, <3>2 DEF Screen, CanPersist
    <3>7. Fresh'
        BY <1>1, <2>1, <2>4, <3>1 DEF Fresh
    <3>8. Seen'
        BY <1>1, <2>4, <3>2 DEF Seen
    <3>9. Rising' /\ Own'
        BY <1>1, <3>1 DEF Rising, Own
    <3> QED BY <3>3, <3>4, <3>5, <3>6, <3>7, <3>8, <3>9
  <2>7. CASE ~Empty(rest)
    <3>1. writing' # None /\ writing' \in Batches /\ writing'.final
        BY <2>3, <2>7
    <3>2. PICK c \in Commands : /\ c.op = "moves" /\ c.epoch = boxEpoch /\ c.batch = writing'
                                /\ queue' = queue \o (<<c>> \o <<>>)
        BY <2>3, <2>7
    <3>3. <<c>> \in Seq(Commands)
        OBVIOUS
    <3>4. queue' = queue \o <<c>>
        BY <3>2, <3>3, ConcatEmptySeq
    <3>5. /\ answers' \in Seq(Replies) /\ queue' \in Seq(Commands)
          /\ Len(Line) \in Nat /\ Len(Line) \in DOMAIN Line' /\ Line'[Len(Line)] = c
          /\ \A i \in DOMAIN Line' :
                /\ i \in Nat \ {0}
                /\ \/ i < Len(Line) /\ i + 1 \in DOMAIN Line /\ Line'[i] = Line[i + 1]
                   \/ i = Len(Line) /\ Line'[i] = c
          /\ \A i \in DOMAIN answers' : answers'[i] = answers[i + 1] /\ i + 1 \in DOMAIN answers
          /\ \A i \in DOMAIN queue' : (i \in DOMAIN queue /\ queue'[i] = queue[i]) \/ queue'[i] = c
        BY <1>1, <3>4, HeardCalling DEF a
    <3>6. TypeOK'
        BY <1>1, <2>1, <2>3, <3>1, <3>5 DEF TypeOK
    <3>7. \A i \in DOMAIN Line' : Line'[i].op = "moves" => i = Len(Line) /\ Line'[i] = c
      <4> SUFFICES ASSUME NEW i \in DOMAIN Line', Line'[i].op = "moves", i # Len(Line)
                   PROVE  FALSE
          BY <3>5
      <4>1. i \in Nat \ {0} /\ i + 1 \in DOMAIN Line /\ Line[i + 1].op = "moves"
          BY <3>5
      <4>2. i + 1 # 1
          BY <4>1
      <4> QED BY <1>7, <4>1, <4>2
    <3>8. \A i \in DOMAIN Line' : Line'[i].op # "moves" =>
              i \in Nat /\ i + 1 \in DOMAIN Line /\ Line'[i] = Line[i + 1]
        BY <3>2, <3>5
    <3>9. Orderly'
      <4>1. ASSUME NEW i \in DOMAIN Line', NEW j \in DOMAIN Line'
            PROVE  /\ Line'[i].op = "read" /\ Line'[j].op = "read" => i = j
                   /\ Line'[i].op \in {"close", "open"} /\ Line'[j].op \in {"close", "open"} => i = j
                   /\ Line'[i].op = "open" /\ Line'[j].op = "read" => j < i
        <5>1. /\ Line'[i].op = "read" /\ Line'[j].op = "read" => i + 1 = j + 1
              /\ Line'[i].op \in {"close", "open"} /\ Line'[j].op \in {"close", "open"} => i + 1 = j + 1
              /\ Line'[i].op = "open" /\ Line'[j].op = "read" => j + 1 < i + 1
            BY <3>8 DEF Orderly
        <5>2. i \in Nat /\ j \in Nat
            BY <3>5
        <5> QED BY <5>1, <5>2
      <4>2. \A i \in DOMAIN Line' : /\ Line'[i].op = "close" => switching # None /\ switching.stage = "closing"
                                    /\ Line'[i].op = "open" => switching # None /\ switching.stage = "opening"
          BY <3>8 DEF Orderly
      <4>3. \A i \in DOMAIN Line', j \in DOMAIN Line' :
                Line'[i].op = "moves" /\ Line'[j].op = "moves" => i = j
          BY <3>7
      <4>4. /\ \E i \in DOMAIN Line' : Line'[i].op = "moves"
            /\ \A i \in DOMAIN Line' : Line'[i].op = "moves" => Line'[i].batch = writing'
          BY <3>2, <3>5, <3>7
      <4> QED BY <1>1, <3>1, <4>1, <4>2, <4>3, <4>4 DEF Orderly
    <3>10. Aligned'
        BY <1>1, <3>2, <3>5 DEF Aligned
    <3>11. Loading'
      <4>1. \A i \in DOMAIN Line' : Line'[i].op = "read" =>
                \E j \in DOMAIN Line : Line[j].op = "read"
          BY <3>8
      <4> QED BY <1>1, <3>5, <4>1 DEF Loading
    <3>12. Screen'
        BY <1>1, <3>8 DEF Screen, CanPersist
    <3>13. \A i \in DOMAIN queue' : queue'[i].op = "moves" => queue'[i] = c
        BY <1>8, <3>5
    <3>14. shown # None => c.epoch # shown.epoch
        BY <1>5, <2>4, <2>5, <3>2
    <3>15. Fresh'
        BY <1>1, <2>1, <2>4, <3>1, <3>13, <3>14 DEF Fresh
    <3>16. Seen'
        BY <1>1, <2>4, <3>5 DEF Seen
    <3>17. Rising'
      <4>1. c.epoch <= boxEpoch
          BY <1>5, <3>2
      <4> QED BY <1>1, <3>13, <3>14, <4>1 DEF Rising
    <3> QED BY <1>1, <3>6, <3>9, <3>10, <3>11, <3>12, <3>15, <3>16, <3>17 DEF Own
  <2> QED BY <2>6, <2>7
<1>10. CASE ~chained
  <2>1. /\ box' = rest /\ writing' = None /\ queue' = queue /\ chained' = chained
        /\ retry' = IF a.batch.final THEN retry ELSE Retries(a.ok)
      BY <1>4, <1>10 DEF HearMoves, Requeued
  <2>2. retry' \in BOOLEAN
      BY <2>1 DEF Retries, TypeOK
  <2>3. a.ok => \A x \in DOMAIN writing.moves : db[writing.moves[x].home][x] = writing.moves[x]
      BY <1>1, <1>2, <1>4 DEF Seen
  <2>4. rest = IF a.ok \/ writing.final THEN box ELSE Merged(writing.moves, box)
      BY <1>4
  <2>5. writing.moves \in Boxes
      BY <1>3, <1>4
  <2> HIDE DEF rest, a
  <2>6. /\ \A i \in DOMAIN Line' : i \in Nat \ {0} /\ i + 1 \in DOMAIN Line /\ Line'[i] = Line[i + 1]
        /\ answers' \in Seq(Replies)
        /\ \A i \in DOMAIN answers' : answers'[i] = answers[i + 1] /\ i + 1 \in DOMAIN answers
      BY <1>1, <2>1, Heard DEF a
  <2>7. TypeOK'
      BY <1>1, <1>6, <2>1, <2>2, <2>6 DEF TypeOK
  <2>8. Orderly'
      BY <1>1, <2>1, HeardOrder DEF a
  <2>9. Aligned' /\ Loading'
      BY <1>1, <2>1, <2>6 DEF Aligned, Loading
  <2>10. Screen'
      BY <1>1, <2>6 DEF Screen, CanPersist
  <2>11. last = NoMoves => Empty(rest)
      BY <1>1, <1>4, <1>10, <2>4 DEF Fresh
  <2>12. Fresh'
      BY <1>1, <1>10, <2>1, <2>11 DEF Fresh
  <2>13. Seen'
    <3>1. ASSUME NEW x \in DOMAIN last
          PROVE  IF x \in DOMAIN box' THEN box'[x] = last[x] ELSE db[last[x].home][x] = last[x]
      <4>1. IF x \in DOMAIN box THEN box[x] = last[x]
            ELSE IF Returns(x) THEN writing.moves[x] = last[x]
            ELSE db[last[x].home][x] = last[x]
          BY <1>1 DEF Seen
      <4>2. CASE a.ok \/ writing.final
        <5>1. box' = box
            BY <2>1, <2>4, <4>2
        <5>2. x \notin DOMAIN box /\ Returns(x) => db[last[x].home][x] = last[x]
            BY <2>3, <4>1, <4>2 DEF Returns
        <5> QED BY <4>1, <5>1, <5>2
      <4>3. CASE ~(a.ok \/ writing.final)
        <5>1. box' = Merged(writing.moves, box)
            BY <2>1, <2>4, <4>3
        <5>2. /\ DOMAIN box' = DOMAIN writing.moves \cup DOMAIN box
              /\ \A y \in DOMAIN writing.moves \cup DOMAIN box :
                    box'[y] = IF y \in DOMAIN box THEN box[y] ELSE writing.moves[y]
            BY <1>5, <2>5, <5>1, MergedShape
        <5>3. Returns(x) <=> x \in DOMAIN writing.moves
            BY <1>4, <4>3 DEF Returns
        <5> QED BY <4>1, <5>2, <5>3
      <4> QED BY <4>2, <4>3
    <3>2. \A x \in DOMAIN last : ~Returns(x)'
        BY <2>1 DEF Returns
    <3> QED BY <1>1, <2>6, <3>1, <3>2 DEF Seen
  <2>14. Rising' /\ Own'
      BY <1>1, <2>1 DEF Rising, Own
  <2> QED BY <2>7, <2>8, <2>9, <2>10, <2>12, <2>13, <2>14
<1> QED BY <1>9, <1>10

(* A timer fires. *)
LEMMA FlushTimerKeeps == ASSUME IInv, FlushTimer  PROVE IInv'
<1>1. /\ ~gone /\ timer' = FALSE /\ retry' = retry /\ Flush
      /\ UNCHANGED <<rustVars, answers, switchVars, screenVars, last, boxEpoch, gone>>
    BY DEF FlushTimer
<1>2. retry' \in BOOLEAN
    BY <1>1 DEF IInv, TypeOK
<1> QED BY <1>1, <1>2, FlushKeeps

LEMMA RetryTimerKeeps == ASSUME IInv, RetryTimer  PROVE IInv'
<1>1. /\ ~gone /\ retry' = FALSE /\ timer' = timer /\ Flush
      /\ UNCHANGED <<rustVars, answers, switchVars, screenVars, last, boxEpoch, gone>>
    BY DEF RetryTimer
<1>2. timer' \in BOOLEAN
    BY <1>1 DEF IInv, TypeOK
<1> QED BY <1>1, <1>2, FlushKeeps

LEMMA UnloadKeeps == ASSUME IInv, Unload  PROVE IInv'
<1> USE DEF IInv
<1>1. /\ ~gone /\ gone' = TRUE /\ FlushFinal(<<>>) /\ retry' = FALSE
      /\ UNCHANGED <<rustVars, answers, switchVars, screenVars, last, boxEpoch, timer>>
    BY DEF Unload, FlushFinal
<1>2. UNCHANGED <<workspace, opens, db, epoch, switching, incoming, shown, loaded, pieces, due, moves>>
    BY <1>1 DEF rustVars, switchVars, screenVars
<1>3. CASE queue' = queue /\ box' = box /\ writing' = writing /\ (chained' => writing # None)
           /\ chained' \in BOOLEAN
  <2>1. Line' = Line
      BY <1>1, <1>3 DEF Line
  <2>2. TypeOK'
      BY <1>1, <1>2, <1>3 DEF TypeOK
  <2>3. Orderly' /\ Aligned'
      BY <1>1, <1>2, <1>3, <2>1 DEF Orderly, Aligned
  <2>4. Loading' /\ Screen'
      BY <1>1, <1>2, <1>3, <2>1 DEF Loading, Screen, CanPersist
  <2>5. Fresh' /\ Seen'
      BY <1>1, <1>2, <1>3 DEF Fresh, Seen
  <2>6. Rising' /\ Own'
      BY <1>1, <1>2, <1>3 DEF Rising, Own
  <2> QED BY <2>2, <2>3, <2>4, <2>5, <2>6
<1>4. CASE writing # None
  <2>1. chained' = TRUE /\ queue' = queue \o <<>> /\ box' = box /\ writing' = writing
      BY <1>1, <1>4 DEF FlushFinal
  <2>2. queue' = queue
      BY <2>1, ConcatEmptySeq DEF TypeOK
  <2> QED BY <1>3, <1>4, <2>1, <2>2
<1>5. CASE writing = None
  <2>1. SendBatch(box, TRUE, <<>>) /\ chained' = chained
      BY <1>1, <1>5 DEF FlushFinal
  <2>2. CASE Empty(box)
    <3>1. box' = box /\ writing' = writing /\ queue' = queue
        BY <1>5, <2>1, <2>2, NothingLeaves
    <3>2. chained' \in BOOLEAN /\ (chained' => writing # None)
        BY <2>1 DEF TypeOK, Fresh
    <3> QED BY <1>3, <3>1, <3>2
  <2>3. CASE ~Empty(box)
    <3>1. gone' \in BOOLEAN /\ retry' \in BOOLEAN /\ timer' \in BOOLEAN
        BY <1>1 DEF TypeOK
    <3>2. /\ TypeOK' /\ Orderly' /\ Aligned' /\ Loading' /\ Rising' /\ Own'
          /\ writing' # None /\ writing'.moves = box /\ writing'.final = TRUE
          /\ DOMAIN box' = {} /\ ~chained /\ last # NoMoves
          /\ \A i \in DOMAIN Line' : Line'[i].op = "read" => i \in DOMAIN Line /\ Line'[i] = Line[i]
        BY <1>1, <1>5, <2>1, <2>3, <3>1, BatchLeaves
    <3>3. Screen'
        BY <1>1, <1>2, <3>2 DEF Screen, CanPersist
    <3>4. Fresh' /\ Seen'
        BY <1>1, <1>2, <2>1, <3>2 DEF Fresh, Seen
    <3> QED BY <3>2, <3>3, <3>4
  <2> QED BY <2>2, <2>3
<1> QED BY <1>4, <1>5

(* What a render of a load calls, and what becomes of the box *)
LEMMA InstallShape ==
    ASSUME IInv, Install
    PROVE  /\ \E t \in Seq(Commands) :
                 /\ queue' = queue \o t
                 /\ \A j \in 1..Len(t) :
                       \/ /\ t[j].op = "moves" /\ j = 1 /\ writing = None
                          /\ t[j].batch = writing' /\ t[j].epoch = boxEpoch
                       \/ /\ t[j].op = "read" /\ j = Len(t) /\ incoming.load # None
                          /\ t[j].epoch = incoming.load.epoch /\ t[j].at = incoming.at
                 /\ writing' # writing => 1 \in 1..Len(t) /\ t[1].op = "moves"
           /\ writing # None => writing' = writing
           /\ writing' \in Batches \cup {None} /\ box' \in Boxes
           /\ chained' \in BOOLEAN /\ retry' \in BOOLEAN
           /\ \/ last' = last /\ UNCHANGED <<box, writing, chained>>
              \/ last' = NoMoves /\ writing # None /\ chained' /\ box' = box
              \/ /\ last' = NoMoves /\ writing = None /\ chained' = chained /\ box' = NoMoves
                 /\ writing' # None => writing'.final
<1> USE DEF IInv
<1> DEFINE load == incoming.load
           read == IF load = None THEN <<>>
                   ELSE <<[op |-> "read", epoch |-> load.epoch, at |-> incoming.at]>>
<1>1. /\ ~gone /\ incoming # None
      /\ IF Instance(load) # Instance(shown)
         THEN FlushFinal(read) /\ last' = NoMoves
         ELSE queue' = queue \o read /\ UNCHANGED <<last, box, retry, writing, chained>>
    BY DEF Install
<1>2. load \in Loads \cup {None} /\ (load # None => incoming.at \in Full)
  <2>1. load \in Loads \cup {None}
      BY <1>1 DEF TypeOK, Arrivals
  <2>2. load # None => incoming.at = db[load.home] /\ load.home \in Projects
      BY <1>1, <2>1, LoadShape DEF Loading
  <2> QED BY <2>1, <2>2 DEF TypeOK
<1>3. \/ load = None /\ read = <<>>
      \/ load # None /\ \E c \in Commands : /\ read = <<c>> /\ c.op = "read"
                                            /\ c.epoch = load.epoch /\ c.at = incoming.at
  <2>1. CASE load = None
      BY <2>1
  <2>2. CASE load # None
    <3> DEFINE c == [op |-> "read", epoch |-> load.epoch, at |-> incoming.at]
    <3>1. load.epoch \in 1..MaxOpens
        BY <1>2, <2>2 DEF Loads
    <3>2. c \in Reads
        BY <1>2, <2>2, <3>1 DEF Reads
    <3> QED BY <2>2, <3>2 DEF Commands
  <2> QED BY <2>1, <2>2
<1> DEFINE Good(t, w) ==
        /\ \A j \in 1..Len(t) :
              \/ /\ t[j].op = "moves" /\ j = 1 /\ writing = None
                 /\ t[j].batch = w /\ t[j].epoch = boxEpoch
              \/ /\ t[j].op = "read" /\ j = Len(t) /\ load # None
                 /\ t[j].epoch = load.epoch /\ t[j].at = incoming.at
        /\ w # writing => 1 \in 1..Len(t) /\ t[1].op = "moves"
<1>4. read \in Seq(Commands) /\ Good(read, writing)
  <2>1. CASE load = None /\ read = <<>>
      BY <2>1
  <2>2. CASE load # None
    <3>1. PICK c \in Commands : read = <<c>> /\ c.op = "read" /\ c.epoch = load.epoch /\ c.at = incoming.at
        BY <1>3, <2>2
    <3>2. <<c>> \in Seq(Commands) /\ Len(<<c>>) = 1 /\ <<c>>[1] = c
        OBVIOUS
    <3> HIDE DEF read
    <3> QED BY <2>2, <3>1, <3>2
  <2> QED BY <1>3, <2>1, <2>2
<1>5. box \in Boxes /\ writing \in Batches \cup {None} /\ chained \in BOOLEAN /\ retry \in BOOLEAN
    BY DEF TypeOK
<1> HIDE DEF read
<1>6. CASE Instance(load) = Instance(shown)
    BY <1>1, <1>4, <1>5, <1>6
<1>7. CASE Instance(load) # Instance(shown)
  <2>1. FlushFinal(read) /\ last' = NoMoves /\ retry' = FALSE
      BY <1>1, <1>7 DEF FlushFinal
  <2>2. CASE writing # None
    <3>1. chained' = TRUE /\ queue' = queue \o read /\ box' = box /\ writing' = writing
        BY <2>1, <2>2 DEF FlushFinal
    <3> QED BY <1>4, <1>5, <2>1, <2>2, <3>1
  <2>3. CASE writing = None
    <3>1. SendBatch(box, TRUE, read) /\ chained' = chained
        BY <2>1, <2>3 DEF FlushFinal
    <3>2. /\ box' = NoMoves /\ box' \in Boxes
          /\ \/ Empty(box) /\ writing' = None /\ queue' = queue \o read
             \/ /\ ~Empty(box) /\ writing' # None /\ writing' \in Batches
                /\ writing'.moves = box /\ writing'.final = TRUE
                /\ \E c \in Commands :
                      /\ c.op = "moves" /\ c.epoch = boxEpoch /\ c.batch = writing'
                      /\ <<c>> \o read \in Seq(Commands)
                      /\ queue' = queue \o (<<c>> \o read)
        BY <1>4, <1>5, <3>1, SendShape
    <3>3. CASE writing' = None
      <4>1. writing' = writing /\ queue' = queue \o read
          BY <2>3, <3>2, <3>3
      <4> QED BY <1>4, <1>5, <2>1, <2>3, <3>1, <3>2, <4>1
    <3>4. CASE writing' # None
      <4>1. writing'.final /\ writing' \in Batches
          BY <3>2, <3>4
      <4>2. PICK c \in Commands : /\ c.op = "moves" /\ c.epoch = boxEpoch /\ c.batch = writing'
                                  /\ <<c>> \o read \in Seq(Commands)
                                  /\ queue' = queue \o (<<c>> \o read)
          BY <3>2, <3>4
      <4> DEFINE t == <<c>> \o read
      <4>3. /\ t \in Seq(Commands) /\ Len(t) = 1 + Len(read) /\ t[1] = c
            /\ \A j \in 1..Len(read) : t[1 + j] = read[j]
        <5>1. <<c>> \in Seq(Commands) /\ Len(<<c>>) = 1 /\ <<c>>[1] = c
            OBVIOUS
        <5>2. Len(read) \in Nat
            BY <1>4
        <5>3. \A j \in 1..1 + Len(read) : t[j] = IF j <= 1 THEN <<c>>[j] ELSE read[j - 1]
            BY <1>4, <5>1, <5>2
        <5>4. \A j \in 1..Len(read) : 1 + j \in 1..1 + Len(read) /\ ~(1 + j <= 1) /\ 1 + j - 1 = j
            BY <5>2
        <5>5. Len(t) = 1 + Len(read)
            BY <1>4, <5>1, <5>2
        <5>6. t[1] = c
            BY <5>1, <5>2, <5>3
        <5>7. \A j \in 1..Len(read) : t[1 + j] = read[j]
            BY <5>3, <5>4
        <5> QED BY <4>2, <5>5, <5>6, <5>7
      <4> HIDE DEF t
      <4>4. Good(t, writing')
        <5>1. Len(read) \in Nat
            BY <1>4
        <5>2. ASSUME NEW j \in 1..Len(t), j # 1
              PROVE  /\ t[j].op = "read" /\ j = Len(t) /\ load # None
                     /\ t[j].epoch = load.epoch /\ t[j].at = incoming.at
          <6>1. j - 1 \in 1..Len(read) /\ 1 + (j - 1) = j
              BY <4>3, <5>1, <5>2
          <6>2. t[j] = read[j - 1]
              BY <4>3, <6>1
          <6>3. read[j - 1].op # "moves"
            <7>1. read # <<>>
                BY <6>1
            <7>2. PICK d \in Commands : read = <<d>> /\ d.op = "read"
                BY <1>3, <7>1
            <7> QED BY <6>1, <7>2
          <6>4. /\ read[j - 1].op = "read" /\ j - 1 = Len(read) /\ load # None
                /\ read[j - 1].epoch = load.epoch /\ read[j - 1].at = incoming.at
              BY <1>4, <6>1, <6>3
          <6> QED BY <4>3, <5>1, <6>1, <6>2, <6>4
        <5>3. 1 \in 1..Len(t)
            BY <4>3, <5>1
        <5> QED BY <2>3, <4>2, <4>3, <5>2, <5>3
      <4>5. queue' = queue \o t
          BY <4>2 DEF t
      <4>6. \E u \in Seq(Commands) : queue' = queue \o u /\ Good(u, writing')
          BY <4>3, <4>4, <4>5
      <4> QED BY <1>5, <2>1, <2>3, <3>1, <3>2, <4>1, <4>6
    <3> QED BY <3>3, <3>4
  <2> QED BY <2>2, <2>3
<1> QED BY <1>6, <1>7

LEMMA InstallKeeps == ASSUME IInv, Install  PROVE IInv'
<1> USE DEF IInv
<1> DEFINE load == incoming.load
<1>1. /\ ~gone /\ incoming # None /\ ~due /\ incoming' = None /\ shown' = load
      /\ loaded' = (load = None /\ loaded) /\ pieces' = incoming.at /\ timer' = FALSE
      /\ UNCHANGED <<workspace, opens, db, answers, epoch, switching, due, moves, boxEpoch, gone>>
    BY DEF Install, rustVars
<1>2. /\ switching = None /\ workspace = load /\ load \in Loads \cup {None}
      /\ load = None => incoming.at = NoMoves
      /\ load # None => /\ epoch = load.epoch /\ boxEpoch < epoch /\ incoming.at = db[load.home]
                        /\ \A i \in DOMAIN Line : Line[i].op # "read"
    BY <1>1 DEF Aligned, Loading, TypeOK, Arrivals
<1>3. load # None => load.home \in Projects /\ load.epoch \in Nat /\ db[load.home] \in Full
    BY <1>2, LoadShape DEF TypeOK
<1>4. pieces' \in Boxes /\ boxEpoch \in Nat
    BY <1>1, <1>2, <1>3, NothingIsABox, FullShape, OutboxAssumption DEF TypeOK
<1> DEFINE Read(c) == /\ c.op = "read" /\ load # None
                      /\ c.epoch = load.epoch /\ c.at = incoming.at
           Batch(c) == /\ c.op = "moves" /\ writing = None
                       /\ c.batch = writing' /\ c.epoch = boxEpoch
<1>5. /\ writing # None => writing' = writing
      /\ writing' \in Batches \cup {None} /\ box' \in Boxes
      /\ chained' \in BOOLEAN /\ retry' \in BOOLEAN
      /\ \/ last' = last /\ UNCHANGED <<box, writing, chained>>
         \/ last' = NoMoves /\ writing # None /\ chained' /\ box' = box
         \/ /\ last' = NoMoves /\ writing = None /\ chained' = chained /\ box' = NoMoves
            /\ writing' # None => writing'.final
    BY InstallShape
<1>6. PICK t \in Seq(Commands) :
            /\ queue' = queue \o t
            /\ \A j \in 1..Len(t) : (Batch(t[j]) /\ j = 1) \/ (Read(t[j]) /\ j = Len(t))
            /\ writing' # writing => 1 \in 1..Len(t) /\ t[1].op = "moves"
  <2>1. PICK t \in Seq(Commands) :
            /\ queue' = queue \o t
            /\ \A j \in 1..Len(t) :
                  \/ /\ t[j].op = "moves" /\ j = 1 /\ writing = None
                     /\ t[j].batch = writing' /\ t[j].epoch = boxEpoch
                  \/ /\ t[j].op = "read" /\ j = Len(t) /\ incoming.load # None
                     /\ t[j].epoch = incoming.load.epoch /\ t[j].at = incoming.at
            /\ writing' # writing => 1 \in 1..Len(t) /\ t[1].op = "moves"
      BY InstallShape
  <2>2. \A j \in 1..Len(t) : (Batch(t[j]) /\ j = 1) \/ (Read(t[j]) /\ j = Len(t))
      BY <2>1
  <2> QED BY <2>1, <2>2
<1> HIDE DEF load
<1>7. /\ queue' \in Seq(Commands)
      /\ Len(Line) \in Nat /\ DOMAIN Line = 1..Len(Line)
      /\ DOMAIN Line' = 1..Len(Line) + Len(t)
      /\ \A i \in DOMAIN Line : Line'[i] = Line[i]
      /\ \A i \in 1..Len(t) : Line'[Len(Line) + i] = t[i]
      /\ \A i \in DOMAIN queue' : \/ i \in DOMAIN queue /\ queue'[i] = queue[i]
                                  \/ \E j \in 1..Len(t) : queue'[i] = t[j]
    BY <1>1, <1>6, Grown
(* Each call is one of before, the batch that leaves, or the read. *)
<1>8. ASSUME NEW i \in DOMAIN Line'
      PROVE  \/ i \in DOMAIN Line /\ Line'[i] = Line[i] /\ i <= Len(Line)
             \/ Batch(Line'[i]) /\ i = Len(Line) + 1
             \/ Read(Line'[i]) /\ i = Len(Line) + Len(t) /\ i > Len(Line)
  <2>1. CASE i <= Len(Line)
    <3>1. i \in DOMAIN Line
        BY <1>7, <2>1
    <3> QED BY <1>7, <2>1, <3>1
  <2>2. CASE i > Len(Line)
    <3>1. Len(t) \in Nat
        BY <1>6
    <3>2. PICK j \in 1..Len(t) : i = Len(Line) + j
      <4>1. i - Len(Line) \in 1..Len(t) /\ i = Len(Line) + (i - Len(Line))
          BY <1>7, <2>2, <3>1
      <4> QED BY <4>1
    <3>3. Line'[i] = t[j]
        BY <1>7, <3>2
    <3>4. (Batch(t[j]) /\ j = 1) \/ (Read(t[j]) /\ j = Len(t))
        BY <1>6
    <3> HIDE DEF Batch, Read
    <3> QED BY <2>2, <3>2, <3>3, <3>4
  <2> QED BY <1>7, <2>1, <2>2
<1>9. writing' # writing => \E i \in DOMAIN Line' : Line'[i].op = "moves"
  <2> SUFFICES ASSUME writing' # writing  PROVE \E i \in DOMAIN Line' : Line'[i].op = "moves"
      OBVIOUS
  <2>1. 1 \in 1..Len(t) /\ t[1].op = "moves" /\ Len(t) \in Nat
      BY <1>6
  <2>2. Len(Line) + 1 \in DOMAIN Line' /\ Line'[Len(Line) + 1] = t[1]
      BY <1>7, <2>1
  <2> QED BY <2>1, <2>2
<1>10. ASSUME NEW i \in DOMAIN queue'
       PROVE  \/ i \in DOMAIN queue /\ queue'[i] = queue[i]
              \/ Batch(queue'[i]) \/ Read(queue'[i])
  <2>1. CASE i \in DOMAIN queue /\ queue'[i] = queue[i]
      BY <2>1
  <2>2. CASE \E j \in 1..Len(t) : queue'[i] = t[j]
    <3>1. PICK j \in 1..Len(t) : queue'[i] = t[j]
        BY <2>2
    <3>2. Batch(t[j]) \/ Read(t[j])
        BY <1>6
    <3> HIDE DEF Batch, Read
    <3> QED BY <3>1, <3>2
  <2> QED BY <1>7, <2>1, <2>2
<1>11. TypeOK'
  <2>1. last' \in Full \cup {NoMoves}
      BY <1>5 DEF TypeOK
  <2> QED BY <1>1, <1>2, <1>4, <1>5, <1>7, <2>1 DEF TypeOK
<1>12. Orderly'
  <2>1. \A i \in DOMAIN Line' : Line'[i].op = "moves" => writing' # None /\ Line'[i].batch = writing'
    <3> SUFFICES ASSUME NEW i \in DOMAIN Line', Line'[i].op = "moves"
                 PROVE  writing' # None /\ Line'[i].batch = writing'
        OBVIOUS
    <3>1. CASE i \in DOMAIN Line /\ Line'[i] = Line[i]
        BY <1>5, <3>1 DEF Orderly
    <3>2. CASE Batch(Line'[i]) /\ i = Len(Line) + 1
      <4>1. writing' # None
        <5>1. Len(Line) + 1 \notin DOMAIN Line
            BY <1>7
        <5>2. PICK j \in 1..Len(t) : Line'[i] = t[j]
            BY <1>7, <3>2
        <5>3. t[j] \in Commands /\ t[j].op = "moves" /\ t[j].batch = writing'
            BY <1>6, <3>2, <5>2
        <5> QED BY <5>3, CommandShape, NoneApart
      <4> QED BY <3>2, <4>1
    <3> QED BY <1>8, <3>1, <3>2
  <2>2. writing' # None => \E i \in DOMAIN Line' : Line'[i].op = "moves"
    <3>1. CASE writing' # writing
        BY <1>9, <3>1
    <3>2. CASE writing' = writing
      <4>1. \A i \in DOMAIN Line : i \in DOMAIN Line'
          BY <1>6, <1>7
      <4> QED BY <1>7, <3>2, <4>1 DEF Orderly
    <3> QED BY <3>1, <3>2
  <2>3. ASSUME NEW i \in DOMAIN Line', NEW j \in DOMAIN Line',
               Line'[i].op = "moves", Line'[j].op = "moves"
        PROVE  i = j
    <3>1. CASE writing = None
      <4>1. \A k \in DOMAIN Line : Line[k].op # "moves"
          BY <3>1 DEF Orderly
      <4>2. i = Len(Line) + 1 /\ j = Len(Line) + 1
          BY <1>8, <2>3, <4>1
      <4> QED BY <4>2
    <3>2. CASE writing # None
      <4>1. i \in DOMAIN Line /\ Line[i].op = "moves" /\ j \in DOMAIN Line /\ Line[j].op = "moves"
          BY <1>8, <2>3, <3>2
      <4> QED BY <4>1 DEF Orderly
    <3> QED BY <3>1, <3>2
  <2>4. ASSUME NEW i \in DOMAIN Line', NEW j \in DOMAIN Line',
               Line'[i].op = "read", Line'[j].op = "read"
        PROVE  i = j
    <3>1. CASE load = None
      <4>1. i \in DOMAIN Line /\ Line[i].op = "read" /\ j \in DOMAIN Line /\ Line[j].op = "read"
          BY <1>8, <2>4, <3>1
      <4> QED BY <4>1 DEF Orderly
    <3>2. CASE load # None
        BY <1>2, <1>8, <2>4, <3>2
    <3> QED BY <3>1, <3>2
  <2>5. \A i \in DOMAIN Line' : Line'[i].op \notin {"close", "open"}
    <3>1. \A i \in DOMAIN Line : Line[i].op \notin {"close", "open"}
        BY <1>2 DEF Orderly
    <3> QED BY <1>8, <3>1
  <2> QED BY <2>1, <2>2, <2>3, <2>4, <2>5 DEF Orderly
<1>13. Aligned'
    BY <1>1, <1>2, <1>10 DEF Aligned
<1>14. Loading'
    BY <1>1, <1>2, <1>3 DEF Loading
<1>15. ~CanPersist' \/ ~loaded'
    BY <1>1 DEF CanPersist
<1>16. \A i \in DOMAIN Line' : Line'[i].op = "read" =>
           load = None \/ (Read(Line'[i]) /\ i > Len(Line))
  <2> SUFFICES ASSUME NEW i \in DOMAIN Line', Line'[i].op = "read", load # None
               PROVE  Read(Line'[i]) /\ i > Len(Line)
      OBVIOUS
  <2>1. ~(i \in DOMAIN Line /\ Line'[i] = Line[i])
      BY <1>2
  <2>2. ~Batch(Line'[i])
      OBVIOUS
  <2> QED BY <1>8, <2>1, <2>2
<1>17. Screen'
  <2>1. shown' # None => \A x \in Pieces :
            /\ pieces'[x] = db[load.home][x] /\ pieces'[x].home = load.home
            /\ pieces'[x].n \in Nat /\ pieces'[x].n <= moves
      BY <1>1, <1>2, <1>3, FullShape DEF Own, Screen
  <2>2. shown' # None => pieces' \in Full /\ \A x \in Pieces : db[load.home][x].n <= pieces'[x].n
      BY <1>1, <1>2, <1>3, <2>1
  <2>3. \A h \in Projects, x \in Pieces : db'[h][x].n <= moves'
      BY <1>1 DEF Screen
  <2>4. shown' # None => \A i \in DOMAIN Line' :
            Line'[i].op = "read" => ~loaded' /\ boxEpoch < load.epoch /\ Line'[i].at = db[load.home]
      BY <1>1, <1>2, <1>16
  <2> QED BY <1>1, <1>2, <1>15, <2>1, <2>2, <2>3, <2>4 DEF Screen
<1>18. shown' # None => ~loaded' /\ boxEpoch < shown'.epoch
    BY <1>1, <1>2
<1>19. \A i \in DOMAIN queue' : queue'[i].op = "moves" => queue'[i].epoch <= boxEpoch
    BY <1>4, <1>10 DEF Rising
<1>20. shown' # None => \A i \in DOMAIN queue' :
           queue'[i].op = "moves" => queue'[i].epoch # shown'.epoch
  <2> SUFFICES ASSUME shown' # None, NEW i \in DOMAIN queue', queue'[i].op = "moves",
                      queue'[i].epoch = shown'.epoch
               PROVE  FALSE
      OBVIOUS
  <2>1. load.epoch <= boxEpoch /\ boxEpoch < load.epoch /\ load.epoch \in Nat
      BY <1>1, <1>3, <1>18, <1>19
  <2> QED BY <1>4, <2>1
<1>21. Fresh'
  <2>1. chained => writing # None
      BY DEF Fresh
  <2>2. chained' => writing # None /\ writing' # None /\ last' = NoMoves
      BY <1>1, <1>5, <2>1 DEF Fresh
  <2>3. chained' /\ shown' # None => \A i \in DOMAIN Line' : Line'[i].op = "read" =>
            \E j \in DOMAIN Line' : j < i /\ Line'[j].op = "moves"
    <3> SUFFICES ASSUME chained', shown' # None, NEW i \in DOMAIN Line', Line'[i].op = "read"
                 PROVE  \E j \in DOMAIN Line' : j < i /\ Line'[j].op = "moves"
        OBVIOUS
    <3>1. i > Len(Line)
        BY <1>1, <1>16
    <3>2. PICK j \in DOMAIN Line : Line[j].op = "moves"
        BY <2>2 DEF Orderly
    <3>3. j \in DOMAIN Line' /\ Line'[j] = Line[j] /\ j < i
        BY <1>6, <1>7, <3>1
    <3> QED BY <3>2, <3>3
  <2>4. last' = NoMoves /\ ~chained' => Empty(box') /\ (writing' # None => writing'.final)
    <3>1. CASE last' = last /\ UNCHANGED <<box, writing, chained>>
        BY <1>1, <3>1 DEF Fresh, Empty
    <3>2. CASE /\ last' = NoMoves /\ writing = None /\ chained' = chained /\ box' = NoMoves
               /\ writing' # None => writing'.final
        BY <3>2, NothingIsABox DEF Empty
    <3> QED BY <1>5, <3>1, <3>2
  <2> QED BY <1>1, <1>18, <1>20, <2>2, <2>3, <2>4 DEF Fresh
<1>22. Seen'
  <2>1. CASE last' = last /\ UNCHANGED <<box, writing, chained>>
      BY <1>1, <2>1 DEF Seen, Returns
  <2>2. CASE last' = NoMoves
    <3>1. DOMAIN last' = {}
        BY <2>2, NothingIsABox
    <3> QED BY <1>1, <3>1 DEF Seen
  <2> QED BY <1>5, <2>1, <2>2
<1>23. Rising'
  <2>1. shown' # None => boxEpoch # shown'.epoch
      BY <1>1, <1>3, <1>4, <1>18
  <2> QED BY <1>1, <1>19, <1>20, <2>1 DEF Rising
<1> QED BY <1>1, <1>11, <1>12, <1>13, <1>14, <1>17, <1>21, <1>22, <1>23 DEF Own

-----------------------------------------------------------------------------
(* The theorems *)

LEMMA InitIInv == Init => IInv
<1> SUFFICES ASSUME Init  PROVE IInv
    OBVIOUS
<1>1. \A h \in Projects : [x \in Pieces |-> [home |-> h, n |-> 0]] \in Full
    BY OutboxAssumption DEF Full, Positions
<1>2. TypeOK
  <2>1. db \in [Projects -> Full]
      BY <1>1 DEF Init
  <2>2. /\ opens \in 0..MaxOpens /\ moves \in 0..MaxMoves
        /\ epoch \in 0..opens /\ boxEpoch \in 0..epoch
      BY OutboxAssumption DEF Init
  <2>3. queue \in Seq(Commands) /\ answers \in Seq(Replies)
      BY DEF Init
  <2>4. pieces \in Boxes /\ last \in Full \cup {NoMoves} /\ box \in Boxes
      BY NothingIsABox DEF Init
  <2> QED BY <2>1, <2>2, <2>3, <2>4 DEF Init, TypeOK
<1>3. Line = <<>> /\ DOMAIN Line = {} /\ DOMAIN queue = {} /\ DOMAIN answers = {}
    BY DEF Init, Line
<1>4. Orderly /\ Aligned /\ Loading /\ Screen /\ Rising /\ Own
    BY <1>3 DEF Init, Orderly, Aligned, Loading, Screen, CanPersist, Rising, Own
<1>5. Fresh /\ Seen
    BY <1>3, NothingIsABox DEF Init, Fresh, Seen, Empty
<1> QED BY <1>2, <1>4, <1>5 DEF IInv

LEMMA NextIInv == ASSUME Prompt  PROVE IInv /\ [Next]_vars => IInv'
<1> SUFFICES ASSUME IInv, [Next]_vars  PROVE IInv'
    OBVIOUS
<1>1. CASE Backend
    BY <1>1, RunCloseKeeps, RunOpenKeeps, RunReadKeeps, RunMovesKeeps DEF Backend
<1>2. CASE HearAnswer
    BY <1>2, HearMovesKeeps, HearCloseKeeps, HearOpenKeeps, HearReadKeeps DEF HearAnswer
<1>3. CASE Install \/ RunEffect
    BY <1>3, InstallKeeps, RunEffectKeeps
<1>4. CASE FlushTimer \/ RetryTimer
    BY <1>4, FlushTimerKeeps, RetryTimerKeeps
<1>5. CASE Churn \/ Unload
    BY <1>5, ChurnKeeps, UnloadKeeps
<1>6. ASSUME NEW x \in Pieces, Move(x)  PROVE IInv'
    BY <1>6, MoveKeeps
<1>7. ASSUME NEW h \in Projects \cup {None}, Switch(h)  PROVE IInv'
    BY <1>7, SwitchKeeps
<1>8. CASE UNCHANGED vars
  <2>1. /\ UNCHANGED <<rustVars, queue, answers, switchVars, screenVars>>
        /\ UNCHANGED <<last, box, boxEpoch, writing, chained, gone>>
        /\ timer' = timer /\ retry' = retry
      BY <1>8 DEF vars, boxVars
  <2>2. timer' \in BOOLEAN /\ retry' \in BOOLEAN
      BY <2>1 DEF IInv, TypeOK
  <2> QED BY <2>1, <2>2, Unmoved
<1> QED BY <1>1, <1>2, <1>3, <1>4, <1>5, <1>6, <1>7, <1>8 DEF Next

(* Commands and answers in their order, which workspace the backend holds, what a load that
   is not rendered shows, and where the positions last seen are, in every behaviour in which
   React runs effects before the next event that matters.                               *)
THEOREM Invariant == ASSUME Prompt  PROVE Spec => []IInv
BY InitIInv, NextIInv, PTL DEF Spec

(* No project's database ever holds a position made in another project, whatever commands are
   still on their way when a switch happens, and whichever projects are copies of each other:
   the fence of with_workspace_db refuses a batch of an earlier open.                   *)
THEOREM OwnStays == ASSUME Prompt  PROVE Spec => []OwnPositions
<1>1. IInv => OwnPositions
    BY DEF IInv, Own, OwnPositions
<1> QED BY <1>1, Invariant, PTL

(* Every position on a settled screen is saved, in the box, or in the batch in flight: no order
   of cancelled timers, failed batches, requeues and moves made meanwhile forgets one.    *)
THEOREM NoneForgotten == ASSUME Prompt  PROVE Spec => []NothingForgotten
<1>1. IInv => NothingForgotten
  <2> SUFFICES ASSUME IInv, CanPersist, loaded, ~due, ~gone, NEW x \in Pieces  PROVE Kept(x)
      BY DEF NothingForgotten
  <2>1. /\ shown # None /\ pieces \in Full /\ last = pieces
        /\ pieces[x].home = shown.home
      BY DEF IInv, Screen, CanPersist
  <2>2. x \in DOMAIN last
      BY <2>1, FullShape
  <2>3. IF x \in DOMAIN box THEN box[x] = last[x]
        ELSE IF Returns(x) THEN writing.moves[x] = last[x]
        ELSE db[last[x].home][x] = last[x]
      BY <2>2 DEF IInv, Seen
  <2> QED BY <2>1, <2>3 DEF Kept, Returns
<1> QED BY <1>1, Invariant, PTL

(* A saved position is never replaced by an older one, though a refused batch returns to the
   box and a final flush may wait behind it: requeueFailed keeps what is newer.        *)
THEOREM SavedNeverBack == ASSUME Prompt  PROVE Spec => NeverBack
<1> DEFINE Forward == \A h \in Projects, x \in Pieces : db'[h][x].n >= db[h][x].n
<1>1. ASSUME IInv, Next  PROVE Forward
  <2>1. TypeOK
      BY <1>1 DEF IInv
  <2>2. \A h \in Projects, x \in Pieces : db[h][x].n \in Nat
      BY <2>1, FullShape DEF TypeOK
  <2>3. CASE db' = db
      BY <2>2, <2>3
  <2>4. CASE RunMoves(TRUE)
    <3> DEFINE c == Head(queue)
    <3>1. /\ queue # <<>> /\ c.op = "moves" /\ Fenced(c.epoch)
          /\ db' = [db EXCEPT ![workspace.home] = Merged(@, c.batch.moves)]
        BY <2>4 DEF RunMoves, Runs
    <3>2. shown # None /\ workspace = shown /\ c.epoch = shown.epoch
        BY <1>1, <3>1, WriteIsShown
    <3>3. c \in Commands /\ 1 \in DOMAIN queue /\ queue[1] = c
        BY <2>1, <3>1, LineShape
    <3>4. \A x \in DOMAIN c.batch.moves : db[shown.home][x].n <= c.batch.moves[x].n
        BY <1>1, <3>1, <3>2, <3>3 DEF IInv, Rising
    <3>5. c.batch.moves \in Boxes
        BY <3>1, <3>3, CommandShape
    <3>6. shown.home \in Projects /\ db[shown.home] \in Full
        BY <2>1, <3>2, LoadShape DEF TypeOK
    <3>7. ASSUME NEW x \in Pieces
          PROVE  Merged(db[shown.home], c.batch.moves)[x].n >= db[shown.home][x].n
      <4>1. db[shown.home] \in Boxes /\ x \in DOMAIN db[shown.home]
          BY <3>6, FullShape
      <4>2. Merged(db[shown.home], c.batch.moves)[x]
                = IF x \in DOMAIN c.batch.moves THEN c.batch.moves[x] ELSE db[shown.home][x]
        <5> DEFINE f == db[shown.home]
                   g == c.batch.moves
        <5>1. f \in Boxes /\ g \in Boxes /\ x \in DOMAIN f \cup DOMAIN g
            BY <3>5, <4>1
        <5> HIDE DEF f, g
        <5>2. Merged(f, g)[x] = IF x \in DOMAIN g THEN g[x] ELSE f[x]
            BY <5>1, MergedShape
        <5> QED BY <5>2 DEF f, g
      <4>3. db[shown.home][x].n \in Nat
          BY <2>2, <3>6
      <4>4. x \in DOMAIN c.batch.moves => c.batch.moves[x].n \in Nat
          BY <3>5, BoxShape
      <4> QED BY <3>4, <4>2, <4>3, <4>4
    <3> HIDE DEF c
    <3>8. ASSUME NEW h \in Projects, NEW x \in Pieces  PROVE db'[h][x].n >= db[h][x].n
      <4>1. CASE h = shown.home
        <5>1. db'[h] = Merged(db[h], c.batch.moves)
            BY <2>1, <3>1, <3>2, <4>1 DEF TypeOK
        <5> QED BY <3>7, <4>1, <5>1
      <4>2. CASE h # shown.home
        <5>1. db'[h] = db[h]
            BY <2>1, <3>1, <3>2, <4>2 DEF TypeOK
        <5> QED BY <2>2, <5>1
      <4> QED BY <4>1, <4>2
    <3> QED BY <3>8
  <2>5. db' = db \/ RunMoves(TRUE)
    <3>1. ASSUME Backend  PROVE db' = db \/ RunMoves(TRUE)
      <4>1. RunMoves(FALSE) => db' = db
          BY DEF RunMoves
      <4> QED BY <3>1, <4>1 DEF Backend, RunClose, RunOpen, RunRead, rustVars
    <3>2. ASSUME HearAnswer \/ Install \/ RunEffect  PROVE db' = db
        BY <3>2 DEF HearAnswer, HearMoves, HearClose, HearOpen, HearRead, Install, RunEffect, rustVars
    <3>3. ASSUME FlushTimer \/ RetryTimer \/ Churn \/ Unload  PROVE db' = db
        BY <3>3 DEF FlushTimer, RetryTimer, Churn, Unload, rustVars
    <3>4. ASSUME NEW x \in Pieces, Move(x)  PROVE db' = db
        BY <3>4 DEF Move, rustVars
    <3>5. ASSUME NEW h \in Projects \cup {None}, Switch(h)  PROVE db' = db
        BY <3>5 DEF Switch, rustVars
    <3> QED BY <1>1, <3>1, <3>2, <3>3, <3>4, <3>5 DEF Next
  <2> QED BY <2>3, <2>4, <2>5
<1>2. IInv /\ [Next]_vars => [Forward]_vars
    BY <1>1
<1> QED BY <1>2, Invariant, PTL DEF Spec, NeverBack
=============================================================================
