------------------------- MODULE LspSessionsProofs -------------------------
(***************************************************************************)
(* Proofs about LspSessions: which entries the store may keep, why a       *)
(* diagnostic that is told as current is about the last text, and why the  *)
(* crash of a predecessor spares its successor.                            *)
(***************************************************************************)
EXTENDS LspSessions, SequenceTheorems, TLAPS

----------------------------------------------------------------------------
(* The types *)

Entries == [gen : Nat, open : BOOLEAN, sent : Nat, highest : Nat, reused : Nat,
            pub : [version : Nat, gen : Nat, note : Nat], last : Nat, kept : BOOLEAN]
Kinds == {"open", "change", "close"}
Asks == [kind : Kinds, version : Nat \ {0}, opening : Nat \ {0}]
Places == 1..Len(asks)

SessionTypes ==
    /\ pc \in [Starts -> {"idle", "checked", "reserved", "launched", "inserted", "done"}]
    /\ key \in [Starts -> Keys]
    /\ starting \subseteq Starts
    /\ registry \in [Keys -> Starts \cup {Nobody}]
    /\ server \in [Starts -> {"none", "up", "dead", "dropped", "handled", "gone"}]
    /\ stop \in [Starts -> {"no", "taken", "dropped", "marked"}]

DocumentTypes ==
    /\ version \in Nat /\ pages \in Nat /\ jumbled \in BOOLEAN
    /\ asks \in Seq(Asks)
    /\ notes \subseteq Places
    /\ writing \subseteq [note : Places, to : Starts]
    /\ texts \in [Starts -> SUBSET Places]

Types == SessionTypes /\ DocumentTypes /\ store \in [Starts -> Entries]

----------------------------------------------------------------------------
(* The inductive invariant *)

(* A reservation is held from the moment it is made until the start is over, by one start
   for each key; the
   registry names only sessions that were inserted under their own key.           *)
Reservations ==
    /\ \A s \in Starts : pc[s] \in {"reserved", "launched", "inserted"} <=> s \in starting
    /\ \A s, t \in starting : key[s] = key[t] => s = t
    /\ \A k \in Keys : registry[k] # Nobody =>
           key[registry[k]] = k /\ pc[registry[k]] \in {"inserted", "done"}
    /\ \A s \in Starts : stop[s] # "no" => pc[s] \in {"inserted", "done"}

(* What the store keeps belongs to a start that was launched, and while a start is
   launched and not inserted it is the only one of its key.                       *)
Kept ==
    /\ \A s \in Starts : store[s].kept =>
           \/ pc[s] = "launched"
           \/ pc[s] \in {"inserted", "done"} /\ registry[key[s]] = s
           \/ pc[s] \in {"inserted", "done"} /\ stop[s] = "taken"
    /\ \A s \in Starts : stop[s] \in {"dropped", "marked"} => ~store[s].kept
    /\ \A s \in Starts : server[s] \in {"dropped", "handled", "gone"} => ~store[s].kept
    /\ \A s, t \in Starts :
           pc[s] = "launched" /\ key[t] = key[s] /\ t # s => ~store[t].kept
    /\ \A s \in Starts : ~store[s].kept => store[s] = NoEntry

(* Before it is inserted a session has been told nothing. *)
Untold ==
    \A s \in Starts : pc[s] \notin {"inserted", "done"} =>
        texts[s] = {} /\ (\A w \in writing : w.to # s) /\ ~store[s].open

(* An opening holds for the notes up to the next one. *)
Openings ==
    /\ \A n \in Places : /\ asks[n].opening \in 1..n
                         /\ asks[asks[n].opening].kind = "open"
                         /\ asks[n].kind = "open" => asks[n].opening = n
    /\ \A m, n \in Places : m <= n => asks[m].opening <= asks[n].opening

(* Within an opening, and in the first page, versions grow up to that of the page. *)
Growing ==
    \A m, n \in Places :
        m < n /\ asks[n].kind # "close" /\ (pages = 0 \/ asks[m].opening = asks[n].opening)
        => asks[m].version < asks[n].version
UpToPage ==
    /\ version > 0 => Len(asks) > 0
    /\ \A n \in Places :
           pages = 0 \/ (version > 0 /\ asks[n].opening = asks[Len(asks)].opening)
           => asks[n].version <= version

Asked == Openings /\ Growing /\ UpToPage

(* Unless openings were crossed, what is recorded of an opening comes before what is not. *)
Orderly ==
    ~jumbled => \A m \in Places \ notes, n \in notes :
                    "open" \in {asks[m].kind, asks[n].kind} => m < n

(* The texts that a server has or is about to be given, or that are published *)
Given(s) ==
    texts[s] \cup ({store[s].pub.note} \ {0})
    \cup {w.note : w \in {v \in writing : v.to = s /\ asks[v.note].kind # "close"}}

Shown ==
    \A s \in Starts :
        /\ store[s].pub.note # 0 =>
               store[s].pub.note \in Places /\ store[s].pub.version = asks[store[s].pub.note].version
        /\ \A n \in Given(s) : asks[n].kind # "close"

(* The opening of an entry that is open *)
Begun(d) == asks[d.last].opening

(* An entry that is kept knows the highest version; in an open document, a text above the
   versions that were used before is of this opening, or older than it.  *)
EntryTrue(d, T) ==
    /\ \A n \in T : asks[n].version <= d.highest
    /\ d.open => /\ d.last \in Places /\ asks[d.last].kind # "close"
                 /\ d.sent = asks[d.last].version
    /\ d.open /\ ~jumbled =>
           \A n \in T : \/ asks[n].version <= d.reused
                        \/ asks[n].opening = Begun(d)
                        \/ asks[n].version < asks[Begun(d)].version
Entered == \A s \in Starts : store[s].kept => EntryTrue(store[s], Given(s))

(* The opening of the registered session's document is the last one recorded. *)
Ahead ==
    LET s == registry[DocumentKey]
    IN  s # Nobody /\ store[s].kept /\ store[s].open /\ ~jumbled =>
            /\ Begun(store[s]) \notin notes
            /\ \A o \in Places : asks[o].kind = "open" /\ o > Begun(store[s]) => o \in notes

IInv == Types /\ Reservations /\ Kept /\ Untold /\ Asked /\ Orderly /\ Shown /\ Entered /\ Ahead

----------------------------------------------------------------------------
(* Starts, crashes and stops: the document is left alone *)

(* An entry changes only by being dropped, or by being begun for a start that was told
   nothing, and texts only go: what was true of the entries and of the texts stays true. *)
Dropping ==
    /\ UNCHANGED <<version, asks, notes, pages, jumbled>>
    /\ writing' \subseteq writing
    /\ \A t \in Starts :
           /\ texts'[t] \subseteq texts[t]
           /\ \/ store'[t] = store[t]
              \/ store'[t] = NoEntry
              \/ store'[t] = NewEntry /\ texts[t] = {} /\ \A w \in writing : w.to # t

(* The session of the document stays, goes, or is one whose document is not open. *)
Succeeds ==
    LET s == registry'[DocumentKey]
    IN  s \in {registry[DocumentKey], Nobody} \/ ~store'[s].open

LEMMA EntryShape ==
    /\ NoEntry \in Entries /\ NewEntry \in Entries
    /\ ~NoEntry.kept /\ ~NoEntry.open /\ NoEntry.pub.note = 0
    /\ NewEntry.kept /\ ~NewEntry.open /\ NewEntry.pub.note = 0
BY DEF NoEntry, NewEntry, Entries

(* What is true of an entry and some texts is true of the entry and fewer of them. *)
LEMMA FewerTexts ==
    ASSUME NEW d, NEW e, NEW T, NEW U \in SUBSET T, EntryTrue(d, T),
           e.open = d.open, e.sent = d.sent, e.highest = d.highest, e.reused = d.reused,
           e.last = d.last
    PROVE  EntryTrue(e, U)
BY DEF EntryTrue, Begun

(* The claims about the notes and the entries, when nothing is asked or recorded *)
LEMMA DocumentStays ==
    ASSUME IInv, Types', Dropping, Succeeds
    PROVE  Asked' /\ Orderly' /\ Shown' /\ Entered' /\ Ahead'
<1> USE EntryShape DEF IInv, Dropping
<1>1. Asked' /\ Orderly'
    BY DEF Asked, Openings, Growing, UpToPage, Orderly, Places
<1>2. ASSUME NEW t \in Starts
      PROVE  store'[t] = store[t] => Given(t)' \subseteq Given(t)
    BY <1>2 DEF Given
<1>3. ASSUME NEW t \in Starts, store'[t] # store[t]
      PROVE  /\ store'[t].pub.note = 0 /\ ~store'[t].open
             /\ store'[t].kept => Given(t)' = {}
             /\ \A n \in Given(t)' : n \in Given(t)
  <2>1. store'[t].pub.note = 0 /\ ~store'[t].open
      BY <1>3
  <2>2. CASE store'[t] = NewEntry /\ texts[t] = {} /\ \A w \in writing : w.to # t
      BY <2>1, <2>2 DEF Given
  <2>3. \A n \in Given(t)' : n \in Given(t)
      BY <2>1 DEF Given
  <2> QED BY <1>3, <2>1, <2>2, <2>3
<1>4. Shown'
  <2> SUFFICES ASSUME NEW t \in Starts
               PROVE  /\ store'[t].pub.note # 0 =>
                             /\ store'[t].pub.note \in Places'
                             /\ store'[t].pub.version = asks'[store'[t].pub.note].version
                      /\ \A n \in Given(t)' : asks'[n].kind # "close"
      BY DEF Shown
  <2>1. Places' = Places /\ asks' = asks
      BY DEF Places
  <2> QED BY <1>2, <1>3, <2>1 DEF Shown
<1>5. Entered'
  <2> SUFFICES ASSUME NEW t \in Starts, store'[t].kept
               PROVE  \/ EntryTrue(store[t], Given(t)') /\ store'[t] = store[t]
                      \/ Given(t)' = {} /\ ~store'[t].open
      BY DEF Entered, EntryTrue, Begun, Places
  <2>1. CASE store'[t] = store[t]
      BY <1>2, <2>1, FewerTexts DEF Entered
  <2>2. CASE store'[t] # store[t]
      BY <1>3, <2>2
  <2> QED BY <2>1, <2>2
<1>6. Ahead'
  <2> SUFFICES ASSUME NEW s, s = registry'[DocumentKey], s # Nobody,
                      store'[s].kept, store'[s].open, ~jumbled
               PROVE  /\ Begun(store'[s]) \notin notes
                      /\ \A o \in Places : asks[o].kind = "open" /\ o > Begun(store'[s])
                                                => o \in notes
      BY DEF Ahead, Begun, Places
  <2>1. s \in Starts
      BY LspAssumption DEF Types, SessionTypes
  <2>2. s = registry[DocumentKey] /\ store'[s] = store[s]
      BY <2>1 DEF Succeeds
  <2> QED BY <2>2 DEF Ahead
<1> QED BY <1>1, <1>4, <1>5, <1>6

(* One lemma for each action: the invariant after it. *)

LEMMA CheckKeeps ==
    ASSUME IInv, NEW s \in Starts, NEW k \in Keys, Check(s, k)
    PROVE  IInv'
<1> USE DEF Check, IInv
<1>1. Types'
    BY DEF Types, SessionTypes, DocumentTypes, documentVars, Places
<1>2. Reservations'
    BY DEF Reservations, Types, SessionTypes
<1>3. Kept'
    BY DEF Kept, Types, SessionTypes
<1>4. Untold'
    BY DEF Untold, Types, SessionTypes, documentVars
<1>5. Dropping /\ Succeeds
    BY DEF Dropping, Succeeds, documentVars
<1> QED BY <1>1, <1>2, <1>3, <1>4, <1>5, DocumentStays

LEMMA ReserveKeeps ==
    ASSUME IInv, NEW s \in Starts, Reserve(s)
    PROVE  IInv'
<1> USE DEF Reserve, IInv, startVars
<1>1. Types'
    BY EntryShape DEF Types, SessionTypes, DocumentTypes, documentVars, Places
<1>2. Reservations'
    BY DEF Reservations, Types, SessionTypes
<1>3. Kept'
    BY EntryShape DEF Kept, Reservations, Types, SessionTypes
<1>4. Untold'
    BY EntryShape DEF Untold, Types, SessionTypes, documentVars
<1>5. Dropping /\ Succeeds
    BY EntryShape, LspAssumption DEF Dropping, Succeeds, Types, SessionTypes, documentVars
<1> QED BY <1>1, <1>2, <1>3, <1>4, <1>5, DocumentStays

LEMMA LaunchKeeps ==
    ASSUME IInv, NEW s \in Starts, Launch(s)
    PROVE  IInv'
<1> USE DEF Launch, IInv, startVars
<1>1. Types'
    BY EntryShape DEF Begin, Types, SessionTypes, DocumentTypes, documentVars, Places
<1>2. Reservations'
    BY DEF Reservations, Types, SessionTypes
<1>3. Kept'
    BY EntryShape DEF Kept, Reservations, Types, SessionTypes, Begin
<1>4. Untold'
    BY EntryShape DEF Untold, Types, SessionTypes, documentVars, Begin
<1>5. Dropping /\ Succeeds
    BY EntryShape, LspAssumption DEF Dropping, Succeeds, Types, SessionTypes, documentVars, Begin, Untold
<1> QED BY <1>1, <1>2, <1>3, <1>4, <1>5, DocumentStays

LEMMA LaunchFailsKeeps ==
    ASSUME IInv, NEW s \in Starts, LaunchFails(s)
    PROVE  IInv'
<1> USE DEF LaunchFails, IInv, startVars
<1>1. Types'
    BY EntryShape DEF Types, SessionTypes, DocumentTypes, documentVars, Places
<1>2. Reservations'
    BY DEF Reservations, Types, SessionTypes
<1>3. Kept'
    BY EntryShape DEF Kept, Reservations, Types, SessionTypes
<1>4. Untold'
    BY EntryShape DEF Untold, Types, SessionTypes, documentVars
<1>5. Dropping /\ Succeeds
    BY EntryShape, LspAssumption DEF Dropping, Succeeds, Types, SessionTypes, documentVars
<1> QED BY <1>1, <1>2, <1>3, <1>4, <1>5, DocumentStays

LEMMA InsertKeeps ==
    ASSUME IInv, NEW s \in Starts, Insert(s)
    PROVE  IInv'
<1> USE DEF Insert, IInv, startVars
<1>1. Types'
    BY EntryShape DEF Types, SessionTypes, DocumentTypes, documentVars, Places
<1>2. Reservations'
    BY DEF Reservations, Types, SessionTypes
<1>3. Kept'
    BY EntryShape DEF Kept, Reservations, Types, SessionTypes
<1>4. Untold'
    BY EntryShape DEF Untold, Types, SessionTypes, documentVars
<1>5. Dropping /\ Succeeds
    BY EntryShape, LspAssumption DEF Dropping, Succeeds, Types, SessionTypes, documentVars, Untold
<1> QED BY <1>1, <1>2, <1>3, <1>4, <1>5, DocumentStays

LEMMA ReleaseKeeps ==
    ASSUME IInv, NEW s \in Starts, Release(s)
    PROVE  IInv'
<1> USE DEF Release, IInv, startVars
<1>1. Types'
    BY EntryShape DEF Types, SessionTypes, DocumentTypes, documentVars, Places
<1>2. Reservations'
    BY DEF Reservations, Types, SessionTypes
<1>3. Kept'
    BY EntryShape DEF Kept, Reservations, Types, SessionTypes
<1>4. Untold'
    BY EntryShape DEF Untold, Types, SessionTypes, documentVars
<1>5. Dropping /\ Succeeds
    BY EntryShape, LspAssumption DEF Dropping, Succeeds, Types, SessionTypes, documentVars
<1> QED BY <1>1, <1>2, <1>3, <1>4, <1>5, DocumentStays

LEMMA ExitsKeeps ==
    ASSUME IInv, NEW s \in Starts, Exits(s)
    PROVE  IInv'
<1> USE DEF Exits, IInv, startVars
<1>1. Types'
    BY EntryShape DEF Types, SessionTypes, DocumentTypes, Places
<1>2. Reservations'
    BY DEF Reservations, Types, SessionTypes
<1>3. Kept'
    BY EntryShape DEF Kept, Reservations, Types, SessionTypes
<1>4. Untold'
    BY EntryShape DEF Untold, Types, SessionTypes
<1>5. Dropping /\ Succeeds
    BY EntryShape, LspAssumption DEF Dropping, Succeeds, Types, SessionTypes, documentVars
<1> QED BY <1>1, <1>2, <1>3, <1>4, <1>5, DocumentStays

LEMMA CrashDropsKeeps ==
    ASSUME IInv, NEW s \in Starts, CrashDrops(s)
    PROVE  IInv'
<1> USE DEF CrashDrops, IInv, startVars
<1>1. Types'
    BY EntryShape DEF Types, SessionTypes, DocumentTypes, documentVars, Places
<1>2. Reservations'
    BY DEF Reservations, Types, SessionTypes
<1>3. Kept'
    BY EntryShape DEF Kept, Reservations, Types, SessionTypes
<1>4. Untold'
    BY EntryShape DEF Untold, Types, SessionTypes, documentVars
<1>5. Dropping /\ Succeeds
    BY EntryShape, LspAssumption DEF Dropping, Succeeds, Types, SessionTypes, documentVars
<1> QED BY <1>1, <1>2, <1>3, <1>4, <1>5, DocumentStays

LEMMA CrashRemovesKeeps ==
    ASSUME IInv, NEW s \in Starts, CrashRemoves(s)
    PROVE  IInv'
<1> USE DEF CrashRemoves, IInv, startVars
<1>1. Types'
    BY EntryShape DEF Types, SessionTypes, DocumentTypes, documentVars, Places
<1>2. Reservations'
    BY DEF Reservations, Types, SessionTypes, CrashOwns
<1>3. Kept'
    BY EntryShape DEF Kept, Reservations, Types, SessionTypes, CrashOwns
<1>4. Untold'
    BY EntryShape DEF Untold, Types, SessionTypes, documentVars
<1>5. Dropping /\ Succeeds
    BY EntryShape, LspAssumption DEF Dropping, Succeeds, Types, SessionTypes, documentVars, CrashOwns
<1> QED BY <1>1, <1>2, <1>3, <1>4, <1>5, DocumentStays

LEMMA StopTakesKeeps ==
    ASSUME IInv, NEW k \in Keys, StopTakes(k)
    PROVE  IInv'
<1> USE DEF StopTakes, IInv, startVars
<1>1. Types'
    BY EntryShape DEF Types, SessionTypes, DocumentTypes, documentVars, Places
<1>2. Reservations'
    BY DEF Reservations, Types, SessionTypes
<1>3. Kept'
    BY EntryShape DEF Kept, Reservations, Types, SessionTypes
<1>4. Untold'
    BY EntryShape DEF Untold, Types, SessionTypes, documentVars
<1>5. Dropping /\ Succeeds
    BY EntryShape, LspAssumption DEF Dropping, Succeeds, Types, SessionTypes, documentVars
<1> QED BY <1>1, <1>2, <1>3, <1>4, <1>5, DocumentStays

LEMMA StopDropsKeeps ==
    ASSUME IInv, NEW s \in Starts, StopDrops(s)
    PROVE  IInv'
<1> USE DEF StopDrops, IInv, startVars
<1>1. Types'
    BY EntryShape DEF Types, SessionTypes, DocumentTypes, documentVars, Places
<1>2. Reservations'
    BY DEF Reservations, Types, SessionTypes
<1>3. Kept'
    BY EntryShape DEF Kept, Reservations, Types, SessionTypes
<1>4. Untold'
    BY EntryShape DEF Untold, Types, SessionTypes, documentVars
<1>5. Dropping /\ Succeeds
    BY EntryShape, LspAssumption DEF Dropping, Succeeds, Types, SessionTypes, documentVars
<1> QED BY <1>1, <1>2, <1>3, <1>4, <1>5, DocumentStays

LEMMA StopMarksKeeps ==
    ASSUME IInv, NEW s \in Starts, StopMarks(s)
    PROVE  IInv'
<1> USE DEF StopMarks, IInv, startVars
<1>1. Types'
    BY EntryShape DEF Types, SessionTypes, DocumentTypes, documentVars, Places
<1>2. Reservations'
    BY DEF Reservations, Types, SessionTypes
<1>3. Kept'
    BY EntryShape DEF Kept, Reservations, Types, SessionTypes
<1>4. Untold'
    BY EntryShape DEF Untold, Types, SessionTypes, documentVars
<1>5. Dropping /\ Succeeds
    BY EntryShape, LspAssumption DEF Dropping, Succeeds, Types, SessionTypes, documentVars
<1> QED BY <1>1, <1>2, <1>3, <1>4, <1>5, DocumentStays

----------------------------------------------------------------------------
(* Notifications: the sessions are left alone *)

SessionsStay ==
    /\ UNCHANGED <<startVars, registry, server, stop>>
    /\ \A t \in Starts : store'[t].kept = store[t].kept
    /\ \A t \in Starts : ~store[t].kept => store'[t] = store[t]

LEMMA SessionsKeep ==
    ASSUME IInv, SessionsStay
    PROVE  Reservations' /\ Kept'
<1> USE DEF IInv, SessionsStay, startVars
<1>1. Reservations'
    BY DEF Reservations
<1>2. Kept'
    BY DEF Kept
<1> QED BY <1>1, <1>2

LEMMA AsksShape ==
    ASSUME DocumentTypes
    PROVE  /\ Len(asks) \in Nat
           /\ \A n \in Places : /\ n \in Nat \ {0} /\ n <= Len(asks)
                                /\ asks[n].kind \in Kinds /\ asks[n].version \in Nat
                                /\ asks[n].version > 0 /\ asks[n].opening \in Nat
<1>1. Len(asks) \in Nat /\ \A n \in Places : n \in Nat \ {0} /\ n <= Len(asks)
    BY DEF DocumentTypes, Places
<1>2. \A n \in Places : asks[n] \in Asks
    BY DEF DocumentTypes, Places
<1>3. \A a \in Asks : a.kind \in Kinds /\ a.version \in Nat /\ a.version > 0 /\ a.opening \in Nat
    BY DEF Asks
<1> QED BY <1>1, <1>2, <1>3

LEMMA GivenPlaces ==
    ASSUME IInv, NEW s \in Starts
    PROVE  Given(s) \subseteq Places
<1>1. texts[s] \subseteq Places /\ \A w \in writing : w.note \in Places
    BY DEF IInv, Types, DocumentTypes
<1>2. store[s].pub.note # 0 => store[s].pub.note \in Places
    BY DEF IInv, Shown
<1> QED BY <1>1, <1>2 DEF Given

(* The opening of an entry that is open is a note of its own, an opening. *)
LEMMA BegunShape ==
    ASSUME IInv, NEW s \in Starts, store[s].kept, store[s].open
    PROVE  /\ store[s].last \in Places /\ asks[store[s].last].kind # "close"
           /\ store[s].sent = asks[store[s].last].version
           /\ Begun(store[s]) \in Places /\ Begun(store[s]) <= store[s].last
           /\ asks[Begun(store[s])].kind = "open"
           /\ asks[Begun(store[s])].opening = Begun(store[s])
<1>1. /\ store[s].last \in Places /\ asks[store[s].last].kind # "close"
      /\ store[s].sent = asks[store[s].last].version
    BY DEF IInv, Entered, EntryTrue
<1>2. asks[store[s].last].opening \in 1..store[s].last
    BY <1>1 DEF IInv, Asked, Openings
<1>3. Len(asks) \in Nat
    BY AsksShape DEF IInv, Types
<1>4. Begun(store[s]) \in Places /\ Begun(store[s]) <= store[s].last
    BY <1>1, <1>2, <1>3 DEF Begun, Places
<1> QED BY <1>1, <1>4 DEF IInv, Asked, Openings, Begun

LEMMA SendKeeps ==
    ASSUME IInv, NEW kind \in Kinds, Send(kind)
    PROVE  IInv'
<1> DEFINE n == Len(asks) + 1
           o == IF kind = "open" THEN n ELSE asks[n - 1].opening
           a == [kind |-> kind, version |-> version', opening |-> o]
<1> USE DEF IInv
<1>1. /\ asks \in Seq(Asks) /\ version \in Nat /\ Len(asks) \in Nat /\ n \in Nat \ {0}
      /\ \A i \in Places : /\ i \in Nat \ {0} /\ i < n /\ asks[i].kind \in Kinds
                           /\ asks[i].version \in Nat /\ asks[i].version > 0
                           /\ asks[i].opening \in Nat
  <2>1. asks \in Seq(Asks) /\ version \in Nat
      BY DEF Types, DocumentTypes
  <2> QED BY <2>1, AsksShape DEF Types
<1>2. /\ version' \in Nat \ {0} /\ version' >= version
      /\ version' = IF kind = "close" THEN version ELSE version + 1
      /\ kind # "open" => version > 0
    BY <1>1 DEF Send, Kinds
<1>3. /\ asks' = Append(asks, a) /\ notes' = notes \cup {n}
      /\ UNCHANGED <<pc, key, starting, registry, server, stop, store, writing, texts, pages,
                     jumbled>>
    BY DEF Send, startVars
<1>4. /\ o \in 1..n
      /\ kind = "open" => o = n
      /\ kind # "open" => /\ Len(asks) \in Places /\ o = asks[Len(asks)].opening
                          /\ o \in Places /\ asks[o].kind = "open"
  <2>1. CASE kind = "open"
      BY <1>1, <2>1
  <2>2. CASE kind # "open"
    <3>1. Len(asks) \in Places /\ n - 1 = Len(asks)
        BY <1>1, <1>2, <2>2 DEF Asked, Openings, UpToPage, Places
    <3>2. asks[Len(asks)].opening \in 1..Len(asks) /\ asks[asks[Len(asks)].opening].kind = "open"
        BY <3>1 DEF Asked, Openings, Growing, UpToPage
    <3> QED BY <1>1, <2>2, <3>1, <3>2 DEF Places
  <2> QED BY <2>1, <2>2
<1>5. a \in Asks /\ a.kind = kind /\ a.version = version' /\ a.opening = o
    BY <1>1, <1>2, <1>4 DEF Asks
<1> HIDE DEF a
<1>6. /\ asks' \in Seq(Asks) /\ Len(asks') = n /\ asks'[n] = a /\ asks' # <<>>
      /\ \A i \in Places : asks'[i] = asks[i]
      /\ Places' = Places \cup {n} /\ n \notin Places
    BY <1>1, <1>3, <1>5 DEF Places
<1> HIDE DEF n, o
<1>7. Types'
  <2>1. notes' \subseteq Places' /\ Places \subseteq Places'
      BY <1>3, <1>6 DEF Types, DocumentTypes
  <2>2. writing' \subseteq [note : Places', to : Starts] /\ texts' \in [Starts -> SUBSET Places']
      BY <1>3, <2>1 DEF Types, DocumentTypes
  <2> QED BY <1>2, <1>3, <1>6, <2>1, <2>2 DEF Types, SessionTypes, DocumentTypes
<1>8. Reservations' /\ Kept'
    BY <1>3, SessionsKeep DEF SessionsStay, startVars
<1>9. Untold'
    BY <1>3 DEF Untold
<1>10. Asked'
  <2>1. ASSUME NEW i \in Places'
        PROVE  /\ asks'[i].opening \in 1..i
               /\ asks'[asks'[i].opening].kind = "open"
               /\ asks'[i].kind = "open" => asks'[i].opening = i
    <3>1. CASE i \in Places
      <4>1. asks[i].opening \in 1..i /\ asks[asks[i].opening].kind = "open"
            /\ (asks[i].kind = "open" => asks[i].opening = i)
          BY <3>1 DEF Asked, Openings, Growing, UpToPage
      <4>2. asks[i].opening \in Places
          BY <1>1, <3>1, <4>1 DEF Places
      <4> QED BY <1>6, <3>1, <4>1, <4>2
    <3>2. CASE i = n
        BY <1>1, <1>4, <1>5, <1>6, <3>2
    <3> QED BY <1>6, <3>1, <3>2
  <2>2. ASSUME NEW i \in Places
        PROVE  asks[i].opening <= o /\ (kind = "open" => asks[i].opening < o)
    <3>1. asks[i].opening \in 1..i
        BY DEF Asked, Openings, Growing, UpToPage
    <3>2. kind # "open" => i <= Len(asks) /\ asks[i].opening <= asks[Len(asks)].opening
        BY <1>1, <1>4 DEF Asked, Openings, n
    <3> QED BY <1>1, <1>4, <3>1, <3>2
  <2>3. ASSUME NEW i \in Places', NEW j \in Places', i <= j
        PROVE  asks'[i].opening <= asks'[j].opening
    <3>1. CASE j \in Places
      <4>1. i \in Places
          BY <1>1, <1>6, <2>3, <3>1
      <4> QED BY <1>6, <2>3, <3>1, <4>1 DEF Asked, Openings, Growing, UpToPage
    <3>2. CASE j = n /\ i \in Places
        BY <1>5, <1>6, <2>2, <3>2
    <3>3. CASE j = n /\ i = n
        BY <1>4, <1>5, <1>6, <3>3
    <3> QED BY <1>6, <3>1, <3>2, <3>3
  <2>4. ASSUME NEW i \in Places, pages = 0 \/ asks[i].opening = o
        PROVE  asks[i].version <= version
    <3>1. CASE pages = 0
        BY <3>1 DEF Asked, Openings, Growing, UpToPage
    <3>2. CASE pages # 0 /\ asks[i].opening = o
      <4>1. kind # "open"
          BY <1>1, <1>4, <2>2, <2>4, <3>2
      <4> QED BY <1>2, <1>4, <3>2, <4>1 DEF Asked, Openings, Growing, UpToPage
    <3> QED BY <2>4, <3>1, <3>2
  <2>5. ASSUME NEW i \in Places', NEW j \in Places', i < j, asks'[j].kind # "close",
               pages = 0 \/ asks'[i].opening = asks'[j].opening
        PROVE  asks'[i].version < asks'[j].version
    <3>1. CASE j \in Places
      <4>1. i \in Places
          BY <1>1, <1>6, <2>5, <3>1
      <4> QED BY <1>6, <2>5, <3>1, <4>1 DEF Asked, Openings, Growing, UpToPage
    <3>2. CASE j = n
      <4>1. i \in Places /\ asks'[i] = asks[i] /\ asks'[j] = a
          BY <1>1, <1>6, <2>5, <3>2
      <4>2. asks[i].version <= version
          BY <1>5, <2>4, <2>5, <4>1
      <4>3. version' = version + 1
          BY <1>2, <1>5, <2>5, <4>1
      <4> QED BY <1>1, <1>5, <4>1, <4>2, <4>3
    <3> QED BY <1>6, <3>1, <3>2
  <2>6. ASSUME NEW i \in Places',
               pages = 0 \/ (version' > 0 /\ asks'[i].opening = asks'[Len(asks')].opening)
        PROVE  asks'[i].version <= version'
    <3>1. CASE i \in Places
      <4>1. asks[i].version <= version
          BY <1>5, <1>6, <2>4, <2>6, <3>1
      <4> QED BY <1>1, <1>2, <1>6, <3>1, <4>1
    <3>2. CASE i = n
        BY <1>2, <1>5, <1>6, <3>2
    <3> QED BY <1>6, <3>1, <3>2
  <2>7. Openings'
      BY <2>1, <2>3 DEF Openings
  <2>8. Growing'
      BY <1>3, <2>5 DEF Growing
  <2>9. UpToPage'
    <3>1. Len(asks') > 0
        BY <1>1, <1>6
    <3> QED BY <1>3, <2>6, <3>1 DEF UpToPage
  <2> QED BY <2>7, <2>8, <2>9 DEF Asked
<1>11. Orderly'
  <2>1. Places' \ notes' \subseteq Places \ notes /\ notes \subseteq Places
      BY <1>3, <1>6 DEF Types, DocumentTypes
  <2>2. ASSUME ~jumbled, NEW m \in Places \ notes, NEW p \in notes',
               "open" \in {asks'[m].kind, asks'[p].kind}
        PROVE  m < p
    <3>1. CASE p = n
        BY <1>1, <3>1 DEF n
    <3>2. CASE p \in notes
        BY <1>6, <2>1, <2>2, <3>2 DEF Orderly
    <3> QED BY <1>3, <3>1, <3>2
  <2> QED BY <1>3, <2>1, <2>2 DEF Orderly
<1>12. ASSUME NEW t \in Starts
       PROVE  Given(t)' = Given(t)
    BY <1>3, <1>6 DEF Given, Types, DocumentTypes
<1>13. Shown'
    BY <1>3, <1>6, <1>12, GivenPlaces DEF Shown
<1>14. Entered'
  <2> SUFFICES ASSUME NEW t \in Starts, store[t].kept
               PROVE  EntryTrue(store[t], Given(t))'
      BY <1>3 DEF Entered, EntryTrue, Begun, Given
  <2>1. \A m \in Given(t) : m \in Places /\ asks'[m] = asks[m]
      BY <1>6, GivenPlaces
  <2>2. EntryTrue(store[t], Given(t))
      BY DEF Entered
  <2>3. CASE store[t].open
    <3>1. /\ store[t].last \in Places /\ Begun(store[t]) \in Places
          /\ asks'[store[t].last] = asks[store[t].last]
          /\ asks'[Begun(store[t])] = asks[Begun(store[t])]
        BY <1>6, <2>3, BegunShape
    <3>2. /\ asks'[store[t].last].opening = Begun(store[t])
          /\ asks'[Begun(store[t])] = asks[Begun(store[t])]
          /\ store[t].last \in Places'
        BY <1>6, <3>1 DEF Begun
    <3>3. \A m \in Given(t) : asks'[m] = asks[m]
        BY <2>1
    <3>4. \A m \in Given(t) : asks[m].version <= store[t].highest
        BY <2>2 DEF EntryTrue
    <3>5. ~jumbled => \A m \in Given(t) :
              \/ asks[m].version <= store[t].reused
              \/ asks[m].opening = Begun(store[t])
              \/ asks[m].version < asks[Begun(store[t])].version
        BY <2>2, <2>3 DEF EntryTrue
    <3>6. asks[store[t].last].kind # "close" /\ store[t].sent = asks[store[t].last].version
        BY <2>3, BegunShape
    <3>7. \A m \in Given(t)' : asks'[m].version <= store'[t].highest
        BY <1>3, <1>12, <3>3, <3>4
    <3>8. /\ store'[t].last \in Places' /\ asks'[store'[t].last].kind # "close"
          /\ store'[t].sent = asks'[store'[t].last].version
        BY <1>3, <3>1, <3>2, <3>6
    <3>9. ~jumbled' => \A m \in Given(t)' :
              \/ asks'[m].version <= store'[t].reused
              \/ asks'[m].opening = asks'[store'[t].last].opening
              \/ asks'[m].version < asks'[asks'[store'[t].last].opening].version
        BY <1>3, <1>12, <3>2, <3>3, <3>5
    <3> QED BY <3>7, <3>8, <3>9 DEF EntryTrue, Begun
  <2>4. CASE ~store[t].open
      BY <1>3, <1>12, <2>1, <2>2, <2>4 DEF EntryTrue
  <2> QED BY <2>3, <2>4
<1>15. Ahead'
  <2> SUFFICES ASSUME NEW s, s = registry[DocumentKey], s # Nobody,
                      store[s].kept, store[s].open, ~jumbled
               PROVE  /\ asks'[store[s].last].opening \notin notes'
                      /\ \A p \in Places' : asks'[p].kind = "open"
                             /\ p > asks'[store[s].last].opening => p \in notes'
      BY <1>3 DEF Ahead, Begun
  <2>1. s \in Starts
      BY LspAssumption DEF Types, SessionTypes
  <2>2. asks'[store[s].last].opening = Begun(store[s]) /\ Begun(store[s]) \in Places
      BY <1>6, <2>1, BegunShape DEF Begun
  <2> QED BY <1>3, <1>6, <2>2 DEF Ahead
<1> QED BY <1>7, <1>8, <1>9, <1>10, <1>11, <1>13, <1>14, <1>15

LEMMA PageLoadsKeeps ==
    ASSUME IInv, PageLoads
    PROVE  IInv'
<1> USE DEF IInv
<1>1. /\ UNCHANGED <<pc, key, starting, registry, server, stop, store>>
      /\ UNCHANGED <<asks, notes, writing, texts, jumbled>>
      /\ version' = 0 /\ pages' = pages + 1
    BY DEF PageLoads, startVars
<1>2. pages' \in Nat /\ pages' # 0 /\ Places' = Places
    BY <1>1 DEF Types, DocumentTypes, Places
<1>3. Types'
    BY <1>1, <1>2 DEF Types, SessionTypes, DocumentTypes
<1>4. Reservations' /\ Kept'
    BY <1>1, SessionsKeep DEF SessionsStay, startVars
<1>5. Untold'
    BY <1>1 DEF Untold
<1>6. Asked'
    BY <1>1, <1>2 DEF Asked, Openings, Growing, UpToPage
<1>7. Orderly'
    BY <1>1, <1>2 DEF Orderly
<1>8. Shown' /\ Entered'
    BY <1>1, <1>2 DEF Shown, Entered, EntryTrue, Begun, Given
<1>9. Ahead'
    BY <1>1, <1>2 DEF Ahead, Begun
<1> QED BY <1>3, <1>4, <1>5, <1>6, <1>7, <1>8, <1>9

(* The claims about the notes, when nothing is asked, recorded or loaded *)
LEMMA NotesStay ==
    ASSUME IInv, UNCHANGED <<registry, version, asks, notes, pages, jumbled>>,
           \A t \in Starts : /\ Given(t)' \subseteq Given(t)
                             /\ store'[t].kept = store[t].kept /\ store'[t].open = store[t].open
                             /\ store'[t].sent = store[t].sent /\ store'[t].last = store[t].last
                             /\ store'[t].highest = store[t].highest
                             /\ store'[t].reused = store[t].reused
    PROVE  Asked' /\ Orderly' /\ Entered' /\ Ahead'
<1> USE DEF IInv
<1>1. Places' = Places
    BY DEF Places
<1>2. Asked' /\ Orderly'
    BY <1>1 DEF Asked, Openings, Growing, UpToPage, Orderly
<1>3. Entered'
  <2> SUFFICES ASSUME NEW t \in Starts, store[t].kept
               PROVE  EntryTrue(store'[t], Given(t)')
      BY <1>1 DEF Entered, EntryTrue, Begun
  <2> QED BY FewerTexts DEF Entered
<1>4. Ahead'
  <2>1. registry[DocumentKey] # Nobody => registry[DocumentKey] \in Starts
      BY LspAssumption DEF Types, SessionTypes
  <2> QED BY <1>1, <2>1 DEF Ahead, Begun
<1> QED BY <1>2, <1>3, <1>4

LEMMA WritesKeeps ==
    ASSUME IInv, NEW w \in writing, Writes(w)
    PROVE  IInv'
<1> USE DEF IInv
<1>1. /\ UNCHANGED <<pc, key, starting, registry, server, stop, store>>
      /\ UNCHANGED <<version, asks, notes, pages, jumbled>>
      /\ writing' = writing \ {w}
    BY DEF Writes, startVars
<1>2. w.note \in Places /\ w.to \in Starts /\ writing \subseteq [note : Places, to : Starts]
      /\ texts \in [Starts -> SUBSET Places]
    BY DEF Types, DocumentTypes
<1>3. /\ texts' \in [Starts -> SUBSET Places]
      /\ \A t \in Starts : \/ texts'[t] = texts[t]
                           \/ /\ texts'[t] = texts[t] \cup {w.note} /\ t = w.to
                              /\ asks[w.note].kind # "close"
    BY <1>2 DEF Writes
<1>4. Types'
    BY <1>1, <1>2, <1>3 DEF Types, SessionTypes, DocumentTypes, Places
<1>5. Reservations' /\ Kept'
    BY <1>1, SessionsKeep DEF SessionsStay, startVars
<1>6. Untold'
    BY <1>1, <1>3 DEF Untold
<1>7. ASSUME NEW t \in Starts
      PROVE  Given(t)' \subseteq Given(t)
    BY <1>1, <1>3 DEF Given
<1>8. Asked' /\ Orderly' /\ Entered' /\ Ahead'
    BY <1>1, <1>7, NotesStay
<1>9. Shown'
    BY <1>1, <1>7 DEF Shown, Places
<1> QED BY <1>4, <1>5, <1>6, <1>8, <1>9

LEMMA PublishKeeps ==
    ASSUME IInv, NEW s \in Starts, Publish(s)
    PROVE  IInv'
<1> USE DEF IInv
<1>1. /\ UNCHANGED <<pc, key, starting, registry, server, stop>>
      /\ UNCHANGED <<version, asks, notes, writing, texts, pages, jumbled>>
    BY DEF Publish, startVars, documentVars
<1>2. PICK n \in texts[s] :
          store' = [store EXCEPT ![s].pub = [version |-> asks[n].version, gen |-> store[s].gen,
                                             note |-> n]]
    BY DEF Publish
<1> DEFINE p == [version |-> asks[n].version, gen |-> store[s].gen, note |-> n]
<1>3. n \in Places /\ n \in Nat \ {0} /\ asks[n].version \in Nat /\ n \in Given(s)
    BY AsksShape DEF Types, DocumentTypes, Given
<1>4. store \in [Starts -> Entries] /\ store[s] \in Entries /\ store[s].kept
    BY DEF Types, Publish
<1>5. /\ store' \in [Starts -> Entries]
      /\ \A t \in Starts : t # s => store'[t] = store[t]
      /\ store'[s] = [store[s] EXCEPT !.pub = p]
      /\ p \in [version : Nat, gen : Nat, note : Nat]
    BY <1>2, <1>3, <1>4 DEF Entries
<1>6. /\ store'[s].kept = store[s].kept /\ store'[s].open = store[s].open
      /\ store'[s].sent = store[s].sent /\ store'[s].highest = store[s].highest
      /\ store'[s].reused = store[s].reused /\ store'[s].last = store[s].last
      /\ store'[s].pub.version = asks[n].version /\ store'[s].pub.note = n
  <2>1. p.version = asks[n].version /\ p.note = n
      OBVIOUS
  <2> HIDE DEF p
  <2>2. store'[s].pub = p
      BY <1>4, <1>5 DEF Entries
  <2> QED BY <1>4, <1>5, <2>1, <2>2, ZenonT(30) DEF Entries
<1> HIDE DEF p
<1>7. Types'
    BY <1>1, <1>5 DEF Types, SessionTypes, DocumentTypes, Places
<1>8. Reservations' /\ Kept'
    BY <1>1, <1>4, <1>5, <1>6, SessionsKeep DEF SessionsStay, startVars
<1>9. Untold'
    BY <1>1, <1>5, <1>6 DEF Untold
<1>10. ASSUME NEW t \in Starts
       PROVE  /\ Given(t)' \subseteq Given(t)
              /\ store'[t].kept = store[t].kept /\ store'[t].open = store[t].open
              /\ store'[t].sent = store[t].sent /\ store'[t].last = store[t].last
              /\ store'[t].highest = store[t].highest
              /\ store'[t].reused = store[t].reused
  <2>1. CASE t = s
      BY <1>1, <1>6, <2>1 DEF Given
  <2>2. CASE t # s
      BY <1>1, <1>5, <2>2 DEF Given
  <2> QED BY <2>1, <2>2
<1>11. Asked' /\ Orderly' /\ Entered' /\ Ahead'
    BY <1>1, <1>10, NotesStay
<1>12. Shown'
  <2> SUFFICES ASSUME NEW t \in Starts
               PROVE  /\ store'[t].pub.note # 0 =>
                             /\ store'[t].pub.note \in Places
                             /\ store'[t].pub.version = asks[store'[t].pub.note].version
                      /\ \A m \in Given(t) : asks[m].kind # "close"
      BY <1>1, <1>10 DEF Shown, Places
  <2>1. CASE t = s
      BY <1>3, <1>6, <2>1 DEF Shown
  <2>2. CASE t # s
      BY <1>5, <2>2 DEF Shown
  <2> QED BY <2>1, <2>2
<1> QED BY <1>7, <1>8, <1>9, <1>11, <1>12

(* What recording a note makes of an entry *)
LEMMA RecordedShape ==
    ASSUME NEW d \in Entries, NEW n \in Nat, asks[n].kind \in Kinds, asks[n].version \in Nat
    PROVE  /\ Recorded(d, n) \in Entries
           /\ Recorded(d, n).kept = d.kept /\ Recorded(d, n).pub = d.pub
           /\ Recorded(d, n).last = n
           /\ asks[n].kind = "close" => ~Recorded(d, n).open
           /\ asks[n].kind # "close" => /\ Recorded(d, n).sent = asks[n].version
                                        /\ Recorded(d, n).highest >= d.highest
                                        /\ Recorded(d, n).highest >= asks[n].version
           /\ asks[n].kind = "close" => Recorded(d, n).highest = d.highest
           /\ asks[n].kind = "change" => /\ Recorded(d, n).open = d.open
                                         /\ Recorded(d, n).reused = d.reused
           /\ asks[n].kind = "open" =>
                  /\ Recorded(d, n).open
                  /\ Recorded(d, n).reused >= d.highest \/ asks[n].version > d.highest
<1> DEFINE v == asks[n].version
           h == Higher(d.highest, v)
<1>1. asks[n].kind \in {"open", "change", "close"} /\ v \in Nat
    BY DEF Kinds
<1>2. d.highest \in Nat
    BY DEF Entries
<1>3. h \in Nat /\ h >= d.highest /\ h >= v
    BY <1>1, <1>2 DEF Higher
<1>4. CASE asks[n].kind = "open"
  <2> DEFINE r == IF v <= d.highest THEN d.highest ELSE 0
             g == d.gen + 1
  <2>1. g \in Nat /\ r \in Nat /\ (r >= d.highest \/ v > d.highest)
      BY <1>1, <1>2 DEF Entries
  <2>2. Recorded(d, n) = [d EXCEPT !.gen = g, !.open = TRUE, !.sent = v,
                                   !.reused = r, !.highest = h, !.last = n]
      BY <1>4 DEF Recorded, Opened
  <2> HIDE DEF r, g, h, v
  <2>3. Recorded(d, n) \in Entries
      BY <1>1, <1>3, <2>1, <2>2 DEF Entries
  <2>4. /\ Recorded(d, n).kept = d.kept /\ Recorded(d, n).pub = d.pub
        /\ Recorded(d, n).last = n /\ Recorded(d, n).open
        /\ Recorded(d, n).sent = v /\ Recorded(d, n).highest = h
        /\ Recorded(d, n).reused = r
      BY <2>2 DEF Entries
  <2> QED BY <1>3, <1>4, <2>1, <2>3, <2>4 DEF v
<1>6. CASE asks[n].kind = "change"
  <2>1. Recorded(d, n) = [d EXCEPT !.sent = v, !.highest = h, !.last = n]
      BY <1>6 DEF Recorded, Changed
  <2> HIDE DEF h, v
  <2> QED BY <1>1, <1>3, <1>6, <2>1 DEF Entries, v
<1>5. CASE asks[n].kind = "close"
    BY <1>1, <1>2, <1>5 DEF Recorded, Closed, Entries
<1> QED BY <1>1, <1>4, <1>5, <1>6

(* A note that is recorded in its place has its opening behind it, and no later one. *)
LEMMA OpeningBehind ==
    ASSUME IInv, NEW n \in notes, ~jumbled, ~Overtakes(n)
    PROVE  /\ asks[n].opening \in Places \ (notes \ {n})
           /\ asks[asks[n].opening].kind = "open"
           /\ \A o \in Places : asks[o].kind = "open" /\ o > asks[n].opening => o \in notes \ {n}
<1> USE DEF IInv
<1>1. n \in Places /\ notes \subseteq Places
    BY DEF Types, DocumentTypes
<1>2. /\ Len(asks) \in Nat
      /\ \A m \in Places : m \in Nat \ {0} /\ m <= Len(asks) /\ asks[m].opening \in Nat
    BY AsksShape DEF Types
<1>3. /\ asks[n].opening \in 1..n /\ asks[asks[n].opening].kind = "open"
      /\ asks[n].kind = "open" => asks[n].opening = n
    BY <1>1 DEF Asked, Openings
<1>4. asks[n].opening \in Places
    BY <1>1, <1>2, <1>3 DEF Places
<1>5. asks[n].opening \notin notes \ {n}
  <2> SUFFICES ASSUME asks[n].opening \in notes, asks[n].opening # n PROVE FALSE
      OBVIOUS
  <2>1. asks[n].opening < n
      BY <1>1, <1>2, <1>3
  <2> QED BY <1>3, <2>1 DEF Overtakes
<1>6. ASSUME NEW o \in Places, asks[o].kind = "open", o > asks[n].opening, o \notin notes \ {n}
      PROVE  FALSE
  <2>1. o # n
      BY <1>2, <1>3, <1>6
  <2>2. o < n
      BY <1>1, <1>6, <2>1 DEF Orderly
  <2>3. asks[o].opening = o /\ asks[o].opening <= asks[n].opening
      BY <1>1, <1>2, <1>6, <2>2 DEF Asked, Openings
  <2> QED BY <1>1, <1>2, <1>4, <1>6, <2>3
<1> QED BY <1>3, <1>4, <1>5, <1>6

(* An entry that records a note stays true of the texts given before and of the note. *)
LEMMA RecordedTrue ==
    ASSUME IInv, NEW n \in notes, NEW s, s = registry[DocumentKey], s \in Starts, store[s].kept,
           NEW T \in SUBSET Places, T \subseteq Given(s) \cup {n}
    PROVE  LET e == Recorded(store[s], n)
           IN  /\ asks[n].kind # "close" \/ n \notin T => \A x \in T : asks[x].version <= e.highest
               /\ e.open => e.last = n /\ asks[n].kind # "close" /\ e.sent = asks[n].version
               /\ e.open /\ ~jumbled /\ ~Overtakes(n) =>
                      \A x \in T : \/ asks[x].version <= e.reused
                                   \/ asks[x].opening = asks[n].opening
                                   \/ asks[x].version < asks[asks[n].opening].version
<1> DEFINE d == store[s]
           e == Recorded(d, n)
<1> USE DEF IInv
<1>1. n \in Places /\ d \in Entries
    BY DEF Types, DocumentTypes
<1>2. /\ n \in Nat /\ asks[n].kind \in Kinds
      /\ \A x \in Places : asks[x].version \in Nat /\ asks[x].opening \in Nat /\ x \in Nat
    BY <1>1, AsksShape DEF Types
<1>3. /\ e \in Entries /\ e.last = n
      /\ asks[n].kind = "close" => ~e.open /\ e.highest = d.highest
      /\ asks[n].kind # "close" => /\ e.sent = asks[n].version
                                   /\ e.highest >= d.highest /\ e.highest >= asks[n].version
      /\ asks[n].kind = "change" => e.open = d.open /\ e.reused = d.reused
      /\ asks[n].kind = "open" => e.open /\ (e.reused >= d.highest \/ asks[n].version > d.highest)
    BY <1>1, <1>2, RecordedShape
<1>4. d.highest \in Nat /\ d.reused \in Nat /\ e.highest \in Nat /\ e.reused \in Nat
    BY <1>1, <1>3 DEF Entries
<1>5. EntryTrue(d, Given(s))
    BY DEF Entered
<1> HIDE DEF d, e
<1>6. \A x \in Given(s) : asks[x].version <= d.highest
    BY <1>5 DEF EntryTrue
<1>7. ASSUME asks[n].kind # "close" \/ n \notin T, NEW x \in T
      PROVE  asks[x].version <= e.highest
    BY <1>1, <1>2, <1>3, <1>4, <1>6, <1>7
<1>8. ASSUME e.open, ~jumbled, ~Overtakes(n), NEW x \in T
      PROVE  \/ asks[x].version <= e.reused
             \/ asks[x].opening = asks[n].opening
             \/ asks[x].version < asks[asks[n].opening].version
  <2>1. CASE asks[n].kind = "open"
    <3>1. asks[n].opening = n
        BY <1>1, <2>1 DEF Asked, Openings
    <3> QED BY <1>1, <1>2, <1>3, <1>4, <1>6, <2>1, <3>1
  <2>2. CASE asks[n].kind = "change"
    <3>1. d.open /\ e.reused = d.reused
        BY <1>3, <1>8, <2>2
    <3>2. /\ Begun(d) \in Places /\ asks[Begun(d)].kind = "open"
        BY <3>1, BegunShape DEF d
    <3>3. /\ Begun(d) \notin notes
          /\ \A o \in Places : asks[o].kind = "open" /\ o > Begun(d) => o \in notes
        BY <1>8, <3>1, LspAssumption DEF Ahead, d
    <3>4. /\ asks[n].opening \in Places /\ asks[n].opening \notin notes
          /\ asks[asks[n].opening].kind = "open"
          /\ \A o \in Places : asks[o].kind = "open" /\ o > asks[n].opening => o \in notes
      <4>1. asks[n].opening # n
          BY <1>8, <2>2, OpeningBehind
      <4> QED BY <1>8, <4>1, OpeningBehind
    <3>5. Begun(d) = asks[n].opening
        BY <1>2, <3>2, <3>3, <3>4
    <3>6. \A y \in Given(s) : \/ asks[y].version <= d.reused
                              \/ asks[y].opening = Begun(d)
                              \/ asks[y].version < asks[Begun(d)].version
        BY <1>5, <1>8, <3>1 DEF EntryTrue
    <3> QED BY <3>1, <3>5, <3>6
  <2> QED BY <1>2, <1>3, <1>8, <2>1, <2>2 DEF Kinds
<1>9. e.open => e.last = n /\ asks[n].kind # "close" /\ e.sent = asks[n].version
    BY <1>3
<1> QED BY <1>7, <1>8, <1>9 DEF e, d

LEMMA RecordsKeeps ==
    ASSUME IInv, NEW n \in notes, Records(n)
    PROVE  IInv'
<1> DEFINE s == registry[DocumentKey]
           new == {[note |-> n, to |-> t] : t \in {s} \cap Running}
<1> USE DEF IInv
<1>1. /\ UNCHANGED <<pc, key, starting, registry, server, stop>>
      /\ UNCHANGED <<version, asks, texts, pages>>
      /\ notes' = notes \ {n} /\ jumbled' = (jumbled \/ Overtakes(n))
    BY DEF Records, startVars
<1>2. /\ n \in Places /\ notes \subseteq Places /\ Places' = Places
      /\ n \in Nat /\ asks[n].kind \in Kinds /\ asks[n].version \in Nat
      /\ \A m \in Places : m \in Nat
  <2>1. n \in Places /\ notes \subseteq Places /\ Places' = Places
      BY <1>1 DEF Types, DocumentTypes, Places
  <2> QED BY <2>1, AsksShape DEF Types
<1>3. Asked'
    BY <1>1, <1>2 DEF Asked, Openings, Growing, UpToPage
<1>4. Orderly'
  <2> SUFFICES ASSUME ~jumbled, ~Overtakes(n), NEW m \in Places \ (notes \ {n}),
                      NEW p \in notes \ {n}, "open" \in {asks[m].kind, asks[p].kind}
               PROVE  m < p
      BY <1>1, <1>2 DEF Orderly
  <2>1. CASE m = n
      BY <1>2, <2>1 DEF Overtakes
  <2>2. CASE m # n
      BY <2>2 DEF Orderly
  <2> QED BY <2>1, <2>2
<1>5. store \in [Starts -> Entries] /\ writing \subseteq [note : Places, to : Starts]
      /\ jumbled \in BOOLEAN
    BY DEF Types, DocumentTypes
<1>6. CASE s = Nobody
  <2>1. UNCHANGED <<writing, store>>
      BY <1>6 DEF Records
  <2>2. Types'
    <3>1. SessionTypes'
        BY <1>1 DEF Types, SessionTypes
    <3>2. DocumentTypes'
        BY <1>1, <1>2, <2>1 DEF Types, DocumentTypes
    <3> QED BY <1>5, <2>1, <3>1, <3>2 DEF Types
  <2>3. Reservations' /\ Kept'
      BY <1>1, <2>1, SessionsKeep DEF SessionsStay, startVars
  <2>4. Untold' /\ Shown'
      BY <1>1, <1>2, <2>1 DEF Untold, Shown, Given
  <2>5. Entered'
      BY <1>1, <1>2, <2>1 DEF Entered, EntryTrue, Begun, Given
  <2>6. Ahead'
      BY <1>1, <1>6 DEF Ahead
  <2> QED BY <1>3, <1>4, <2>2, <2>3, <2>4, <2>5, <2>6
<1>7. CASE s # Nobody
  <2>1. s \in Starts /\ pc[s] \in {"inserted", "done"}
      BY <1>7, LspAssumption DEF Types, SessionTypes, Reservations
  <2>2. writing' = writing \cup new
      BY <1>7 DEF Records
  <2>3. \A w \in new : w.note = n /\ w.to = s /\ w \in [note : Places, to : Starts]
      BY <1>2, <2>1
  <2>4. store' = IF store[s].kept THEN [store EXCEPT ![s] = Recorded(@, n)] ELSE store
      BY <1>7 DEF Records
  <2> HIDE DEF new, s
  <2>5. /\ Recorded(store[s], n) \in Entries /\ Recorded(store[s], n).kept = store[s].kept
        /\ Recorded(store[s], n).pub = store[s].pub
      BY <1>2, <1>5, <2>1, RecordedShape
  <2>6. /\ store' \in [Starts -> Entries]
        /\ \A t \in Starts : t # s \/ ~store[s].kept => store'[t] = store[t]
        /\ store[s].kept => store'[s] = Recorded(store[s], n)
      BY <1>5, <2>1, <2>4, <2>5
  <2>7. Types'
    <3>1. SessionTypes'
        BY <1>1 DEF Types, SessionTypes
    <3>2. writing' \subseteq [note : Places, to : Starts]
        BY <1>5, <2>2, <2>3
    <3>3. jumbled' \in BOOLEAN
        BY <1>1
    <3>4. DocumentTypes'
        BY <1>1, <1>2, <3>2, <3>3 DEF Types, DocumentTypes
    <3> QED BY <2>6, <3>1, <3>4 DEF Types
  <2>8. \A t \in Starts : /\ store'[t].kept = store[t].kept /\ store'[t].pub = store[t].pub
                          /\ ~store[t].kept => store'[t] = store[t]
      BY <2>5, <2>6
  <2>9. Reservations' /\ Kept'
      BY <1>1, <2>8, SessionsKeep DEF SessionsStay, startVars
  <2>10. Untold'
      BY <1>1, <2>1, <2>2, <2>3, <2>6 DEF Untold
  <2>11. ASSUME NEW t \in Starts
         PROVE  /\ t # s => Given(t)' \subseteq Given(t)
                /\ Given(t)' \subseteq Given(t) \cup {n}
                /\ asks[n].kind = "close" => Given(t)' \subseteq Given(t)
    <3>1. store'[t].pub = store[t].pub
        BY <2>8
    <3> QED BY <1>1, <2>2, <2>3, <3>1 DEF Given
  <2>12. Shown'
    <3> SUFFICES ASSUME NEW t \in Starts
                 PROVE  /\ store[t].pub.note # 0 =>
                               /\ store[t].pub.note \in Places
                               /\ store[t].pub.version = asks[store[t].pub.note].version
                        /\ \A x \in Given(t)' : asks[x].kind # "close"
        BY <1>1, <1>2, <2>8 DEF Shown
    <3> QED BY <2>11 DEF Shown
  <2>13. Entered'
    <3> SUFFICES ASSUME NEW t \in Starts, store'[t].kept
                 PROVE  EntryTrue(store[t], Given(t))'
        BY DEF Entered, EntryTrue, Begun, Given
    <3>1. store[t].kept /\ Given(t) \subseteq Places
        BY <2>8, GivenPlaces
    <3>2. CASE t # s
      <4>1. EntryTrue(store[t], Given(t)')
          BY <2>11, <3>1, <3>2, FewerTexts DEF Entered
      <4> QED BY <1>1, <1>2, <2>6, <3>2, <4>1 DEF EntryTrue, Begun
    <3>3. CASE t = s
      <4> DEFINE e == Recorded(store[s], n)
                 T == Given(t)'
      <4>1. T \subseteq Places /\ T \subseteq Given(s) \cup {n}
            /\ (asks[n].kind # "close" \/ T \subseteq Given(s))
          BY <1>2, <2>11, <3>1, <3>3
      <4>2. store'[t] = e
          BY <2>6, <3>1, <3>3
      <4>3. Given(s) \subseteq Places /\ \A x \in Given(s) : asks[x].kind # "close"
          BY <2>1, <3>1, <3>3 DEF Shown
      <4>4. asks[n].kind # "close" \/ n \notin T
          BY <4>1, <4>3
      <4> HIDE DEF T
      <4>5. /\ \A x \in T : asks[x].version <= e.highest
            /\ e.open => e.last = n /\ asks[n].kind # "close" /\ e.sent = asks[n].version
            /\ e.open /\ ~jumbled /\ ~Overtakes(n) =>
                   \A x \in T : \/ asks[x].version <= e.reused
                                \/ asks[x].opening = asks[n].opening
                                \/ asks[x].version < asks[asks[n].opening].version
          BY <2>1, <3>1, <3>3, <4>1, <4>4, RecordedTrue DEF s
      <4> HIDE DEF e
      <4>6. e.open => e.last \in Places' /\ asks'[e.last].kind # "close"
                      /\ e.sent = asks'[e.last].version
          BY <1>1, <1>2, <4>5
      <4>7. e.open /\ ~jumbled' =>
                \A x \in T : \/ asks'[x].version <= e.reused
                             \/ asks'[x].opening = asks'[e.last].opening
                             \/ asks'[x].version < asks'[asks'[e.last].opening].version
          BY <1>1, <4>5
      <4>8. \A x \in T : asks'[x].version <= e.highest
          BY <1>1, <4>5
      <4> QED BY <4>2, <4>6, <4>7, <4>8 DEF EntryTrue, Begun, T
    <3> QED BY <3>2, <3>3
  <2>14. Ahead'
    <3> SUFFICES ASSUME store'[s].kept, store'[s].open, ~jumbled, ~Overtakes(n)
                 PROVE  /\ asks[store'[s].last].opening \notin notes \ {n}
                        /\ \A o \in Places : asks[o].kind = "open"
                               /\ o > asks[store'[s].last].opening => o \in notes \ {n}
        BY <1>1, <1>2 DEF Ahead, Begun, s
    <3>1. store[s].kept /\ store'[s] = Recorded(store[s], n)
        BY <2>1, <2>6, <2>8
    <3>2. store'[s].last = n
        BY <1>2, <1>5, <2>1, <3>1, RecordedShape
    <3> QED BY <3>2, OpeningBehind
  <2> QED BY <1>3, <1>4, <2>7, <2>9, <2>10, <2>12, <2>13, <2>14
<1> QED BY <1>6, <1>7

----------------------------------------------------------------------------
(* The theorems *)

LEMMA InitIInv == Init => IInv
<1> SUFFICES ASSUME Init PROVE IInv
    OBVIOUS
<1> USE DEF Init
<1>1. Places = {}
    BY DEF Places
<1>2. Types
  <2>1. SessionTypes
      BY LspAssumption DEF SessionTypes
  <2>2. DocumentTypes
    <3>1. asks \in Seq(Asks)
        OBVIOUS
    <3>2. writing = {} /\ texts \in [Starts -> SUBSET Places]
        OBVIOUS
    <3> QED BY <1>1, <3>1, <3>2 DEF DocumentTypes
  <2> QED BY <2>1, <2>2, EntryShape DEF Types
<1>3. Reservations
    BY DEF Reservations
<1>4. Kept /\ Untold /\ Shown /\ Entered
    BY LspAssumption, EntryShape DEF Kept, Untold, Entered, Shown, Given
<1>5. Asked /\ Orderly
    BY <1>1 DEF Asked, Openings, Growing, UpToPage, Orderly
<1>6. Ahead
    BY LspAssumption DEF Ahead
<1> QED BY <1>2, <1>3, <1>4, <1>5, <1>6 DEF IInv

LEMMA NextIInv == IInv /\ [Next]_vars => IInv'
<1> SUFFICES ASSUME IInv, [Next]_vars PROVE IInv'
    OBVIOUS
<1>1. ASSUME NEW s \in Starts, NEW k \in Keys, Check(s, k)  PROVE IInv'
    BY <1>1, CheckKeeps
<1>2. ASSUME NEW s \in Starts, Reserve(s) \/ Launch(s) \/ LaunchFails(s)  PROVE IInv'
    BY <1>2, ReserveKeeps, LaunchKeeps, LaunchFailsKeeps
<1>3. ASSUME NEW s \in Starts, Insert(s) \/ Release(s)  PROVE IInv'
    BY <1>3, InsertKeeps, ReleaseKeeps
<1>4. ASSUME NEW s \in Starts, Exits(s) \/ CrashDrops(s) \/ CrashRemoves(s)  PROVE IInv'
    BY <1>4, ExitsKeeps, CrashDropsKeeps, CrashRemovesKeeps
<1>5. ASSUME NEW s \in Starts, StopDrops(s) \/ StopMarks(s) \/ Publish(s)  PROVE IInv'
    BY <1>5, StopDropsKeeps, StopMarksKeeps, PublishKeeps
<1>6. ASSUME NEW k \in Keys, StopTakes(k)  PROVE IInv'
    BY <1>6, StopTakesKeeps
<1>7. ASSUME NEW kind \in Kinds, Send(kind)  PROVE IInv'
    BY <1>7, SendKeeps
<1>8. ASSUME NEW n \in notes, Records(n)  PROVE IInv'
    BY <1>8, RecordsKeeps
<1>10. ASSUME NEW w \in writing, Writes(w)  PROVE IInv'
    BY <1>10, WritesKeeps
<1>11. ASSUME PageLoads  PROVE IInv'
    BY <1>11, PageLoadsKeeps
<1>9. CASE UNCHANGED vars
  <2> USE <1>9 DEF vars, startVars, documentVars
  <2>1. Types'
      BY DEF IInv, Types, SessionTypes, DocumentTypes, Places
  <2>2. Reservations' /\ Kept' /\ Untold'
      BY DEF IInv, Reservations, Kept, Untold
  <2>3. Shown' /\ Dropping /\ Succeeds
      BY DEF IInv, Shown, Given, Places, Dropping, Succeeds
  <2> QED BY <2>1, <2>2, <2>3, DocumentStays DEF IInv
<1> QED BY <1>1, <1>2, <1>3, <1>4, <1>5, <1>6, <1>7, <1>8, <1>9, <1>10, <1>11 DEF Next, Kinds

(* The invariant of every behaviour: who holds a reservation, what the store keeps, and what
   the notes still to be recorded can say.                                         *)
THEOREM Invariant == Spec => []IInv
BY InitIInv, NextIInv, PTL DEF Spec

(* The store keeps the diagnostics only of sessions that are starting, registered, or about to
   be dropped by their stop or crash, for any starts, keys, limits and orders of the steps. *)
THEOREM StoreFollows == Spec => []StoreFollowsSessions
<1>1. IInv => StoreFollowsSessions
  <2> SUFFICES ASSUME IInv, NEW s \in Starts, store[s].kept
               PROVE  \/ pc[s] \in {"launched", "inserted"} \/ s \in Registered
                      \/ stop[s] = "taken" \/ server[s] = "dead"
      BY DEF StoreFollowsSessions
  <2> QED BY LspAssumption DEF IInv, Kept, Types, SessionTypes, Registered
<1> QED BY <1>1, Invariant, PTL

(* A diagnostic that freshness() tells as current is about the text recorded last for the
   document: in one page in whatever order the threads record and write the notes, and after
   page loads if every opening is recorded in its place, through any number of reopenings,
   late publishes and restarts of the server.                                      *)
THEOREM CurrentTold == Spec => []CurrentIsTrue
<1>1. IInv => CurrentIsTrue
  <2> SUFFICES ASSUME IInv, pages = 0 \/ ~jumbled, NEW s \in Starts, IsCurrent(store[s])
               PROVE  store[s].pub.note = store[s].last
      BY DEF CurrentIsTrue
  <2> DEFINE p == store[s].pub.note
             l == store[s].last
             b == Begun(store[s])
  <2>1. /\ p # 0 /\ store[s].open /\ store[s].pub.version = store[s].sent
        /\ ~(store[s].reused > 0 /\ store[s].pub.version <= store[s].reused)
      BY DEF IsCurrent
  <2>2. store[s].kept
      BY <2>1, EntryShape DEF IInv, Kept
  <2>3. /\ p \in Places /\ p \in Given(s) /\ store[s].pub.version = asks[p].version
        /\ asks[p].kind # "close"
    <3>1. p \in Given(s)
        BY <2>1 DEF Given
    <3> QED BY <2>1, <3>1 DEF IInv, Shown
  <2>4. /\ l \in Places /\ asks[l].kind # "close" /\ store[s].sent = asks[l].version
        /\ b \in Places /\ b <= l /\ asks[b].opening = b /\ b = asks[l].opening
    <3>1. b = asks[l].opening
        BY DEF Begun
    <3> QED BY <2>1, <2>2, <3>1, BegunShape
  <2>5. /\ store[s].reused \in Nat
        /\ \A n \in Places : n \in Nat /\ asks[n].version \in Nat /\ asks[n].version > 0
    <3>1. store[s] \in Entries /\ DocumentTypes
        BY DEF IInv, Types
    <3> QED BY <3>1, AsksShape DEF Entries
  <2>6. \/ pages = 0 \/ asks[p].opening = b \/ asks[p].version < asks[b].version
    <3>1. ~jumbled => \/ asks[p].version <= store[s].reused
                      \/ asks[p].opening = b \/ asks[p].version < asks[b].version
        BY <2>1, <2>2, <2>3 DEF IInv, Entered, EntryTrue
    <3> QED BY <2>1, <2>3, <2>5, <3>1
  <2> HIDE DEF p, l, b
  <2>7. \A m, n \in Places :
            m < n /\ asks[n].kind # "close" /\ (pages = 0 \/ asks[m].opening = asks[n].opening)
            => asks[m].version < asks[n].version
      BY DEF IInv, Asked, Growing
  <2>8. asks[p].version = asks[l].version
      BY <2>1, <2>3, <2>4
  <2>9. CASE pages = 0 \/ asks[p].opening = b
    <3>1. ~(p < l) /\ ~(l < p)
        BY <2>3, <2>4, <2>5, <2>7, <2>8, <2>9
    <3>2. p = l
        BY <2>3, <2>4, <2>5, <3>1
    <3> QED BY <3>2 DEF p, l
  <2>10. CASE asks[p].version < asks[b].version
    <3>1. asks[b].version <= asks[l].version
        BY <2>4, <2>5, <2>7
    <3> QED BY <2>3, <2>4, <2>5, <2>8, <2>10, <3>1
  <2> QED BY <2>6, <2>9, <2>10
<1> QED BY <1>1, Invariant, PTL

(* No step takes a session out of the registry but its own crash or a stop of its key: the
   late crash of a predecessor spares the session that followed it.                *)
THEOREM CrashSpares == Spec => CrashSparesSuccessor
<1> DEFINE Spared == \A k \in Keys : registry[k] # Nobody /\ registry'[k] = Nobody =>
                         \/ server[registry[k]] = "dropped"
                         \/ stop'[registry[k]] = "taken"
<1>1. IInv /\ [Next]_vars => [Spared]_vars
  <2> SUFFICES ASSUME IInv, Next, NEW k \in Keys, registry[k] # Nobody, registry'[k] = Nobody
               PROVE  server[registry[k]] = "dropped" \/ stop'[registry[k]] = "taken"
      OBVIOUS
  <2> USE DEF IInv, Types, SessionTypes
  <2>1. ASSUME NEW s \in Starts, Insert(s)  PROVE FALSE
      BY <2>1, LspAssumption DEF Insert
  <2>2. ASSUME NEW s \in Starts, CrashRemoves(s)
        PROVE  server[registry[k]] = "dropped"
      BY <2>2 DEF CrashRemoves, CrashOwns
  <2>3. ASSUME NEW l \in Keys, StopTakes(l)
        PROVE  stop'[registry[k]] = "taken"
      BY <2>3, LspAssumption DEF StopTakes
  <2>4. CASE registry' = registry
      BY <2>4
  <2>5. \/ registry' = registry
        \/ \E s \in Starts : Insert(s) \/ CrashRemoves(s)
        \/ \E l \in Keys : StopTakes(l)
      BY DEF Next, Check, Reserve, Launch, LaunchFails, Release, Exits, CrashDrops, StopDrops,
             StopMarks, Publish, Send, Records, Writes, PageLoads
  <2> QED BY <2>1, <2>2, <2>3, <2>4, <2>5
<1> QED BY <1>1, Invariant, PTL DEF Spec, CrashSparesSuccessor
=============================================================================
