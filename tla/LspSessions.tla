---------------------------- MODULE LspSessions ----------------------------
(***************************************************************************)
(* Language servers: starts, crashes and stops of the servers of one       *)
(* language (lsp/session.rs), the store of what they publish               *)
(* (lsp/diagnostics_cache.rs), and the notifications about one document    *)
(* that the window sends them (lsp/documentSync.js).                       *)
(* A start command and the session it may become have one name in Starts.  *)
(* A notification is its place among those that the window asked for, which *)
(* the code does not have; the version number that it does have starts     *)
(* over when the page is loaded.  Each is taken up by a blocking task of    *)
(* its own, so they are recorded, and then written, in any order.          *)
(***************************************************************************)
EXTENDS Naturals, FiniteSets, Sequences

CONSTANTS
    Starts,         \* start commands
    Keys,           \* records [project, root]: what a start may name
    DocumentKey,    \* the key under which the document's notifications go
    Nobody,         \* no session
    MaxConcurrent,  \* MAX_CONCURRENT_STARTS
    Total,          \* MAX_SESSIONS_TOTAL
    MaxCommands,    \* bound: start commands and notifications
    MaxPages        \* bound: page loads

ASSUME LspAssumption ==
    /\ IsFiniteSet(Starts) /\ Nobody \notin Starts /\ DocumentKey \in Keys
    /\ {MaxConcurrent, Total, MaxCommands, MaxPages} \subseteq Nat

VARIABLES
    pc,        \* per start: "idle" "checked" "reserved" "launched" "inserted" "done"
    key,       \* per start: the key it names
    starting,  \* STARTING: the starts that hold a reservation
    registry,  \* per key: its session, or Nobody
    server,    \* per start: its process: "none" "up" "dead" "dropped" "handled" "gone"
    stop,      \* per start: its stop: "no" "taken" "dropped" "marked"
    store,     \* per start: the documents state that the store holds, or NoEntry
    (* the window *)
    version,   \* documentSync: the last version of this page
    asks,      \* history: the notifications asked, oldest first; see Send
    notes,     \* the notifications that no task has taken up
    writing,   \* records [note, to]: what is recorded and to be written to a live server
    texts,     \* per start: the notes with a text that its live server has received
    pages,     \* page loads so far
    jumbled    \* history: an opening and another note were recorded out of order

startVars == <<pc, key, starting>>
documentVars == <<version, asks, notes, writing, texts, pages, jumbled>>
vars == <<startVars, registry, server, stop, store, documentVars>>

NoEntry == [gen |-> 0, open |-> FALSE, sent |-> 0, highest |-> 0, reused |-> 0,
            pub |-> [version |-> 0, gen |-> 0, note |-> 0], last |-> 0, kept |-> FALSE]
NewEntry == [NoEntry EXCEPT !.kept = TRUE]

----------------------------------------------------------------------------
Registered == {registry[k] : k \in Keys} \ {Nobody}
Language(S, field, k) == {s \in S : key[s][field] = k[field]}

(* evaluate_start_quotas for one language; the cap for each root is never below it.  *)
QuotaRefuses(k) ==
    \/ registry[k] # Nobody
    \/ Language(Registered, "root", k) # {}
    \/ \E s \in Language(Registered, "project", k) : key[s].root # k.root
    \/ Cardinality(Registered) >= Total

Commands == Cardinality({s \in Starts : pc[s] # "idle"}) + Len(asks)

(* check_start_quotas *)
Check(s, k) ==
    /\ pc[s] = "idle" /\ Commands < MaxCommands
    /\ key' = [key EXCEPT ![s] = k]
    /\ pc' = [pc EXCEPT ![s] = IF QuotaRefuses(k) THEN "done" ELSE "checked"]
    /\ UNCHANGED <<starting, registry, server, stop, store, documentVars>>

(* try_reserve_start *)
Reserve(s) ==
    /\ pc[s] = "checked"
    /\ IF \/ \E t \in starting : key[t] = key[s] \/ key[t].root = key[s].root
          \/ Cardinality(starting) >= MaxConcurrent
       THEN /\ pc' = [pc EXCEPT ![s] = "done"]
            /\ UNCHANGED starting
       ELSE /\ pc' = [pc EXCEPT ![s] = "reserved"]
            /\ starting' = starting \cup {s}
    /\ UNCHANGED <<key, registry, server, stop, store, documentVars>>

(* Cache::begin_session *)
Begin(s) == [t \in Starts |-> IF t = s THEN NewEntry
                              ELSE IF key[t] = key[s] THEN NoEntry ELSE store[t]]

(* SessionGuard::begin and spawn_server *)
Launch(s) ==
    /\ pc[s] = "reserved"
    /\ store' = Begin(s)
    /\ server' = [server EXCEPT ![s] = "up"]
    /\ pc' = [pc EXCEPT ![s] = "launched"]
    /\ UNCHANGED <<key, starting, registry, stop, documentVars>>

(* The server is not found, does not start or does not shake hands: it is marked as
   stopping and killed, and the guards drop the entry and the reservation.       *)
LaunchFails(s) ==
    /\ pc[s] \in {"reserved", "launched"}
    /\ pc' = [pc EXCEPT ![s] = "done"]
    /\ starting' = starting \ {s}
    /\ store' = [store EXCEPT ![s] = NoEntry]
    /\ server' = [server EXCEPT ![s] = "gone"]
    /\ UNCHANGED <<key, registry, stop, documentVars>>

(* The handshake is done: sessions().insert, whatever the key held before. *)
Insert(s) ==
    /\ pc[s] = "launched"
    /\ registry' = [registry EXCEPT ![key[s]] = s]
    /\ pc' = [pc EXCEPT ![s] = "inserted"]
    /\ UNCHANGED <<key, starting, server, stop, store, documentVars>>

(* The reservation is dropped on return. *)
Release(s) ==
    /\ pc[s] = "inserted"
    /\ pc' = [pc EXCEPT ![s] = "done"]
    /\ starting' = starting \ {s}
    /\ UNCHANGED <<key, registry, server, stop, store, documentVars>>

----------------------------------------------------------------------------
(* Crashes and stops *)

(* The process exits, by itself or because a session that was replaced is dropped; what
   is still to be written to it fails.                                            *)
Exits(s) ==
    /\ server[s] = "up"
    /\ server' = [server EXCEPT ![s] = IF stop[s] = "marked" THEN "gone" ELSE "dead"]
    /\ texts' = [texts EXCEPT ![s] = {}]
    /\ writing' = {w \in writing : w.to # s}
    /\ UNCHANGED <<startVars, registry, stop, store, version, asks, notes, pages, jumbled>>

(* on_crash: drop_session *)
CrashDrops(s) ==
    /\ server[s] = "dead"
    /\ server' = [server EXCEPT ![s] = "dropped"]
    /\ store' = [store EXCEPT ![s] = NoEntry]
    /\ UNCHANGED <<startVars, registry, stop, documentVars>>

(* Mutant: the crash handler removes whatever session the key has. *)
CrashOwnsAny(s) == registry[key[s]] # Nobody

(* crash_owns_registry_entry *)
CrashOwns(s) == registry[key[s]] = s

(* on_crash: the registry *)
CrashRemoves(s) ==
    /\ server[s] = "dropped"
    /\ server' = [server EXCEPT ![s] = "handled"]
    /\ registry' = IF CrashOwns(s) THEN [registry EXCEPT ![key[s]] = Nobody] ELSE registry
    /\ UNCHANGED <<startVars, stop, store, documentVars>>

(* stop_session: remove *)
StopTakes(k) ==
    /\ registry[k] # Nobody
    /\ stop' = [stop EXCEPT ![registry[k]] = "taken"]
    /\ registry' = [registry EXCEPT ![k] = Nobody]
    /\ UNCHANGED <<startVars, server, store, documentVars>>

(* Mutant: a stop leaves the entry to the next session of the key. *)
StopDropsNothing(s) ==
    /\ stop[s] = "taken"
    /\ stop' = [stop EXCEPT ![s] = "dropped"]
    /\ UNCHANGED <<startVars, registry, server, store, documentVars>>

(* stop_session: drop_session *)
StopDrops(s) ==
    /\ stop[s] = "taken"
    /\ stop' = [stop EXCEPT ![s] = "dropped"]
    /\ store' = [store EXCEPT ![s] = NoEntry]
    /\ UNCHANGED <<startVars, registry, server, documentVars>>

(* teardown_session_process: mark_stopping.  An exit from now on is no crash. *)
StopMarks(s) ==
    /\ stop[s] = "dropped"
    /\ stop' = [stop EXCEPT ![s] = "marked"]
    /\ UNCHANGED <<startVars, registry, server, store, documentVars>>

----------------------------------------------------------------------------
(* The document *)

(* didOpen, didChange, didClose.  The page may open a document again without a close:
   after a load, or for a server that has started.  `opening' is a history: the last
   opening up to the note.                                                       *)
Send(kind) ==
    /\ Commands < MaxCommands
    /\ kind # "open" => version > 0
    /\ version' = IF kind = "close" THEN version ELSE version + 1
    /\ LET n == Len(asks) + 1
       IN  /\ asks' = Append(asks, [kind |-> kind, version |-> version', opening |->
                                        IF kind = "open" THEN n ELSE asks[n - 1].opening])
           /\ notes' = notes \cup {n}
    /\ UNCHANGED <<startVars, registry, server, stop, store, writing, texts, pages, jumbled>>

(* A page load: the versions start over; servers, the store and the tasks stay. *)
PageLoads ==
    /\ pages < MaxPages
    /\ pages' = pages + 1
    /\ version' = 0
    /\ UNCHANGED <<startVars, registry, server, stop, store, asks, notes, writing, texts, jumbled>>

Higher(m, n) == IF m > n THEN m ELSE n

(* Mutant: an opening forgets which versions were sent before it. *)
OpenedAfresh(d, n) == [d EXCEPT !.gen = @ + 1, !.open = TRUE, !.sent = asks[n].version,
                                !.highest = Higher(@, asks[n].version), !.last = n]

(* Cache::record_sent, SentKind::Open; `reused` is 0 for none *)
Opened(d, n) == [d EXCEPT !.gen = @ + 1, !.open = TRUE, !.sent = asks[n].version,
                          !.reused = IF asks[n].version <= d.highest THEN d.highest ELSE 0,
                          !.highest = Higher(@, asks[n].version), !.last = n]

Changed(d, n) == [d EXCEPT !.sent = asks[n].version, !.highest = Higher(@, asks[n].version),
                           !.last = n]
Closed(d, n) == [d EXCEPT !.open = FALSE, !.sent = 0, !.last = n]

(* Cache::record_sent *)
Recorded(d, n) == CASE asks[n].kind = "open" -> Opened(d, n)
                    [] asks[n].kind = "change" -> Changed(d, n)
                    [] asks[n].kind = "close" -> Closed(d, n)

(* The note, or one asked before it and still to be recorded, is an opening. *)
Overtakes(n) == \E m \in notes : m < n /\ "open" \in {asks[m].kind, asks[n].kind}

Running == {s \in Starts : server[s] = "up"}

(* session_notify up to the write, on any of the threads that lsp_notify takes: the session
   of the key is looked up, and the note is recorded for it if the store has it.       *)
Records(n) ==
    /\ n \in notes
    /\ notes' = notes \ {n}
    /\ jumbled' = (jumbled \/ Overtakes(n))
    /\ LET s == registry[DocumentKey]
       IN  IF s = Nobody THEN UNCHANGED <<writing, store>>
           ELSE /\ writing' = writing \cup {[note |-> n, to |-> t] : t \in {s} \cap Running}
                /\ store' = IF store[s].kept THEN [store EXCEPT ![s] = Recorded(@, n)] ELSE store
    /\ UNCHANGED <<startVars, registry, server, stop, version, asks, texts, pages>>

(* session_notify: write_message_to, under the lock of the pipe alone. *)
Writes(w) ==
    /\ w \in writing
    /\ writing' = writing \ {w}
    /\ texts' = IF asks[w.note].kind = "close" THEN texts
                ELSE [texts EXCEPT ![w.to] = @ \cup {w.note}]
    /\ UNCHANGED <<startVars, registry, server, stop, store, version, asks, notes, pages, jumbled>>

(* record_publish: a server may publish about any text it has received, however late. *)
Publish(s) ==
    /\ server[s] = "up" /\ store[s].kept
    /\ \E n \in texts[s] :
           store' = [store EXCEPT ![s].pub = [version |-> asks[n].version, gen |-> store[s].gen,
                                              note |-> n]]
    /\ UNCHANGED <<startVars, registry, server, stop, documentVars>>

(* freshness: Freshness::Current *)
IsCurrent(d) ==
    /\ d.pub.note # 0
    /\ d.pub.gen = d.gen
    /\ d.open
    /\ d.pub.version = d.sent
    /\ ~(d.reused > 0 /\ d.pub.version <= d.reused)

----------------------------------------------------------------------------
Init ==
    /\ pc = [s \in Starts |-> "idle"]
    /\ key = [s \in Starts |-> DocumentKey]
    /\ starting = {}
    /\ registry = [k \in Keys |-> Nobody]
    /\ server = [s \in Starts |-> "none"]
    /\ stop = [s \in Starts |-> "no"]
    /\ store = [s \in Starts |-> NoEntry]
    /\ version = 0 /\ asks = <<>> /\ notes = {} /\ writing = {} /\ pages = 0 /\ jumbled = FALSE
    /\ texts = [s \in Starts |-> {}]

Next ==
    \/ \E s \in Starts :
        \/ \E k \in Keys : Check(s, k)
        \/ Reserve(s) \/ Launch(s) \/ LaunchFails(s) \/ Insert(s) \/ Release(s)
        \/ Exits(s) \/ CrashDrops(s) \/ CrashRemoves(s)
        \/ StopDrops(s) \/ StopMarks(s) \/ Publish(s)
    \/ \E k \in Keys : StopTakes(k)
    \/ \E kind \in {"open", "change", "close"} : Send(kind)
    \/ \E n \in notes : Records(n)
    \/ \E w \in writing : Writes(w)
    \/ PageLoads

Spec == Init /\ [][Next]_vars

----------------------------------------------------------------------------
(* Properties *)

(* Diagnostics that a reader is told are current are about the text that was recorded last
   for the document, not about an equal version of an earlier opening or page: in one page
   whatever the order in which the tasks run, and after a page load if they keep every
   opening in its place.                                                          *)
CurrentIsTrue ==
    pages = 0 \/ ~jumbled =>
        \A s \in Starts : IsCurrent(store[s]) => store[s].pub.note = store[s].last

(* A session leaves the registry only by its own crash or by a stop of its key, or a
   start that had passed the check puts another one in its place: the late crash of a
   predecessor does not take it away.                                            *)
CrashSparesSuccessor ==
    [][\A k \in Keys : registry[k] # Nobody /\ registry'[k] = Nobody =>
           \/ server[registry[k]] = "dropped"
           \/ stop'[registry[k]] = "taken"]_vars

(* The store keeps entries only of sessions that are starting, registered, or whose stop
   or crash is about to drop them: nobody reads a dead server's diagnostics.      *)
StoreFollowsSessions ==
    \A s \in Starts : store[s].kept =>
        \/ pc[s] \in {"launched", "inserted"} \/ s \in Registered
        \/ stop[s] = "taken" \/ server[s] = "dead"

(* A start never replaces a session: the comment on the reservations. *)
NeverReplaces ==
    [][\A k \in Keys : registry[k] # Nobody => registry'[k] \in {registry[k], Nobody}]_vars

============================================================================
