---------------------------- MODULE McpSessions ----------------------------
(***************************************************************************)
(* The agent sessions of Litria's MCP service and the connections they     *)
(* serve: the registry (mcp_connection/sessions.rs), a connection from its *)
(* hello to its close with the calls that run beside its reading           *)
(* (server.rs), and the service until the app quits (mod.rs).              *)
(* Sessions start and end, projects open and close, the page loads and the *)
(* app quits on the main thread; connections and calls have threads of     *)
(* their own, and read which project is open before they lock the          *)
(* registry.                                                               *)
(* Framing, the initialize handshake and what a call does are left out.    *)
(***************************************************************************)
EXTENDS Integers, Sequences, FiniteSets

CONSTANTS
    Sessions,      \* session ids, one for every start
    Conns,         \* connections that clients make
    Ids,           \* request ids
    NoSession, Nothing,
    MaxSessions,   \* MAX_SESSIONS
    MaxPerSession, \* MAX_CONNECTIONS_PER_SESSION
    MaxConns,      \* MAX_CONNECTIONS
    MaxCalls,      \* MAX_CALLS_PER_CONNECTION
    MaxOpens,      \* bound: projects opened
    MaxMessages    \* bound: messages of all clients

ASSUME McpAssumption ==
    /\ IsFiniteSet(Sessions) /\ IsFiniteSet(Conns) /\ IsFiniteSet(Ids)
    /\ NoSession \notin Sessions /\ Nothing \notin [op : {"call", "cancel"}, id : Ids]
    /\ {MaxSessions, MaxPerSession, MaxConns, MaxCalls, MaxOpens, MaxMessages} \subseteq Nat

VARIABLES
    opens, epoch,  \* opens of a project so far; the epoch of the one open, or NoProject
    session,       \* "new", "live" (in the registry) or "ended"
    of,            \* Session::epoch
    quit,          \* "no", "draining" or "over"
    gaveUp,        \* DRAIN_BUDGET ran out
    (* connections *)
    stage,         \* of the connection's thread, "off" or "closed"
    whose,         \* the session of the token, or NoSession
    seen,          \* the epoch read for the next look at the registry, or Unread
    place,         \* it is in Entry::connections
    cancelled,     \* Stream::cancel was called
    inbox,         \* messages that wait, oldest first
    got,           \* the message under way, or Nothing
    running,       \* its calls by id: "no", "yes" or "cancelled"
    writing,       \* calls of it that write their answer
    (* bounds and history *)
    sent,          \* messages sent
    late           \* calls it began after its session was over

mainVars == <<opens, epoch, quit, gaveUp>>
registryVars == <<session, of, place, cancelled>>
callVars == <<running, writing, late>>
lineVars == <<inbox, got, sent>>
vars == <<mainVars, registryVars, stage, whose, seen, callVars, lineVars>>

NoProject == 0
Unread == -1
Messages == [op : {"call", "cancel"}, id : Ids]

----------------------------------------------------------------------------
(* The registry *)

(* Mutant: the session is looked up, not the project it is for. *)
HoldsAnywhere(s, at) == session[s] = "live"
Holds(s, at) == session[s] = "live" /\ of[s] = at

Live == {s \in Sessions : session[s] = "live"}
Placed(s) == {c \in Conns : place[c] /\ whose[c] = s}

(* Registry::remove, for each of S that is there: the connections are cancelled. *)
Remove(S) ==
    /\ session' = [s \in Sessions |-> IF s \in S /\ session[s] = "live" THEN "ended" ELSE session[s]]
    /\ cancelled' = [c \in Conns |-> cancelled[c] \/ \E s \in S \cap Live : c \in Placed(s)]
    /\ place' = [c \in Conns |-> place[c] /\ \A s \in S \cap Live : c \notin Placed(s)]

(* Over: ended, or its project is no longer open. *)
IsOver(s) == session[s] = "ended" \/ (session[s] = "live" /\ of[s] # epoch)

----------------------------------------------------------------------------
(* The main thread *)

OpenProject ==
    /\ quit = "no" /\ opens < MaxOpens
    /\ opens' = opens + 1 /\ epoch' = opens'
    /\ UNCHANGED <<quit, gaveUp, registryVars, stage, whose, seen, callVars, lineVars>>

CloseProject ==
    /\ quit = "no" /\ epoch # NoProject
    /\ epoch' = NoProject
    /\ UNCHANGED <<opens, quit, gaveUp, registryVars, stage, whose, seen, callVars, lineVars>>

(* Registry::start, for the project that is open *)
StartSession(s) ==
    /\ quit = "no" /\ epoch # NoProject /\ session[s] = "new"
    /\ LET stale == {t \in Live : ~Holds(t, epoch)}
           full  == Cardinality(Live \ stale) >= MaxSessions
       IN /\ cancelled' = [c \in Conns |-> cancelled[c] \/ \E t \in stale : c \in Placed(t)]
          /\ place' = [c \in Conns |-> place[c] /\ \A t \in stale : c \notin Placed(t)]
          /\ session' = [t \in Sessions |->
               CASE t \in stale -> "ended" [] t = s /\ ~full -> "live" [] OTHER -> session[t]]
          /\ of' = IF full THEN of ELSE [of EXCEPT ![s] = epoch]
    /\ UNCHANGED <<mainVars, stage, whose, seen, callVars, lineVars>>

EndSession(s) ==
    /\ quit = "no" /\ session[s] = "live"
    /\ Remove({s})
    /\ UNCHANGED <<of, mainVars, stage, whose, seen, callVars, lineVars>>

(* end_all_for_page_load *)
PageLoads ==
    /\ quit = "no" /\ Live # {}
    /\ Remove(Live)
    /\ UNCHANGED <<of, mainVars, stage, whose, seen, callVars, lineVars>>

(* quit, Service::shutdown: no call begins from here on. *)
Quit ==
    /\ quit = "no"
    /\ quit' = "draining"
    /\ UNCHANGED <<opens, epoch, gaveUp, registryVars, stage, whose, seen, callVars, lineVars>>

HasCalls(c) == (\E i \in Ids : running[c][i] # "no") \/ writing[c] > 0

(* Mutant: a call gives up its place before it writes its answer. *)
BusyRunning == \E c \in Conns, i \in Ids : running[c][i] # "no"
(* Calls: some call has its place. *)
Busy == \E c \in Conns : HasCalls(c)

(* Calls::close returns, and the sessions end. *)
Drained ==
    /\ quit = "draining"
    /\ \/ ~Busy /\ UNCHANGED gaveUp
       \/ Busy /\ gaveUp' = TRUE
    /\ quit' = "over"
    /\ Remove(Live)
    /\ UNCHANGED <<opens, epoch, of, stage, whose, seen, callVars, lineVars>>

----------------------------------------------------------------------------
(* A connection's thread *)

Goes(c, to) == stage' = [stage EXCEPT ![c] = to]
Served == {c \in Conns : stage[c] \notin {"off", "closed"}}

(* accept_loop: a client beyond the limit, or during the shutdown, is let go. *)
Connect(c) ==
    /\ stage[c] = "off" /\ quit = "no" /\ Cardinality(Served) < MaxConns
    /\ Goes(c, "hello")
    /\ UNCHANGED <<mainVars, registryVars, whose, seen, callVars, lineVars>>

(* The hello names a session that was started. *)
Hello(c, s) ==
    /\ stage[c] = "hello" /\ session[s] # "new"
    /\ whose' = [whose EXCEPT ![c] = s]
    /\ Goes(c, "authenticate")
    /\ UNCHANGED <<mainVars, registryVars, seen, callVars, lineVars>>

(* Silence, a close, or a hello with no token that ever was.  A refusal is written and waited
   for on the way out; nothing else depends on it.                               *)
NoHello(c) ==
    /\ stage[c] = "hello"
    /\ Goes(c, "leave")
    /\ UNCHANGED <<mainVars, registryVars, whose, seen, callVars, lineVars>>

(* Every look at the registry is preceded by a look at the project that is open. *)
ReadEpoch(c) ==
    /\ stage[c] \in {"authenticate", "attach", "check"} /\ seen[c] = Unread
    /\ seen' = [seen EXCEPT ![c] = epoch]
    /\ UNCHANGED <<mainVars, registryVars, stage, whose, callVars, lineVars>>

(* authenticate and still_holds: a session that does not hold is removed. *)
Looks(c, from, to) ==
    /\ stage[c] = from /\ seen[c] # Unread
    /\ seen' = [seen EXCEPT ![c] = Unread]
    /\ IF Holds(whose[c], seen[c])
       THEN Goes(c, to) /\ UNCHANGED <<session, cancelled, place>>
       ELSE Goes(c, "leave") /\ Remove({whose[c]})
    /\ UNCHANGED <<of, mainVars, whose, callVars, lineVars>>

Authenticate(c) == Looks(c, "authenticate", "attach")

Attach(c) ==
    /\ stage[c] = "attach" /\ seen[c] # Unread
    /\ seen' = [seen EXCEPT ![c] = Unread]
    /\ \/ /\ ~Holds(whose[c], seen[c])
          /\ Remove({whose[c]}) /\ Goes(c, "leave")
       \/ /\ Holds(whose[c], seen[c]) /\ Cardinality(Placed(whose[c])) >= MaxPerSession
          /\ Goes(c, "leave") /\ UNCHANGED <<session, cancelled, place>>
       \/ /\ Holds(whose[c], seen[c]) /\ Cardinality(Placed(whose[c])) < MaxPerSession
          /\ place' = [place EXCEPT ![c] = TRUE]
          /\ Goes(c, "ready") /\ UNCHANGED <<session, cancelled>>
    /\ UNCHANGED <<of, mainVars, whose, callVars, lineVars>>

(* A write of the thread itself: ready, or an answer.  It may fail. *)
Written(c) ==
    /\ stage[c] \in {"ready", "answer"}
    /\ \/ ~cancelled[c] /\ Goes(c, "wait")
       \/ Goes(c, "leave")
    /\ UNCHANGED <<mainVars, registryVars, whose, seen, callVars, lineVars>>

(* Lines::next: a line, from what has arrived already if the stream is cancelled ... *)
NextLine(c) ==
    /\ stage[c] = "wait" /\ inbox[c] # <<>>
    /\ got' = [got EXCEPT ![c] = Head(inbox[c])]
    /\ inbox' = [inbox EXCEPT ![c] = Tail(@)]
    /\ Goes(c, "check")
    /\ UNCHANGED <<mainVars, registryVars, whose, seen, callVars, sent>>

(* Mutant: an idle turn is not checked. *)
IdleUnchecked(c) == stage[c] = "wait" /\ UNCHANGED vars

(* ... or nothing for TICK ... *)
Idle(c) ==
    /\ stage[c] = "wait" /\ ~cancelled[c]
    /\ Goes(c, "check")
    /\ UNCHANGED <<mainVars, registryVars, whose, seen, callVars, lineVars>>

(* ... or the end: the stream was cancelled ... *)
Closed(c) ==
    /\ stage[c] = "wait" /\ cancelled[c]
    /\ Goes(c, "leave")
    /\ UNCHANGED <<mainVars, registryVars, whose, seen, callVars, lineVars>>

(* ... or closed by the client. *)
ClientCloses(c) ==
    /\ stage[c] = "wait" /\ ~cancelled[c]
    /\ Goes(c, "leave")
    /\ UNCHANGED <<mainVars, registryVars, whose, seen, callVars, lineVars>>

StillHolds(c) == Looks(c, "check", "handle")

Running(c) == {i \in Ids : running[c][i] # "no"}

(* A message is handled; a call begins unless its id runs, the connection runs too many, the
   app quits, or no thread can be had.                                            *)
Handle(c) ==
    /\ stage[c] = "handle"
    /\ got' = [got EXCEPT ![c] = Nothing]
    /\ \/ /\ got[c] = Nothing
          /\ Goes(c, "wait") /\ UNCHANGED <<running, late>>
       \/ /\ got[c] # Nothing /\ got[c].op = "cancel"
          /\ running' = [running EXCEPT ![c][got[c].id] = IF @ = "yes" THEN "cancelled" ELSE @]
          /\ Goes(c, "wait") /\ UNCHANGED late
       \/ /\ got[c] # Nothing /\ got[c].op = "call"
          /\ Goes(c, "answer") /\ UNCHANGED <<running, late>>
       \/ /\ got[c] # Nothing /\ got[c].op = "call"
          /\ got[c].id \notin Running(c) /\ Cardinality(Running(c)) < MaxCalls /\ quit = "no"
          /\ running' = [running EXCEPT ![c][got[c].id] = "yes"]
          /\ late' = IF IsOver(whose[c]) THEN [late EXCEPT ![c] = @ + 1] ELSE late
          /\ Goes(c, "wait")
    /\ UNCHANGED <<mainVars, registryVars, whose, seen, writing, inbox, sent>>

(* The scope and the guards are left: the calls have finished, the place is given back. *)
Leave(c) ==
    /\ stage[c] = "leave" /\ ~HasCalls(c)
    /\ place' = [place EXCEPT ![c] = FALSE]
    /\ inbox' = [inbox EXCEPT ![c] = <<>>]
    /\ Goes(c, "closed")
    /\ UNCHANGED <<mainVars, session, of, cancelled, whose, seen, callVars, got, sent>>

----------------------------------------------------------------------------
(* A call's thread *)

CallReturns(c, i) ==
    /\ running[c][i] # "no"
    /\ running' = [running EXCEPT ![c][i] = "no"]
    /\ writing' = IF running[c][i] = "yes" THEN [writing EXCEPT ![c] = @ + 1] ELSE writing
    /\ UNCHANGED <<mainVars, registryVars, stage, whose, seen, late, lineVars>>

(* The answer is written, or cannot be. *)
CallAnswers(c) ==
    /\ writing[c] > 0
    /\ writing' = [writing EXCEPT ![c] = @ - 1]
    /\ UNCHANGED <<mainVars, registryVars, stage, whose, seen, running, late, lineVars>>

(* The client *)
Send(c, m) ==
    /\ stage[c] \in {"wait", "check", "handle", "answer"} /\ ~cancelled[c] /\ sent < MaxMessages
    /\ sent' = sent + 1
    /\ inbox' = [inbox EXCEPT ![c] = Append(@, m)]
    /\ UNCHANGED <<mainVars, registryVars, stage, whose, seen, callVars, got>>

----------------------------------------------------------------------------
Init ==
    /\ opens = 0 /\ epoch = NoProject /\ quit = "no" /\ gaveUp = FALSE
    /\ session = [s \in Sessions |-> "new"] /\ of = [s \in Sessions |-> NoProject]
    /\ stage = [c \in Conns |-> "off"] /\ whose = [c \in Conns |-> NoSession]
    /\ seen = [c \in Conns |-> Unread]
    /\ place = [c \in Conns |-> FALSE] /\ cancelled = [c \in Conns |-> FALSE]
    /\ inbox = [c \in Conns |-> <<>>] /\ got = [c \in Conns |-> Nothing]
    /\ running = [c \in Conns |-> [i \in Ids |-> "no"]] /\ writing = [c \in Conns |-> 0]
    /\ sent = 0 /\ late = [c \in Conns |-> 0]

(* What a connection's thread does by itself, whatever its client does *)
ThreadSteps(c) ==
    \/ ReadEpoch(c) \/ Authenticate(c) \/ Attach(c) \/ NoHello(c) \/ Written(c)
    \/ NextLine(c) \/ Idle(c) \/ Closed(c) \/ StillHolds(c) \/ Handle(c) \/ Leave(c)

Next ==
    \/ OpenProject \/ CloseProject \/ PageLoads \/ Quit \/ Drained
    \/ \E s \in Sessions : StartSession(s) \/ EndSession(s)
    \/ \E c \in Conns :
         \/ Connect(c) \/ ClientCloses(c) \/ ThreadSteps(c) \/ CallAnswers(c)
         \/ \E s \in Sessions : Hello(c, s)
         \/ \E i \in Ids : CallReturns(c, i)
         \/ \E m \in Messages : Send(c, m)

Spec == Init /\ [][Next]_vars

(* A connection's thread runs and wakes every TICK, a call returns (its operation is
   bounded) and so does a write (WRITE_DEADLINE); clients owe nothing.             *)
FairSpec ==
    /\ Spec
    /\ \A c \in Conns :
         /\ WF_vars(ThreadSteps(c)) /\ WF_vars(CallAnswers(c))
         /\ \A i \in Ids : WF_vars(CallReturns(c, i))

----------------------------------------------------------------------------
(* Properties *)

(* Once its session has ended or its project is no longer open, a connection begins at most
   the one call it had checked before.                                            *)
OneLateCall == \A c \in Conns : late[c] <= 1

(* A quit that did not give up has waited for every call's answer, and none begins after. *)
QuitWaits == quit = "over" /\ ~gaveUp => \A c \in Conns : ~HasCalls(c)

(* A connection whose session is over lets go of its slot, though its client stays silent. *)
ConnectionsEnd ==
    \A c \in Conns, s \in Sessions :
        stage[c] \notin {"off", "closed"} /\ whose[c] = s /\ IsOver(s) ~> stage[c] = "closed"

============================================================================
