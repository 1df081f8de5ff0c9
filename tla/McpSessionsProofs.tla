------------------------- MODULE McpSessionsProofs -------------------------
(***************************************************************************)
(* Theorems of McpSessions, for any sessions, connections, ids and limits. *)
(***************************************************************************)
EXTENDS McpSessions, FiniteSetTheorems, TLAPS

Stages == {"off", "hello", "authenticate", "attach", "ready", "wait", "check", "handle",
           "answer", "leave", "closed"}

(* Past the hello and not on the way out *)
Named == {"authenticate", "attach", "ready", "wait", "check", "handle", "answer"}
(* Past the attach and not on the way out *)
Conversing == {"ready", "wait", "check", "handle", "answer"}

Types ==
    /\ opens \in Nat /\ epoch \in 0..opens
    /\ session \in [Sessions -> {"new", "live", "ended"}] /\ of \in [Sessions -> Nat]
    /\ stage \in [Conns -> Stages] /\ whose \in [Conns -> Sessions \cup {NoSession}]
    /\ seen \in [Conns -> Int]
    /\ place \in [Conns -> BOOLEAN] /\ cancelled \in [Conns -> BOOLEAN]
    /\ running \in [Conns -> [Ids -> {"no", "yes", "cancelled"}]]
    /\ writing \in [Conns -> Nat] /\ late \in [Conns -> Nat]

(* A session that was started is for a project that was opened. *)
Started == \A s \in Sessions : of[s] <= opens /\ (session[s] # "new" => of[s] > 0)

(* A connection past its hello has a session that was started. *)
Tokens ==
    \A c \in Conns :
        /\ whose[c] \in Sessions => session[whose[c]] # "new"
        /\ stage[c] \in Named => whose[c] \in Sessions

(* The project is read for the look that follows, and only for it. *)
Looking == \A c \in Conns : seen[c] # Unread => stage[c] \in {"authenticate", "attach", "check"}

(* A connection that began a call late will not pass its next look. *)
Spent(c) ==
    /\ late[c] = 1
    /\ whose[c] \in Sessions /\ IsOver(whose[c])
    /\ stage[c] \in {"wait", "check", "answer", "leave", "closed"}
    /\ seen[c] # Unread => ~Holds(whose[c], seen[c])
Lateness == \A c \in Conns : late[c] = 0 \/ Spent(c)

IInv == Types /\ Started /\ Tokens /\ Looking /\ Lateness

----------------------------------------------------------------------------
(* The registry, whatever a step does to it *)

(* No session is started twice, revived, or moved to another project. *)
Ages ==
    \A s \in Sessions :
        /\ session[s] # "new" => session'[s] # "new" /\ of'[s] = of[s]
        /\ session[s] = "ended" => session'[s] = "ended"
        /\ session[s] = "new" /\ session'[s] # "new" => of'[s] = epoch /\ epoch # NoProject
        /\ of'[s] = of[s] \/ of'[s] = epoch

(* The project that is open changes to a newer one, or to none. *)
Turns ==
    /\ epoch' = epoch \/ epoch' = 0 \/ epoch' = opens + 1
    /\ opens' = opens \/ opens' = opens + 1

LEMMA RemoveAges ==
    ASSUME Types, NEW S, Remove(S), of' = of
    PROVE  /\ Ages
           /\ session' \in [Sessions -> {"new", "live", "ended"}]
           /\ place' \in [Conns -> BOOLEAN] /\ cancelled' \in [Conns -> BOOLEAN]
BY DEF Types, Remove, Ages

LEMMA StartAges ==
    ASSUME Types, NEW s \in Sessions, StartSession(s)
    PROVE  /\ Ages
           /\ session' \in [Sessions -> {"new", "live", "ended"}] /\ of' \in [Sessions -> Nat]
           /\ place' \in [Conns -> BOOLEAN] /\ cancelled' \in [Conns -> BOOLEAN]
<1> DEFINE stale == {t \in Live : ~Holds(t, epoch)}
           full  == Cardinality(Live \ stale) >= MaxSessions
<1>1. /\ session' = [t \in Sessions |->
              CASE t \in stale -> "ended" [] t = s /\ ~full -> "live" [] OTHER -> session[t]]
      /\ of' = IF full THEN of ELSE [of EXCEPT ![s] = epoch]
      /\ place' = [c \in Conns |-> place[c] /\ \A t \in stale : c \notin Placed(t)]
      /\ cancelled' = [c \in Conns |-> cancelled[c] \/ \E t \in stale : c \in Placed(t)]
      /\ session[s] = "new" /\ epoch # NoProject
  BY DEF StartSession
<1>2. \A t \in stale : session[t] = "live" /\ t # s
  BY <1>1 DEF Live
<1> HIDE DEF stale, full
<1>3. /\ session' \in [Sessions -> {"new", "live", "ended"}] /\ of' \in [Sessions -> Nat]
      /\ place' \in [Conns -> BOOLEAN] /\ cancelled' \in [Conns -> BOOLEAN]
  BY <1>1 DEF Types
<1>4. \A t \in Sessions : of'[t] = of[t] \/ (t = s /\ of'[t] = epoch)
  BY <1>1 DEF Types
<1>5. \A t \in Sessions : session[t] = "new" /\ session'[t] # "new" => of'[t] = epoch
  BY <1>1, <1>2 DEF Types
<1>6. Ages
  BY <1>1, <1>2, <1>4, <1>5 DEF Types, Ages
<1> QED BY <1>3, <1>6

LEMMA Kept ==
    ASSUME session' = session, of' = of
    PROVE  Ages
BY DEF Ages

(* What is over stays over, and what a look at the registry refuses stays refused. *)
LEMMA OverStays ==
    ASSUME Types, Started, Ages, Turns,
           NEW s \in Sessions, session[s] # "new",
           session' \in [Sessions -> {"new", "live", "ended"}]
    PROVE  /\ IsOver(s) => IsOver(s)'
           /\ \A e : ~Holds(s, e) => ~Holds(s, e)'
<1>1. of[s] > 0 /\ of[s] <= opens /\ opens \in Nat /\ of[s] \in Nat
  BY DEF Types, Started
<1>2. ASSUME session[s] = "live", of[s] # epoch, session'[s] = "live"
      PROVE  of'[s] # epoch'
  BY <1>1, <1>2 DEF Ages, Turns
<1>3. session[s] \in {"new", "live", "ended"} /\ session'[s] \in {"new", "live", "ended"}
  BY DEF Types
<1>4. IsOver(s) => IsOver(s)'
  BY <1>2, <1>3 DEF IsOver, Ages
<1>5. \A e : ~Holds(s, e) => ~Holds(s, e)'
  BY <1>3 DEF Holds, Ages
<1> QED BY <1>4, <1>5

(* What the invariant says of one connection *)
Good(c) ==
    /\ whose[c] \in Sessions => session[whose[c]] # "new"
    /\ stage[c] \in Named => whose[c] \in Sessions
    /\ seen[c] # Unread => stage[c] \in {"authenticate", "attach", "check"}
    /\ late[c] = 0 \/ Spent(c)

(* The connections a step leaves alone stay as the invariant says. *)
LEMMA Untouched ==
    ASSUME IInv, Ages, Turns, session' \in [Sessions -> {"new", "live", "ended"}],
           NEW c \in Conns,
           stage'[c] = stage[c], whose'[c] = whose[c], seen'[c] = seen[c], late'[c] = late[c]
    PROVE  Good(c)'
<1>1. whose'[c] \in Sessions => session'[whose'[c]] # "new"
  BY DEF IInv, Tokens, Ages
<1>2. stage'[c] \in Named => whose'[c] \in Sessions
  BY DEF IInv, Tokens
<1>3. seen'[c] # Unread => stage'[c] \in {"authenticate", "attach", "check"}
  BY DEF IInv, Looking
<1>4. ASSUME late[c] # 0
      PROVE  Spent(c)'
  <2>1. Spent(c)
    BY <1>4 DEF IInv, Lateness
  <2>2. session[whose[c]] # "new"
    BY <2>1 DEF Spent, IInv, Tokens
  <2> DEFINE s == whose[c]
  <2>3. s \in Sessions /\ IsOver(s) /\ whose'[c] = s
    BY <2>1 DEF Spent
  <2>4. IsOver(s)' /\ \A e : ~Holds(s, e) => ~Holds(s, e)'
    <3>1. ASSUME NEW t \in Sessions, session[t] # "new"
          PROVE  /\ IsOver(t) => IsOver(t)'
                 /\ \A e : ~Holds(t, e) => ~Holds(t, e)'
      BY <3>1, OverStays DEF IInv
    <3> QED BY <2>2, <2>3, <3>1 DEF IsOver, Holds
  <2> QED BY <2>1, <2>3, <2>4 DEF Spent, IsOver, Holds
<1> QED BY <1>1, <1>2, <1>3, <1>4 DEF Good, IInv, Lateness

----------------------------------------------------------------------------
(* The steps *)

LEMMA LooksTypes ==
    ASSUME Types, NEW c \in Conns, NEW from \in Stages, NEW to \in Stages, Looks(c, from, to)
    PROVE  Types' /\ Ages /\ Turns
<1>1. stage' \in [Conns -> Stages] /\ seen' \in [Conns -> Int]
  <2>1. stage' = [stage EXCEPT ![c] = to] \/ stage' = [stage EXCEPT ![c] = "leave"]
    BY DEF Looks, Goes
  <2>2. seen' = [seen EXCEPT ![c] = -1]
    BY DEF Looks, Unread
  <2> QED BY <2>1, <2>2 DEF Types, Stages
<1>2. CASE Holds(whose[c], seen[c])
  BY <1>1, <1>2, Kept DEF Looks, Types, mainVars, callVars, lineVars, Turns
<1>3. CASE ~Holds(whose[c], seen[c])
  <2>1. Remove({whose[c]}) /\ of' = of
    BY <1>3 DEF Looks
  <2>2. /\ Ages /\ session' \in [Sessions -> {"new", "live", "ended"}]
        /\ place' \in [Conns -> BOOLEAN] /\ cancelled' \in [Conns -> BOOLEAN]
    BY <2>1, RemoveAges
  <2> QED BY <1>1, <2>1, <2>2 DEF Looks, Types, mainVars, callVars, lineVars, Turns
<1> QED BY <1>2, <1>3

(* Every step keeps the types, ages the registry and turns to a newer project or none. *)
LEMMA NextTypes ==
    ASSUME Types, [Next]_vars
    PROVE  Types' /\ Ages /\ Turns
<1> USE DEF Types
<1>1. CASE OpenProject
  BY <1>1, Kept DEF OpenProject, registryVars, callVars, lineVars, Turns
<1>2. CASE CloseProject
  BY <1>2, Kept DEF CloseProject, NoProject, registryVars, callVars, lineVars, Turns
<1>3. CASE Quit
  BY <1>3, Kept DEF Quit, registryVars, callVars, lineVars, Turns
<1>4. CASE PageLoads
  <2>1. Remove(Live) /\ of' = of
    BY <1>4 DEF PageLoads
  <2>2. /\ Ages /\ session' \in [Sessions -> {"new", "live", "ended"}]
        /\ place' \in [Conns -> BOOLEAN] /\ cancelled' \in [Conns -> BOOLEAN]
    BY <2>1, RemoveAges
  <2> QED BY <1>4, <2>1, <2>2 DEF PageLoads, mainVars, callVars, lineVars, Turns
<1>5. CASE Drained
  <2>1. Remove(Live) /\ of' = of
    BY <1>5 DEF Drained
  <2>2. /\ Ages /\ session' \in [Sessions -> {"new", "live", "ended"}]
        /\ place' \in [Conns -> BOOLEAN] /\ cancelled' \in [Conns -> BOOLEAN]
    BY <2>1, RemoveAges
  <2> QED BY <1>5, <2>1, <2>2 DEF Drained, callVars, lineVars, Turns
<1>6. ASSUME NEW s \in Sessions, StartSession(s)
      PROVE  Types' /\ Ages /\ Turns
  <2>1. /\ Ages
        /\ session' \in [Sessions -> {"new", "live", "ended"}] /\ of' \in [Sessions -> Nat]
        /\ place' \in [Conns -> BOOLEAN] /\ cancelled' \in [Conns -> BOOLEAN]
    BY <1>6, StartAges
  <2> QED BY <1>6, <2>1 DEF StartSession, mainVars, callVars, lineVars, Turns
<1>7. ASSUME NEW s \in Sessions, EndSession(s)
      PROVE  Types' /\ Ages /\ Turns
  <2>1. Remove({s}) /\ of' = of
    BY <1>7 DEF EndSession
  <2>2. /\ Ages /\ session' \in [Sessions -> {"new", "live", "ended"}]
        /\ place' \in [Conns -> BOOLEAN] /\ cancelled' \in [Conns -> BOOLEAN]
    BY <2>1, RemoveAges
  <2> QED BY <1>7, <2>1, <2>2 DEF EndSession, mainVars, callVars, lineVars, Turns
<1>8. ASSUME NEW c \in Conns, NEW s \in Sessions, Hello(c, s)
      PROVE  Types' /\ Ages /\ Turns
  BY <1>8, Kept DEF Hello, Goes, Stages, mainVars, registryVars, callVars, lineVars, Turns
<1>9. ASSUME NEW c \in Conns, NEW i \in Ids, CallReturns(c, i)
      PROVE  Types' /\ Ages /\ Turns
  BY <1>9, Kept DEF CallReturns, mainVars, registryVars, lineVars, Turns
<1>10. ASSUME NEW c \in Conns, NEW m \in Messages, Send(c, m)
       PROVE  Types' /\ Ages /\ Turns
  BY <1>10, Kept DEF Send, mainVars, registryVars, callVars, Turns
<1>11. ASSUME NEW c \in Conns, CallAnswers(c)
       PROVE  Types' /\ Ages /\ Turns
  <2>1. writing' \in [Conns -> Nat]
    BY <1>11 DEF CallAnswers
  <2> QED BY <1>11, <2>1, Kept DEF CallAnswers, mainVars, registryVars, lineVars, Turns
<1>12. ASSUME NEW c \in Conns, Connect(c) \/ ClientCloses(c)
       PROVE  Types' /\ Ages /\ Turns
  BY <1>12, Kept DEF Connect, ClientCloses, Goes, Stages, mainVars, registryVars, callVars,
                     lineVars, Turns
<1>13. ASSUME NEW c \in Conns, ThreadSteps(c)
       PROVE  Types' /\ Ages /\ Turns
  <2>1. CASE ReadEpoch(c)
    BY <2>1, Kept DEF ReadEpoch, mainVars, registryVars, callVars, lineVars, Turns
  <2>2. CASE Authenticate(c)
    BY <2>2, LooksTypes DEF Authenticate, Stages
  <2>3. CASE StillHolds(c)
    BY <2>3, LooksTypes DEF StillHolds, Stages
  <2>4. CASE Attach(c)
    <3>1. stage' \in [Conns -> Stages] /\ seen' \in [Conns -> Int]
      BY <2>4, SMTT(30) DEF Attach, Goes, Stages, Unread
    <3>2. CASE Remove({whose[c]})
      <4>1. /\ Ages /\ session' \in [Sessions -> {"new", "live", "ended"}]
            /\ place' \in [Conns -> BOOLEAN] /\ cancelled' \in [Conns -> BOOLEAN]
        BY <2>4, <3>2, RemoveAges DEF Attach
      <4> QED BY <2>4, <3>1, <4>1 DEF Attach, mainVars, callVars, lineVars, Turns
    <3>3. CASE session' = session
      BY <2>4, <3>1, <3>3, Kept DEF Attach, Remove, mainVars, callVars, lineVars, Turns
    <3> QED BY <2>4, <3>2, <3>3 DEF Attach
  <2>5. CASE NoHello(c) \/ Written(c) \/ Idle(c) \/ Closed(c) \/ NextLine(c)
    BY <2>5, Kept DEF NoHello, Written, Idle, Closed, NextLine, Goes, Stages, mainVars,
                      registryVars, callVars, lineVars, Turns
  <2>6. CASE Handle(c)
    <3>1. stage' \in [Conns -> Stages] /\ UNCHANGED <<mainVars, registryVars, whose, seen, writing>>
      BY <2>6 DEF Handle, Goes, Stages
    <3>2. running' \in [Conns -> [Ids -> {"no", "yes", "cancelled"}]]
      BY <2>6 DEF Handle
    <3>3. late' \in [Conns -> Nat]
      BY <2>6 DEF Handle
    <3> QED BY <3>1, <3>2, <3>3, Kept DEF mainVars, registryVars, Turns
  <2>7. CASE Leave(c)
    BY <2>7, Kept DEF Leave, Goes, Stages, mainVars, callVars, Turns
  <2> QED BY <1>13, <2>1, <2>2, <2>3, <2>4, <2>5, <2>6, <2>7 DEF ThreadSteps
<1>14. CASE UNCHANGED vars
  BY <1>14, Kept DEF vars, mainVars, registryVars, callVars, lineVars, Turns
<1> QED BY <1>1, <1>2, <1>3, <1>4, <1>5, <1>6, <1>7, <1>8, <1>9, <1>10, <1>11, <1>12, <1>13,
           <1>14 DEF Next

LEMMA NextStarted ==
    ASSUME IInv, Types', Ages, Turns
    PROVE  Started'
<1> SUFFICES ASSUME NEW s \in Sessions
             PROVE  of'[s] <= opens' /\ (session'[s] # "new" => of'[s] > 0)
  BY DEF Started
<1>1. of[s] \in Nat /\ of'[s] \in Nat /\ opens \in Nat /\ epoch \in 0..opens
  BY DEF IInv, Types
<1>2. of[s] <= opens /\ (session[s] # "new" => of[s] > 0)
  BY DEF IInv, Started
<1> QED BY <1>1, <1>2 DEF Ages, Turns, NoProject

(* A step of connection c leaves every other connection as it was. *)
LEMMA OthersGood ==
    ASSUME IInv, Types', Ages, Turns, NEW c \in Conns, Good(c)',
           \A d \in Conns \ {c} : stage'[d] = stage[d] /\ whose'[d] = whose[d]
                                    /\ seen'[d] = seen[d] /\ late'[d] = late[d]
    PROVE  IInv'
<1>1. \A d \in Conns \ {c} : Good(d)'
  BY Untouched DEF Types
<1>2. \A d \in Conns : Good(d)'
  BY <1>1
<1>3. Started'
  BY NextStarted
<1> QED BY <1>2, <1>3 DEF IInv, Good, Tokens, Looking, Lateness

LEMMA NoneTouched ==
    ASSUME IInv, Types', Ages, Turns, UNCHANGED <<stage, whose, seen, late>>
    PROVE  IInv'
<1>1. \A c \in Conns : Good(c)'
  BY Untouched DEF Types
<1>2. Started'
  BY NextStarted
<1> QED BY <1>1, <1>2 DEF IInv, Good, Tokens, Looking, Lateness

(* What holds of connection c after a step of its own in which it begins no call *)
LEMMA OwnStep ==
    ASSUME IInv, Types', Ages, Turns, NEW c \in Conns,
           whose'[c] = whose[c], late'[c] = late[c],
           stage'[c] \in Named => whose[c] \in Sessions,
           seen'[c] # Unread => stage'[c] \in {"authenticate", "attach", "check"},
           late[c] # 0 =>
             /\ stage'[c] \in {"wait", "check", "answer", "leave", "closed"}
             /\ seen'[c] # Unread => seen'[c] = seen[c] \/ ~Holds(whose[c], seen'[c])
    PROVE  Good(c)'
<1>1. whose[c] \in Sessions => session'[whose[c]] # "new"
  BY DEF IInv, Tokens, Ages
<1>2. ASSUME late[c] # 0
      PROVE  Spent(c)'
  <2>1. Spent(c)
    BY <1>2 DEF IInv, Lateness
  <2>2. whose[c] \in Sessions /\ session[whose[c]] # "new"
    BY <2>1 DEF Spent, IInv, Tokens
  <2>3. ASSUME NEW t \in Sessions, session[t] # "new"
        PROVE  /\ IsOver(t) => IsOver(t)'
               /\ \A e : ~Holds(t, e) => ~Holds(t, e)'
    BY <2>3, OverStays DEF IInv, Types
  <2>4. IsOver(whose[c]) /\ late[c] = 1
    BY <2>1 DEF Spent
  <2>5. (IsOver(whose[c]))'
    BY <2>2, <2>3, <2>4 DEF IsOver
  <2>6. (seen[c] # Unread => ~Holds(whose[c], seen[c]))'
    BY <1>2, <2>1, <2>2, <2>3 DEF Spent, Holds
  <2> QED BY <1>2, <2>2, <2>4, <2>5, <2>6 DEF Spent
<1> QED BY <1>1, <1>2 DEF Good, IInv, Lateness, Spent

LEMMA LooksGood ==
    ASSUME IInv, Types', Ages, Turns, NEW c \in Conns, NEW from \in {"authenticate", "check"},
           NEW to \in {"attach", "handle"}, Looks(c, from, to)
    PROVE  IInv'
<1>1. /\ stage[c] = from /\ seen[c] # Unread /\ seen' = [seen EXCEPT ![c] = Unread]
      /\ whose' = whose /\ late' = late
      /\ \/ Holds(whose[c], seen[c]) /\ stage' = [stage EXCEPT ![c] = to]
         \/ stage' = [stage EXCEPT ![c] = "leave"]
  BY DEF Looks, Goes, callVars
<1>2. /\ stage[c] \in Named /\ whose[c] \in Sessions
      /\ late[c] # 0 => ~Holds(whose[c], seen[c])
  BY <1>1 DEF IInv, Named, Tokens, Lateness, Spent
<1>3. /\ stage'[c] \in {to, "leave"} /\ (late[c] # 0 => stage'[c] = "leave")
      /\ seen'[c] = Unread
  BY <1>1, <1>2 DEF IInv, Types
<1>4. Good(c)'
  BY <1>1, <1>2, <1>3, OwnStep
<1>5. \A d \in Conns \ {c} : stage'[d] = stage[d] /\ whose'[d] = whose[d]
                               /\ seen'[d] = seen[d] /\ late'[d] = late[d]
  BY <1>1 DEF IInv, Types
<1> QED BY <1>4, <1>5, OthersGood

(* The call that is begun late is the one that was checked before. *)
LEMMA HandleGood ==
    ASSUME IInv, Types', Ages, Turns, NEW c \in Conns, Handle(c)
    PROVE  IInv'
<1>1. /\ stage[c] = "handle" /\ whose' = whose /\ seen' = seen
      /\ session' = session /\ of' = of /\ epoch' = epoch
      /\ \/ late' = late
         \/ /\ IsOver(whose[c]) /\ late' = [late EXCEPT ![c] = @ + 1]
            /\ stage' = [stage EXCEPT ![c] = "wait"]
      /\ stage' = [stage EXCEPT ![c] = "wait"] \/ stage' = [stage EXCEPT ![c] = "answer"]
  BY DEF Handle, Goes, mainVars, registryVars
<1>2. late[c] = 0 /\ seen[c] = Unread /\ whose[c] \in Sessions
  BY <1>1 DEF IInv, Lateness, Spent, Looking, Tokens, Named
<1>3. stage'[c] \in {"wait", "answer"}
  BY <1>1 DEF IInv, Types
<1>4. Good(c)'
  <2>1. CASE late' = late
    BY <2>1, <1>1, <1>2, <1>3, OwnStep
  <2>2. CASE IsOver(whose[c]) /\ late' = [late EXCEPT ![c] = @ + 1] /\ stage'[c] = "wait"
    <3>1. late'[c] = 1
      BY <1>2, <2>2 DEF IInv, Types
    <3>2. (IsOver(whose[c]))'
      BY <1>1, <2>2 DEF IsOver
    <3>3. session'[whose[c]] # "new"
      BY <1>1, <1>2 DEF IInv, Tokens
    <3> QED BY <1>1, <1>2, <2>2, <3>1, <3>2, <3>3 DEF Good, Spent
  <2> QED BY <1>1, <2>1, <2>2 DEF IInv, Types
<1>5. \A d \in Conns \ {c} : stage'[d] = stage[d] /\ whose'[d] = whose[d]
                               /\ seen'[d] = seen[d] /\ late'[d] = late[d]
  BY <1>1 DEF IInv, Types
<1> QED BY <1>4, <1>5, OthersGood

(* Every other step of a connection's own changes its stage, or reads the project. *)
LEMMA PlainGood ==
    ASSUME IInv, Types', Ages, Turns, NEW c \in Conns,
           late' = late, \A d \in Conns \ {c} : whose'[d] = whose[d],
           \E to \in Stages : stage' = [stage EXCEPT ![c] = to],
           seen' = seen \/ seen' = [seen EXCEPT ![c] = Unread],
           stage'[c] = stage[c] \/ seen'[c] = Unread,
           \/ /\ whose' = whose
              /\ stage[c] \in Named \/ stage'[c] \notin Named
              /\ stage'[c] \in {"wait", "check", "answer", "leave", "closed"}
                   \/ stage[c] \in {"off", "hello", "authenticate", "attach"}
           \/ /\ stage[c] = "hello" /\ whose'[c] \in Sessions
              /\ session'[whose'[c]] # "new"
    PROVE  IInv'
<1>1. \A d \in Conns \ {c} : stage'[d] = stage[d] /\ seen'[d] = seen[d] /\ late'[d] = late[d]
  BY DEF IInv, Types
<1>2. seen'[c] = seen[c] \/ seen'[c] = Unread
  BY DEF IInv, Types
<1>3. seen'[c] # Unread => stage'[c] \in {"authenticate", "attach", "check"}
  BY <1>2 DEF IInv, Looking
<1>4. CASE whose' = whose
  <2>1. late[c] # 0 => stage[c] \in {"wait", "check", "answer", "leave", "closed"}
    BY DEF IInv, Lateness, Spent
  <2>2. stage'[c] \in Named => whose[c] \in Sessions
    BY <1>4 DEF IInv, Tokens, Named
  <2>3. late[c] # 0 => stage'[c] \in {"wait", "check", "answer", "leave", "closed"}
    BY <2>1
  <2>4. Good(c)'
    BY <1>2, <1>3, <1>4, <2>2, <2>3, OwnStep
  <2> QED BY <1>1, <2>4, OthersGood
<1>5. CASE stage[c] = "hello" /\ whose'[c] \in Sessions /\ session'[whose'[c]] # "new"
  <2>1. late[c] = 0
    BY <1>5 DEF IInv, Lateness, Spent
  <2>2. Good(c)'
    BY <1>3, <1>5, <2>1 DEF Good
  <2> QED BY <1>1, <2>2, OthersGood
<1> QED BY <1>4, <1>5

LEMMA NextInv == IInv /\ [Next]_vars => IInv'
<1> SUFFICES ASSUME IInv, [Next]_vars
             PROVE  IInv'
  OBVIOUS
<1>1. Types' /\ Ages /\ Turns
  BY NextTypes DEF IInv
<1>2. CASE UNCHANGED <<stage, whose, seen, late>>
  BY <1>1, <1>2, NoneTouched
<1>3. ASSUME NEW c \in Conns, NEW s \in Sessions, Hello(c, s)
      PROVE  IInv'
  <2>1. /\ stage[c] = "hello" /\ session'[s] # "new"
        /\ whose' = [whose EXCEPT ![c] = s] /\ seen' = seen /\ late' = late
        /\ stage' = [stage EXCEPT ![c] = "authenticate"]
    BY <1>3 DEF Hello, Goes, registryVars, callVars
  <2>2. whose'[c] = s /\ \A d \in Conns \ {c} : whose'[d] = whose[d]
    BY <2>1 DEF IInv, Types
  <2>3. seen'[c] = Unread
    BY <2>1 DEF IInv, Looking
  <2>4. \E to \in Stages : stage' = [stage EXCEPT ![c] = to]
    BY <2>1 DEF Stages
  <2> QED BY <1>1, <2>1, <2>2, <2>3, <2>4, PlainGood
<1>4. ASSUME NEW c \in Conns, Connect(c) \/ ClientCloses(c) \/ NoHello(c) \/ Written(c)
                                \/ NextLine(c) \/ Idle(c) \/ Closed(c) \/ Leave(c)
      PROVE  IInv'
  <2>1. PICK to \in Stages :
          /\ stage' = [stage EXCEPT ![c] = to]
          /\ \/ stage[c] \in {"off", "hello"} /\ to \notin Named
             \/ stage[c] \in Named /\ to \in {"wait", "check", "leave"}
             \/ to = "closed"
    BY <1>4 DEF Connect, ClientCloses, NoHello, Written, NextLine, Idle, Closed, Leave, Goes,
                Stages, Named
  <2>2. whose' = whose /\ seen' = seen /\ late' = late
    BY <1>4 DEF Connect, ClientCloses, NoHello, Written, NextLine, Idle, Closed, Leave, callVars
  <2>3. stage[c] \notin {"authenticate", "attach", "check"}
    BY <1>4 DEF Connect, ClientCloses, NoHello, Written, NextLine, Idle, Closed, Leave
  <2>4. seen'[c] = Unread
    BY <2>2, <2>3 DEF IInv, Looking
  <2>5. stage'[c] = to
    BY <2>1 DEF IInv, Types
  <2> QED BY <1>1, <2>1, <2>2, <2>4, <2>5, PlainGood DEF Named
<1>5. ASSUME NEW c \in Conns, ReadEpoch(c)
      PROVE  IInv'
  <2>1. /\ stage[c] \in {"authenticate", "attach", "check"}
        /\ seen' = [seen EXCEPT ![c] = epoch]
        /\ UNCHANGED <<session, of, epoch, stage, whose, late>>
    BY <1>5 DEF ReadEpoch, mainVars, registryVars, callVars
  <2>2. whose[c] \in Sessions
    BY <2>1 DEF IInv, Tokens, Named
  <2>3. seen'[c] = epoch
    BY <2>1 DEF IInv, Types
  <2>4. late[c] # 0 => IsOver(whose[c]) /\ stage[c] = "check"
    BY <2>1 DEF IInv, Lateness, Spent
  <2>5. late[c] # 0 => ~Holds(whose[c], seen'[c])
    BY <2>3, <2>4 DEF IsOver, Holds
  <2>6. Good(c)'
    BY <1>1, <2>1, <2>2, <2>4, <2>5, OwnStep
  <2>7. \A d \in Conns \ {c} : seen'[d] = seen[d]
    BY <2>1 DEF IInv, Types
  <2> QED BY <1>1, <2>1, <2>6, <2>7, OthersGood
<1>6. ASSUME NEW c \in Conns, Authenticate(c) \/ StillHolds(c)
      PROVE  IInv'
  BY <1>1, <1>6, LooksGood DEF Authenticate, StillHolds
<1>7. ASSUME NEW c \in Conns, Attach(c)
      PROVE  IInv'
  <2>1. /\ stage[c] = "attach" /\ whose' = whose /\ late' = late
        /\ seen' = [seen EXCEPT ![c] = Unread]
        /\ \E to \in {"ready", "leave"} : stage' = [stage EXCEPT ![c] = to]
    BY <1>7 DEF Attach, Goes, callVars
  <2>2. seen'[c] = Unread
    BY <2>1 DEF IInv, Types
  <2>3. \E to \in Stages : stage' = [stage EXCEPT ![c] = to]
    BY <2>1 DEF Stages
  <2> QED BY <1>1, <2>1, <2>2, <2>3, PlainGood DEF Named
<1>8. ASSUME NEW c \in Conns, Handle(c)
      PROVE  IInv'
  BY <1>1, <1>8, HandleGood
<1>9. CASE Next
  <2>1. CASE OpenProject \/ CloseProject \/ PageLoads \/ Quit \/ Drained
    BY <1>2, <2>1 DEF OpenProject, CloseProject, PageLoads, Quit, Drained, callVars
  <2>2. ASSUME NEW s \in Sessions, StartSession(s) \/ EndSession(s)
        PROVE  IInv'
    BY <1>2, <2>2 DEF StartSession, EndSession, callVars
  <2>3. ASSUME NEW c \in Conns, CallAnswers(c)
        PROVE  IInv'
    BY <1>2, <2>3 DEF CallAnswers
  <2>4. ASSUME NEW c \in Conns, NEW i \in Ids, CallReturns(c, i)
        PROVE  IInv'
    BY <1>2, <2>4 DEF CallReturns
  <2>5. ASSUME NEW c \in Conns, NEW m \in Messages, Send(c, m)
        PROVE  IInv'
    BY <1>2, <2>5 DEF Send, callVars
  <2> QED BY <1>3, <1>4, <1>5, <1>6, <1>7, <1>8, <1>9, <2>1, <2>2, <2>3, <2>4, <2>5
          DEF Next, ThreadSteps
<1>10. CASE UNCHANGED vars
  BY <1>2, <1>10 DEF vars, callVars
<1> QED BY <1>9, <1>10

LEMMA InitInv == Init => IInv
BY McpAssumption
   DEF Init, IInv, Types, Started, Tokens, Looking, Lateness, Stages, Named, NoProject, Unread

(* The parts of the registry and of the connections are what they should be, and a connection
   that began a call after its session ended will not pass another check, for any number of
   sessions, connections and calls.                                                *)
THEOREM InvHolds == Spec => []IInv
BY InitInv, NextInv, PTL DEF Spec

(* A connection begins at most one call after its session has ended or its project has closed:
   the session is looked up after each line and before its call begins (server.rs). *)
THEOREM AtMostOneLateCall == Spec => []OneLateCall
<1>1. IInv => OneLateCall
  BY DEF IInv, Types, Lateness, Spent, OneLateCall
<1> QED BY <1>1, InvHolds, PTL

----------------------------------------------------------------------------
(* The shutdown *)

QuitInv == Types /\ QuitWaits

LEMMA NextQuit == QuitInv /\ [Next]_vars => QuitInv'
<1> SUFFICES ASSUME QuitInv, [Next]_vars
             PROVE  QuitInv'
  OBVIOUS
<1>1. Types /\ Types'
  BY NextTypes DEF QuitInv
<1>2. SUFFICES ASSUME quit' = "over", ~gaveUp', NEW d \in Conns
               PROVE  ~HasCalls(d)'
  BY <1>1 DEF QuitInv, QuitWaits
<1>3. CASE Drained
  BY <1>2, <1>3 DEF Drained, Busy, HasCalls, callVars
<1>4. CASE /\ quit = "over" /\ gaveUp' = gaveUp
           /\ \A i \in Ids : running'[d][i] = running[d][i] \/ running'[d][i] = "no"
                               \/ running[d][i] # "no"
           /\ writing'[d] > 0 => HasCalls(d)
  BY <1>2, <1>4 DEF QuitInv, QuitWaits, HasCalls
<1>5. CASE UNCHANGED <<quit, gaveUp, running, writing>>
  BY <1>2, <1>4, <1>5 DEF HasCalls
<1>6. CASE OpenProject \/ CloseProject \/ PageLoads \/ Quit
  BY <1>2, <1>5, <1>6 DEF OpenProject, CloseProject, PageLoads, Quit, mainVars, callVars
<1>7. ASSUME NEW s \in Sessions, StartSession(s) \/ EndSession(s)
      PROVE  ~HasCalls(d)'
  BY <1>5, <1>7 DEF StartSession, EndSession, mainVars, callVars
<1>8. ASSUME NEW c \in Conns, CallAnswers(c)
      PROVE  ~HasCalls(d)'
  <2>1. quit = "over" /\ gaveUp' = gaveUp /\ running' = running
        /\ writing' = [writing EXCEPT ![c] = @ - 1] /\ writing[c] > 0
    BY <1>2, <1>8 DEF CallAnswers, mainVars
  <2>2. writing'[d] > 0 => HasCalls(d)
    BY <1>1, <2>1 DEF Types, HasCalls
  <2> QED BY <1>4, <2>1, <2>2
<1>9. ASSUME NEW c \in Conns, NEW i \in Ids, CallReturns(c, i)
      PROVE  ~HasCalls(d)'
  <2>1. /\ quit = "over" /\ gaveUp' = gaveUp /\ running[c][i] # "no"
        /\ running' = [running EXCEPT ![c][i] = "no"]
        /\ writing' = IF running[c][i] = "yes" THEN [writing EXCEPT ![c] = @ + 1] ELSE writing
    BY <1>2, <1>9 DEF CallReturns, mainVars
  <2>2. \A j \in Ids : running'[d][j] = running[d][j] \/ running'[d][j] = "no"
    BY <1>1, <2>1 DEF Types
  <2>3. writing'[d] > 0 => HasCalls(d)
    BY <1>1, <2>1 DEF Types, HasCalls
  <2> QED BY <1>4, <2>1, <2>2, <2>3
<1>10. ASSUME NEW c \in Conns, NEW m \in Messages, Send(c, m)
       PROVE  ~HasCalls(d)'
  BY <1>5, <1>10 DEF Send, mainVars, callVars
<1>11. ASSUME NEW c \in Conns, NEW s \in Sessions, Hello(c, s)
       PROVE  ~HasCalls(d)'
  BY <1>5, <1>11 DEF Hello, mainVars, callVars
<1>12. ASSUME NEW c \in Conns, Connect(c) \/ ClientCloses(c) \/ NoHello(c) \/ Written(c)
                 \/ NextLine(c) \/ Idle(c) \/ Closed(c) \/ Leave(c) \/ ReadEpoch(c)
                 \/ Authenticate(c) \/ StillHolds(c) \/ Attach(c)
       PROVE  ~HasCalls(d)'
  BY <1>5, <1>12 DEF Connect, ClientCloses, NoHello, Written, NextLine, Idle, Closed, Leave,
                     ReadEpoch, Authenticate, StillHolds, Looks, Attach, mainVars, callVars
<1>13. ASSUME NEW c \in Conns, Handle(c)
       PROVE  ~HasCalls(d)'
  <2>1. quit = "over" /\ gaveUp' = gaveUp /\ writing' = writing
    BY <1>2, <1>13 DEF Handle, mainVars
  <2>2. running' = running
          \/ running' = [running EXCEPT ![c][got[c].id] = IF @ = "yes" THEN "cancelled" ELSE @]
    BY <1>13, <2>1 DEF Handle
  <2> DEFINE i == got[c].id
  <2>3. ASSUME running' = [running EXCEPT ![c][i] = IF @ = "yes" THEN "cancelled" ELSE @],
               NEW j \in Ids
        PROVE  running'[d][j] = running[d][j] \/ running[d][j] # "no"
    <3> HIDE DEF i
    <3>1. running'[d] = running[d]
            \/ running'[d] = [running[d] EXCEPT ![i] = IF @ = "yes" THEN "cancelled" ELSE @]
      BY <1>1, <2>3 DEF Types
    <3>2. DOMAIN running[d] = Ids
      BY <1>1 DEF Types
    <3> QED BY <3>1, <3>2
  <2>4. \A j \in Ids : running'[d][j] = running[d][j] \/ running[d][j] # "no"
    BY <2>2, <2>3
  <2> QED BY <1>4, <2>1, <2>4 DEF HasCalls
<1>14. CASE UNCHANGED vars
  BY <1>5, <1>14 DEF vars, mainVars, callVars
<1> QED BY <1>3, <1>6, <1>7, <1>8, <1>9, <1>10, <1>11, <1>12, <1>13, <1>14
        DEF Next, ThreadSteps

(* When the shutdown of the service ends and its time had not run out, every call has written
   its answer and none runs: Calls::close (mod.rs) takes the places and then waits for them. *)
THEOREM QuitHasWaited == Spec => []QuitWaits
<1>1. Init => QuitInv
  BY InitInv DEF Init, IInv, QuitInv, QuitWaits
<1> QED BY <1>1, NextQuit, PTL DEF Spec, QuitInv

----------------------------------------------------------------------------
(* The places *)

(* Only connections of live sessions have a place, and one that conversed and lost its place
   has been cancelled.                                                             *)
PlaceInv(c) ==
    /\ place[c] => /\ whose[c] \in Sessions /\ session[whose[c]] = "live"
                   /\ stage[c] \in Conversing \cup {"leave"}
    /\ stage[c] \in Conversing /\ ~place[c] => cancelled[c]
CutInv == \A c \in Conns : PlaceInv(c)

LEMMA RemovePlaces ==
    ASSUME IInv, CutInv, NEW S, Remove(S), NEW d \in Conns,
           whose'[d] = whose[d], (stage'[d] = stage[d] \/ stage'[d] = "leave")
    PROVE  PlaceInv(d)'
<1>1. /\ place'[d] => place[d] /\ session'[whose[d]] = "live"
      /\ place[d] /\ ~place'[d] => cancelled'[d]
      /\ cancelled[d] => cancelled'[d]
  BY DEF Remove, IInv, Types, CutInv, PlaceInv, Live, Placed
<1> QED BY <1>1 DEF CutInv, PlaceInv, IInv, Types, Conversing

LEMMA KeptPlaces ==
    ASSUME IInv, CutInv, NEW d \in Conns, session' = session,
           (whose'[d] = whose[d] \/ stage[d] = "hello"),
           \/ stage'[d] = stage[d]
           \/ stage'[d] \in Conversing \cup {"leave"} /\ stage[d] \in Conversing
           \/ stage'[d] \notin Conversing /\ ~place[d],
           place'[d] = place[d], cancelled'[d] = cancelled[d]
    PROVE  PlaceInv(d)'
BY DEF CutInv, PlaceInv, Conversing

LEMMA NextCut == IInv /\ CutInv /\ [Next]_vars => CutInv'
<1> SUFFICES ASSUME IInv, CutInv, [Next]_vars, NEW d \in Conns
             PROVE  PlaceInv(d)'
  BY DEF CutInv
<1> USE DEF mainVars, registryVars
<1>1. Types
  BY DEF IInv
<1>2. place[d] => stage[d] \in Conversing \cup {"leave"}
  BY DEF CutInv, PlaceInv
<1>3. CASE OpenProject \/ CloseProject \/ Quit
  BY <1>3, KeptPlaces DEF OpenProject, CloseProject, Quit
<1>4. CASE PageLoads \/ Drained
  BY <1>4, RemovePlaces DEF PageLoads, Drained
<1>5. ASSUME NEW s \in Sessions, EndSession(s)
      PROVE  PlaceInv(d)'
  BY <1>5, RemovePlaces DEF EndSession
<1>6. ASSUME NEW s \in Sessions, StartSession(s)
      PROVE  PlaceInv(d)'
  <2> DEFINE stale == {t \in Live : ~Holds(t, epoch)}
             full  == Cardinality(Live \ stale) >= MaxSessions
  <2>1. /\ session' = [t \in Sessions |->
                CASE t \in stale -> "ended" [] t = s /\ ~full -> "live" [] OTHER -> session[t]]
        /\ place' = [c \in Conns |-> place[c] /\ \A t \in stale : c \notin Placed(t)]
        /\ cancelled' = [c \in Conns |-> cancelled[c] \/ \E t \in stale : c \in Placed(t)]
        /\ UNCHANGED <<stage, whose>>
    BY <1>6 DEF StartSession
  <2> HIDE DEF stale, full
  <2>2. /\ place'[d] => place[d] /\ whose[d] \notin stale
        /\ place[d] /\ ~place'[d] => cancelled'[d]
        /\ cancelled[d] => cancelled'[d]
    BY <1>1, <2>1 DEF Types, Placed
  <2>3. place'[d] => session'[whose[d]] = "live"
    BY <2>1, <2>2 DEF CutInv, PlaceInv
  <2> QED BY <2>1, <2>2, <2>3 DEF CutInv, PlaceInv
<1>7. ASSUME NEW c \in Conns, NEW s \in Sessions, Hello(c, s)
      PROVE  PlaceInv(d)'
  <2>1. /\ whose'[d] = whose[d] \/ stage[d] = "hello"
        /\ stage'[d] = stage[d] \/ (stage[d] = "hello" /\ stage'[d] = "authenticate")
    BY <1>1, <1>7 DEF Hello, Goes, Types
  <2> QED BY <1>2, <1>7, <2>1, KeptPlaces DEF Hello, Conversing
<1>8. ASSUME NEW c \in Conns, Connect(c) \/ ClientCloses(c) \/ NoHello(c) \/ Written(c)
                                \/ NextLine(c) \/ Idle(c) \/ Closed(c) \/ Handle(c)
      PROVE  PlaceInv(d)'
  <2>1. \/ stage'[d] = stage[d]
        \/ stage[d] \in Conversing /\ stage'[d] \in Conversing \cup {"leave"}
        \/ stage[d] \in {"off", "hello"} /\ stage'[d] \notin Conversing
    BY <1>1, <1>8 DEF Connect, ClientCloses, NoHello, Written, NextLine, Idle, Closed, Handle,
                      Goes, Types, Conversing
  <2>2. UNCHANGED <<session, place, cancelled, whose>>
    BY <1>8 DEF Connect, ClientCloses, NoHello, Written, NextLine, Idle, Closed, Handle
  <2> QED BY <1>2, <2>1, <2>2, KeptPlaces DEF Conversing
<1>9. ASSUME NEW c \in Conns, ReadEpoch(c) \/ CallAnswers(c)
      PROVE  PlaceInv(d)'
  BY <1>9, KeptPlaces DEF ReadEpoch, CallAnswers
<1>10. ASSUME NEW c \in Conns, NEW from \in {"authenticate", "check"},
              NEW to \in {"attach", "handle"}, Looks(c, from, to),
              from = "authenticate" <=> to = "attach"
       PROVE  PlaceInv(d)'
  <2>1. CASE Remove({whose[c]}) /\ stage' = [stage EXCEPT ![c] = "leave"]
    BY <1>1, <1>10, <2>1, RemovePlaces DEF Looks, Types
  <2>2. CASE UNCHANGED <<session, cancelled, place>> /\ stage' = [stage EXCEPT ![c] = to]
    <3>1. stage'[d] = stage[d] \/ (stage[d] = from /\ stage'[d] = to)
      BY <1>1, <1>10, <2>2 DEF Looks, Types
    <3> QED BY <1>2, <1>10, <2>2, <3>1, KeptPlaces DEF Looks, Conversing
  <2> QED BY <1>10, <2>1, <2>2 DEF Looks, Goes
<1>11. ASSUME NEW c \in Conns, Authenticate(c) \/ StillHolds(c)
       PROVE  PlaceInv(d)'
  BY <1>10, <1>11 DEF Authenticate, StillHolds
<1>12. ASSUME NEW c \in Conns, Attach(c)
       PROVE  PlaceInv(d)'
  <2>1. CASE Remove({whose[c]}) /\ stage' = [stage EXCEPT ![c] = "leave"]
    BY <1>1, <1>12, <2>1, RemovePlaces DEF Attach, Types
  <2>2. CASE UNCHANGED <<session, cancelled, place>> /\ stage' = [stage EXCEPT ![c] = "leave"]
    <3>1. stage'[d] = stage[d] \/ (stage[d] = "attach" /\ stage'[d] = "leave")
      BY <1>1, <1>12, <2>2 DEF Attach, Types
    <3> QED BY <1>2, <1>12, <2>2, <3>1, KeptPlaces DEF Attach, Conversing
  <2>3. CASE /\ Holds(whose[c], seen[c]) /\ place' = [place EXCEPT ![c] = TRUE]
             /\ stage' = [stage EXCEPT ![c] = "ready"] /\ UNCHANGED <<session, cancelled>>
    <3>1. CASE d = c
      <4>1. place'[d] /\ stage'[d] = "ready" /\ whose'[d] = whose[d]
        BY <1>1, <1>12, <2>3, <3>1 DEF Attach, Types
      <4>2. whose[d] \in Sessions /\ session'[whose[d]] = "live"
        BY <1>12, <2>3, <3>1 DEF Attach, Holds, IInv, Tokens, Named
      <4> QED BY <4>1, <4>2 DEF PlaceInv, Conversing
    <3>2. CASE d # c
      <4>1. UNCHANGED <<place[d], stage[d], whose[d]>>
        BY <1>1, <1>12, <2>3, <3>2 DEF Attach, Types
      <4> QED BY <2>3, <4>1, KeptPlaces
    <3> QED BY <3>1, <3>2
  <2> QED BY <1>12, <2>1, <2>2, <2>3 DEF Attach, Goes
<1>13. ASSUME NEW c \in Conns, Leave(c)
       PROVE  PlaceInv(d)'
  <2>1. /\ UNCHANGED <<session, cancelled, whose>> /\ stage[c] = "leave"
        /\ place' = [place EXCEPT ![c] = FALSE] /\ stage' = [stage EXCEPT ![c] = "closed"]
    BY <1>13 DEF Leave, Goes
  <2>2. \/ place'[d] = FALSE /\ stage'[d] = "closed"
        \/ place'[d] = place[d] /\ stage'[d] = stage[d]
    BY <1>1, <2>1 DEF Types
  <2> QED BY <2>1, <2>2, KeptPlaces DEF PlaceInv, Conversing
<1>14. ASSUME NEW c \in Conns, NEW i \in Ids, CallReturns(c, i)
       PROVE  PlaceInv(d)'
  BY <1>14, KeptPlaces DEF CallReturns
<1>15. ASSUME NEW c \in Conns, NEW m \in Messages, Send(c, m)
       PROVE  PlaceInv(d)'
  BY <1>15, KeptPlaces DEF Send
<1>16. CASE UNCHANGED vars
  BY <1>16, KeptPlaces DEF vars
<1> QED BY <1>3, <1>4, <1>5, <1>6, <1>7, <1>8, <1>9, <1>11, <1>12, <1>13, <1>14, <1>15, <1>16
        DEF Next, ThreadSteps

(* A connection that still converses for a session that has ended has had its stream
   cancelled, so that its thread will not wait for the client: whatever ends a session, the
   end reaches the connections attached to it (Registry::remove), and none attaches later. *)
EndedAreCut ==
    \A c \in Conns : stage[c] \in Conversing /\ session[whose[c]] = "ended" => cancelled[c]

THEOREM EndReachesEveryConnection == Spec => []EndedAreCut
<1>1. Init => CutInv
  BY DEF Init, CutInv, PlaceInv, Conversing
<1>2. CutInv => EndedAreCut
  BY DEF CutInv, PlaceInv, EndedAreCut
<1> QED BY <1>1, <1>2, InvHolds, NextCut, PTL DEF Spec

============================================================================
