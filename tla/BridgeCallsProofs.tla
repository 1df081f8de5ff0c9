-------------------------- MODULE BridgeCallsProofs --------------------------
(***************************************************************************)
(* Theorems of BridgeCalls, for any calls, bridges and bounds.             *)
(***************************************************************************)
EXTENDS BridgeCalls, FiniteSetTheorems, TLAPS

(* The queue of reconciles: what joining and leaving it do to its head.    *)
LEMMA QueueGrows ==
    ASSUME NEW q \in Seq(Bridges), NEW b \in Bridges
    PROVE  /\ Append(q, b) \in Seq(Bridges)
           /\ Append(q, b) # <<>>
           /\ Head(Append(q, b)) = IF q = <<>> THEN b ELSE Head(q)
           /\ Len(Append(q, b)) = Len(q) + 1
           /\ \A i \in 1..Len(q) : Append(q, b)[i] = q[i]
           /\ Append(q, b)[Len(q) + 1] = b
OBVIOUS

LEMMA QueueShrinks ==
    ASSUME NEW q \in Seq(Bridges), q # <<>>
    PROVE  /\ Tail(q) \in Seq(Bridges)
           /\ Head(q) = q[1]
           /\ Len(q) \in Nat /\ Len(q) > 0
           /\ Len(Tail(q)) = Len(q) - 1
           /\ \A i \in 1..(Len(q) - 1) : Tail(q)[i] = q[i + 1]
           /\ Tail(q) # <<>> => Head(Tail(q)) = q[2] /\ Len(q) > 1
OBVIOUS

(* Only the reconcile at the head of the queue runs. *)
Serialized ==
    \A b \in Bridges : reconciling[b].stage # "rest" => tail # <<>> /\ Head(tail) = b

LEMMA InitTypes == Init => Types
BY BridgeAssumption
   DEF Init, Types, Attachments, CallStates, BridgeObjects, Reconciles, Nowhere, Resting, None

(* The fields of a bridge object, and the updates the actions make of one. *)
LEMMA BridgeFields ==
    ASSUME NEW k \in BridgeObjects
    PROVE  /\ k.ready \in Nat /\ k.attached \in Attachments
           /\ k.attached.epoch \in Nat /\ k.attached.gen \in Nat
           /\ k.held \in SUBSET Calls /\ k.working \in SUBSET Calls
BY DEF BridgeObjects, Attachments

LEMMA BridgeUpdates ==
    ASSUME NEW k \in BridgeObjects, NEW n \in Nat, NEW a \in Attachments,
           NEW C \in SUBSET Calls, NEW D \in SUBSET Calls
    PROVE  /\ [k EXCEPT !.life = "live"] \in BridgeObjects
           /\ [k EXCEPT !.listening = TRUE] \in BridgeObjects
           /\ [k EXCEPT !.ready = n] \in BridgeObjects
           /\ [k EXCEPT !.life = "disposed", !.listening = FALSE] \in BridgeObjects
           /\ [k EXCEPT !.attached = a] \in BridgeObjects
           /\ [k EXCEPT !.attaching = n, !.held = C] \in BridgeObjects
           /\ [k EXCEPT !.held = C] \in BridgeObjects
           /\ [k EXCEPT !.working = C] \in BridgeObjects
           /\ [k EXCEPT !.replied = C, !.working = D] \in BridgeObjects
<1>1. [k EXCEPT !.life = "live"] \in BridgeObjects
  BY DEF BridgeObjects
<1>2. [k EXCEPT !.listening = TRUE] \in BridgeObjects
  BY DEF BridgeObjects
<1>3. [k EXCEPT !.ready = n] \in BridgeObjects
  BY DEF BridgeObjects
<1>4. [k EXCEPT !.life = "disposed", !.listening = FALSE] \in BridgeObjects
  BY DEF BridgeObjects
<1>5. [k EXCEPT !.attached = a] \in BridgeObjects
  BY DEF BridgeObjects
<1>6. [k EXCEPT !.attaching = n, !.held = C] \in BridgeObjects
  BY DEF BridgeObjects
<1>7. [k EXCEPT !.held = C] \in BridgeObjects
  BY DEF BridgeObjects
<1>8. [k EXCEPT !.working = C] \in BridgeObjects
  BY DEF BridgeObjects
<1>9. [k EXCEPT !.replied = C, !.working = D] \in BridgeObjects
  BY DEF BridgeObjects
<1> QED BY <1>1, <1>2, <1>3, <1>4, <1>5, <1>6, <1>7, <1>8, <1>9

LEMMA ReconcileUpdates ==
    ASSUME NEW r \in Reconciles, NEW n \in Nat, NEW g \in Nat
    PROVE  /\ Resting \in Reconciles
           /\ \A s \in {"attachAllowed", "attachAnswered", "detached", "undoAsked", "undone"} :
                [r EXCEPT !.stage = s] \in Reconciles
           /\ [r EXCEPT !.stage = "attachAnswered", !.gen = g] \in Reconciles
           /\ [stage |-> "detachAsked", epoch |-> n, gen |-> g] \in Reconciles
           /\ [stage |-> "attachAsked", epoch |-> n, gen |-> 0] \in Reconciles
BY DEF Reconciles, Resting

(* What Handle does with any set of requests C keeps the types. *)
LEMMA HandleTypes ==
    ASSUME Types, NEW b \in Bridges, NEW k \in BridgeObjects, NEW C \in SUBSET Calls,
           Handle(b, k, C)
    PROVE  /\ bridge' \in [Bridges -> BridgeObjects]
           /\ replies' \subseteq Messages
           /\ acts' \in [Calls -> Nat]
<1> DEFINE taken == Taken(k, C)
           now   == {c \in taken : StillCurrent(k, c)}
<1>1. PICK S \in SUBSET (now \ Lasting), out \in [taken \ (now \cap Lasting) -> Answers] :
          /\ replies' = replies \cup {Reply(c, out[c]) : c \in DOMAIN out}
          /\ acts' = [c \in Calls |-> IF c \in S THEN acts[c] + 1 ELSE acts[c]]
          /\ bridge' = [bridge EXCEPT ![b] = [k EXCEPT !.replied = @ \cup taken,
                                                       !.working = @ \cup (now \cap Lasting)]]
  BY DEF Handle
<1>2. taken \subseteq Calls /\ now \subseteq Calls
  BY DEF Taken
<1>3. [k EXCEPT !.replied = @ \cup taken, !.working = @ \cup (now \cap Lasting)] \in BridgeObjects
  BY <1>2 DEF BridgeObjects
<1>4. bridge' \in [Bridges -> BridgeObjects]
  BY <1>1, <1>3 DEF Types
<1>5. acts' \in [Calls -> Nat]
  BY <1>1 DEF Types
<1>6. \A c \in DOMAIN out : Reply(c, out[c]) \in Messages
  BY <1>2 DEF Reply, Types, CallStates, Messages
<1>7. replies' \subseteq Messages
  BY <1>1, <1>6 DEF Types
<1> QED BY <1>4, <1>5, <1>7

LEMMA NextTypes == Types /\ Serialized /\ [Next]_vars => Types'
<1> SUFFICES ASSUME Types, Serialized, [Next]_vars
             PROVE  Types'
  OBVIOUS
<1> USE DEF Types
<1>1. CASE OpenWorkspace
  BY <1>1 DEF OpenWorkspace, callVars, jsVars
<1>2. CASE CloseWorkspace
  BY <1>2 DEF CloseWorkspace, callVars, jsVars
<1>3. CASE FrontLearns
  BY <1>3 DEF FrontLearns, rustVars
<1>4. ASSUME NEW c \in Calls, NEW e \in 1..MaxEpoch, Register(c, e)
      PROVE  Types'
  BY <1>4 DEF Register, jsVars, CallStates, Attachments
<1>5. ASSUME NEW c \in Calls, NEW e \in 1..MaxEpoch, RefuseCall(c, e)
      PROVE  Types'
  BY <1>5 DEF RefuseCall, Return, jsVars, CallStates
<1>6. ASSUME NEW c \in Calls, CallStep(c)
      PROVE  Types'
  <2> USE DEF Return, CallStates
  <2>1. CASE Emit(c)
    <3>1. PICK n \in 1..MaxDeliveries :
            inbox' = [b \in Bridges |-> IF bridge[b].listening THEN [inbox[b] EXCEPT ![c] = n]
                                        ELSE inbox[b]]
      BY <2>1 DEF Emit
    <3>2. inbox' \in [Bridges -> [Calls -> 0..MaxDeliveries]]
      BY <3>1
    <3> QED BY <2>1, <3>2, ZenonT(30) DEF Emit
  <2>2. CASE EmitFails(c)
    BY <2>2 DEF EmitFails, Withdrawn, jsVars
  <2>3. CASE Receive(c)
    BY <2>3 DEF Receive, jsVars
  <2>4. CASE HangUp(c)
    BY <2>4 DEF HangUp, jsVars
  <2>5. CASE TimeOut(c)
    BY <2>5 DEF TimeOut, jsVars
  <2>6. CASE Withdraw(c)
    BY <2>6 DEF Withdraw, Withdrawn, jsVars
  <2>7. CASE TryOnce(c)
    BY <2>7 DEF TryOnce, jsVars
  <2> QED BY <1>6, <2>1, <2>2, <2>3, <2>4, <2>5, <2>6, <2>7 DEF CallStep
<1>7. ASSUME NEW c \in Calls, SendReply(c)
      PROVE  Types'
  BY <1>7 DEF SendReply, jsVars
<1>8. ASSUME NEW m \in replies, DeliverReply(m)
      PROVE  Types'
  <2>1. m.call \in Calls /\ m.answer \in Answers
    BY <1>8 DEF Messages
  <2>2. pending' \in [Calls -> Nat] /\ passing' \in [Calls -> Answers \cup {None}]
    <3>1. [pending EXCEPT ![m.call] = 0] \in [Calls -> Nat]
      BY <2>1
    <3>2. [passing EXCEPT ![m.call] = m.answer] \in [Calls -> Answers \cup {None}]
      BY <2>1
    <3>3. \/ /\ pending' = [pending EXCEPT ![m.call] = 0]
             /\ passing' = [passing EXCEPT ![m.call] = m.answer]
          \/ UNCHANGED <<pending, passing>>
      BY <1>8 DEF DeliverReply
    <3> QED BY <3>1, <3>2, <3>3
  <2>3. replies' \subseteq Messages
    BY <1>8 DEF DeliverReply
  <2> QED BY <1>8, <2>2, <2>3 DEF DeliverReply, jsVars
<1>9. ASSUME NEW b \in Bridges, Mount(b) \/ Listen(b)
      PROVE  Types'
  <2>1. bridge' \in [Bridges -> BridgeObjects]
    <3>1. CASE Mount(b)
      BY <3>1, BridgeUpdates DEF Mount
    <3>2. CASE Listen(b)
      BY <3>2, BridgeUpdates DEF Listen
    <3> QED BY <1>9, <3>1, <3>2
  <2> QED BY <1>9, <2>1 DEF Mount, Listen, rustVars
<1>10. ASSUME NEW b \in Bridges, Dispose(b)
       PROVE  Types'
  <2>1. bridge' \in [Bridges -> BridgeObjects]
    BY <1>10, BridgeUpdates DEF Dispose
  <2>2. tail' \in Seq(Bridges)
    BY <1>10, QueueGrows DEF Dispose, Queued
  <2> QED BY <1>10, <2>1, <2>2 DEF Dispose, rustVars
<1>11. ASSUME NEW b \in Bridges, NEW e \in 0..MaxEpoch, SetReady(b, e)
       PROVE  Types'
  <2>1. e \in Nat
    BY BridgeAssumption
  <2>2. bridge' \in [Bridges -> BridgeObjects]
    BY <1>11, <2>1, BridgeUpdates DEF SetReady
  <2>3. tail' \in Seq(Bridges)
    BY <1>11, QueueGrows DEF SetReady, Queued
  <2> QED BY <1>11, <2>2, <2>3 DEF SetReady, rustVars
<1>12. ASSUME NEW b \in Bridges, ReconcileStep(b)
       PROVE  Types'
  <2>0. reconciling[b].gen \in Nat /\ reconciling[b].epoch \in Nat /\ reconciling[b] \in Reconciles
    BY DEF Reconciles
  <2>1. CASE Reconcile(b)
    <3>1. tail # <<>> /\ Tail(tail) \in Seq(Bridges)
      BY <2>1, QueueShrinks DEF Reconcile, Turn
    <3> DEFINE k == bridge[b]
               e == Wanted(b)
    <3>0. e \in Nat /\ k.attached.gen \in Nat /\ k \in BridgeObjects /\ Nowhere \in Attachments
      BY BridgeFields DEF Wanted, Nowhere, Attachments
    <3>2. bridge' \in [Bridges -> BridgeObjects]
      <4>1. /\ [k EXCEPT !.attached = Nowhere] \in BridgeObjects
            /\ [k EXCEPT !.attaching = e, !.held = {}] \in BridgeObjects
        BY <3>0, BridgeUpdates
      <4> QED BY <2>1, <4>1 DEF Reconcile
    <3>3. tail' \in Seq(Bridges)
      BY <2>1, <3>1 DEF Reconcile, AskAttach, Finished
    <3>4. reconciling' \in [Bridges -> Reconciles]
      <4>1. /\ Resting \in Reconciles
            /\ [stage |-> "detachAsked", epoch |-> e, gen |-> k.attached.gen] \in Reconciles
            /\ [stage |-> "attachAsked", epoch |-> e, gen |-> 0] \in Reconciles
        BY <2>0, <3>0, ReconcileUpdates
      <4> QED BY <2>1, <4>1 DEF Reconcile, AskAttach, Finished
    <3> QED BY <2>1, <3>2, <3>3, <3>4 DEF Reconcile, rustVars
  <2>2. CASE AttachReads(b)
    BY <2>0, <2>2, ReconcileUpdates DEF AttachReads, Stage, rustVars
  <2>3. CASE AttachMints(b)
    <3>1. minted' \in Nat /\ attachment' \in Attachments /\ pending' \in [Calls -> Nat]
      BY <2>0, <2>3 DEF AttachMints, MintedNext, NobodyPending, Attachments
    <3>2. [reconciling[b] EXCEPT !.stage = "attachAnswered", !.gen = minted + 1] \in Reconciles
      <4>1. minted + 1 \in Nat
        OBVIOUS
      <4> QED BY <2>0, <4>1, ReconcileUpdates
    <3>3. reconciling' \in [Bridges -> Reconciles]
      BY <2>3, <3>2 DEF AttachMints
    <3> QED BY <2>3, <3>1, <3>3 DEF AttachMints, callVars
  <2>4. CASE Detach(b)
    <3>1. attachment' \in Attachments /\ pending' \in [Calls -> Nat]
      BY <2>4 DEF Detach, Nowhere, NobodyPending, Attachments
    <3>2. reconciling' \in [Bridges -> Reconciles]
      BY <2>0, <2>4, ReconcileUpdates DEF Detach, Stage
    <3> QED BY <2>4, <3>1, <3>2 DEF Detach, callVars
  <2>5. CASE Detached(b)
    <3>1. tail # <<>> /\ Tail(tail) \in Seq(Bridges)
      BY <2>5, QueueShrinks DEF Detached, Serialized
    <3>2. reconciling' \in [Bridges -> Reconciles] /\ tail' \in Seq(Bridges)
      <4>1. /\ Resting \in Reconciles
            /\ [stage |-> "attachAsked", epoch |-> reconciling[b].epoch, gen |-> 0] \in Reconciles
        BY <2>0, ReconcileUpdates
      <4> QED BY <2>5, <3>1, <4>1 DEF Detached, AskAttach, Finished
    <3>3. [bridge[b] EXCEPT !.attaching = reconciling[b].epoch, !.held = {}] \in BridgeObjects
      BY <2>0, BridgeUpdates
    <3>4. bridge' \in [Bridges -> BridgeObjects]
      BY <2>5, <3>3 DEF Detached
    <3> QED BY <2>5, <3>2, <3>4 DEF Detached, rustVars
  <2>6. CASE Attached(b)
    <3>1. tail # <<>> /\ Tail(tail) \in Seq(Bridges)
      BY <2>6, QueueShrinks DEF Attached, Serialized
    <3> DEFINE k == [bridge[b] EXCEPT !.attaching = 0, !.held = {}]
               r == [k EXCEPT !.attached = [epoch |-> reconciling[b].epoch, gen |-> reconciling[b].gen]]
    <3>2. k \in BridgeObjects /\ r \in BridgeObjects
      <4>1. [epoch |-> reconciling[b].epoch, gen |-> reconciling[b].gen] \in Attachments
        BY <2>0 DEF Attachments
      <4>2. k \in BridgeObjects
        BY BridgeUpdates
      <4> QED BY <4>1, <4>2, BridgeUpdates, ZenonT(30)
    <3>3. \/ Handle(b, r, bridge[b].held)
          \/ bridge' = [bridge EXCEPT ![b] = k] /\ UNCHANGED <<replies, acts>>
      BY <2>6 DEF Attached
    <3>4. bridge[b].held \in SUBSET Calls
      BY BridgeFields
    <3>5. /\ bridge' \in [Bridges -> BridgeObjects]
          /\ replies' \subseteq Messages
          /\ acts' \in [Calls -> Nat]
      BY <3>2, <3>3, <3>4, HandleTypes
    <3>6. tail' \in Seq(Bridges) /\ reconciling' \in [Bridges -> Reconciles]
      BY <2>0, <2>6, <3>1, ReconcileUpdates DEF Attached, Finished, Stage
    <3> QED BY <2>6, <3>5, <3>6 DEF Attached, rustVars
  <2>7. CASE Undone(b)
    <3>1. tail # <<>> /\ Tail(tail) \in Seq(Bridges)
      BY <2>7, QueueShrinks DEF Undone, Serialized
    <3> QED BY <2>0, <2>7, <3>1, ReconcileUpdates DEF Undone, Finished, rustVars
  <2> QED BY <1>12, <2>1, <2>2, <2>3, <2>4, <2>5, <2>6, <2>7 DEF ReconcileStep
<1>13. ASSUME NEW b \in Bridges, NEW c \in Calls, Hear(b, c)
       PROVE  Types'
  <2>1. /\ bridge' \in [Bridges -> BridgeObjects]
        /\ replies' \subseteq Messages
        /\ acts' \in [Calls -> Nat]
    BY <1>13, HandleTypes DEF Hear
  <2>2. inbox' \in [Bridges -> [Calls -> 0..MaxDeliveries]]
    BY <1>13, BridgeAssumption DEF Hear, Come
  <2> QED BY <1>13, <2>1, <2>2 DEF Hear, rustVars
<1>14. ASSUME NEW b \in Bridges, NEW c \in Calls, HearUnattached(b, c)
       PROVE  Types'
  <2>1. inbox' \in [Bridges -> [Calls -> 0..MaxDeliveries]]
    BY <1>14, BridgeAssumption DEF HearUnattached, Come
  <2>2. bridge' \in [Bridges -> BridgeObjects]
    <3>1. bridge[b].held \cup {c} \in SUBSET Calls
      BY BridgeFields
    <3> QED BY <1>14, <3>1, BridgeUpdates DEF HearUnattached
  <2> QED BY <1>14, <2>1, <2>2 DEF HearUnattached, rustVars
<1>15. ASSUME NEW b \in Bridges, NEW c \in Calls, Proceed(b, c)
       PROVE  Types'
  <2>1. \A a \in Answers : Reply(c, a) \in Messages
    BY DEF Reply, CallStates, Messages
  <2>2. bridge' \in [Bridges -> BridgeObjects]
    <3>1. bridge[b].working \ {c} \in SUBSET Calls
      BY BridgeFields
    <3> QED BY <1>15, <3>1, BridgeUpdates DEF Proceed
  <2>3. replies' \subseteq Messages /\ acts' \in [Calls -> Nat]
    <3>1. "did" \in Answers /\ "not" \in Answers /\ "internal" \in Answers
      BY DEF Answers
    <3>2. \E a \in Answers : replies' = replies \cup {Reply(c, a)}
      BY <1>15, <3>1 DEF Proceed
    <3>3. acts' = acts \/ acts' = [acts EXCEPT ![c] = acts[c] + 1]
      BY <1>15 DEF Proceed
    <3>4. replies' \subseteq Messages
      BY <2>1, <3>2
    <3>5. acts' \in [Calls -> Nat]
      <4>1. acts \in [Calls -> Nat] /\ acts[c] + 1 \in Nat
        OBVIOUS
      <4> QED BY <3>3, <4>1
    <3> QED BY <3>4, <3>5
  <2> QED BY <1>15, <2>2, <2>3 DEF Proceed, rustVars
<1>16. CASE UNCHANGED vars
  BY <1>16 DEF vars, rustVars, jsVars
<1> QED
  BY <1>1, <1>2, <1>3, <1>4, <1>5, <1>6, <1>7, <1>8, <1>9, <1>10, <1>11, <1>12, <1>13, <1>14, <1>15, <1>16
  DEF Next

LEMMA NextSerialized == Types /\ Serialized /\ [Next]_vars => Serialized'
<1> SUFFICES ASSUME Types, Serialized, [Next]_vars,
                    NEW b \in Bridges, reconciling'[b].stage # "rest"
             PROVE  tail' # <<>> /\ Head(tail') = b
  BY DEF Serialized
<1>1. ASSUME NEW d \in Bridges, tail' = Queued(d), UNCHANGED reconciling
      PROVE  tail' # <<>> /\ Head(tail') = b
  BY <1>1, QueueGrows DEF Queued, Serialized, Types
<1>2. ASSUME UNCHANGED <<tail, reconciling>>
      PROVE  tail' # <<>> /\ Head(tail') = b
  BY <1>2 DEF Serialized
<1>3. ASSUME NEW d \in Bridges, ReconcileStep(d)
      PROVE  tail' # <<>> /\ Head(tail') = b
  <2>1. tail # <<>> /\ Head(tail) = d
    BY <1>3 DEF ReconcileStep, Serialized, Reconcile, Turn, AttachReads, AttachMints, Detach, Detached,
                Attached, Undone
  <2>2. \A a \in Bridges : a # d => reconciling[a].stage = "rest"
    BY <2>1 DEF Serialized
  <2>3. \A a \in Bridges : a # d => reconciling'[a] = reconciling[a]
    BY <1>3 DEF ReconcileStep, Reconcile, AttachReads, AttachMints, Detach, Detached, Attached, Undone,
                AskAttach, Finished, Stage, Types
  <2>4. b = d
    BY <2>2, <2>3
  <2>5. ~Finished(d)
    <3>1. Finished(d) => reconciling'[d] = Resting
      BY DEF Finished, Types
    <3> QED BY <2>4, <3>1 DEF Resting
  <2>6. UNCHANGED tail
    BY <1>3, <2>4, <2>5
    DEF ReconcileStep, Reconcile, AttachReads, AttachMints, Detach, Detached, Attached, Undone, AskAttach
  <2> QED BY <2>1, <2>4, <2>6
<1> QED
  BY <1>1, <1>2, <1>3
  DEF Next, OpenWorkspace, CloseWorkspace, FrontLearns, Register, RefuseCall, CallStep, Emit, EmitFails,
      Receive, HangUp, TimeOut, Withdraw, TryOnce, SendReply, DeliverReply, Mount, Listen, SetReady,
      Dispose, Hear, HearUnattached, Proceed, vars, jsVars

(* Every variable keeps its type and, for any number of bridges and mounts, *)
(* no two reconciles ever run at the same time (projectApiBridge.js         *)
(* serializeAttachments).                                                   *)
THEOREM TypesAndTurns == Spec => [](Types /\ Serialized)
<1>1. Init => Types /\ Serialized
  BY InitTypes DEF Init, Serialized, Resting
<1>2. Types /\ Serialized /\ [Next]_vars => (Types /\ Serialized)'
  BY NextTypes, NextSerialized
<1> QED BY <1>1, <1>2, PTL DEF Spec

-----------------------------------------------------------------------------
(* Both sides of an attachment.                                            *)

OneLive == \A b, d \in Bridges : bridge[b].life = "live" /\ bridge[d].life = "live" => b = d

(* A bridge that waits behind another was mounted after that one went. *)
QueueOrder ==
    /\ \A i \in 1..Len(tail) : bridge[tail[i]].life # "unborn"
    /\ \A i, j \in 1..Len(tail) :
         i < j /\ tail[i] # tail[j] => bridge[tail[i]].life = "disposed"

(* What bridge b believes it is attached as, Rust has attached; and unless  *)
(* b's own reconcile is next, b is live and ready for that epoch.           *)
BelievesRightly(b) ==
    bridge[b].attached.gen # 0 =>
        /\ bridge[b].attached = attachment
        /\ bridge[b].attached.epoch # 0
        /\ reconciling[b].stage = "rest"
        /\ bridge[b].life # "unborn"
        /\ tail # <<>> => Head(tail) = b
        /\ tail = <<>> => bridge[b].life = "live" /\ bridge[b].ready = attachment.epoch

(* An answer of attach that is not dealt with yet. *)
Answering(b) ==
    /\ reconciling[b].stage \in {"attachAsked", "attachAllowed", "attachAnswered"} =>
         reconciling[b].epoch # 0
    /\ reconciling[b].stage \in {"attachAsked", "attachAllowed"} => reconciling[b].gen = 0
    /\ reconciling[b].stage = "attachAnswered" /\ reconciling[b].gen # 0 =>
         attachment = [epoch |-> reconciling[b].epoch, gen |-> reconciling[b].gen]

(* Rust is attached to a bridge that knows, or to one that is told or is    *)
(* about to detach.                                                         *)
AttachedToSomeone ==
    attachment.gen # 0 =>
        \E b \in Bridges :
            \/ bridge[b].attached = attachment
            \/ /\ reconciling[b].stage \in {"attachAnswered", "detachAsked", "undoAsked"}
               /\ reconciling[b].gen = attachment.gen

Sides ==
    /\ OneLive /\ QueueOrder /\ AttachedToSomeone
    /\ \A b \in Bridges : BelievesRightly(b) /\ Answering(b)

LEMMA InitSides == Init => Sides
BY DEF Init, Sides, OneLive, QueueOrder, AttachedToSomeone, BelievesRightly, Answering, Nowhere, Resting

(* A step that touches neither side of the attachment. *)
LEMMA SidesUntouched ==
    ASSUME Sides, UNCHANGED <<attachment, tail, reconciling>>,
           \A b \in Bridges : /\ bridge'[b].life = bridge[b].life
                              /\ bridge'[b].ready = bridge[b].ready
                              /\ bridge'[b].attached = bridge[b].attached,
           Types
    PROVE  Sides'
<1>1. \A i \in 1..Len(tail) : tail[i] \in Bridges
  BY DEF Types
<1>2. OneLive'
  BY DEF Sides, OneLive
<1>3. QueueOrder'
  BY <1>1 DEF Sides, QueueOrder
<1>4. AttachedToSomeone'
  BY DEF Sides, AttachedToSomeone
<1>5. \A b \in Bridges : BelievesRightly(b)' /\ Answering(b)'
  BY DEF Sides, BelievesRightly, Answering
<1> QED BY <1>2, <1>3, <1>4, <1>5 DEF Sides

(* Handle leaves the sides of bridge object k as they are. *)
LEMMA HandleSides ==
    ASSUME Types, NEW b \in Bridges, NEW k \in BridgeObjects, NEW C \in SUBSET Calls,
           Handle(b, k, C)
    PROVE  /\ bridge'[b].life = k.life
           /\ bridge'[b].ready = k.ready
           /\ bridge'[b].attached = k.attached
           /\ \A d \in Bridges \ {b} : bridge'[d] = bridge[d]
<1>1. PICK R \in SUBSET Calls, W \in SUBSET Calls :
          bridge' = [bridge EXCEPT ![b] = [k EXCEPT !.replied = R, !.working = W]]
  <2> DEFINE taken == Taken(k, C)
             now   == {c \in taken : StillCurrent(k, c)}
  <2>1. bridge' = [bridge EXCEPT ![b] = [k EXCEPT !.replied = @ \cup taken,
                                                  !.working = @ \cup (now \cap Lasting)]]
    BY DEF Handle
  <2>2. k.replied \cup taken \in SUBSET Calls /\ k.working \cup (now \cap Lasting) \in SUBSET Calls
    BY DEF Taken, BridgeObjects
  <2> QED BY <2>1, <2>2
<1>2. bridge'[b] = [k EXCEPT !.replied = R, !.working = W]
  BY <1>1 DEF Types
<1>3. /\ [k EXCEPT !.replied = R, !.working = W].life = k.life
      /\ [k EXCEPT !.replied = R, !.working = W].ready = k.ready
      /\ [k EXCEPT !.replied = R, !.working = W].attached = k.attached
  BY DEF BridgeObjects
<1>4. \A d \in Bridges \ {b} : bridge'[d] = bridge[d]
  BY <1>1 DEF Types
<1> QED BY <1>2, <1>3, <1>4

(* The queue grows by a bridge that was live. *)
LEMMA SidesQueued ==
    ASSUME Types, Sides, NEW b \in Bridges, bridge[b].life = "live", tail' = Queued(b),
           UNCHANGED <<attachment, reconciling>>,
           bridge'[b].life \in {"live", "disposed"}, bridge'[b].attached = bridge[b].attached,
           \A d \in Bridges \ {b} : bridge'[d] = bridge[d]
    PROVE  Sides'
<1>1. /\ tail' # <<>> /\ (tail # <<>> => Head(tail') = Head(tail)) /\ (tail = <<>> => Head(tail') = b)
      /\ Len(tail') = Len(tail) + 1 /\ Len(tail) \in Nat
      /\ \A i \in 1..Len(tail) : tail'[i] = tail[i] /\ tail[i] \in Bridges
      /\ tail'[Len(tail) + 1] = b
  <2>1. tail \in Seq(Bridges) /\ tail' = Append(tail, b)
    BY DEF Types, Queued
  <2>2. Len(tail) \in Nat /\ \A i \in 1..Len(tail) : tail[i] \in Bridges
    BY <2>1
  <2> QED BY <2>1, <2>2, QueueGrows
<1>2. \A d \in Bridges : /\ bridge'[d].attached = bridge[d].attached
                         /\ bridge'[d].life = "unborn" => bridge[d].life = "unborn"
                         /\ bridge[d].life = "disposed" => bridge'[d].life = "disposed"
                         /\ bridge'[d].life = "live" => bridge[d].life = "live"
  OBVIOUS
<1>3. OneLive'
  BY <1>2 DEF Sides, OneLive
<1>4. QueueOrder'
  <2>1. \A i \in 1..Len(tail') : bridge'[tail'[i]].life # "unborn"
    <3>1. \A i \in 1..Len(tail') : i \in 1..Len(tail) \/ i = Len(tail) + 1
      BY <1>1
    <3> QED BY <1>1, <1>2, <3>1 DEF Sides, QueueOrder
  <2>2. ASSUME NEW i \in 1..Len(tail'), NEW j \in 1..Len(tail'), i < j, tail'[i] # tail'[j]
        PROVE  bridge'[tail'[i]].life = "disposed"
    <3>1. i \in 1..Len(tail)
      BY <1>1, <2>2
    <3>2. CASE j \in 1..Len(tail)
      BY <1>1, <1>2, <2>2, <3>1, <3>2 DEF Sides, QueueOrder
    <3>3. CASE j = Len(tail) + 1
      <4>1. tail[i] \in Bridges /\ tail[i] # b /\ tail'[i] = tail[i]
        BY <1>1, <2>2, <3>1, <3>3
      <4>2. bridge[tail[i]].life # "unborn" /\ bridge[tail[i]].life # "live"
        BY <3>1, <4>1 DEF Sides, QueueOrder, OneLive
      <4>3. bridge[tail[i]].life = "disposed"
        BY <4>1, <4>2 DEF Types, BridgeObjects
      <4> QED BY <1>2, <4>1, <4>3
    <3> QED BY <1>1, <3>2, <3>3
  <2> QED BY <2>1, <2>2 DEF QueueOrder
<1>5. AttachedToSomeone'
  BY <1>2 DEF Sides, AttachedToSomeone
<1>6. ASSUME NEW d \in Bridges
      PROVE  BelievesRightly(d)' /\ Answering(d)'
  <2>1. Answering(d)'
    BY DEF Sides, Answering
  <2>2. BelievesRightly(d)'
    <3>1. tail = <<>> /\ bridge[d].attached.gen # 0 => d = b
      BY DEF Sides, BelievesRightly, OneLive
    <3> QED BY <1>1, <1>2, <3>1 DEF Sides, BelievesRightly
  <2> QED BY <2>1, <2>2
<1> QED BY <1>3, <1>4, <1>5, <1>6 DEF Sides

(* While b's reconcile is next, no other bridge is attached or reconciles. *)
LEMMA OnlyHead ==
    ASSUME Serialized, Sides, NEW b \in Bridges, tail # <<>>, Head(tail) = b
    PROVE  \A d \in Bridges \ {b} : bridge[d].attached.gen = 0 /\ reconciling[d].stage = "rest"
BY DEF Serialized, Sides, BelievesRightly

(* A step of the running reconcile of b that does not end it. *)
LEMMA SidesMoved ==
    ASSUME Types, Serialized, Sides, NEW b \in Bridges, tail # <<>>, Head(tail) = b,
           UNCHANGED tail,
           \A d \in Bridges : bridge'[d].life = bridge[d].life /\ bridge'[d].ready = bridge[d].ready,
           \A d \in Bridges \ {b} : /\ bridge'[d].attached = bridge[d].attached
                                    /\ reconciling'[d] = reconciling[d],
           bridge'[b].attached.gen = 0, Answering(b)', AttachedToSomeone'
    PROVE  Sides'
<1>1. \A i \in 1..Len(tail) : tail[i] \in Bridges
  BY DEF Types
<1>2. OneLive' /\ QueueOrder'
  BY <1>1 DEF Sides, OneLive, QueueOrder
<1>3. \A d \in Bridges : BelievesRightly(d)'
  BY OnlyHead DEF BelievesRightly
<1>4. \A d \in Bridges : Answering(d)'
  BY OnlyHead DEF Answering
<1> QED BY <1>2, <1>3, <1>4 DEF Sides

(* A step that ends the running reconcile of b. *)
LEMMA SidesFinished ==
    ASSUME Types, Serialized, Sides, NEW b \in Bridges, tail # <<>>, Head(tail) = b,
           Finished(b), UNCHANGED attachment,
           \A d \in Bridges : bridge'[d].life = bridge[d].life /\ bridge'[d].ready = bridge[d].ready,
           \A d \in Bridges \ {b} : bridge'[d].attached = bridge[d].attached,
           bridge'[b].attached.gen # 0 =>
              /\ bridge'[b].attached = attachment /\ attachment.epoch # 0
              /\ bridge[b].life = "live" /\ bridge[b].ready = attachment.epoch,
           attachment.gen # 0 => bridge'[b].attached = attachment
    PROVE  Sides'
<1>1. /\ Len(tail) \in Nat /\ Len(tail) > 0 /\ Len(tail') = Len(tail) - 1 /\ tail[1] = b
      /\ \A i \in 1..(Len(tail) - 1) : tail'[i] = tail[i + 1]
      /\ \A i \in 1..Len(tail) : tail[i] \in Bridges
      /\ tail' # <<>> => Head(tail') = tail[2] /\ Len(tail) > 1
  <2>1. tail \in Seq(Bridges) /\ tail' = Tail(tail)
    BY DEF Types, Finished
  <2>2. \A i \in 1..Len(tail) : tail[i] \in Bridges
    BY <2>1
  <2> QED BY <2>1, <2>2, QueueShrinks
<1>2. \A d \in Bridges : reconciling'[d] = IF d = b THEN Resting ELSE reconciling[d]
  BY DEF Finished, Types
<1>3. OneLive'
  BY DEF Sides, OneLive
<1>4. QueueOrder'
  <2>1. \A i \in 1..Len(tail') : tail'[i] = tail[i + 1] /\ i + 1 \in 1..Len(tail)
    BY <1>1
  <2>2. \A i \in 1..Len(tail') : bridge'[tail'[i]].life # "unborn"
    BY <1>1, <2>1 DEF Sides, QueueOrder
  <2>3. ASSUME NEW i \in 1..Len(tail'), NEW j \in 1..Len(tail'), i < j, tail'[i] # tail'[j]
        PROVE  bridge'[tail'[i]].life = "disposed"
    <3>1. i + 1 < j + 1
      BY <1>1, <2>3
    <3> QED BY <1>1, <2>1, <2>3, <3>1, SMTT(30) DEF Sides, QueueOrder
  <2> QED BY <2>2, <2>3 DEF QueueOrder
<1>5. AttachedToSomeone'
  BY DEF AttachedToSomeone
<1>6. \A d \in Bridges : Answering(d)'
  BY <1>2, OnlyHead DEF Answering, Resting
<1>7. ASSUME NEW d \in Bridges, bridge'[d].attached.gen # 0
      PROVE  BelievesRightly(d)'
  <2>1. d = b
    BY <1>7, OnlyHead
  <2>2. tail' # <<>> => Head(tail') = b
    <3>1. tail' # <<>> => 2 \in 1..Len(tail) /\ 1 \in 1..Len(tail) /\ Head(tail') = tail[2]
      BY <1>1
    <3>2. bridge[tail[1]].life # "disposed"
      BY <1>1, <1>7, <2>1
    <3> QED BY <1>1, <3>1, <3>2 DEF Sides, QueueOrder
  <2> QED BY <1>2, <1>7, <2>1, <2>2 DEF BelievesRightly, Resting
<1>8. \A d \in Bridges : BelievesRightly(d)'
  BY <1>7 DEF BelievesRightly
<1> QED BY <1>3, <1>4, <1>5, <1>6, <1>8 DEF Sides

(* The running reconcile keeps both sides in step. *)
LEMMA ReconcileSides ==
    ASSUME Types, Serialized, Sides, NEW b \in Bridges, ReconcileStep(b)
    PROVE  Sides'
<1>1. tail # <<>> /\ Head(tail) = b
  BY DEF ReconcileStep, Serialized, Reconcile, Turn, AttachReads, AttachMints, Detach, Detached,
         Attached, Undone
<1>2. \A d \in Bridges \ {b} : bridge[d].attached.gen = 0 /\ reconciling[d].stage = "rest"
  BY <1>1, OnlyHead
<1>3. bridge[b] \in BridgeObjects /\ reconciling[b] \in Reconciles
  BY DEF Types
<1>4. /\ BelievesRightly(b) /\ Answering(b)
      /\ reconciling[b].stage # "rest" => bridge[b].attached.gen = 0
  BY DEF Sides, BelievesRightly
<1>5. /\ reconciling[b].stage \notin {"attachAnswered", "detachAsked", "undoAsked"} =>
           (attachment.gen # 0 => bridge[b].attached = attachment)
      /\ reconciling[b].stage \in {"attachAnswered", "detachAsked", "undoAsked"} =>
           (attachment.gen # 0 => reconciling[b].gen = attachment.gen)
  BY <1>2, <1>4 DEF Sides, AttachedToSomeone
<1>6. CASE Reconcile(b)
  <2> DEFINE k == bridge[b]
             e == Wanted(b)
  <2>1. CASE /\ k.attached.gen # 0 /\ k.attached.epoch # e
             /\ bridge' = [bridge EXCEPT ![b].attached = Nowhere]
             /\ reconciling' = [reconciling EXCEPT ![b] =
                    [stage |-> "detachAsked", epoch |-> e, gen |-> k.attached.gen]]
             /\ UNCHANGED tail
    <3>1. /\ reconciling'[b] = [stage |-> "detachAsked", epoch |-> e, gen |-> k.attached.gen]
          /\ \A d \in Bridges \ {b} : reconciling'[d] = reconciling[d] /\ bridge'[d] = bridge[d]
          /\ bridge'[b].attached = Nowhere
          /\ bridge'[b].life = k.life /\ bridge'[b].ready = k.ready
      BY <1>3, <2>1 DEF Types, BridgeObjects
    <3>2. UNCHANGED attachment
      BY <1>6 DEF Reconcile, rustVars
    <3>3. Answering(b)' /\ AttachedToSomeone'
      BY <1>4, <2>1, <3>1, <3>2 DEF Answering, AttachedToSomeone, BelievesRightly
    <3> QED BY <1>1, <2>1, <3>1, <3>3, SidesMoved DEF Nowhere
  <2>2. CASE /\ k.attached.gen = 0 /\ e # 0
             /\ bridge' = [bridge EXCEPT ![b].attaching = e, ![b].held = {}]
             /\ AskAttach(b, e)
    <3>1. /\ reconciling'[b] = [stage |-> "attachAsked", epoch |-> e, gen |-> 0]
          /\ \A d \in Bridges \ {b} : reconciling'[d] = reconciling[d] /\ bridge'[d] = bridge[d]
          /\ bridge'[b].attached = k.attached
          /\ bridge'[b].life = k.life /\ bridge'[b].ready = k.ready
          /\ UNCHANGED tail
      BY <1>3, <2>2 DEF Types, BridgeObjects, AskAttach
    <3>2. UNCHANGED attachment /\ reconciling[b].stage = "rest"
      BY <1>6 DEF Reconcile, rustVars
    <3>3. Answering(b)' /\ AttachedToSomeone'
      BY <1>5, <2>2, <3>1, <3>2 DEF Answering, AttachedToSomeone
    <3> QED BY <1>1, <2>2, <3>1, <3>3, SidesMoved
  <2>3. CASE k.attached.epoch = e /\ Finished(b) /\ UNCHANGED bridge
    <3>1. UNCHANGED attachment /\ reconciling[b].stage = "rest"
      BY <1>6 DEF Reconcile, rustVars
    <3>2. attachment.gen # 0 => k.attached = attachment
      BY <1>5, <3>1
    <3>3. k.attached.gen # 0 => /\ k.attached = attachment /\ attachment.epoch # 0
                                /\ k.life = "live" /\ k.ready = attachment.epoch
      BY <1>3, <1>4, <2>3 DEF BelievesRightly, Wanted, BridgeObjects
    <3> QED BY <1>1, <2>3, <3>1, <3>2, <3>3, SidesFinished
  <2> QED BY <1>6, <2>1, <2>2, <2>3 DEF Reconcile
<1>7. CASE AttachReads(b)
  <2>1. /\ UNCHANGED <<attachment, bridge, tail>>
        /\ reconciling[b].stage = "attachAsked"
        /\ \A d \in Bridges \ {b} : reconciling'[d] = reconciling[d]
        /\ reconciling'[b].stage \in {"attachAllowed", "attachAnswered"}
        /\ reconciling'[b].epoch = reconciling[b].epoch /\ reconciling'[b].gen = reconciling[b].gen
    BY <1>3, <1>7 DEF AttachReads, Stage, rustVars, Types, Reconciles
  <2>2. Answering(b)' /\ AttachedToSomeone'
    BY <1>4, <1>5, <2>1 DEF Answering, AttachedToSomeone
  <2> QED BY <1>1, <1>4, <2>1, <2>2, SidesMoved
<1>8. CASE AttachMints(b)
  <2>1. /\ UNCHANGED <<bridge, tail>>
        /\ reconciling[b].stage = "attachAllowed"
        /\ attachment' = [epoch |-> reconciling[b].epoch, gen |-> minted + 1]
        /\ \A d \in Bridges \ {b} : reconciling'[d] = reconciling[d]
        /\ reconciling'[b] = [reconciling[b] EXCEPT !.stage = "attachAnswered", !.gen = minted + 1]
    BY <1>8 DEF AttachMints, Types
  <2>2. /\ reconciling'[b].stage = "attachAnswered" /\ reconciling'[b].gen = minted + 1
        /\ reconciling'[b].epoch = reconciling[b].epoch
    BY <1>3, <2>1 DEF Reconciles
  <2>3. Answering(b)' /\ AttachedToSomeone'
    BY <1>4, <2>1, <2>2 DEF Answering, AttachedToSomeone
  <2> QED BY <1>1, <1>4, <2>1, <2>3, SidesMoved
<1>9. CASE Detach(b)
  <2>1. /\ UNCHANGED <<bridge, tail>>
        /\ reconciling[b].stage \in {"detachAsked", "undoAsked"}
        /\ \A d \in Bridges \ {b} : reconciling'[d] = reconciling[d]
        /\ reconciling'[b].stage \in {"detached", "undone"}
        /\ IF Detaches(reconciling[b].gen) THEN attachment' = Nowhere ELSE UNCHANGED attachment
    BY <1>3, <1>9 DEF Detach, Stage, Types, Reconciles
  <2>2. attachment'.gen = 0
    BY <1>5, <2>1 DEF Detaches, Nowhere
  <2>3. Answering(b)' /\ AttachedToSomeone'
    BY <2>1, <2>2 DEF Answering, AttachedToSomeone
  <2> QED BY <1>1, <1>4, <2>1, <2>3, SidesMoved
<1>10. CASE Detached(b)
  <2>1. UNCHANGED attachment /\ reconciling[b].stage = "detached" /\ bridge[b].attached.gen = 0
    BY <1>4, <1>10 DEF Detached, rustVars
  <2>2. attachment.gen # 0 => bridge[b].attached = attachment
    BY <1>5, <2>1
  <2>3. CASE reconciling[b].epoch # 0
    <3>1. /\ AskAttach(b, reconciling[b].epoch)
          /\ bridge' = [bridge EXCEPT ![b].attaching = reconciling[b].epoch, ![b].held = {}]
      BY <1>10, <2>3 DEF Detached
    <3>2. /\ reconciling'[b] = [stage |-> "attachAsked", epoch |-> reconciling[b].epoch, gen |-> 0]
          /\ \A d \in Bridges \ {b} : reconciling'[d] = reconciling[d] /\ bridge'[d] = bridge[d]
          /\ bridge'[b].attached = bridge[b].attached
          /\ bridge'[b].life = bridge[b].life /\ bridge'[b].ready = bridge[b].ready
          /\ UNCHANGED tail
      BY <1>3, <3>1 DEF Types, BridgeObjects, AskAttach
    <3>3. Answering(b)' /\ AttachedToSomeone'
      BY <2>1, <2>2, <2>3, <3>2 DEF Answering, AttachedToSomeone
    <3> QED BY <1>1, <2>1, <3>2, <3>3, SidesMoved
  <2>4. CASE reconciling[b].epoch = 0
    <3>1. Finished(b) /\ UNCHANGED bridge
      BY <1>10, <2>4 DEF Detached
    <3> QED BY <1>1, <2>1, <2>2, <3>1, SidesFinished
  <2> QED BY <2>3, <2>4
<1>11. CASE Attached(b)
  <2> DEFINE g == reconciling[b].gen
             k == [bridge[b] EXCEPT !.attaching = 0, !.held = {}]
             r == [k EXCEPT !.attached = [epoch |-> reconciling[b].epoch, gen |-> g]]
  <2>1. /\ UNCHANGED attachment /\ reconciling[b].stage = "attachAnswered"
        /\ bridge[b].attached.gen = 0
    BY <1>4, <1>11 DEF Attached, rustVars
  <2>2. /\ k \in BridgeObjects /\ k.life = bridge[b].life /\ k.ready = bridge[b].ready
        /\ k.attached = bridge[b].attached
    <3>1. k \in BridgeObjects
      BY <1>3, BridgeFields, BridgeUpdates
    <3>2. /\ k.life = bridge[b].life /\ k.ready = bridge[b].ready
          /\ k.attached = bridge[b].attached
      BY <1>3 DEF BridgeObjects
    <3> QED BY <3>1, <3>2
  <2>3. [epoch |-> reconciling[b].epoch, gen |-> g] \in Attachments
    BY <1>3 DEF Reconciles, Attachments
  <2>4. r \in BridgeObjects
    BY <2>2, <2>3, BridgeUpdates
  <2>5. /\ r.life = k.life /\ r.ready = k.ready
        /\ r.attached = [epoch |-> reconciling[b].epoch, gen |-> g]
    BY <2>2 DEF BridgeObjects
  <2>6. CASE g = 0 /\ Finished(b) /\ bridge' = [bridge EXCEPT ![b] = k]
    <3>1. bridge'[b] = k /\ \A d \in Bridges \ {b} : bridge'[d] = bridge[d]
      BY <2>6 DEF Types
    <3>2. attachment.gen # 0 => bridge[b].attached = attachment
      BY <1>5, <2>1, <2>6
    <3> QED BY <1>1, <2>1, <2>2, <2>6, <3>1, <3>2, SidesFinished
  <2>7. CASE g # 0 /\ Stage(b, "undoAsked") /\ bridge' = [bridge EXCEPT ![b] = k] /\ UNCHANGED tail
    <3>1. /\ bridge'[b] = k
          /\ \A d \in Bridges \ {b} : bridge'[d] = bridge[d] /\ reconciling'[d] = reconciling[d]
          /\ reconciling'[b].stage = "undoAsked" /\ reconciling'[b].gen = g
      BY <1>3, <2>7 DEF Types, Stage, Reconciles
    <3>2. Answering(b)' /\ AttachedToSomeone'
      BY <1>5, <2>1, <3>1 DEF Answering, AttachedToSomeone
    <3> QED BY <1>1, <2>1, <2>2, <2>7, <3>1, <3>2, SidesMoved
  <2>8. CASE g # 0 /\ StillWanted(b) /\ Finished(b) /\ Handle(b, r, bridge[b].held)
    <3>1. bridge[b].held \in SUBSET Calls
      BY <1>3 DEF BridgeObjects
    <3>2. /\ bridge'[b].life = r.life /\ bridge'[b].ready = r.ready /\ bridge'[b].attached = r.attached
          /\ \A d \in Bridges \ {b} : bridge'[d] = bridge[d]
      BY <2>4, <2>8, <3>1, HandleSides
    <3>3. attachment = r.attached /\ attachment.epoch = reconciling[b].epoch /\ attachment.epoch # 0
      BY <1>4, <2>1, <2>5, <2>8 DEF Answering
    <3>4. bridge[b].life # "unborn"
      <4>1. 1 \in 1..Len(tail) /\ tail[1] = b
        BY <1>1, QueueShrinks DEF Types
      <4> QED BY <4>1 DEF Sides, QueueOrder
    <3>5. bridge[b].life = "live" /\ bridge[b].ready = attachment.epoch
      BY <1>3, <2>8, <3>3, <3>4 DEF StillWanted, BridgeObjects
    <3> QED BY <1>1, <2>1, <2>2, <2>5, <2>8, <3>2, <3>3, <3>5, SidesFinished
  <2> QED BY <1>11, <2>6, <2>7, <2>8 DEF Attached
<1>12. CASE Undone(b)
  <2>1. /\ UNCHANGED <<attachment, bridge>> /\ reconciling[b].stage = "undone" /\ Finished(b)
        /\ bridge[b].attached.gen = 0
    BY <1>4, <1>12 DEF Undone, rustVars
  <2>2. attachment.gen # 0 => bridge[b].attached = attachment
    BY <1>5, <2>1
  <2> QED BY <1>1, <2>1, <2>2, SidesFinished
<1> QED BY <1>6, <1>7, <1>8, <1>9, <1>10, <1>11, <1>12 DEF ReconcileStep

LEMMA NextSides == Types /\ Serialized /\ Sides /\ [Next]_vars => Sides'
<1> SUFFICES ASSUME Types, Serialized, Sides, [Next]_vars
             PROVE  Sides'
  OBVIOUS
<1>1. ASSUME UNCHANGED <<attachment, tail, reconciling, bridge>>
      PROVE  Sides'
  BY <1>1, SidesUntouched
<1>2. ASSUME NEW b \in Bridges, Mount(b)
      PROVE  Sides'
  <2>1. /\ bridge'[b].life = "live" /\ bridge'[b].ready = bridge[b].ready
        /\ bridge'[b].attached = bridge[b].attached
        /\ \A d \in Bridges \ {b} : bridge'[d] = bridge[d]
    BY <1>2 DEF Mount, Types, BridgeObjects
  <2>2. /\ bridge[b].life = "unborn" /\ \A d \in Bridges : bridge[d].life # "live"
        /\ UNCHANGED <<attachment, tail, reconciling>>
    BY <1>2 DEF Mount, rustVars
  <2>3. OneLive'
    BY <2>1, <2>2 DEF OneLive
  <2>4. QueueOrder'
    <3>1. \A i \in 1..Len(tail) : tail[i] \in Bridges \ {b}
      BY <2>2 DEF Types, Sides, QueueOrder
    <3> QED BY <2>1, <2>2, <3>1 DEF Sides, QueueOrder
  <2>5. AttachedToSomeone'
    BY <2>1, <2>2 DEF Sides, AttachedToSomeone
  <2>6. \A d \in Bridges : BelievesRightly(d)' /\ Answering(d)'
    BY <2>1, <2>2 DEF Sides, BelievesRightly, Answering
  <2> QED BY <2>3, <2>4, <2>5, <2>6 DEF Sides
<1>3. ASSUME NEW b \in Bridges, Listen(b)
      PROVE  Sides'
  <2>1. \A d \in Bridges : /\ bridge'[d].life = bridge[d].life
                           /\ bridge'[d].ready = bridge[d].ready
                           /\ bridge'[d].attached = bridge[d].attached
    BY <1>3 DEF Listen, Types, BridgeObjects
  <2> QED BY <1>3, <2>1, SidesUntouched DEF Listen, rustVars
<1>4. ASSUME NEW b \in Bridges, Dispose(b)
      PROVE  Sides'
  <2>1. /\ bridge'[b].life = "disposed" /\ bridge'[b].attached = bridge[b].attached
        /\ \A d \in Bridges \ {b} : bridge'[d] = bridge[d]
    BY <1>4 DEF Dispose, Types, BridgeObjects
  <2> QED BY <1>4, <2>1, SidesQueued DEF Dispose, rustVars
<1>5. ASSUME NEW b \in Bridges, NEW e \in 0..MaxEpoch, SetReady(b, e)
      PROVE  Sides'
  <2>1. /\ bridge'[b].life = "live" /\ bridge'[b].attached = bridge[b].attached
        /\ \A d \in Bridges \ {b} : bridge'[d] = bridge[d]
    BY <1>5 DEF SetReady, Types, BridgeObjects
  <2> QED BY <1>5, <2>1, SidesQueued DEF SetReady, rustVars
<1>6. ASSUME NEW b \in Bridges, NEW c \in Calls, Hear(b, c)
      PROVE  Sides'
  <2>1. \A d \in Bridges : /\ bridge'[d].life = bridge[d].life
                           /\ bridge'[d].ready = bridge[d].ready
                           /\ bridge'[d].attached = bridge[d].attached
    <3>1. bridge[b] \in BridgeObjects /\ {c} \in SUBSET Calls /\ Handle(b, bridge[b], {c})
      BY <1>6 DEF Hear, Types
    <3> QED BY <3>1, HandleSides
  <2> QED BY <1>6, <2>1, SidesUntouched DEF Hear, rustVars
<1>7. ASSUME NEW b \in Bridges, NEW c \in Calls, HearUnattached(b, c) \/ Proceed(b, c)
      PROVE  Sides'
  <2>1. \A d \in Bridges : /\ bridge'[d].life = bridge[d].life
                           /\ bridge'[d].ready = bridge[d].ready
                           /\ bridge'[d].attached = bridge[d].attached
    <3>1. \/ bridge' = bridge
          \/ bridge' = [bridge EXCEPT ![b].held = @ \cup {c}]
          \/ bridge' = [bridge EXCEPT ![b].working = @ \ {c}]
      BY <1>7 DEF HearUnattached, Proceed
    <3>2. bridge[b] \in BridgeObjects /\ bridge \in [Bridges -> BridgeObjects]
      BY DEF Types
    <3> QED BY <3>1, <3>2 DEF BridgeObjects
  <2> QED BY <1>7, <2>1, SidesUntouched DEF HearUnattached, Proceed, rustVars
<1>8. ASSUME NEW b \in Bridges, ReconcileStep(b)
      PROVE  Sides'
  BY <1>8, ReconcileSides
<1> QED
  BY <1>1, <1>2, <1>3, <1>4, <1>5, <1>6, <1>7, <1>8
  DEF Next, OpenWorkspace, CloseWorkspace, FrontLearns, Register, RefuseCall, CallStep, Emit, EmitFails,
      Receive, HangUp, TimeOut, Withdraw, TryOnce, SendReply, DeliverReply, vars, rustVars, jsVars

(* Whenever no reconcile waits or runs, the editor and Rust agree on what   *)
(* is attached: for any number of bridges, mounts, switches and races of    *)
(* attach, detach and dispose (projectApiBridge.js serializeAttachments and *)
(* reconcile, bridge.rs attach and detach).                                 *)
THEOREM SidesAlwaysAgree == Spec => []SidesAgree
<1>1. Serialized /\ Sides => SidesAgree
  <2> SUFFICES ASSUME Serialized, Sides, tail = <<>>
               PROVE  SidesAgree
    BY DEF SidesAgree
  <2>1. \A b \in Bridges : bridge[b].attached.gen # 0 =>
           bridge[b].attached = attachment /\ bridge[b].life = "live"
           /\ bridge[b].ready = attachment.epoch
    BY DEF Sides, BelievesRightly
  <2>2. attachment.gen # 0 => \E b \in Bridges : bridge[b].attached = attachment
    BY DEF Serialized, Sides, AttachedToSomeone
  <2> QED BY <2>1, <2>2 DEF SidesAgree
<1>2. Init => Sides
  BY InitSides
<1>3. Types /\ Serialized /\ Sides /\ [Next]_vars => Sides'
  BY NextSides
<1> QED BY TypesAndTurns, <1>1, <1>2, <1>3, PTL DEF Spec

-----------------------------------------------------------------------------
(* Requests and the threads that wait for them.                            *)

(* A request whose reply is on its way to its caller is not pending. *)
Passed == \A c \in Calls : passing[c] # None \/ channel[c] # None =>
                              pending[c] = 0 /\ call[c].at # "idle"

Waits == \A c \in Calls : pending[c] # 0 =>
            call[c].at \in {"registered", "waiting", "late"} /\ pending[c] = call[c].gen

Waiting == {c \in Calls : pending[c] # 0}
Bounded == Cardinality(Waiting) <= MaxPending

Requests == Passed /\ Waits /\ Bounded /\ PendingIsAttached

LEMMA InitRequests == Init => Requests
<1> SUFFICES ASSUME Init PROVE Requests
  OBVIOUS
<1>1. Waiting = {}
  BY DEF Init, Waiting
<1>2. Bounded
  BY <1>1, FS_EmptySet, BridgeAssumption DEF Bounded
<1> QED BY <1>2 DEF Init, Requests, Passed, Waits, PendingIsAttached, None

(* Withdrawing requests only shortens the table. *)
LEMMA FewerWaiting ==
    ASSUME Bounded, \A c \in Calls : pending'[c] # 0 => pending[c] # 0
    PROVE  Bounded'
<1>1. Waiting' \subseteq Waiting /\ Waiting \subseteq Calls
  BY DEF Waiting
<1>2. IsFiniteSet(Waiting)
  BY <1>1, FS_Subset, BridgeAssumption
<1>3. /\ Cardinality(Waiting') <= Cardinality(Waiting)
      /\ Cardinality(Waiting) \in Nat /\ Cardinality(Waiting') \in Nat
  BY <1>1, <1>2, FS_Subset, FS_CardinalityType
<1> QED BY <1>3, BridgeAssumption DEF Bounded

LEMMA RegisterRequests ==
    ASSUME Types, Requests, NEW c \in Calls, NEW e \in 1..MaxEpoch, Register(c, e)
    PROVE  Requests'
<1>1. /\ pending[c] = 0 /\ passing[c] = None /\ channel[c] = None
      /\ \A d \in Calls : pending'[d] = IF d = c THEN attachment.gen ELSE pending[d]
      /\ \A d \in Calls \ {c} : call'[d] = call[d]
      /\ call'[c] = [at |-> "registered", epoch |-> e, gen |-> attachment.gen]
      /\ attachment.gen # 0 /\ UNCHANGED <<attachment, passing, channel>>
  BY DEF Register, Requests, Passed, Waits, Types
<1>2. Bounded'
  <2>1. Waiting' = Waiting \cup {c} /\ c \notin Waiting /\ Waiting \subseteq Calls
    BY <1>1 DEF Waiting
  <2>2. IsFiniteSet(Waiting)
    BY <2>1, FS_Subset, BridgeAssumption
  <2>3. Cardinality(Waiting') = Cardinality(Waiting) + 1 /\ Cardinality(Waiting) \in Nat
    BY <2>1, <2>2, FS_AddElement, FS_CardinalityType
  <2>4. Cardinality(Waiting) < MaxPending
    BY DEF Register, Waiting
  <2> QED BY <2>3, <2>4, BridgeAssumption DEF Bounded
<1>3. Passed' /\ Waits' /\ PendingIsAttached'
  BY <1>1 DEF Requests, Passed, Waits, PendingIsAttached
<1> QED BY <1>2, <1>3 DEF Requests

LEMMA NextRequests == Types /\ Requests /\ [Next]_vars => Requests'
<1> SUFFICES ASSUME Types, Requests, [Next]_vars
             PROVE  Requests'
  OBVIOUS
<1>1. ASSUME UNCHANGED <<attachment, pending, call, passing, channel>>
      PROVE  Requests'
  BY <1>1 DEF Requests, Passed, Waits, Bounded, Waiting, PendingIsAttached
<1>2. ASSUME NEW c \in Calls, NEW e \in 1..MaxEpoch, Register(c, e)
      PROVE  Requests'
  BY <1>2, RegisterRequests
<1>3. ASSUME NEW c \in Calls, NEW e \in 1..MaxEpoch, RefuseCall(c, e)
      PROVE  Requests'
  BY <1>3, FewerWaiting
  DEF RefuseCall, Return, Types, CallStates, Requests, Passed, Waits, PendingIsAttached
<1>4. ASSUME NEW c \in Calls, CallStep(c)
      PROVE  Requests'
  <2> USE DEF Types, CallStates, Requests, Passed, Waits, PendingIsAttached
  <2>1. CASE Emit(c)
    BY <2>1, FewerWaiting DEF Emit
  <2>2. CASE EmitFails(c)
    BY <2>2, FewerWaiting DEF EmitFails, Return, Withdrawn
  <2>3. CASE Receive(c)
    BY <2>3, FewerWaiting DEF Receive, Return
  <2>4. CASE HangUp(c)
    BY <2>4, FewerWaiting DEF HangUp, Return
  <2>5. CASE TimeOut(c)
    BY <2>5, FewerWaiting DEF TimeOut, MayTimeOut
  <2>6. CASE Withdraw(c)
    BY <2>6, FewerWaiting DEF Withdraw, Withdrawn
  <2>7. CASE TryOnce(c)
    BY <2>7, FewerWaiting DEF TryOnce, Return
  <2> QED BY <1>4, <2>1, <2>2, <2>3, <2>4, <2>5, <2>6, <2>7 DEF CallStep
<1>5. ASSUME NEW c \in Calls, SendReply(c)
      PROVE  Requests'
  BY <1>5, FewerWaiting DEF SendReply, Types, Requests, Passed, Waits, PendingIsAttached
<1>6. ASSUME NEW m \in replies, DeliverReply(m)
      PROVE  Requests'
  <2>1. m.call \in Calls
    BY DEF Types, Messages
  <2>2. CASE Takes(m.call, m.gen)
    <3>1. /\ pending[m.call] # 0 /\ UNCHANGED <<attachment, call, channel>>
          /\ \A c \in Calls : pending'[c] = IF c = m.call THEN 0 ELSE pending[c]
          /\ \A c \in Calls : c # m.call => passing'[c] = passing[c]
      BY <1>6, <2>1, <2>2 DEF DeliverReply, Takes, Types
    <3>2. Bounded'
      BY <3>1, FewerWaiting DEF Requests
    <3> QED BY <2>1, <3>1, <3>2 DEF Requests, Passed, Waits, PendingIsAttached
  <2>3. CASE ~Takes(m.call, m.gen)
    BY <1>1, <1>6, <2>3 DEF DeliverReply
  <2> QED BY <2>2, <2>3
<1>7. ASSUME NEW b \in Bridges, AttachMints(b)
      PROVE  Requests'
  BY <1>7, FewerWaiting DEF AttachMints, NobodyPending, callVars, Requests, Passed, Waits, PendingIsAttached
<1>8. ASSUME NEW b \in Bridges, Detach(b)
      PROVE  Requests'
  <2>1. CASE pending' = NobodyPending
    BY <1>8, <2>1, FewerWaiting DEF Detach, NobodyPending, callVars, Requests, Passed, Waits, PendingIsAttached
  <2>2. CASE UNCHANGED <<attachment, pending>>
    BY <1>1, <1>8, <2>2 DEF Detach, callVars
  <2> QED BY <1>8, <2>1, <2>2 DEF Detach
<1> QED
  BY <1>1, <1>2, <1>3, <1>4, <1>5, <1>6, <1>7, <1>8
  DEF Next, OpenWorkspace, CloseWorkspace, FrontLearns, Mount, Listen, SetReady, Dispose, Hear,
      HearUnattached, Proceed, ReconcileStep, Reconcile, AttachReads, Detached, Attached, Undone,
      vars, rustVars, callVars

(* A pending request always has its caller waiting, never more are pending  *)
(* than the table may hold, and each is addressed to the generation that is *)
(* attached: whatever ends an attachment fails its requests (bridge.rs      *)
(* call_reporting, deliver_reply, attach, detach).                          *)
THEOREM PendingNeverStale == Spec => []TableIsTrue
<1>1. Requests => TableIsTrue
  BY DEF Requests, Waits, Bounded, Waiting, TableIsTrue, PendingHasWaiter
<1>2. Init => Requests
  BY InitRequests
<1>3. Types /\ Requests /\ [Next]_vars => Requests'
  BY NextRequests
<1> QED BY TypesAndTurns, <1>1, <1>2, <1>3, PTL DEF Spec

-----------------------------------------------------------------------------
(* What Handle does, in facts: of the requests T it takes, the lasting ones *)
(* L only begin, it acts on S, and it answers the others accordingly.      *)
HandleDoes(b, k, T, L, S) ==
    /\ T \subseteq Calls /\ L \subseteq T /\ S \subseteq T \ L
    /\ \A c \in T : c \notin k.replied /\ call[c].gen = k.attached.gen
    /\ \A c \in Calls : acts'[c] = IF c \in S THEN acts[c] + 1 ELSE acts[c]
    /\ acts' = [c \in Calls |-> IF c \in S THEN acts[c] + 1 ELSE acts[c]]
    /\ bridge'[b].replied = k.replied \cup T /\ bridge'[b].working = k.working \cup L
    /\ bridge'[b].held = k.held
    /\ \A m \in replies' : m \notin replies =>
          /\ m.call \in T \ L /\ m.gen = call[m.call].gen
          /\ m.answer \in {"not", "changed"} => m.call \notin S
          /\ m.answer = "did" => m.call \in S

LEMMA HandleEffects ==
    ASSUME Types, NEW b \in Bridges, NEW k \in BridgeObjects, NEW C \in SUBSET Calls,
           Handle(b, k, C)
    PROVE  \E T \in SUBSET C, L \in SUBSET Calls, S \in SUBSET Calls : HandleDoes(b, k, T, L, S)
<1> DEFINE taken == Taken(k, C)
           now   == {c \in taken : StillCurrent(k, c)}
           L     == now \cap Lasting
<1>1. PICK S \in SUBSET (now \ Lasting), out \in [taken \ L -> Answers] :
          /\ \A c \in DOMAIN out :
               out[c] \in (IF c \notin now THEN {"changed"}
                           ELSE IF c \in S THEN {"did", "internal"} ELSE {"not", "internal"})
          /\ replies' = replies \cup {Reply(c, out[c]) : c \in DOMAIN out}
          /\ acts' = [c \in Calls |-> IF c \in S THEN acts[c] + 1 ELSE acts[c]]
          /\ bridge' = [bridge EXCEPT ![b] = [k EXCEPT !.replied = @ \cup taken,
                                                       !.working = @ \cup L]]
  BY DEF Handle
<1>2. /\ taken \in SUBSET C /\ taken \subseteq Calls /\ L \subseteq taken /\ S \subseteq taken \ L
      /\ \A c \in taken : c \notin k.replied /\ call[c].gen = k.attached.gen
  BY DEF Taken, Ours, Fresh
<1>3. \A c \in Calls : acts'[c] = IF c \in S THEN acts[c] + 1 ELSE acts[c]
  BY <1>1
<1>4. /\ bridge'[b].replied = k.replied \cup taken /\ bridge'[b].working = k.working \cup L
      /\ bridge'[b].held = k.held
  <2>1. bridge'[b] = [k EXCEPT !.replied = @ \cup taken, !.working = @ \cup L]
    BY <1>1 DEF Types
  <2> QED BY <2>1 DEF BridgeObjects
<1>5. ASSUME NEW m \in replies', m \notin replies
      PROVE  /\ m.call \in taken \ L /\ m.gen = call[m.call].gen
             /\ m.answer \in {"not", "changed"} => m.call \notin S
             /\ m.answer = "did" => m.call \in S
  <2>1. PICK c \in taken \ L : m = Reply(c, out[c])
    BY <1>1, <1>5
  <2>2. m.call = c /\ m.gen = call[c].gen /\ m.answer = out[c]
    BY <2>1 DEF Reply
  <2>3. out[c] \in (IF c \notin now THEN {"changed"}
                    ELSE IF c \in S THEN {"did", "internal"} ELSE {"not", "internal"})
    BY <1>1
  <2> QED BY <1>1, <2>2, <2>3
<1>6. HandleDoes(b, k, taken, L, S)
  BY <1>1, <1>2, <1>3, <1>4, <1>5 DEF HandleDoes
<1> QED BY <1>2, <1>6

(* Generations are minted before anyone knows them. *)
LEMMA NextMinted == Types /\ GenerationsMinted /\ [Next]_vars => GenerationsMinted'
<1> SUFFICES ASSUME Types, GenerationsMinted, [Next]_vars
             PROVE  GenerationsMinted'
  OBVIOUS
<1>0. /\ minted \in Nat /\ attachment.gen \in Nat
      /\ \A c \in Calls : pending[c] \in Nat /\ call[c].gen \in Nat
      /\ \A b \in Bridges : bridge[b].attached.gen \in Nat /\ reconciling[b].gen \in Nat
      /\ \A m \in replies : m.gen \in Nat
  BY BridgeFields DEF Types, Attachments, CallStates, Reconciles, Messages
<1>1. ASSUME UNCHANGED <<minted, attachment, pending, call, replies, reconciling>>,
             \A d \in Bridges : bridge'[d].attached = bridge[d].attached
      PROVE  GenerationsMinted'
  BY <1>1 DEF GenerationsMinted
<1>2. ASSUME NEW c \in Calls, NEW e \in 1..MaxEpoch, Register(c, e) \/ RefuseCall(c, e)
      PROVE  GenerationsMinted'
  <2>1. CASE Register(c, e)
    <3>1. \A d \in Calls : /\ pending'[d] \in {pending[d], attachment.gen}
                           /\ call'[d].gen \in {call[d].gen, attachment.gen}
      BY <2>1 DEF Register, Types
    <3> QED BY <1>0, <2>1, <3>1 DEF Register, jsVars, GenerationsMinted
  <2>2. CASE RefuseCall(c, e)
    <3>1. \A d \in Calls : call'[d].gen = call[d].gen
      BY <2>2 DEF RefuseCall, Return, Types, CallStates
    <3> QED BY <2>2, <3>1 DEF RefuseCall, jsVars, GenerationsMinted
  <2> QED BY <1>2, <2>1, <2>2
<1>3. ASSUME NEW c \in Calls, CallStep(c)
      PROVE  GenerationsMinted'
  <2>1. \A d \in Calls : call'[d].gen = call[d].gen /\ pending'[d] \in {0, pending[d]}
    <3>1. \E l \in {"waiting", "returned", "late", "withdrawn"} : call' = [call EXCEPT ![c].at = l]
      BY <1>3 DEF CallStep, Emit, EmitFails, Receive, HangUp, TimeOut, Withdraw, TryOnce, Return
    <3>2. pending' = pending \/ pending' = [pending EXCEPT ![c] = 0]
      BY <1>3 DEF CallStep, Emit, EmitFails, Receive, HangUp, TimeOut, Withdraw, TryOnce, Withdrawn
    <3> QED BY <3>1, <3>2 DEF Types, CallStates
  <2>2. UNCHANGED <<minted, attachment, replies, reconciling, bridge>>
    BY <1>3 DEF CallStep, Emit, EmitFails, Receive, HangUp, TimeOut, Withdraw, TryOnce, jsVars
  <2> QED BY <1>0, <2>1, <2>2 DEF GenerationsMinted
<1>4. ASSUME NEW c \in Calls, SendReply(c)
      PROVE  GenerationsMinted'
  BY <1>1, <1>4 DEF SendReply, jsVars
<1>5. ASSUME NEW m \in replies, DeliverReply(m)
      PROVE  GenerationsMinted'
  <2>1. \A d \in Calls : pending'[d] \in {0, pending[d]}
    BY <1>5 DEF DeliverReply, Types
  <2> QED BY <1>0, <1>5, <2>1 DEF DeliverReply, GenerationsMinted, jsVars
<1>6. ASSUME NEW b \in Bridges, Mount(b) \/ Listen(b) \/ Dispose(b)
      PROVE  GenerationsMinted'
  <2>1. \A d \in Bridges : bridge'[d].attached = bridge[d].attached
    <3>1. CASE Mount(b)
      BY <3>1 DEF Mount, Types, BridgeObjects
    <3>2. CASE Listen(b)
      BY <3>2 DEF Listen, Types, BridgeObjects
    <3>3. CASE Dispose(b)
      BY <3>3 DEF Dispose, Types, BridgeObjects
    <3> QED BY <1>6, <3>1, <3>2, <3>3
  <2> QED BY <1>1, <1>6, <2>1 DEF Mount, Listen, Dispose, rustVars
<1>7. ASSUME NEW b \in Bridges, NEW e \in 0..MaxEpoch, SetReady(b, e)
      PROVE  GenerationsMinted'
  <2>1. \A d \in Bridges : bridge'[d].attached = bridge[d].attached
    BY <1>7 DEF SetReady, Types, BridgeObjects
  <2> QED BY <1>1, <1>7, <2>1 DEF SetReady, rustVars
<1>8. ASSUME NEW b \in Bridges, NEW k \in BridgeObjects, NEW C \in SUBSET Calls, Handle(b, k, C),
             k.attached.gen <= minted,
             UNCHANGED <<minted, attachment, pending, call>>,
             \A d \in Bridges : reconciling'[d].gen \in {0, reconciling[d].gen}
      PROVE  GenerationsMinted'
  <2>1. /\ bridge'[b].attached = k.attached
        /\ \A d \in Bridges \ {b} : bridge'[d] = bridge[d]
    BY <1>8, HandleSides
  <2>2. \A m \in replies' : m \in replies \/ \E c \in Calls : m.gen = call[c].gen
    BY <1>8, HandleEffects DEF HandleDoes
  <2> QED BY <1>0, <1>8, <2>1, <2>2 DEF GenerationsMinted
<1>9. ASSUME NEW b \in Bridges, NEW c \in Calls, Hear(b, c)
      PROVE  GenerationsMinted'
  <2>1. bridge[b] \in BridgeObjects /\ bridge[b].attached.gen <= minted /\ {c} \in SUBSET Calls
    BY DEF Types, GenerationsMinted
  <2> QED BY <1>8, <1>9, <2>1 DEF Hear, rustVars
<1>10. ASSUME NEW b \in Bridges, NEW c \in Calls, HearUnattached(b, c)
       PROVE  GenerationsMinted'
  <2>1. \A d \in Bridges : bridge'[d].attached = bridge[d].attached
    BY <1>10 DEF HearUnattached, Types, BridgeObjects
  <2> QED BY <1>1, <1>10, <2>1 DEF HearUnattached, rustVars
<1>11. ASSUME NEW b \in Bridges, NEW c \in Calls, Proceed(b, c)
       PROVE  GenerationsMinted'
  <2>1. \A d \in Bridges : bridge'[d].attached = bridge[d].attached
    BY <1>11 DEF Proceed, Types, BridgeObjects
  <2>2. \A m \in replies' : m \in replies \/ m.gen = call[c].gen
    BY <1>11 DEF Proceed, Reply
  <2> QED BY <1>0, <1>11, <2>1, <2>2 DEF Proceed, rustVars, GenerationsMinted
<1>12. ASSUME NEW b \in Bridges, ReconcileStep(b)
       PROVE  GenerationsMinted'
  <2>1. bridge[b] \in BridgeObjects /\ reconciling[b] \in Reconciles
    BY DEF Types
  <2>2. ASSUME UNCHANGED <<call, replies>>, minted' = minted \/ minted' = minted + 1,
               attachment'.gen <= minted',
               \A c \in Calls : pending'[c] \in {0, pending[c]},
               \A d \in Bridges : bridge'[d].attached.gen \in {0, bridge[d].attached.gen},
               \A d \in Bridges : reconciling'[d].gen \in {0, reconciling[d].gen, bridge[d].attached.gen, minted'}
        PROVE  GenerationsMinted'
    BY <1>0, <2>2 DEF GenerationsMinted
  <2>3. CASE Reconcile(b)
    <3>1. /\ \A d \in Bridges : bridge'[d].attached \in {Nowhere, bridge[d].attached}
          /\ \A d \in Bridges : reconciling'[d].gen \in {0, reconciling[d].gen, bridge[d].attached.gen}
      <4>1. CASE /\ bridge' = [bridge EXCEPT ![b].attached = Nowhere]
                 /\ reconciling' = [reconciling EXCEPT ![b] =
                        [stage |-> "detachAsked", epoch |-> Wanted(b), gen |-> bridge[b].attached.gen]]
        BY <2>1, <4>1 DEF Types, BridgeObjects
      <4>2. CASE /\ bridge' = [bridge EXCEPT ![b].attaching = Wanted(b), ![b].held = {}]
                 /\ AskAttach(b, Wanted(b))
        <5>1. \A d \in Bridges : bridge'[d].attached = bridge[d].attached
          BY <2>1, <4>2 DEF Types, BridgeObjects
        <5> QED BY <4>2, <5>1 DEF AskAttach, Types
      <4>3. CASE Finished(b) /\ UNCHANGED bridge
        BY <4>3 DEF Finished, Resting, Types
      <4> QED BY <2>3, <4>1, <4>2, <4>3 DEF Reconcile
    <3> QED BY <2>2, <2>3, <3>1 DEF Reconcile, rustVars, Nowhere, GenerationsMinted
  <2>4. CASE AttachReads(b)
    <3>1. \A d \in Bridges : reconciling'[d].gen = reconciling[d].gen
      BY <2>4 DEF AttachReads, Stage, Types, Reconciles
    <3> QED BY <2>2, <2>4, <3>1 DEF AttachReads, rustVars, GenerationsMinted
  <2>5. CASE AttachMints(b)
    <3>1. \A d \in Bridges : reconciling'[d].gen \in {minted + 1, reconciling[d].gen}
      <4>1. reconciling' = [reconciling EXCEPT ![b].stage = "attachAnswered", ![b].gen = minted + 1]
        BY <2>5 DEF AttachMints
      <4>2. \A d \in Bridges \ {b} : reconciling'[d] = reconciling[d]
        BY <4>1 DEF Types
      <4>3. reconciling'[b].gen = minted + 1
        BY <2>1, <4>1 DEF Types, Reconciles
      <4> QED BY <4>2, <4>3
    <3>2. /\ minted' = minted + 1 /\ attachment'.gen = minted'
          /\ \A c \in Calls : pending'[c] = 0
          /\ UNCHANGED <<call, replies, bridge>>
      BY <2>5 DEF AttachMints, MintedNext, NobodyPending, callVars
    <3> QED BY <1>0, <2>2, <3>1, <3>2
  <2>6. CASE Detach(b)
    <3>1. \A d \in Bridges : reconciling'[d].gen = reconciling[d].gen
      BY <2>6 DEF Detach, Stage, Types, Reconciles
    <3> QED BY <1>0, <2>2, <2>6, <3>1 DEF Detach, Nowhere, NobodyPending, callVars, GenerationsMinted
  <2>7. CASE Detached(b)
    <3>1. /\ \A d \in Bridges : bridge'[d].attached = bridge[d].attached
          /\ \A d \in Bridges : reconciling'[d].gen \in {0, reconciling[d].gen}
      <4>1. CASE AskAttach(b, reconciling[b].epoch)
                 /\ bridge' = [bridge EXCEPT ![b].attaching = reconciling[b].epoch, ![b].held = {}]
        <5>1. \A d \in Bridges : bridge'[d].attached = bridge[d].attached
          BY <2>1, <4>1 DEF Types, BridgeObjects
        <5> QED BY <4>1, <5>1 DEF AskAttach, Types
      <4>2. CASE Finished(b) /\ UNCHANGED bridge
        BY <4>2 DEF Finished, Resting, Types
      <4> QED BY <2>7, <4>1, <4>2 DEF Detached
    <3> QED BY <2>2, <2>7, <3>1 DEF Detached, rustVars, GenerationsMinted
  <2>8. CASE Attached(b)
    <3> DEFINE k == [bridge[b] EXCEPT !.attaching = 0, !.held = {}]
               r == [k EXCEPT !.attached = [epoch |-> reconciling[b].epoch, gen |-> reconciling[b].gen]]
    <3>1. \A d \in Bridges : reconciling'[d].gen \in {0, reconciling[d].gen}
      <4>1. CASE Finished(b)
        BY <4>1 DEF Finished, Resting, Types
      <4>2. CASE Stage(b, "undoAsked")
        BY <2>1, <4>2 DEF Stage, Types, Reconciles
      <4> QED BY <2>8, <4>1, <4>2 DEF Attached
    <3>2. CASE Handle(b, r, bridge[b].held)
      <4>1. r \in BridgeObjects /\ r.attached.gen = reconciling[b].gen
        <5>1. k \in BridgeObjects
          BY <2>1, BridgeFields, BridgeUpdates
        <5>2. [epoch |-> reconciling[b].epoch, gen |-> reconciling[b].gen] \in Attachments
          BY <2>1 DEF Reconciles, Attachments
        <5>3. r \in BridgeObjects
          BY <5>1, <5>2, BridgeUpdates
        <5> QED BY <5>1, <5>3 DEF BridgeObjects
      <4>2. bridge[b].held \in SUBSET Calls
        BY <2>1 DEF BridgeObjects
      <4>3. r.attached.gen <= minted
        BY <4>1 DEF GenerationsMinted
      <4> QED BY <1>8, <2>8, <3>1, <3>2, <4>1, <4>2, <4>3 DEF Attached, rustVars
    <3>3. CASE bridge' = [bridge EXCEPT ![b] = k] /\ UNCHANGED replies
      <4>1. \A d \in Bridges : bridge'[d].attached = bridge[d].attached
        BY <3>3 DEF Types, BridgeObjects
      <4> QED BY <2>2, <2>8, <3>1, <3>3, <4>1 DEF Attached, rustVars, GenerationsMinted
    <3> QED BY <2>8, <3>2, <3>3 DEF Attached
  <2>9. CASE Undone(b)
    <3>1. \A d \in Bridges : reconciling'[d].gen \in {0, reconciling[d].gen}
      BY <2>9 DEF Undone, Finished, Resting, Types
    <3> QED BY <2>2, <2>9, <3>1 DEF Undone, rustVars, GenerationsMinted
  <2> QED BY <1>12, <2>3, <2>4, <2>5, <2>6, <2>7, <2>8, <2>9 DEF ReconcileStep
<1>13. CASE OpenWorkspace \/ CloseWorkspace \/ FrontLearns \/ UNCHANGED vars
  BY <1>1, <1>13 DEF OpenWorkspace, CloseWorkspace, FrontLearns, vars, rustVars, jsVars, callVars
<1> QED
  BY <1>2, <1>3, <1>4, <1>5, <1>6, <1>7, <1>9, <1>10, <1>11, <1>12, <1>13 DEF Next

(* Every variable keeps its type, and no generation is known to anybody     *)
(* before bridge.rs attach mints it, so none is ever given out twice.       *)
THEOREM TypeCorrect == Spec => []TypeOK
<1>1. Init => GenerationsMinted
  BY DEF Init, GenerationsMinted, Nowhere, Resting
<1>2. Types /\ GenerationsMinted /\ [Next]_vars => GenerationsMinted'
  BY NextMinted
<1> QED BY TypesAndTurns, <1>1, <1>2, PTL DEF Spec, TypeOK

-----------------------------------------------------------------------------
(* What callers are told: BridgeContract.                                  *)

(* The editor has not been sent the request of c. *)
Unsent(c) == call[c].at \in {"idle", "registered"} \/ result[c] = "undelivered"

Knows(b)   == {bridge[b].attached.gen, reconciling[b].gen}
Settled(c) == \E b \in Bridges : c \in bridge[b].replied /\ c \notin bridge[b].working

(* The answer a is on its way to the caller of c, or has reached it. *)
AnswerOf(c, a) ==
    \/ \E m \in replies : m.call = c /\ m.answer = a
    \/ a \in {passing[c], channel[c], result[c]}

UnsentUnknown ==
    \A c \in Calls : Unsent(c) =>
        \A b \in Bridges : inbox[b][c] = 0 /\ c \notin bridge[b].held /\ c \notin bridge[b].replied

(* At most one bridge ever takes a request, and no other can.              *)
OneTaker ==
    \A b \in Bridges : \A c \in bridge[b].replied :
        /\ call[c].gen # 0
        /\ \A d \in Bridges \ {b} : call[c].gen \notin Knows(d) /\ c \notin bridge[d].replied

WorkTaken == \A b \in Bridges : bridge[b].working \subseteq bridge[b].replied

(* The editor acts once, on a request that is answered.                    *)
ActsOnce == \A c \in Calls : acts[c] = 0 \/ (acts[c] = 1 /\ Settled(c))

AnswersTrue ==
    \A c \in Calls, a \in Answers : AnswerOf(c, a) =>
        /\ Settled(c)
        /\ a \in {"not", "changed"} => acts[c] = 0
        /\ a = "did" => acts[c] = 1

ResultsReturned == \A c \in Calls : result[c] # None <=> call[c].at = "returned"

RestKnowsNothing == \A b \in Bridges : reconciling[b].stage = "rest" => reconciling[b].gen = 0

Promises ==
    /\ UnsentUnknown /\ OneTaker /\ WorkTaken /\ ActsOnce /\ AnswersTrue
    /\ ResultsReturned /\ RestKnowsNothing

LEMMA InitPromises == Init => Promises
BY DEF Init, Promises, UnsentUnknown, OneTaker, WorkTaken, ActsOnce, AnswersTrue, AnswerOf, Answers,
       ResultsReturned, RestKnowsNothing, Resting, None

(* What a caller may be told next, and what the editor may do next.        *)
Contracted == [Contract!Next]_<<acts, [c \in Calls |-> Told(result[c])]>>

(* A turn of bridge b, as the object k, in which it handles requests C that *)
(* were sent, while no other bridge knows of a generation.                  *)
LEMMA HandlePromises ==
    ASSUME Types, Promises, NEW b \in Bridges, NEW k \in BridgeObjects, NEW C \in SUBSET Calls,
           Handle(b, k, C),
           k.replied = bridge[b].replied, k.working = bridge[b].working,
           k.held \subseteq bridge[b].held,
           k.attached.gen \in Knows(b), k.attached.gen # 0,
           \A d \in Bridges \ {b} : Knows(d) = {0},
           \A c \in C : ~Unsent(c),
           UNCHANGED <<call, passing, channel, result>>,
           \A d \in Bridges \ {b} : reconciling'[d] = reconciling[d],
           reconciling'[b].gen \in Knows(b) \cup {0},
           RestKnowsNothing',
           \A d \in Bridges, c \in Calls : inbox'[d][c] # 0 => inbox[d][c] # 0
    PROVE  Promises' /\ Contracted
<1>1. PICK T \in SUBSET C, L \in SUBSET Calls, S \in SUBSET Calls : HandleDoes(b, k, T, L, S)
  BY HandleEffects
<1>2. /\ bridge'[b].attached = k.attached
      /\ \A d \in Bridges \ {b} : bridge'[d] = bridge[d]
  BY HandleSides
<1>3. /\ T \subseteq C /\ L \subseteq T /\ S \subseteq T /\ S \cap L = {}
      /\ \A c \in T : c \notin bridge[b].replied /\ call[c].gen = k.attached.gen
      /\ bridge'[b].replied = bridge[b].replied \cup T
      /\ bridge'[b].working = bridge[b].working \cup L
      /\ bridge'[b].held \subseteq bridge[b].held
  BY <1>1 DEF HandleDoes
<1>4. \A c \in T : \A d \in Bridges : c \notin bridge[d].replied
  BY <1>3 DEF Promises, OneTaker
<1>5. \A c \in T : ~Settled(c) /\ acts[c] = 0 /\ \A a \in Answers : ~AnswerOf(c, a)
  BY <1>3, <1>4 DEF Settled, Promises, ActsOnce, AnswersTrue
<1>6. UnsentUnknown'
  BY <1>2, <1>3 DEF Promises, UnsentUnknown, Unsent
<1>7. OneTaker'
  <2>1. Knows(b)' \subseteq Knows(b) \cup {0} /\ \A d \in Bridges \ {b} : Knows(d)' = {0}
    BY <1>2 DEF Knows
  <2>2. ASSUME NEW d \in Bridges, NEW c \in bridge'[d].replied, c \notin T
        PROVE  /\ call'[c].gen # 0
               /\ \A f \in Bridges \ {d} : call'[c].gen \notin Knows(f)' /\ c \notin bridge'[f].replied
    <3>1. c \in bridge[d].replied
      BY <1>2, <1>3, <2>2
    <3> QED BY <1>2, <1>3, <2>1, <2>2, <3>1 DEF Promises, OneTaker
  <2>3. ASSUME NEW d \in Bridges, NEW c \in bridge'[d].replied, c \in T
        PROVE  /\ call'[c].gen # 0
               /\ \A f \in Bridges \ {d} : call'[c].gen \notin Knows(f)' /\ c \notin bridge'[f].replied
    <3>1. d = b
      BY <1>2, <1>4, <2>3
    <3> QED BY <1>2, <1>3, <1>4, <2>1, <2>3, <3>1
  <2> QED BY <2>2, <2>3 DEF OneTaker
<1>8. WorkTaken'
  BY <1>2, <1>3 DEF Promises, WorkTaken
<1>9. \A c \in Calls : Settled(c) => Settled(c)'
  BY <1>2, <1>3, <1>4 DEF Settled
<1>10. \A c \in T \ L : Settled(c)'
  <2>1. \A c \in T \ L : c \in bridge'[b].replied /\ c \notin bridge'[b].working
    BY <1>3, <1>4 DEF Promises, WorkTaken
  <2> QED BY <2>1 DEF Settled
<1>11. \A c \in Calls : acts'[c] = IF c \in S THEN acts[c] + 1 ELSE acts[c]
  BY <1>1 DEF HandleDoes
<1>12. ActsOnce'
  BY <1>3, <1>5, <1>9, <1>10, <1>11 DEF Promises, ActsOnce
<1>13. AnswersTrue'
  <2> SUFFICES ASSUME NEW c \in Calls, NEW a \in Answers, AnswerOf(c, a)'
               PROVE  /\ Settled(c)'
                      /\ a \in {"not", "changed"} => acts'[c] = 0
                      /\ a = "did" => acts'[c] = 1
    BY DEF AnswersTrue
  <2>1. CASE AnswerOf(c, a)
    BY <1>5, <1>3, <1>9, <1>11, <2>1 DEF Promises, AnswersTrue
  <2>2. CASE ~AnswerOf(c, a)
    <3>1. PICK m \in replies' : m \notin replies /\ m.call = c /\ m.answer = a
      BY <2>2 DEF AnswerOf
    <3>2. c \in T \ L /\ (a \in {"not", "changed"} => c \notin S) /\ (a = "did" => c \in S)
      BY <1>1, <3>1 DEF HandleDoes
    <3> QED BY <1>5, <1>10, <1>11, <3>2
  <2> QED BY <2>1, <2>2
<1>14. Contracted
  <2>1. acts' = [c \in Calls |-> IF c \in S THEN 1 ELSE acts[c]]
    <3>1. acts' = [c \in Calls |-> IF c \in S THEN acts[c] + 1 ELSE acts[c]]
      BY <1>1 DEF HandleDoes
    <3>2. \A c \in S : acts[c] + 1 = 1
      BY <1>3, <1>5
    <3> QED BY <3>1, <3>2
  <2>2. \A c \in S : acts[c] = 0 /\ Told(result[c]) \in {"nothing", "lost"}
    <3>1. ASSUME NEW c \in S
          PROVE  result[c] \notin Answers /\ result[c] # "undelivered"
      BY <1>3, <1>5, <3>1 DEF AnswerOf, Unsent
    <3> QED BY <1>3, <1>5, <3>1 DEF Told, Answers
  <2>3. S \in SUBSET Calls
    OBVIOUS
  <2>4. Contract!Act
    BY <2>1, <2>2, <2>3 DEF Contract!Act
  <2> QED BY <2>4 DEF Contracted, Contract!Next
<1> QED BY <1>6, <1>7, <1>8, <1>12, <1>13, <1>14 DEF Promises, ResultsReturned

(* A step after which nobody knows more of a request than before. *)
LEMMA PromisesFrame ==
    ASSUME Types, GenerationsMinted, Promises,
           UNCHANGED <<acts, result>>,
           \A c \in Calls : /\ call'[c].gen = call[c].gen \/ Unsent(c)
                            /\ call'[c].at = "returned" <=> call[c].at = "returned"
                            /\ Unsent(c)' => Unsent(c)
                            /\ \A a \in Answers : AnswerOf(c, a)' => AnswerOf(c, a)
                            /\ \A d \in Bridges : inbox'[d][c] # 0 => ~Unsent(c)',
           \A d \in Bridges : /\ bridge'[d].replied = bridge[d].replied
                              /\ bridge'[d].working = bridge[d].working
                              /\ \A c \in bridge'[d].held : c \in bridge[d].held \/ ~Unsent(c)
                              /\ \A g \in Knows(d)' : g \in Knows(d) \cup {0} \/ g > minted
                              /\ reconciling'[d].stage = "rest" => reconciling'[d].gen = 0
    PROVE  Promises' /\ Contracted
<1>1. \A d \in Bridges : bridge[d].replied \subseteq Calls
  BY DEF Types, BridgeObjects
<1>2. UnsentUnknown'
  BY DEF Promises, UnsentUnknown
<1>3. ASSUME NEW b \in Bridges, NEW c \in bridge[b].replied
      PROVE  /\ call'[c].gen # 0
             /\ \A d \in Bridges \ {b} : call'[c].gen \notin Knows(d)' /\ c \notin bridge'[d].replied
  <2>1. c \in Calls /\ ~Unsent(c) /\ call'[c].gen = call[c].gen
    BY <1>1, <1>3 DEF Promises, UnsentUnknown
  <2>2. /\ call[c].gen # 0
        /\ \A d \in Bridges \ {b} : call[c].gen \notin Knows(d) /\ c \notin bridge[d].replied
    BY <1>3 DEF Promises, OneTaker
  <2>3. call[c].gen <= minted /\ call[c].gen \in Nat /\ minted \in Nat
    BY <2>1 DEF GenerationsMinted, Types, CallStates
  <2>4. ~(call[c].gen > minted)
    BY <2>3
  <2> QED BY <2>1, <2>2, <2>4
<1>4. OneTaker'
  <2>1. \A b \in Bridges : bridge'[b].replied = bridge[b].replied
    OBVIOUS
  <2> QED BY <1>3, <2>1 DEF OneTaker
<1>5. \A c \in Calls : Settled(c)' <=> Settled(c)
  BY DEF Settled
<1>6. WorkTaken' /\ ActsOnce' /\ AnswersTrue' /\ ResultsReturned' /\ RestKnowsNothing'
  BY <1>5 DEF Promises, WorkTaken, ActsOnce, AnswersTrue, ResultsReturned, RestKnowsNothing
<1>7. Contracted
  BY DEF Contracted
<1> QED BY <1>2, <1>4, <1>6, <1>7 DEF Promises

(* A caller is told an answer it received, that its request never left, or  *)
(* nothing that binds.                                                      *)
LEMMA ReturnPromises ==
    ASSUME Types, Promises, NEW c \in Calls,
           NEW r \in Answers \cup {"undelivered", "ended", "timeout"},
           call[c].at # "returned", Return(c, r),
           UNCHANGED <<acts, bridge, inbox, reconciling, replies, passing, channel>>,
           r \in Answers => channel[c] = r,
           r = "undelivered" => Unsent(c)
    PROVE  Promises' /\ Contracted
<1>1. /\ \A d \in Calls : call'[d].gen = call[d].gen
      /\ call'[c].at = "returned" /\ result'[c] = r /\ result[c] = None
      /\ \A d \in Calls \ {c} : call'[d] = call[d] /\ result'[d] = result[d]
  <2>1. result[c] = None
    BY DEF Promises, ResultsReturned
  <2>2. call' = [call EXCEPT ![c].at = "returned"] /\ result' = [result EXCEPT ![c] = r]
    BY DEF Return
  <2> QED BY <2>1, <2>2 DEF Types, CallStates
<1>2. \A d \in Calls : Unsent(d)' => Unsent(d)
  BY <1>1 DEF Unsent
<1>3. \A d \in Calls, a \in Answers : AnswerOf(d, a)' => AnswerOf(d, a)
  BY <1>1 DEF AnswerOf
<1>4. \A d \in Calls : Settled(d)' <=> Settled(d)
  BY DEF Settled
<1>5. UnsentUnknown' /\ WorkTaken' /\ RestKnowsNothing'
  BY <1>2 DEF Promises, UnsentUnknown, WorkTaken, RestKnowsNothing
<1>6. OneTaker'
  <2>1. \A b \in Bridges : bridge[b].replied \subseteq Calls
    BY DEF Types, BridgeObjects
  <2> QED BY <1>1, <2>1 DEF Promises, OneTaker, Knows
<1>7. ActsOnce' /\ AnswersTrue'
  BY <1>3, <1>4 DEF Promises, ActsOnce, AnswersTrue
<1>8. ResultsReturned'
  BY <1>1 DEF Promises, ResultsReturned, Answers, None
<1>9. Contracted
  <2> DEFINE told == [d \in Calls |-> Told(result[d])]
  <2>1. told[c] = "nothing" /\ told' = [told EXCEPT ![c] = Told(r)]
    <3>1. told[c] = "nothing"
      BY <1>1 DEF Told, None
    <3>2. told' = [d \in Calls |-> IF d = c THEN Told(r) ELSE told[d]]
      <4>1. \A d \in Calls : Told(result'[d]) = IF d = c THEN Told(r) ELSE Told(result[d])
        BY <1>1
      <4>2. told' = [d \in Calls |-> Told(result'[d])]
        BY DEF Told
      <4> HIDE DEF told
      <4>3. \A d \in Calls : told[d] = Told(result[d])
        BY DEF told
      <4> QED BY <4>1, <4>2, <4>3
    <3>3. told' = [told EXCEPT ![c] = Told(r)]
      BY <3>2
    <3> QED BY <3>1, <3>3
  <2>2. /\ Told(r) \in {"undelivered", "changed", "not", "did", "lost"}
        /\ Told(r) \in {"changed", "not", "did"} => Told(r) = r /\ r \in Answers
        /\ Told(r) = "undelivered" => r = "undelivered"
    BY DEF Told, Answers, None
  <2>3. Told(r) \in {"changed", "not"} => acts[c] = 0
    BY <2>2 DEF Promises, AnswersTrue, AnswerOf
  <2>4. Told(r) = "did" => acts[c] = 1
    BY <2>2 DEF Promises, AnswersTrue, AnswerOf
  <2>5. Told(r) = "undelivered" => acts[c] = 0
    BY <2>2 DEF Promises, UnsentUnknown, ActsOnce, Settled
  <2>6. Contract!Tell(c)
    BY <2>1, <2>2, <2>3, <2>4, <2>5 DEF Contract!Tell, Contract!Words
  <2> QED BY <2>6 DEF Contracted, Contract!Next
<1> QED BY <1>5, <1>6, <1>7, <1>8, <1>9 DEF Promises

(* While a bridge is attached, or its reconcile runs, no other bridge knows *)
(* of a generation.                                                         *)
LEMMA KnowsAlone ==
    ASSUME Types, Serialized, Sides, RestKnowsNothing, NEW b \in Bridges,
           bridge[b].attached.gen # 0 \/ reconciling[b].stage # "rest"
    PROVE  \A d \in Bridges \ {b} : Knows(d) = {0}
<1>1. ASSUME NEW d \in Bridges \ {b}
      PROVE  bridge[d].attached.gen = 0
  <2>1. CASE tail = <<>>
    BY <2>1 DEF Sides, OneLive, BelievesRightly, Serialized
  <2>2. CASE tail # <<>>
    BY <2>2 DEF Sides, BelievesRightly, Serialized
  <2> QED BY <2>1, <2>2
<1>2. ASSUME NEW d \in Bridges \ {b}
      PROVE  reconciling[d].gen = 0
  <2>1. CASE reconciling[d].stage = "rest"
    BY <2>1 DEF RestKnowsNothing
  <2>2. CASE reconciling[d].stage # "rest"
    BY <2>2 DEF Sides, BelievesRightly, Serialized
  <2> QED BY <2>1, <2>2
<1> QED BY <1>1, <1>2 DEF Knows

(* An action of the calling threads or of Rust that returns no call. *)
LEMMA ThreadPromises ==
    ASSUME Types, GenerationsMinted, Promises,
           UNCHANGED <<acts, result, bridge, reconciling>>,
           \A c \in Calls : /\ call'[c].gen = call[c].gen \/ Unsent(c)
                            /\ call'[c].at = "returned" <=> call[c].at = "returned"
                            /\ Unsent(c)' => Unsent(c)
                            /\ \A a \in Answers : AnswerOf(c, a)' => AnswerOf(c, a)
                            /\ \A d \in Bridges : inbox'[d][c] # 0 => ~Unsent(c)'
    PROVE  Promises' /\ Contracted
<1>1. \A d \in Bridges : Knows(d)' = Knows(d)
  BY DEF Knows
<1> QED BY <1>1, PromisesFrame DEF Promises, RestKnowsNothing

(* An action of the webview, or of its attach commands, that hands no       *)
(* request to the editor.                                                   *)
LEMMA WebviewPromises ==
    ASSUME Types, GenerationsMinted, Promises,
           UNCHANGED <<acts, result, call, passing, channel, replies>>,
           \A c \in Calls, d \in Bridges : inbox'[d][c] # 0 => inbox[d][c] # 0,
           \A d \in Bridges : /\ bridge'[d].replied = bridge[d].replied
                              /\ bridge'[d].working = bridge[d].working
                              /\ \A c \in bridge'[d].held : c \in bridge[d].held \/ ~Unsent(c)
                              /\ bridge'[d].attached.gen \in Knows(d) \cup {0}
                              /\ reconciling'[d].gen \in Knows(d) \cup {0} \/ reconciling'[d].gen > minted
                              /\ reconciling'[d].stage = "rest" => reconciling'[d].gen = 0
    PROVE  Promises' /\ Contracted
<1>1. \A c \in Calls : (Unsent(c)' <=> Unsent(c)) /\ \A a \in Answers : AnswerOf(c, a)' <=> AnswerOf(c, a)
  BY DEF Unsent, AnswerOf
<1>2. \A c \in Calls, d \in Bridges : inbox'[d][c] # 0 => ~Unsent(c)'
  BY <1>1 DEF Promises, UnsentUnknown
<1>3. \A d \in Bridges : \A g \in Knows(d)' : g \in Knows(d) \cup {0} \/ g > minted
  BY DEF Knows
<1> QED BY <1>1, <1>2, <1>3, PromisesFrame

LEMMA CallPromises ==
    ASSUME Types, GenerationsMinted, Promises, NEW c \in Calls, CallStep(c)
    PROVE  Promises' /\ Contracted
<1>1. call[c] \in CallStates /\ channel[c] \in Answers \cup {None}
  BY DEF Types
<1>2. CASE Emit(c)
  <2>1. /\ call'[c].at = "waiting" /\ call[c].at = "registered"
        /\ \A d \in Calls \ {c} : call'[d] = call[d]
        /\ \A d \in Calls : call'[d].gen = call[d].gen
    BY <1>1, <1>2 DEF Emit, Types, CallStates
  <2>2. \A d \in Calls \ {c} : \A b \in Bridges : inbox'[b][d] = inbox[b][d]
    BY <1>2 DEF Emit, Types
  <2>3. result[c] = None
    BY <2>1 DEF Promises, ResultsReturned
  <2>4. UNCHANGED <<acts, result, bridge, reconciling, passing, channel, replies>>
    BY <1>2 DEF Emit
  <2>5. \A d \in Calls : Unsent(d)' => Unsent(d)
    BY <2>1, <2>4 DEF Unsent
  <2>6. ~Unsent(c)'
    BY <2>1, <2>3, <2>4 DEF Unsent, None
  <2>7. \A d \in Calls \ {c} : Unsent(d)' <=> Unsent(d)
    BY <2>1, <2>4 DEF Unsent
  <2>8. \A d \in Calls, b \in Bridges : inbox'[b][d] # 0 => ~Unsent(d)'
    BY <2>2, <2>6, <2>7 DEF Promises, UnsentUnknown
  <2>9. \A d \in Calls, a \in Answers : AnswerOf(d, a)' => AnswerOf(d, a)
    BY <2>4 DEF AnswerOf
  <2> QED BY <2>1, <2>4, <2>5, <2>8, <2>9, ThreadPromises
<1>3. CASE EmitFails(c)
  <2>1. Unsent(c) /\ call[c].at # "returned"
    BY <1>3 DEF EmitFails, Unsent
  <2> QED BY <1>3, <2>1, ReturnPromises DEF EmitFails, jsVars, Answers
<1>4. CASE Receive(c)
  <2>1. channel[c] \in Answers
    BY <1>1, <1>4 DEF Receive
  <2> QED BY <1>4, <2>1, ReturnPromises DEF Receive, jsVars, Answers
<1>5. CASE HangUp(c)
  BY <1>5, ReturnPromises DEF HangUp, jsVars, Answers
<1>6. CASE TimeOut(c) \/ Withdraw(c)
  <2>1. /\ call'[c].at \in {"late", "withdrawn"} /\ call[c].at \in {"waiting", "late"}
        /\ \A d \in Calls \ {c} : call'[d] = call[d]
        /\ \A d \in Calls : call'[d].gen = call[d].gen
    <3>1. CASE TimeOut(c)
      BY <1>1, <3>1 DEF TimeOut, MayTimeOut, Types, CallStates
    <3>2. CASE Withdraw(c)
      BY <1>1, <3>2 DEF Withdraw, Types, CallStates
    <3> QED BY <1>6, <3>1, <3>2
  <2>2. UNCHANGED <<acts, result, bridge, reconciling, passing, channel, replies, inbox>>
    BY <1>6 DEF TimeOut, Withdraw, jsVars
  <2>3. \A d \in Calls : Unsent(d)' <=> Unsent(d)
    BY <2>1, <2>2 DEF Unsent
  <2>4. \A d \in Calls, b \in Bridges : inbox'[b][d] # 0 => ~Unsent(d)'
    BY <2>2, <2>3 DEF Promises, UnsentUnknown
  <2>5. \A d \in Calls, a \in Answers : AnswerOf(d, a)' => AnswerOf(d, a)
    BY <2>2 DEF AnswerOf
  <2> QED BY <2>1, <2>2, <2>3, <2>4, <2>5, ThreadPromises
<1>7. CASE TryOnce(c)
  <2>1. CASE channel[c] # None
    <3>1. channel[c] \in Answers
      BY <1>1, <2>1
    <3> QED BY <1>7, <2>1, <3>1, ReturnPromises DEF TryOnce, jsVars, Answers
  <2>2. CASE channel[c] = None
    BY <1>7, <2>2, ReturnPromises DEF TryOnce, jsVars, Answers
  <2> QED BY <2>1, <2>2
<1> QED BY <1>2, <1>3, <1>4, <1>5, <1>6, <1>7 DEF CallStep

LEMMA RegisterPromises ==
    ASSUME Types, GenerationsMinted, Promises, NEW c \in Calls, NEW e \in 1..MaxEpoch,
           Register(c, e) \/ RefuseCall(c, e)
    PROVE  Promises' /\ Contracted
<1>1. CASE Register(c, e)
  <2>1. /\ call'[c].at = "registered" /\ call[c].at = "idle"
        /\ \A d \in Calls \ {c} : call'[d] = call[d]
    BY <1>1 DEF Register, Types
  <2>2. UNCHANGED <<acts, result, bridge, reconciling, passing, channel, replies, inbox>>
    BY <1>1 DEF Register, jsVars
  <2>3. \A d \in Calls : Unsent(d)' <=> Unsent(d)
    BY <2>1, <2>2 DEF Unsent
  <2>4. Unsent(c)
    BY <2>1 DEF Unsent
  <2>5. \A d \in Calls, b \in Bridges : inbox'[b][d] # 0 => ~Unsent(d)'
    BY <2>2, <2>3 DEF Promises, UnsentUnknown
  <2>6. \A d \in Calls, a \in Answers : AnswerOf(d, a)' => AnswerOf(d, a)
    BY <2>2 DEF AnswerOf
  <2> QED BY <2>1, <2>2, <2>3, <2>4, <2>5, <2>6, ThreadPromises
<1>2. CASE RefuseCall(c, e)
  <2>1. Unsent(c) /\ call[c].at # "returned"
    BY <1>2 DEF RefuseCall, Unsent
  <2> QED BY <1>2, <2>1, ReturnPromises DEF RefuseCall, jsVars, Answers
<1> QED BY <1>1, <1>2

LEMMA DeliverPromises ==
    ASSUME Types, GenerationsMinted, Promises,
           \/ \E c \in Calls : SendReply(c)
           \/ \E m \in replies : DeliverReply(m)
    PROVE  Promises' /\ Contracted
<1>1. UNCHANGED <<acts, result, bridge, reconciling, inbox, call>>
  BY DEF SendReply, DeliverReply, jsVars
<1>2. \A c \in Calls : Unsent(c)' <=> Unsent(c)
  BY <1>1 DEF Unsent
<1>3. \A d \in Calls, b \in Bridges : inbox'[b][d] # 0 => ~Unsent(d)'
  BY <1>1, <1>2 DEF Promises, UnsentUnknown
<1>4. ASSUME NEW c \in Calls, NEW a \in Answers, AnswerOf(c, a)'
      PROVE  AnswerOf(c, a)
  <2>1. ASSUME NEW d \in Calls, SendReply(d)
        PROVE  AnswerOf(c, a)
    <3>1. channel'[c] \in {channel[c], passing[c], None} /\ passing'[c] \in {passing[c], None}
      BY <2>1 DEF SendReply, Types
    <3> QED BY <1>1, <1>4, <2>1, <3>1 DEF SendReply, AnswerOf, Answers, None
  <2>2. ASSUME NEW m \in replies, DeliverReply(m)
        PROVE  AnswerOf(c, a)
    <3>1. passing'[c] = passing[c] \/ (passing'[c] = m.answer /\ m.call = c)
      BY <2>2 DEF DeliverReply, Types, Messages
    <3> QED BY <1>1, <1>4, <2>2, <3>1 DEF DeliverReply, AnswerOf
  <2> QED BY <2>1, <2>2
<1> QED BY <1>1, <1>2, <1>3, <1>4, ThreadPromises

(* A lasting answer: the editor acts now, or never on this request. *)
LEMMA ProceedPromises ==
    ASSUME Types, Promises, NEW b \in Bridges, NEW c \in Calls, Proceed(b, c)
    PROVE  Promises' /\ Contracted
<1>1. bridge[b] \in BridgeObjects
  BY DEF Types
<1>2. /\ c \in bridge[b].working /\ bridge'[b].working = bridge[b].working \ {c}
      /\ bridge'[b].replied = bridge[b].replied /\ bridge'[b].held = bridge[b].held
      /\ bridge'[b].attached = bridge[b].attached
      /\ \A d \in Bridges \ {b} : bridge'[d] = bridge[d]
  BY <1>1 DEF Proceed, Types, BridgeObjects
<1>3. UNCHANGED <<call, passing, channel, result, inbox, reconciling>>
  BY DEF Proceed, rustVars
<1>4. c \in bridge[b].replied /\ \A d \in Bridges \ {b} : c \notin bridge[d].replied
  BY <1>2 DEF Promises, OneTaker, WorkTaken
<1>5. ~Settled(c) /\ acts[c] = 0 /\ ~Unsent(c) /\ \A a \in Answers : ~AnswerOf(c, a)
  BY <1>2, <1>4 DEF Settled, Promises, ActsOnce, AnswersTrue, UnsentUnknown
<1>6. Settled(c)' /\ \A d \in Calls : Settled(d) => Settled(d)'
  BY <1>2, <1>4 DEF Settled
<1>7. /\ \A d \in Calls \ {c} : acts'[d] = acts[d]
      /\ \E a \in Answers : /\ replies' = replies \cup {Reply(c, a)}
                            /\ \/ acts' = [acts EXCEPT ![c] = 1] /\ a \in {"did", "internal"}
                               \/ acts' = acts /\ a \in {"not", "internal"}
  <2>1. acts[c] + 1 = 1
    BY <1>5
  <2> QED BY <2>1 DEF Proceed, Types, Answers
<1>8. PICK a \in Answers : /\ replies' = replies \cup {Reply(c, a)}
                           /\ \/ acts' = [acts EXCEPT ![c] = 1] /\ a \in {"did", "internal"}
                              \/ acts' = acts /\ a \in {"not", "internal"}
  BY <1>7
<1>9. acts'[c] \in {0, 1} /\ (a = "did" => acts'[c] = 1) /\ (a \in {"not", "changed"} => acts'[c] = 0)
  BY <1>5, <1>8 DEF Types
<1>10. UnsentUnknown' /\ WorkTaken' /\ ResultsReturned' /\ RestKnowsNothing'
  BY <1>2, <1>3 DEF Promises, UnsentUnknown, Unsent, WorkTaken, ResultsReturned, RestKnowsNothing
<1>11. OneTaker'
  <2>1. \A d \in Bridges : Knows(d)' = Knows(d) /\ bridge'[d].replied = bridge[d].replied
    BY <1>2, <1>3 DEF Knows
  <2> QED BY <1>3, <2>1 DEF Promises, OneTaker
<1>12. ActsOnce'
  BY <1>6, <1>7, <1>9 DEF Promises, ActsOnce
<1>13. AnswersTrue'
  <2> SUFFICES ASSUME NEW d \in Calls, NEW w \in Answers, AnswerOf(d, w)'
               PROVE  /\ Settled(d)'
                      /\ w \in {"not", "changed"} => acts'[d] = 0
                      /\ w = "did" => acts'[d] = 1
    BY DEF AnswersTrue
  <2>1. CASE AnswerOf(d, w)
    BY <1>5, <1>6, <1>7, <2>1 DEF Promises, AnswersTrue
  <2>2. CASE ~AnswerOf(d, w)
    <3>1. d = c /\ w = a
      BY <1>3, <1>8, <2>2 DEF AnswerOf, Reply
    <3> QED BY <1>6, <1>9, <3>1
  <2> QED BY <2>1, <2>2
<1>14. Contracted
  <2>1. CASE acts' = acts
    BY <1>3, <2>1 DEF Contracted
  <2>2. CASE acts' = [acts EXCEPT ![c] = 1]
    <3>1. result[c] \notin Answers /\ result[c] # "undelivered"
      BY <1>5 DEF AnswerOf, Unsent
    <3>2. Told(result[c]) \in {"nothing", "lost"}
      BY <3>1 DEF Told, Answers
    <3>3. acts' = [d \in Calls |-> IF d \in {c} THEN 1 ELSE acts[d]]
      BY <2>2 DEF Types
    <3>4. Contract!Act
      BY <1>3, <1>5, <3>2, <3>3 DEF Contract!Act
    <3> QED BY <3>4 DEF Contracted, Contract!Next
  <2> QED BY <1>8, <2>1, <2>2
<1> QED BY <1>10, <1>11, <1>12, <1>13, <1>14 DEF Promises

LEMMA ReconcilePromises ==
    ASSUME Types, Serialized, Sides, GenerationsMinted, Promises, NEW b \in Bridges, ReconcileStep(b)
    PROVE  Promises' /\ Contracted
<1>1. bridge[b] \in BridgeObjects /\ reconciling[b] \in Reconciles /\ minted \in Nat
  BY DEF Types
<1>2. \A d \in Bridges : reconciling[d].stage = "rest" => reconciling[d].gen = 0
  BY DEF Promises, RestKnowsNothing
<1>3. ASSUME UNCHANGED <<acts, result, call, passing, channel, replies, inbox>>,
             \A d \in Bridges : /\ bridge'[d].replied = bridge[d].replied
                                /\ bridge'[d].working = bridge[d].working
                                /\ bridge'[d].held \subseteq bridge[d].held
                                /\ bridge'[d].attached.gen \in {0, bridge[d].attached.gen},
             \A d \in Bridges \ {b} : reconciling'[d] = reconciling[d],
             reconciling'[b].gen \in {0, bridge[b].attached.gen, reconciling[b].gen, minted + 1},
             reconciling'[b].stage = "rest" => reconciling'[b].gen = 0
      PROVE  Promises' /\ Contracted
  <2>1. minted + 1 > minted
    BY <1>1
  <2> QED BY <1>2, <1>3, <2>1, WebviewPromises DEF Knows
<1>4. CASE Reconcile(b)
  <2>1. /\ \A d \in Bridges : /\ bridge'[d].replied = bridge[d].replied
                              /\ bridge'[d].working = bridge[d].working
                              /\ bridge'[d].held \subseteq bridge[d].held
                              /\ bridge'[d].attached.gen \in {0, bridge[d].attached.gen}
        /\ \A d \in Bridges \ {b} : reconciling'[d] = reconciling[d]
        /\ reconciling'[b].gen \in {0, bridge[b].attached.gen}
        /\ reconciling'[b].stage = "rest" => reconciling'[b].gen = 0
    <3>1. CASE /\ bridge' = [bridge EXCEPT ![b].attached = Nowhere]
               /\ reconciling' = [reconciling EXCEPT ![b] =
                        [stage |-> "detachAsked", epoch |-> Wanted(b), gen |-> bridge[b].attached.gen]]
      BY <1>1, <3>1 DEF Types, BridgeObjects, Nowhere
    <3>2. CASE /\ bridge' = [bridge EXCEPT ![b].attaching = Wanted(b), ![b].held = {}]
               /\ AskAttach(b, Wanted(b))
      BY <1>1, <3>2 DEF AskAttach, Types, BridgeObjects
    <3>3. CASE Finished(b) /\ UNCHANGED bridge
      BY <1>1, <3>3 DEF Finished, Resting, Types
    <3> QED BY <1>4, <3>1, <3>2, <3>3 DEF Reconcile
  <2> QED BY <1>3, <1>4, <2>1 DEF Reconcile, rustVars
<1>5. CASE AttachReads(b)
  <2>1. /\ \A d \in Bridges \ {b} : reconciling'[d] = reconciling[d]
        /\ reconciling'[b].gen = reconciling[b].gen /\ reconciling'[b].stage # "rest"
    BY <1>1, <1>5 DEF AttachReads, Stage, Types, Reconciles
  <2> QED BY <1>3, <1>5, <2>1 DEF AttachReads, rustVars
<1>6. CASE AttachMints(b)
  <2>1. reconciling' = [reconciling EXCEPT ![b].stage = "attachAnswered", ![b].gen = minted + 1]
    BY <1>6 DEF AttachMints
  <2>2. /\ \A d \in Bridges \ {b} : reconciling'[d] = reconciling[d]
        /\ reconciling'[b].gen = minted + 1 /\ reconciling'[b].stage # "rest"
    BY <1>1, <2>1 DEF Types, Reconciles
  <2> QED BY <1>3, <1>6, <2>2 DEF AttachMints, callVars
<1>7. CASE Detach(b)
  <2>1. /\ \A d \in Bridges \ {b} : reconciling'[d] = reconciling[d]
        /\ reconciling'[b].gen = reconciling[b].gen /\ reconciling'[b].stage # "rest"
    BY <1>1, <1>7 DEF Detach, Stage, Types, Reconciles
  <2> QED BY <1>3, <1>7, <2>1 DEF Detach, callVars
<1>8. CASE Detached(b)
  <2>1. /\ \A d \in Bridges : /\ bridge'[d].replied = bridge[d].replied
                              /\ bridge'[d].working = bridge[d].working
                              /\ bridge'[d].held \subseteq bridge[d].held
                              /\ bridge'[d].attached = bridge[d].attached
        /\ \A d \in Bridges \ {b} : reconciling'[d] = reconciling[d]
        /\ reconciling'[b].gen = 0
    <3>1. CASE AskAttach(b, reconciling[b].epoch)
               /\ bridge' = [bridge EXCEPT ![b].attaching = reconciling[b].epoch, ![b].held = {}]
      BY <1>1, <3>1 DEF AskAttach, Types, BridgeObjects
    <3>2. CASE Finished(b) /\ UNCHANGED bridge
      BY <1>1, <3>2 DEF Finished, Resting, Types
    <3> QED BY <1>8, <3>1, <3>2 DEF Detached
  <2> QED BY <1>3, <1>8, <2>1 DEF Detached, rustVars
<1>9. CASE Undone(b)
  <2>1. /\ \A d \in Bridges \ {b} : reconciling'[d] = reconciling[d]
        /\ reconciling'[b].gen = 0
    BY <1>1, <1>9 DEF Undone, Finished, Resting, Types
  <2> QED BY <1>3, <1>9, <2>1 DEF Undone, rustVars
<1>10. CASE Attached(b)
  <2> DEFINE k == [bridge[b] EXCEPT !.attaching = 0, !.held = {}]
             r == [k EXCEPT !.attached = [epoch |-> reconciling[b].epoch, gen |-> reconciling[b].gen]]
  <2>1. /\ \A d \in Bridges \ {b} : reconciling'[d] = reconciling[d]
        /\ reconciling'[b].gen \in {0, reconciling[b].gen}
        /\ reconciling'[b].stage = "rest" => reconciling'[b].gen = 0
    <3>1. CASE Finished(b)
      BY <1>1, <3>1 DEF Finished, Resting, Types
    <3>2. CASE Stage(b, "undoAsked")
      BY <1>1, <3>2 DEF Stage, Types, Reconciles
    <3> QED BY <1>10, <3>1, <3>2 DEF Attached
  <2>2. CASE bridge' = [bridge EXCEPT ![b] = k] /\ UNCHANGED <<replies, acts>>
    <3>1. \A d \in Bridges : /\ bridge'[d].replied = bridge[d].replied
                             /\ bridge'[d].working = bridge[d].working
                             /\ bridge'[d].held \subseteq bridge[d].held
                             /\ bridge'[d].attached = bridge[d].attached
      BY <1>1, <2>2 DEF Types, BridgeObjects
    <3> QED BY <1>3, <1>10, <2>1, <2>2, <3>1 DEF Attached, rustVars
  <2>3. CASE reconciling[b].gen # 0 /\ Handle(b, r, bridge[b].held)
    <3>1. k \in BridgeObjects
      BY <1>1, BridgeFields, BridgeUpdates
    <3>2. [epoch |-> reconciling[b].epoch, gen |-> reconciling[b].gen] \in Attachments
      BY <1>1 DEF Reconciles, Attachments
    <3>3. r \in BridgeObjects
      BY <3>1, <3>2, BridgeUpdates
    <3>4. /\ r.replied = bridge[b].replied /\ r.working = bridge[b].working /\ r.held = {}
          /\ r.attached.gen = reconciling[b].gen
      BY <1>1, <3>1 DEF BridgeObjects
    <3>5. \A d \in Bridges \ {b} : Knows(d) = {0}
      BY <1>10, KnowsAlone DEF Attached, Promises
    <3>6. bridge[b].held \in SUBSET Calls /\ \A c \in bridge[b].held : ~Unsent(c)
      BY <1>1 DEF BridgeObjects, Promises, UnsentUnknown
    <3>7. RestKnowsNothing'
      BY <1>2, <2>1 DEF RestKnowsNothing
    <3>8. UNCHANGED <<call, passing, channel, result, inbox>>
      BY <1>10 DEF Attached, rustVars
    <3> HIDE DEF r, k
    <3> QED BY <2>1, <2>3, <3>3, <3>4, <3>5, <3>6, <3>7, <3>8, HandlePromises DEF Knows
  <2> QED BY <1>10, <2>2, <2>3 DEF Attached
<1> QED BY <1>4, <1>5, <1>6, <1>7, <1>8, <1>9, <1>10 DEF ReconcileStep

LEMMA NextPromises ==
    Types /\ Serialized /\ Sides /\ GenerationsMinted /\ Promises /\ [Next]_vars
        => Promises' /\ Contracted
<1> SUFFICES ASSUME Types, Serialized, Sides, GenerationsMinted, Promises, [Next]_vars
             PROVE  Promises' /\ Contracted
  OBVIOUS
<1>1. \A d \in Bridges : reconciling[d].stage = "rest" => reconciling[d].gen = 0
  BY DEF Promises, RestKnowsNothing
<1>2. CASE OpenWorkspace \/ CloseWorkspace \/ FrontLearns \/ UNCHANGED vars
  <2>1. UNCHANGED <<acts, result, bridge, reconciling, inbox, call, passing, channel, replies>>
    BY <1>2 DEF OpenWorkspace, CloseWorkspace, FrontLearns, vars, rustVars, jsVars, callVars
  <2> QED BY <1>1, <2>1, WebviewPromises DEF Knows
<1>3. ASSUME NEW b \in Bridges,
             \/ Mount(b) \/ Listen(b) \/ Dispose(b)
             \/ \E e \in 0..MaxEpoch : SetReady(b, e)
      PROVE  Promises' /\ Contracted
  <2>1. \A d \in Bridges : /\ bridge'[d].replied = bridge[d].replied
                           /\ bridge'[d].working = bridge[d].working
                           /\ bridge'[d].held = bridge[d].held
                           /\ bridge'[d].attached = bridge[d].attached
    <3>1. CASE Mount(b)
      BY <3>1 DEF Mount, Types, BridgeObjects
    <3>2. CASE Listen(b)
      BY <3>2 DEF Listen, Types, BridgeObjects
    <3>3. CASE Dispose(b)
      BY <3>3 DEF Dispose, Types, BridgeObjects
    <3>4. CASE \E e \in 0..MaxEpoch : SetReady(b, e)
      BY <3>4 DEF SetReady, Types, BridgeObjects
    <3> QED BY <1>3, <3>1, <3>2, <3>3, <3>4
  <2>2. UNCHANGED <<acts, result, reconciling, inbox, call, passing, channel, replies>>
    BY <1>3 DEF Mount, Listen, Dispose, SetReady, rustVars
  <2> QED BY <1>1, <2>1, <2>2, WebviewPromises DEF Knows
<1>4. ASSUME NEW b \in Bridges, NEW c \in Calls, Come(b, c)
      PROVE  /\ ~Unsent(c)
             /\ \A d \in Bridges, f \in Calls : inbox'[d][f] # 0 => inbox[d][f] # 0
  <2>1. inbox[b][c] # 0
    BY <1>4 DEF Come, Types
  <2>2. inbox' = [inbox EXCEPT ![b][c] = @ - 1]
    BY <1>4 DEF Come
  <2>3. \A d \in Bridges, f \in Calls : inbox'[d][f] = IF d = b /\ f = c THEN inbox[b][c] - 1 ELSE inbox[d][f]
    BY <2>2 DEF Types
  <2> QED BY <2>1, <2>3 DEF Promises, UnsentUnknown
<1>5. ASSUME NEW b \in Bridges, NEW c \in Calls, Hear(b, c)
      PROVE  Promises' /\ Contracted
  <2>1. /\ Come(b, c) /\ bridge[b].attached.gen # 0 /\ Handle(b, bridge[b], {c})
        /\ UNCHANGED <<call, passing, channel, result, reconciling>>
    BY <1>5 DEF Hear, rustVars
  <2>2. bridge[b] \in BridgeObjects /\ {c} \in SUBSET Calls
    BY DEF Types
  <2>3. \A d \in Bridges \ {b} : Knows(d) = {0}
    BY <2>1, KnowsAlone DEF Promises
  <2>4. RestKnowsNothing'
    BY <1>1, <2>1 DEF RestKnowsNothing
  <2> QED BY <1>4, <2>1, <2>2, <2>3, <2>4, HandlePromises DEF Knows
<1>6. ASSUME NEW b \in Bridges, NEW c \in Calls, HearUnattached(b, c)
      PROVE  Promises' /\ Contracted
  <2>1. \A d \in Bridges : /\ bridge'[d].replied = bridge[d].replied
                           /\ bridge'[d].working = bridge[d].working
                           /\ bridge'[d].held \subseteq bridge[d].held \cup {c}
                           /\ bridge'[d].attached = bridge[d].attached
    BY <1>6 DEF HearUnattached, Types, BridgeObjects
  <2>2. UNCHANGED <<acts, result, reconciling, call, passing, channel, replies>> /\ Come(b, c)
    BY <1>6 DEF HearUnattached, rustVars
  <2> QED BY <1>1, <1>4, <2>1, <2>2, WebviewPromises DEF Knows
<1>7. ASSUME NEW m \in replies, DeliverReply(m)
      PROVE  Promises' /\ Contracted
  BY <1>7, DeliverPromises
<1>8. ASSUME NEW c \in Calls, SendReply(c)
      PROVE  Promises' /\ Contracted
  BY <1>8, DeliverPromises
<1> QED
  BY <1>2, <1>3, <1>5, <1>6, <1>7, <1>8, RegisterPromises, CallPromises, ProceedPromises, ReconcilePromises
     DEF Next

(* Whatever is lost, late, repeated or detached in between, a caller that   *)
(* is told its request did not run, or did, may rely on it, and the editor *)
(* acts on a request at most once (bridge.rs call_reporting, deliver_reply; *)
(* projectApiBridge.js handleRequest).                                      *)
THEOREM ContractKept == Spec => KeepsContract
<1> DEFINE told == [c \in Calls |-> Told(result[c])]
<1>1. Init => Promises /\ Contract!Init
  <2>1. Init => told = [c \in Calls |-> "nothing"]
    BY DEF Init, Told, None
  <2> QED BY <2>1, InitPromises DEF Init, Contract!Init
<1>2. Init => Sides /\ GenerationsMinted
  BY InitSides DEF Init, GenerationsMinted, Nowhere, Resting
<1>3. Types /\ Serialized /\ Sides /\ GenerationsMinted /\ [Next]_vars => Sides' /\ GenerationsMinted'
  BY NextSides, NextMinted
<1>4. Types /\ Serialized /\ Sides /\ GenerationsMinted /\ Promises /\ [Next]_vars
         => Promises' /\ [Contract!Next]_<<acts, told>>
  BY NextPromises DEF Contracted
<1> QED BY <1>1, <1>2, <1>3, <1>4, TypesAndTurns, PTL DEF Spec, KeepsContract, Contract!Spec

(* So what callers have been told is true of the editor at all times.      *)
THEOREM CallersToldTheTruth == Spec => []Contract!Honest
<1> DEFINE told == [c \in Calls |-> Told(result[c])]
<1>1. Contract!Init => Contract!Honest
  BY DEF Contract!Init, Contract!Honest
<1>2. Contract!Honest /\ [Contract!Next]_<<acts, told>> => Contract!Honest'
  <2> SUFFICES ASSUME Contract!Honest, [Contract!Next]_<<acts, told>>
               PROVE  Contract!Honest'
    OBVIOUS
  <2> HIDE DEF told
  <2>1. \A c \in Calls : told[c] = Told(result[c]) /\ told'[c] = Told(result'[c])
    BY DEF told
  <2>2. CASE Contract!Act
    <3>1. \A c \in Calls : told'[c] = told[c]
      BY <2>2, <2>1 DEF Contract!Act, told
    <3>2. ASSUME NEW c \in Calls
          PROVE  acts'[c] # acts[c] =>
                    acts'[c] = 1 /\ acts[c] = 0 /\ told[c] \in {"nothing", "lost"}
      <4>1. PICK S \in SUBSET Calls :
                /\ \A d \in S : acts[d] = 0 /\ told[d] \in {"nothing", "lost"}
                /\ acts' = [d \in Calls |-> IF d \in S THEN 1 ELSE acts[d]]
        BY <2>2, <2>1 DEF Contract!Act
      <4> QED BY <4>1
    <3>3. ASSUME NEW c \in Calls
          PROVE  /\ told'[c] \in {"undelivered", "changed", "not"} => acts'[c] = 0
                 /\ told'[c] = "did" => acts'[c] = 1
      <4>1. /\ told[c] \in {"undelivered", "changed", "not"} => acts[c] = 0
            /\ told[c] = "did" => acts[c] = 1
        BY <2>1 DEF Contract!Honest
      <4> QED BY <4>1, <3>1, <3>2
    <3> QED BY <3>3, <2>1 DEF Contract!Honest
  <2>3. ASSUME NEW c \in Calls, Contract!Tell(c)
        PROVE  Contract!Honest'
    <3>1. \A d \in Calls : acts'[d] = acts[d] /\ (d # c => told'[d] = told[d])
      BY <2>3, <2>1 DEF Contract!Tell, told
    <3>2. /\ told'[c] \in {"undelivered", "changed", "not"} => acts[c] = 0
          /\ told'[c] = "did" => acts[c] = 1
      BY <2>3, <2>1 DEF Contract!Tell, told
    <3> QED BY <2>1, <3>1, <3>2 DEF Contract!Honest
  <2>4. CASE UNCHANGED <<acts, told>>
    BY <2>1, <2>4 DEF Contract!Honest
  <2> QED BY <2>2, <2>3, <2>4 DEF Contract!Next, told
<1> QED BY <1>1, <1>2, ContractKept, PTL DEF KeepsContract, Contract!Spec
=============================================================================
