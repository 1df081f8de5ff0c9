----------------------------- MODULE BridgeCalls -----------------------------
(***************************************************************************)
(* The owner bridge of the Project API: calls from Rust threads to the     *)
(* editor in the webview and their answers (src-tauri/src/project_api/     *)
(* bridge.rs), and the editor's side of it, one bridge object for each     *)
(* mount of the hook (src/app/projectApiBridge.js, useProjectApiBridge.js).*)
(*                                                                         *)
(* Rust gives each attach a generation; a call is addressed to the         *)
(* generation attached when it is registered.  Events to the webview,      *)
(* replies and attach calls are asynchronous, so each side acts on what it *)
(* last knew.  A request is abstracted to whether the editor acted on it.  *)
(* Epochs and generations are numbers; 0 is none.                          *)
(***************************************************************************)
EXTENDS Naturals, FiniteSets, Sequences

CONSTANTS
    Calls,          \* calls a Rust thread makes of the editor
    Bridges,        \* frontend bridge objects, one for each mount
    Lasting,        \* the calls whose answer takes more than one JS turn
    MaxPending,     \* requests waiting for a reply (32)
    MaxHeld,        \* requests a bridge holds while it attaches (32)
    MaxDeliveries,  \* external: how often one event may be delivered
    MaxEpoch,       \* bound: workspaces opened
    MaxChanges      \* bound: changes of readiness

ASSUME BridgeAssumption ==
    /\ IsFiniteSet(Calls)
    /\ Lasting \subseteq Calls
    /\ {MaxPending, MaxHeld, MaxDeliveries, MaxEpoch, MaxChanges} \subseteq Nat
    /\ MaxDeliveries > 0

VARIABLES
    (* Rust *)
    opened,      \* epochs minted so far
    current,     \* the epoch of the workspace open now
    attachment,  \* the attachment: its epoch and generation
    minted,      \* generations minted so far
    pending,     \* pending[c]: the generation a pending request is addressed to
    call,        \* call[c]: where the calling thread is, its epoch, generation
    passing,     \* passing[c]: a reply taken off `pending`, not yet in its channel
    channel,     \* channel[c]: the reply the caller may receive
    result,      \* result[c]: what the call returned
    (* the webview *)
    front,       \* the frontend's workspace epoch (dbStorage.js)
    bridge,      \* bridge[b]: the bridge object
    inbox,       \* inbox[b][c]: deliveries of c's event still to come
    tail,        \* the attach queue: the bridges whose reconcile waits or runs
    reconciling, \* reconciling[b]: where b's running reconcile is
    changes,     \* changes of readiness so far
    (* between them, and history *)
    replies,     \* reply commands on their way to Rust
    acts         \* acts[c]: how often the editor acted on c

rustVars  == <<opened, current, attachment, minted, pending, call, passing, channel, result>>
callVars  == <<call, passing, channel, result>>
jsVars    == <<front, bridge, inbox, tail, reconciling, changes>>
vars      == <<rustVars, jsVars, replies, acts>>

Answers == {"did", "not", "changed", "internal"}
None    == "none"
Nowhere == [epoch |-> 0, gen |-> 0]
Resting == [stage |-> "rest", epoch |-> 0, gen |-> 0]

Init ==
    /\ opened = 0 /\ current = 0 /\ attachment = Nowhere /\ minted = 0
    /\ pending = [c \in Calls |-> 0]
    /\ call = [c \in Calls |-> [at |-> "idle", epoch |-> 0, gen |-> 0]]
    /\ passing = [c \in Calls |-> None]
    /\ channel = [c \in Calls |-> None]
    /\ result = [c \in Calls |-> None]
    /\ front = 0
    /\ bridge = [b \in Bridges |-> [life |-> "unborn", listening |-> FALSE, ready |-> 0,
                                    attached |-> Nowhere, attaching |-> 0, held |-> {},
                                    replied |-> {}, working |-> {}]]
    /\ inbox = [b \in Bridges |-> [c \in Calls |-> 0]]
    /\ tail = <<>>
    /\ reconciling = [b \in Bridges |-> Resting]
    /\ changes = 0
    /\ replies = {} /\ acts = [c \in Calls |-> 0]

-----------------------------------------------------------------------------
(* Workspaces. *)

OpenWorkspace ==
    /\ opened < MaxEpoch
    /\ opened' = opened + 1 /\ current' = opened + 1
    /\ UNCHANGED <<attachment, minted, pending, callVars, jsVars, replies, acts>>

CloseWorkspace ==
    /\ current # 0 /\ current' = 0
    /\ UNCHANGED <<opened, attachment, minted, pending, callVars, jsVars, replies, acts>>

(* The frontend learns of the open: the answer of the open command. *)
FrontLearns ==
    /\ front # opened /\ front' = opened
    /\ UNCHANGED <<rustVars, bridge, inbox, tail, reconciling, changes, replies, acts>>

-----------------------------------------------------------------------------
(* The calling thread (call_reporting). *)

(* Attached for the call's epoch and not too many waiting: registered.     *)
Register(c, e) ==
    /\ call[c].at = "idle"
    /\ attachment.gen # 0 /\ attachment.epoch = e
    /\ Cardinality({d \in Calls : pending[d] # 0}) < MaxPending
    /\ pending' = [pending EXCEPT ![c] = attachment.gen]
    /\ call' = [call EXCEPT ![c] = [at |-> "registered", epoch |-> e, gen |-> attachment.gen]]
    /\ UNCHANGED <<opened, current, attachment, minted, passing, channel, result, jsVars, replies, acts>>

Return(c, r) ==
    /\ call' = [call EXCEPT ![c].at = "returned"]
    /\ result' = [result EXCEPT ![c] = r]

(* Not attached for its epoch, or busy: refused, and nothing registered. *)
RefuseCall(c, e) ==
    /\ call[c].at = "idle"
    /\ \/ attachment.gen = 0 \/ attachment.epoch # e
       \/ Cardinality({d \in Calls : pending[d] # 0}) >= MaxPending
    /\ Return(c, "undelivered")
    /\ UNCHANGED <<opened, current, attachment, minted, pending, passing, channel, jsVars, replies, acts>>

(* The event is delivered to whichever bridges listen, in their own turns. *)
Emit(c) ==
    /\ call[c].at = "registered"
    /\ call' = [call EXCEPT ![c].at = "waiting"]
    /\ \E n \in 1..MaxDeliveries :
          inbox' = [b \in Bridges |-> IF bridge[b].listening THEN [inbox[b] EXCEPT ![c] = n]
                                      ELSE inbox[b]]
    /\ UNCHANGED <<opened, current, attachment, minted, pending, passing, channel, result,
                   front, bridge, tail, reconciling, changes, replies, acts>>

Withdrawn(c) == [pending EXCEPT ![c] = 0]

(* No window to send it to: withdrawn, and told as undelivered. *)
EmitFails(c) ==
    /\ call[c].at = "registered"
    /\ pending' = Withdrawn(c)
    /\ Return(c, "undelivered")
    /\ UNCHANGED <<opened, current, attachment, minted, passing, channel, jsVars, replies, acts>>

Receive(c) ==
    /\ call[c].at = "waiting" /\ channel[c] # None
    /\ Return(c, channel[c])
    /\ UNCHANGED <<opened, current, attachment, minted, pending, passing, channel, jsVars, replies, acts>>

(* The generation ended while waiting: the sender is gone. *)
HangUp(c) ==
    /\ call[c].at = "waiting"
    /\ pending[c] = 0 /\ passing[c] = None /\ channel[c] = None
    /\ Return(c, "ended")
    /\ UNCHANGED <<opened, current, attachment, minted, pending, passing, channel, jsVars, replies, acts>>

(* Mutant: a wait without a deadline. *)
MayTimeOutNever(c) == FALSE
MayTimeOut(c) == call[c].at = "waiting" /\ channel[c] = None

(* The deadline passes; then the request is withdrawn; then the channel is  *)
(* tried once more.                                                         *)
TimeOut(c) ==
    /\ MayTimeOut(c)
    /\ call' = [call EXCEPT ![c].at = "late"]
    /\ UNCHANGED <<opened, current, attachment, minted, pending, passing, channel, result, jsVars, replies, acts>>

Withdraw(c) ==
    /\ call[c].at = "late"
    /\ pending' = Withdrawn(c)
    /\ call' = [call EXCEPT ![c].at = "withdrawn"]
    /\ UNCHANGED <<opened, current, attachment, minted, passing, channel, result, jsVars, replies, acts>>

TryOnce(c) ==
    /\ call[c].at = "withdrawn"
    /\ Return(c, IF channel[c] # None THEN channel[c] ELSE "timeout")
    /\ UNCHANGED <<opened, current, attachment, minted, pending, passing, channel, jsVars, replies, acts>>

Takes(c, gen) == pending[c] # 0 /\ pending[c] = gen

(* deliver_reply: an unknown or a stale reply is dropped; the reply of a   *)
(* pending request is taken off, and sent once the lock is released.       *)
DeliverReply(m) ==
    /\ m \in replies
    /\ replies' = replies \ {m}
    /\ IF Takes(m.call, m.gen)
       THEN /\ pending' = [pending EXCEPT ![m.call] = 0]
            /\ passing' = [passing EXCEPT ![m.call] = m.answer]
       ELSE UNCHANGED <<pending, passing>>
    /\ UNCHANGED <<opened, current, attachment, minted, call, channel, result, jsVars, acts>>

SendReply(c) ==
    /\ passing[c] # None
    /\ channel' = [channel EXCEPT ![c] = IF call[c].at = "returned" THEN None ELSE passing[c]]
    /\ passing' = [passing EXCEPT ![c] = None]
    /\ UNCHANGED <<opened, current, attachment, minted, pending, call, result, jsVars, replies, acts>>

-----------------------------------------------------------------------------
(* Attaching (Bridge::attach, Bridge::detach), asked for by a reconcile.    *)

(* Mutant: requests of the generation that ends stay pending. *)
PendingKept == pending
NobodyPending == [c \in Calls |-> 0]
Stage(b, s) == reconciling' = [reconciling EXCEPT ![b].stage = s]

(* The attach command reads the open workspace's epoch first ... *)
AttachReads(b) ==
    /\ reconciling[b].stage = "attachAsked"
    /\ Stage(b, IF current # 0 /\ current = reconciling[b].epoch THEN "attachAllowed" ELSE "attachAnswered")
    /\ UNCHANGED <<rustVars, front, bridge, inbox, tail, changes, replies, acts>>

MintedNext == minted + 1

(* ... then mints a generation: the previous one ends, its requests fail.   *)
AttachMints(b) ==
    /\ reconciling[b].stage = "attachAllowed"
    /\ minted' = MintedNext
    /\ attachment' = [epoch |-> reconciling[b].epoch, gen |-> minted + 1]
    /\ pending' = NobodyPending
    /\ reconciling' = [reconciling EXCEPT ![b].stage = "attachAnswered", ![b].gen = minted + 1]
    /\ UNCHANGED <<opened, current, callVars, front, bridge, inbox, tail, changes, replies, acts>>

Detaches(gen) == attachment.gen # 0 /\ attachment.gen = gen

(* Detaching a generation that is no longer attached changes nothing. *)
Detach(b) ==
    /\ reconciling[b].stage \in {"detachAsked", "undoAsked"}
    /\ IF Detaches(reconciling[b].gen)
       THEN attachment' = Nowhere /\ pending' = NobodyPending
       ELSE UNCHANGED <<attachment, pending>>
    /\ Stage(b, IF reconciling[b].stage = "detachAsked" THEN "detached" ELSE "undone")
    /\ UNCHANGED <<opened, current, minted, callVars, front, bridge, inbox, tail, changes, replies, acts>>

-----------------------------------------------------------------------------
(* The bridge object: every action is one turn of the webview's thread.    *)

Mount(b) ==
    /\ bridge[b].life = "unborn" /\ \A d \in Bridges : bridge[d].life # "live"
    /\ bridge' = [bridge EXCEPT ![b].life = "live"]
    /\ UNCHANGED <<rustVars, front, inbox, tail, reconciling, changes, replies, acts>>

(* listen() resolves. *)
Listen(b) ==
    /\ bridge[b].life = "live" /\ ~bridge[b].listening
    /\ bridge' = [bridge EXCEPT ![b].listening = TRUE]
    /\ UNCHANGED <<rustVars, front, inbox, tail, reconciling, changes, replies, acts>>

(* Mutant: a reconcile is not queued behind another. *)
QueuedOnce(b) == IF tail = <<>> THEN <<b>> ELSE tail
Queued(b) == Append(tail, b)

(* setReadyEpoch: the project's own load is hydrated, or is not any more.  *)
(* Its epoch may be overtaken by an open the frontend has learnt of.       *)
SetReady(b, e) ==
    /\ bridge[b].life = "live" /\ bridge[b].ready # e
    /\ changes < MaxChanges /\ changes' = changes + 1
    /\ e = 0 \/ e = front \/ e + 1 = front
    /\ bridge' = [bridge EXCEPT ![b].ready = e]
    /\ tail' = Queued(b)
    /\ UNCHANGED <<rustVars, front, inbox, reconciling, replies, acts>>

Dispose(b) ==
    /\ bridge[b].life = "live"
    /\ bridge' = [bridge EXCEPT ![b].life = "disposed", ![b].listening = FALSE]
    /\ tail' = Queued(b)
    /\ UNCHANGED <<rustVars, front, inbox, reconciling, changes, replies, acts>>

(* Of a bridge object k: *)
StillCurrent(k, c) ==
    /\ call[c].epoch = k.ready
    /\ call[c].epoch = k.attached.epoch
    /\ call[c].epoch = front

(* Mutant: a request is answered each time its event comes. *)
FreshAny(k, c) == TRUE
Fresh(k, c) == c \notin k.replied

Ours(k, c) == call[c].gen = k.attached.gen
Taken(k, C) == {c \in C : Ours(k, c) /\ Fresh(k, c)}

Reply(c, answer) == [call |-> c, gen |-> call[c].gen, answer |-> answer]

(* handleRequest for the requests C in one turn, by the object k standing  *)
(* for bridge b: a stale one is refused before anything is done, a lasting *)
(* one begins, and of the rest the editor acts on S.                       *)
Handle(b, k, C) ==
    LET taken == Taken(k, C)
        now   == {c \in taken : StillCurrent(k, c)}
    IN  \E S \in SUBSET (now \ Lasting) :
        \E out \in [taken \ (now \cap Lasting) -> Answers] :
          /\ \A c \in DOMAIN out :
               out[c] \in (IF c \notin now THEN {"changed"}
                           ELSE IF c \in S THEN {"did", "internal"} ELSE {"not", "internal"})
          /\ replies' = replies \cup {Reply(c, out[c]) : c \in DOMAIN out}
          /\ acts' = [c \in Calls |-> IF c \in S THEN acts[c] + 1 ELSE acts[c]]
          /\ bridge' = [bridge EXCEPT ![b] = [k EXCEPT !.replied = @ \cup taken,
                                                       !.working = @ \cup (now \cap Lasting)]]

Come(b, c) == inbox[b][c] > 0 /\ inbox' = [inbox EXCEPT ![b][c] = @ - 1]

(* An event for a bridge that is attached. *)
Hear(b, c) ==
    /\ Come(b, c)
    /\ bridge[b].attached.gen # 0
    /\ Handle(b, bridge[b], {c})
    /\ UNCHANGED <<rustVars, front, tail, reconciling, changes>>

Holds(k, c) == /\ k.attaching # 0 /\ call[c].epoch = k.attaching
               /\ Cardinality(k.held) < MaxHeld

(* For one that is not: held while its epoch is being attached, or lost.   *)
HearUnattached(b, c) ==
    /\ Come(b, c)
    /\ bridge[b].attached.gen = 0
    /\ bridge' = IF Holds(bridge[b], c) THEN [bridge EXCEPT ![b].held = @ \cup {c}] ELSE bridge
    /\ UNCHANGED <<rustVars, front, tail, reconciling, changes, replies, acts>>

(* A lasting answer takes another turn: still current and the work leaves   *)
(* for the disk, or it ends with nothing done.                              *)
Proceed(b, c) ==
    /\ c \in bridge[b].working
    /\ bridge' = [bridge EXCEPT ![b].working = @ \ {c}]
    /\ \/ /\ StillCurrent(bridge[b], c)
          /\ acts' = [acts EXCEPT ![c] = @ + 1]
          /\ \E a \in {"did", "internal"} : replies' = replies \cup {Reply(c, a)}
       \/ /\ \E a \in {"not", "internal"} : replies' = replies \cup {Reply(c, a)}
          /\ UNCHANGED acts
    /\ UNCHANGED <<rustVars, front, inbox, tail, reconciling, changes>>

-----------------------------------------------------------------------------
(* The queued reconcile: detach what is no longer wanted, attach what is.  *)

Wanted(b) == IF bridge[b].life = "disposed" THEN 0 ELSE bridge[b].ready

(* Mutant: reconciles of different bridges run at the same time. *)
TurnAny(b) == \E i \in DOMAIN tail : tail[i] = b
Turn(b) == tail # <<>> /\ Head(tail) = b

Finished(b) == tail' = Tail(tail) /\ reconciling' = [reconciling EXCEPT ![b] = Resting]

AskAttach(b, e) ==
    /\ reconciling' = [reconciling EXCEPT ![b] = [stage |-> "attachAsked", epoch |-> e, gen |-> 0]]
    /\ UNCHANGED tail

Reconcile(b) ==
    /\ Turn(b) /\ reconciling[b].stage = "rest"
    /\ LET k == bridge[b]
           e == Wanted(b)
       IN \/ /\ k.attached.gen # 0 /\ k.attached.epoch # e
             /\ bridge' = [bridge EXCEPT ![b].attached = Nowhere]
             /\ reconciling' = [reconciling EXCEPT ![b] =
                    [stage |-> "detachAsked", epoch |-> e, gen |-> k.attached.gen]]
             /\ UNCHANGED tail
          \/ /\ k.attached.gen = 0 /\ e # 0
             /\ bridge' = [bridge EXCEPT ![b].attaching = e, ![b].held = {}]
             /\ AskAttach(b, e)
          \/ /\ k.attached.epoch = e
             /\ Finished(b) /\ UNCHANGED bridge
    /\ UNCHANGED <<rustVars, front, inbox, changes, replies, acts>>

Detached(b) ==
    /\ reconciling[b].stage = "detached"
    /\ IF reconciling[b].epoch # 0
       THEN /\ AskAttach(b, reconciling[b].epoch)
            /\ bridge' = [bridge EXCEPT ![b].attaching = reconciling[b].epoch, ![b].held = {}]
       ELSE Finished(b) /\ UNCHANGED bridge
    /\ UNCHANGED <<rustVars, front, inbox, changes, replies, acts>>

StillWanted(b) == bridge[b].life # "disposed" /\ bridge[b].ready = reconciling[b].epoch

(* The attach returned: refused, or no longer wanted, or b is attached now  *)
(* and answers what it held.                                                *)
Attached(b) ==
    /\ reconciling[b].stage = "attachAnswered"
    /\ LET g == reconciling[b].gen
           k == [bridge[b] EXCEPT !.attaching = 0, !.held = {}]
       IN \/ /\ g = 0
             /\ Finished(b)
             /\ bridge' = [bridge EXCEPT ![b] = k]
             /\ UNCHANGED <<replies, acts>>
          \/ /\ g # 0 /\ ~StillWanted(b)
             /\ Stage(b, "undoAsked")
             /\ bridge' = [bridge EXCEPT ![b] = k]
             /\ UNCHANGED <<tail, replies, acts>>
          \/ /\ g # 0 /\ StillWanted(b)
             /\ Finished(b)
             /\ Handle(b, [k EXCEPT !.attached = [epoch |-> reconciling[b].epoch, gen |-> g]],
                       bridge[b].held)
    /\ UNCHANGED <<rustVars, front, inbox, changes>>

Undone(b) ==
    /\ reconciling[b].stage = "undone"
    /\ Finished(b)
    /\ UNCHANGED <<rustVars, front, bridge, inbox, changes, replies, acts>>

-----------------------------------------------------------------------------
CallStep(c) ==
    \/ Emit(c) \/ EmitFails(c) \/ Receive(c) \/ HangUp(c) \/ TimeOut(c) \/ Withdraw(c) \/ TryOnce(c)

ReconcileStep(b) ==
    Reconcile(b) \/ AttachReads(b) \/ AttachMints(b) \/ Detach(b) \/ Detached(b) \/ Attached(b) \/ Undone(b)

Next ==
    \/ OpenWorkspace \/ CloseWorkspace \/ FrontLearns
    \/ \E c \in Calls, e \in 1..MaxEpoch : Register(c, e) \/ RefuseCall(c, e)
    \/ \E c \in Calls : CallStep(c) \/ SendReply(c)
    \/ \E m \in replies : DeliverReply(m)
    \/ \E b \in Bridges : Mount(b) \/ Listen(b) \/ Dispose(b) \/ ReconcileStep(b)
    \/ \E b \in Bridges, e \in 0..MaxEpoch : SetReady(b, e)
    \/ \E b \in Bridges, c \in Calls : Hear(b, c) \/ HearUnattached(b, c) \/ Proceed(b, c)

Spec == Init /\ [][Next]_vars

(* Threads run and deadlines pass; queued work and its commands run.  The  *)
(* editor owes no answer, the person no open project.                      *)
FairSpec ==
    /\ Spec
    /\ \A c \in Calls : WF_vars(CallStep(c))
    /\ \A b \in Bridges : WF_vars(ReconcileStep(b))

-----------------------------------------------------------------------------
Attachments == [epoch : Nat, gen : Nat]
CallStates  == [at : {"idle", "registered", "waiting", "late", "withdrawn", "returned"},
                epoch : Nat, gen : Nat]
BridgeObjects == [life : {"unborn", "live", "disposed"}, listening : BOOLEAN, ready : Nat,
                  attached : Attachments, attaching : Nat, held : SUBSET Calls,
                  replied : SUBSET Calls, working : SUBSET Calls]
Reconciles  == [stage : {"rest", "attachAsked", "attachAllowed", "attachAnswered",
                         "detachAsked", "detached", "undoAsked", "undone"},
                epoch : Nat, gen : Nat]
Messages    == [call : Calls, gen : Nat, answer : Answers]

Types ==
    /\ opened \in Nat /\ current \in Nat /\ minted \in Nat /\ front \in Nat /\ changes \in Nat
    /\ attachment \in Attachments
    /\ pending \in [Calls -> Nat]
    /\ call \in [Calls -> CallStates]
    /\ passing \in [Calls -> Answers \cup {None}]
    /\ channel \in [Calls -> Answers \cup {None}]
    /\ result \in [Calls -> Answers \cup {None, "undelivered", "ended", "timeout"}]
    /\ bridge \in [Bridges -> BridgeObjects]
    /\ inbox \in [Bridges -> [Calls -> 0..MaxDeliveries]]
    /\ tail \in Seq(Bridges)
    /\ reconciling \in [Bridges -> Reconciles]
    /\ replies \subseteq Messages
    /\ acts \in [Calls -> Nat]

(* Every generation either side knows was minted. *)
GenerationsMinted ==
    /\ attachment.gen <= minted
    /\ \A c \in Calls : pending[c] <= minted /\ call[c].gen <= minted
    /\ \A b \in Bridges : bridge[b].attached.gen <= minted /\ reconciling[b].gen <= minted
    /\ \A m \in replies : m.gen <= minted

TypeOK == Types /\ GenerationsMinted

(* No request outlives its caller in the table, and the table never exceeds *)
(* its bound (bridge.rs MAX_PENDING).                                       *)
PendingHasWaiter ==
    /\ \A c \in Calls : pending[c] # 0 =>
         call[c].at \in {"registered", "waiting", "late"} /\ pending[c] = call[c].gen
    /\ Cardinality({c \in Calls : pending[c] # 0}) <= MaxPending

(* Every generation a request may still be answered under is the one       *)
(* attached: a request of an ended generation waits for nobody (bridge.rs  *)
(* attach: "dropping its sender fails it now").                            *)
PendingIsAttached == \A c \in Calls : pending[c] # 0 => pending[c] = attachment.gen

(* Both of these together: the pending table names only requests that can  *)
(* still be answered to somebody (bridge.rs State::pending).               *)
TableIsTrue == PendingHasWaiter /\ PendingIsAttached

(* While no reconcile waits or runs, both sides agree on what is attached:  *)
(* a bridge that believes it is attached is, under its own generation, for *)
(* the epoch it is ready for; and Rust is attached to nobody else.         *)
(* serializeAttachments: "an earlier bridge's detach can never land after  *)
(* a later bridge's attach".                                               *)
SidesAgree ==
    tail = <<>> =>
      /\ \A b \in Bridges : bridge[b].attached.gen # 0 =>
           bridge[b].attached = attachment /\ bridge[b].life = "live"
           /\ bridge[b].ready = attachment.epoch
      /\ attachment.gen # 0 => \E b \in Bridges : bridge[b].attached = attachment

(* Callers may rely on what they are told: see BridgeContract. *)
Told(r) ==
    CASE r = None -> "nothing"
      [] r \in {"undelivered", "changed", "not", "did"} -> r
      [] OTHER -> "lost"

Contract == INSTANCE BridgeContract WITH told <- [c \in Calls |-> Told(result[c])]

KeepsContract == Contract!Spec

(* Every call returns, whatever the editor does. *)
CallsReturn == \A c \in Calls : call[c].at = "registered" ~> call[c].at = "returned"

(* A project whose editor stays ready for the open workspace is attached    *)
(* for it in the end, however many times readiness and mounts changed.      *)
ReadyFor(b, e) == bridge[b].life = "live" /\ bridge[b].ready = e /\ current = e

EditorConnects ==
    \A b \in Bridges, e \in 1..MaxEpoch :
        <>[]ReadyFor(b, e) => <>[](attachment.epoch = e /\ bridge[b].attached = attachment)
=============================================================================
