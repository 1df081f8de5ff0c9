---------------------------- MODULE BridgeContract ----------------------------
(***************************************************************************)
(* What a caller may conclude from a call of the editor, whatever becomes  *)
(* of the request and of its answer.  AgentOperations relies on it when it *)
(* settles what a plan did:                                                *)
(*   "undelivered", "changed", "not" - the editor has not acted on the     *)
(*            request and never will;                                      *)
(*   "did"  - the editor acted, once;                                      *)
(*   "lost" - nothing: it may have acted, or act even now.                 *)
(***************************************************************************)
EXTENDS Naturals

CONSTANT Calls

VARIABLES
    acts,   \* acts[c]: how often the editor acted on call c
    told    \* told[c]: what the caller of c was told

Words == {"nothing", "undelivered", "changed", "not", "did", "lost"}

Init == acts = [c \in Calls |-> 0] /\ told = [c \in Calls |-> "nothing"]

Tell(c) ==
    /\ told[c] = "nothing"
    /\ \E w \in Words \ {"nothing"} :
         /\ w \in {"undelivered", "changed", "not"} => acts[c] = 0
         /\ w = "did" => acts[c] = 1
         /\ told' = [told EXCEPT ![c] = w]
    /\ UNCHANGED acts

(* The editor acts: on one request, or on those it held back, together. *)
Act ==
    \E S \in SUBSET Calls :
        /\ \A c \in S : acts[c] = 0 /\ told[c] \in {"nothing", "lost"}
        /\ acts' = [c \in Calls |-> IF c \in S THEN 1 ELSE acts[c]]
        /\ UNCHANGED told

Next == Act \/ \E c \in Calls : Tell(c)

Spec == Init /\ [][Next]_<<acts, told>>

(* What a caller was told is true. *)
Honest ==
    \A c \in Calls :
        /\ told[c] \in {"undelivered", "changed", "not"} => acts[c] = 0
        /\ told[c] = "did" => acts[c] = 1
===============================================================================
