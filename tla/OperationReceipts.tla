-------------------------- MODULE OperationReceipts --------------------------
(***************************************************************************)
(* What the receipt of an agent's operation promises a reader, whatever    *)
(* crashes, restarts and lost answers happen underneath:                   *)
(*   - no change takes effect before the operation has a receipt;          *)
(*   - what a receipt says of a change, once it says it, stays true: a     *)
(*     change told as landed has landed, one told as not landed never will *)
(*     -- except that "maybe" may stay undecided for ever;                 *)
(*   - no change takes effect twice.                                       *)
(* A receipt may be discarded when it is old.                              *)
(***************************************************************************)
CONSTANTS Operations, Changes

VARIABLES
    acted,   \* acted[o]: the changes of operation o that took effect
    told     \* told[o][c]: what o's receipt says of change c

Words == {"none", "open", "landed", "not", "maybe"}

Init ==
    /\ acted = [o \in Operations |-> {}]
    /\ told = [o \in Operations |-> [c \in Changes |-> "none"]]

Blank == [c \in Changes |-> "none"]

(* A receipt is written for an operation that has done nothing: of each    *)
(* change it has, it says that it is open, or already that it will not be  *)
(* made.  Old receipts go.                                                 *)
Begin(o) ==
    /\ acted[o] = {}
    /\ told[o] = Blank
    /\ \E words \in [Changes -> {"none", "open", "not"}], gone \in SUBSET Operations :
         told' = [q \in Operations |->
                     IF q = o THEN words ELSE IF q \in gone THEN Blank ELSE told[q]]
    /\ UNCHANGED acted

(* Changes take effect, together: none of them is told settled. *)
Act(o) ==
    /\ \E S \in SUBSET Changes :
         /\ S # {} /\ S \cap acted[o] = {}
         /\ \A c \in S : told[o][c] \in {"open", "maybe"}
         /\ acted' = [acted EXCEPT ![o] = @ \cup S]
    /\ UNCHANGED told

(* A step from word w to v is honest when the change has (not) acted.     *)
Honest(w, v, has) ==
    \/ v = w
    \/ w = "open" /\ v = IF has THEN "landed" ELSE "not"
    \/ w = "open" /\ v = "maybe"

(* Any number of operations are settled at once, as a restart does; old    *)
(* receipts go.                                                            *)
Tell ==
    /\ told' \in [Operations -> [Changes -> Words]]
    /\ \A o \in Operations :
         \/ \A c \in Changes : told'[o][c] = "none"
         \/ \A c \in Changes : Honest(told[o][c], told'[o][c], c \in acted[o])
    /\ UNCHANGED acted

Next == Tell \/ \E o \in Operations : Begin(o) \/ Act(o)

Spec == Init /\ [][Next]_<<acted, told>>

(* A receipt never says of a change what did not happen. *)
Truthful ==
    \A o \in Operations, c \in Changes :
        /\ told[o][c] = "landed" => c \in acted[o]
        /\ told[o][c] = "not" => c \notin acted[o]
==============================================================================
