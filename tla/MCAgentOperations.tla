-------------------------- MODULE MCAgentOperations --------------------------
(* Small instances of AgentOperations for TLC. *)
EXTENDS AgentOperations, TLC

CONSTANTS e1, o1, f1, f2, A, B

MCKindOf == (e1 :> "edit") @@ (o1 :> "open") @@ (f1 :> "create") @@ (f2 :> "create")

MCSymmetry == Permutations({A, B})
MCProposals == {{e1, f1}}
MCProposalsFiles == {{f1, f2}, {o1, f1}}
==============================================================================
