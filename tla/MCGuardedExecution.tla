------------------------- MODULE MCGuardedExecution -------------------------
(* Two boundaries of one task, reopened with another result policy, and two  *)
(* call ids: a report write that is allowed, one that is not, a command      *)
(* and a read.                                                               *)
EXTENDS GuardedExecution, TLC

CONSTANTS n1, n2, s1, t1, b1, b2, report, other, command, read

MCTaskOf == [s \in Scopes |-> t1]
MCEffectOf == [d \in Digests |-> d]
MCAmountOf == [e \in Effects |-> 1]
MCLimit == [t \in Tasks |-> NoLimit]
MCBoundaryScope == [b \in Boundaries |-> s1]
MCBoundaryPolicy == (b1 :> "v1") @@ (b2 :> "v2")
MCAuthority == (report :> "ALLOW") @@ (other :> "BLOCK") @@ (command :> "ALLOW") @@ (read :> "ALLOW")
MCReplaces == {<<report, report>>, <<report, other>>, <<command, command>>}
MCSymmetry == Permutations(Nonces)
=============================================================================
