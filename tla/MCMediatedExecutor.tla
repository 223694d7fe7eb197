------------------------- MODULE MCMediatedExecutor -------------------------
(* Two grants for one effect of one task (an agent that asked twice), plus   *)
(* the keys it may submit each grant with.                                   *)
EXTENDS MediatedExecutor, TLC

CONSTANTS g1, g2, s1, d1, d2, k1, k2, t1, e1, e2, w1, w2, r1

MCTaskOf == [s \in Scopes |-> t1]
MCEffectOf == (d1 :> e1) @@ (d2 :> e2)
MCAmountOf == (e1 :> 1) @@ (e2 :> 2)
MCLimit == [t \in Tasks |-> 2]
MCLimitOne == [t \in Tasks |-> 1]
MCGrantScope == [n \in Nonces |-> s1]
MCSameDigest == [n \in Nonces |-> d1]
MCGrantPolicy == [n \in Nonces |-> "adapter"]
MCSymmetry == Permutations(Keys) \cup Permutations(Workers)
=============================================================================
