--------------------------- MODULE MCControlPlane ---------------------------
(* Two administrators who may both approve, an agent who is also a reviewer, *)
(* a reviewer and an executor; one draft that allows the action, one that    *)
(* escalates it.                                                             *)
EXTENDS ControlPlane, TLC

CONSTANTS adm, app, ag, rev, exe, x1, t1, t2, p1, p2, k1, r1, n1, n2

MCActors == {adm, app, ag, rev, exe}
MCSubjectOf == [a \in MCActors |-> a]
MCRolesOf == (adm :> {"ADMIN", "APPROVER"}) @@ (app :> {"ADMIN", "APPROVER"})
             @@ (ag :> {"AGENT", "REVIEWER"}) @@ (rev :> {"REVIEWER"}) @@ (exe :> {"EXECUTOR"})
MCKeyOf == (adm :> "-") @@ (app :> "-") @@ (ag :> "kAgent") @@ (rev :> "-") @@ (exe :> "kExec")
MCScopeOf == [a \in MCActors |-> Actions]
MCTaskOfAction == [x \in Actions |-> t1]
MCLegacy == [t \in {t1} |-> ag]
MCOneAction == {[x \in Actions |-> "ALLOW"], [x \in Actions |-> "ESCALATE"]}
MCSymmetry == Permutations(PolicyIds) \cup Permutations(Keys) \cup Permutations(ReviewIds)
              \cup Permutations(Nonces) \cup Permutations({adm, app})
=============================================================================
