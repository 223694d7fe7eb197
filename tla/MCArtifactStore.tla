-------------------------- MODULE MCArtifactStore --------------------------
(* Two publishers of one new artifact beside a legacy publication.           *)
EXTENDS ArtifactStore, TLC

CONSTANTS p1, p2, new, old

MCSymmetry == Permutations(Procs)
=============================================================================
