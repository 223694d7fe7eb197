-------------------------- MODULE MCBoundaryServer --------------------------
(* One source address; a certificate that may be revoked or rebound to       *)
(* another identity while its connections are open.                          *)
EXTENDS BoundaryServer

CONSTANTS c1, c2, src, certA, idA, idB
=============================================================================
