-------------------------- MODULE MCContainerRunner --------------------------
(* Two names an artifact may have and one below the permitted depth; exports  *)
(* of up to three entries, so that each limit can be met and be exceeded.     *)
EXTENDS ContainerRunner
=============================================================================
