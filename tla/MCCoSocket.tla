----------------------------- MODULE MCCoSocket -----------------------------
(* The instance for TLC.  Its run checks liveness, so no symmetry is used. *)
EXTENDS CoSocket
=============================================================================
