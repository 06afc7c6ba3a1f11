----------------------------- MODULE MCJobEvents -----------------------------
(* JobEvents on small sets, with the symmetry of streams and of outputs. *)
EXTENDS JobEvents, TLC

Symmetry == Permutations(Streams)
=============================================================================
