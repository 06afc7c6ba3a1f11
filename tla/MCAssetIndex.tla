---------------------------- MODULE MCAssetIndex ----------------------------
(* AssetIndex on small sets, with the symmetry of requests and of contents. *)
EXTENDS AssetIndex, TLC

Symmetry == Permutations(Requests) \cup Permutations(Blobs)
=============================================================================
