---------------------------- MODULE MCSubmission ----------------------------
(* Submission on small sets, with the symmetry of requests and of keys. *)
EXTENDS Submission, TLC

Symmetry == Permutations(Requests) \cup Permutations(Keys)
=============================================================================
