----------------------------- MODULE MCPlacement -----------------------------
(* Placement on small sets: two spellings of one place, a link to it from     *)
(* another root, a path that climbs and one with the wrong suffix.             *)
EXTENDS Placement, TLC, FiniteSets

CONSTANTS u1, u2, u3, p1, p2

Roots == {"checkpoints", "loras", "vae"}
Weights == {"x.safetensors"}
SomeLinks == [r \in Roots |-> CASE r = "checkpoints" -> r [] r = "loras" -> "checkpoints"
                                [] OTHER -> Outside]
Paths == {<<"checkpoints", "x.safetensors">>, <<"models", "loras", "", "x.safetensors">>,
          <<"checkpoints", "..", "x.safetensors">>, <<"vae", "x.safetensors">>,
          <<"checkpoints", "x.png">>}
Symmetry == Permutations({u1, u2, u3}) \cup Permutations({p1, p2})
=============================================================================
