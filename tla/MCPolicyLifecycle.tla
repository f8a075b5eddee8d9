------------------------- MODULE MCPolicyLifecycle -------------------------
(* Instances of PolicyLifecycle for TLC. *)
EXTENDS PolicyLifecycle, TLC

Symmetry == Permutations(Versions) \cup Permutations(Sessions)
            \cup Permutations(Evaluators) \cup Permutations(Contents \ {Empty})
=============================================================================
