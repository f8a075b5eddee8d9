--------------------------- MODULE MCUnderwriting ---------------------------
(* Instances of Underwriting for TLC. *)
EXTENDS Underwriting, TLC

Symmetry == Permutations(Workers) \cup Permutations(Sessions)
            \cup Permutations(Apps) \cup Permutations(Runs)
=============================================================================
