----------------------- MODULE MCTagPermutationGenerator -----------------------
(* Up to three inputs of up to three tags, sizes 1 included: an input whose  *)
(* only iterator position is both first and last carries at every step.     *)
EXTENDS TagPermutationGenerator

MCSizes == UNION {[1..n -> 1..3] : n \in 1..3}
===============================================================================
