----------------------------- MODULE AdmissionMC -----------------------------
(* Requests and goroutines are alike: nothing in Admission tells one from another. *)
EXTENDS Admission, TLC

Symmetry == Permutations(Requests) \cup Permutations(Copies)
==============================================================================
