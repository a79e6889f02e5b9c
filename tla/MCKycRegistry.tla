--------------------------- MODULE MCKycRegistry ---------------------------
(* Instances of KycRegistry for TLC. *)
EXTENDS KycRegistry

\* Officers, verifiers and subjects are only compared for equality.
Interchangeable ==
    Permutations(Officers) \cup Permutations(Verifiers) \cup Permutations(Subjects)
=============================================================================
