--------------------------- MODULE MCSecretSync ---------------------------
(* Instances of SecretSync for TLC. *)
EXTENDS SecretSync, TLC

CONSTANTS p1, p2

Symmetry == Permutations({p1, p2})
===========================================================================
