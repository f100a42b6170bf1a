-------------------------- MODULE MCCTBRotation --------------------------
(* Instances of CTBRotation for TLC. *)
EXTENDS CTBRotation, TLC

CONSTANTS b1, b2, n1, n2, s1, s2, p1, p2

Deployment == [ns |-> n1, ctb |-> "true", owned |-> TRUE, stable |-> FALSE,
               excluded |-> FALSE, answers |-> {"deleted"}]

\* A pod of a Deployment that asks for the bundle and one of a StatefulSet in
\* the same namespace.
DeploymentAndStatefulSet ==
    s1 :> Deployment @@ s2 :> [Deployment EXCEPT !.stable = TRUE]

\* A pod of a StatefulSet, and, in another namespace, a pod that asks for the
\* bundle, is not seen by the webhook and cannot be deleted.
WithUndeletablePod ==
    s1 :> [Deployment EXCEPT !.stable = TRUE]
    @@ s2 :> [Deployment EXCEPT !.ns = n2, !.excluded = TRUE,
                              !.answers = {"forbidden", "failed"}]

\* The two kinds of pods that are hard to restart: with a reused name, and in a
\* namespace that opts in on behalf of its pods.
OneStatefulSet == s1 :> [Deployment EXCEPT !.stable = TRUE]
OneOptedIn == s1 :> [Deployment EXCEPT !.ns = n2, !.ctb = "none"]

Symmetry == Permutations({b1, b2}) \cup Permutations({p1, p2})
=============================================================================
