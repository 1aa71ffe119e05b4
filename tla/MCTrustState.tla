---------------------------- MODULE MCTrustState ----------------------------
(* Three roots: epoch 1, two rival successors, and one successor of the     *)
(* first of them.  Manifests: two generations of the first root, with two   *)
(* contents of the first generation, and one of the second root.            *)
EXTENDS TrustState, TLC

CONSTANTS k1, k2, k3, p1, p2

R(e, k) == [epoch |-> e, key |-> k]
MCKey == {k1, k2, k3}
MCFirstRoots == {R(1, k1)}
MCTransition == {[previous |-> R(1, k1), next |-> R(2, k2)],
                 [previous |-> R(1, k1), next |-> R(2, k3)],
                 [previous |-> R(2, k2), next |-> R(3, k3)]}
MCManifest == {[root |-> k1, generation |-> 1, content |-> 1],
               [root |-> k1, generation |-> 1, content |-> 2],
               [root |-> k1, generation |-> 2, content |-> 1],
               [root |-> k2, generation |-> 1, content |-> 1]}
ProcessSymmetry == Permutations({p1, p2})
=============================================================================
