--------------------------- MODULE MCConfigVersions ---------------------------
(***************************************************************************)
(* Two processes, of two builds that differ in an early file; one key,     *)
(* critical or not; one credential of an earlier release.                  *)
(***************************************************************************)
EXTENDS ConfigVersions, TLC

CONSTANTS p1, p2, b1, b2, same, key, k1, v1, v2, q1, q2, i1

MCProcs == {p1, p2}
MCBuilds == {b1, b2}
MCChecksum == [b \in MCBuilds |-> <<b, same>>]
MCSecrets == {key}
MCKeys == {k1}
MCValues == {v1, v2}
MCRequests == {q1, q2}
MCIdems == {i1}
MCSymmetry == Permutations(MCProcs) \cup Permutations(MCBuilds) \cup Permutations(MCRequests)
================================================================================
