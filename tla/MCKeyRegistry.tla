----------------------------- MODULE MCKeyRegistry -----------------------------
(***************************************************************************)
(* Two accounts with two groups and two Keys in all; the upstream of the   *)
(* second shows the secrets in its list.                                   *)
(***************************************************************************)
EXTENDS KeyRegistry, TLC

CONSTANTS a1, a2, g1, g2, r1, r2

MCAccounts == {a1, a2}
MCGroups == {g1, g2}
MCRefs == {r1, r2}
MCListsSecrets == {a2}
MCSymmetry == Permutations(MCGroups) \cup Permutations(MCRefs)
=============================================================================
