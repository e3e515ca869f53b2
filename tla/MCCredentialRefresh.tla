------------------------- MODULE MCCredentialRefresh -------------------------
(***************************************************************************)
(* An instance of CredentialRefresh for TLC: an upstream account with two  *)
(* rows here, and two sessions that renew its tokens.                      *)
(***************************************************************************)
EXTENDS CredentialRefresh, TLC

CONSTANTS r1, r2, k1, s1, s2, t1, t2, t3

MCRows == {r1, r2}
MCKeys == {k1}
MCRefreshLockKey == r1 :> k1 @@ r2 :> k1
MCTokens == {t1, t2, t3}
MCIssuer == [t \in MCTokens |-> k1]
MCSessions == {s1, s2}

MCSymmetry ==
  Permutations(MCRows) \cup Permutations(MCTokens) \cup Permutations(MCSessions)
=============================================================================
