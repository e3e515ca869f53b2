------------------------------ MODULE MCHubImport ------------------------------
(***************************************************************************)
(* Two replicas and an upload; an account with a token and one with a      *)
(* Cookie, at sites of their own.                                          *)
(***************************************************************************)
EXTENDS HubImport, TLC

CONSTANTS r1, r2, u1, s1, s2, a1, a2, t1

MCReplicas == {r1, r2}
MCUploads == {u1}
MCSites == {s1, s2}
MCAccounts == {a1, a2}
MCSiteOf == a1 :> s1 @@ a2 :> s2
MCCookie == {a2}
MCTokens == {t1}
MCSymmetry == Permutations(MCReplicas)
================================================================================
