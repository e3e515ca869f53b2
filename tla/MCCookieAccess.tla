----------------------------- MODULE MCCookieAccess -----------------------------
(***************************************************************************)
(* A Cookie of each of two users; the user of the second cannot be read    *)
(* from it.                                                                *)
(***************************************************************************)
EXTENDS CookieAccess, TLC

CONSTANTS c1, c2, u1, u2, h1, h2, b1, b2

MCCookies == {c1, c2}
MCUsers == {u1, u2}
MCHeaders == {h1, h2}
MCSites == {b1, b2}
MCOwner == c1 :> u1 @@ c2 :> u2
MCReads == c1 :> u1 @@ c2 :> None
MCSymmetry == Permutations(MCSites)
=============================================================================
