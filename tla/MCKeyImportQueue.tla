-------------------------- MODULE MCKeyImportQueue --------------------------
(* KeyImportQueue on a small instance: see README.md for the bounds.        *)
EXTENDS KeyImportQueue, TLC

CONSTANTS i1, i2, a1, a2, a3, c1, c2

MCInstances == {i1, i2}
MCJobBound == (i1 :> 2) @@ (i2 :> 1)
MCAccounts == {a1, a2, a3}
MCChannels == {c1, c2}
MCChannelOf == (a1 :> c1) @@ (a2 :> c1) @@ (a3 :> c2)
MCTargetLists == (i1 :> {<<a1, a2>>}) @@ (i2 :> {<<a3>>})
MCInactive == {a3}
=============================================================================
