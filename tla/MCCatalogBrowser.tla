---------------------------- MODULE MCCatalogBrowser ----------------------------
(***************************************************************************)
(* Two accounts that are shown two models, and another channel that has    *)
(* one of them in another unit.                                            *)
(***************************************************************************)
EXTENDS CatalogBrowser, TLC

CONSTANTS a1, a2, m1, m2, c1, c2, k1, k2

MCAccounts == {a1, a2}
MCModels == {m1, m2}

\* The adapter of New API, and one that does not support a capability, which
\* run (collector/sync.go) provides for.
NewAPI == [c \in Capabilities |-> "supported"]
NoKeys == [NewAPI EXCEPT !["keys"] = "unsupported"]
MCAdapters == {NewAPI, NoKeys}

\* A manual sync asks for everything, the worker for what is due.
MCSelections == {Capabilities, {"model_catalog"}, {"groups", "pricing"}}

MCNameOrder == <<m1, m2>>

\* An upstream need not name the vendor of a model.
MCDescribed ==
  m1 :> [vendor |-> "v1", unit |-> "per_call", endpoints |-> {"openai"}] @@
  m2 :> [vendor |-> NoVendor, unit |-> "per_1m_token", endpoints |-> {"openai", "gemini"}]
MCOtherRows ==
  {[channel |-> c2, model |-> m1, vendor |-> "v1", unit |-> "per_1m_token",
    endpoints |-> {"gemini"}, keys |-> {k2}, stale |-> FALSE, disabled |-> TRUE]}
MCKeys == {k1, k2}

\* No filter, and each pair of dimensions with one value each.
NoFilter == [q |-> Models, channels |-> {}, vendors |-> {}, endpoints |-> {},
             units |-> {}, keys |-> {}]
MCFilters ==
  {NoFilter,
   [NoFilter EXCEPT !.q = {m1}, !.units = {"per_1m_token"}],
   [NoFilter EXCEPT !.channels = {c1}, !.vendors = {"v1"}],
   [NoFilter EXCEPT !.endpoints = {"gemini"}, !.units = {"per_1m_token"}],
   [NoFilter EXCEPT !.keys = {k1, k2}, !.endpoints = {"openai"}],
   [NoFilter EXCEPT !.channels = {c1, c2}, !.keys = {k1}]}

MCSymmetry == Permutations(MCAccounts)
=============================================================================
