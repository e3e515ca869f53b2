------------------------------ MODULE ModelCatalog ------------------------------
(***************************************************************************)
(* The catalog of models over all channels, as GET /admin/catalog lists it *)
(* (store/model_catalog.go).  A row is a model on a channel:               *)
(*   [channel, model, vendor, unit, endpoints, keys, stale, disabled]      *)
(* where keys are the registered Keys that can call the model there.       *)
(*                                                                         *)
(* A filter gives the values of each dimension that are wanted, {} for all *)
(* (q gives the models whose name holds the text).  Facets count models    *)
(* for each value of a dimension under the filter without that dimension.  *)
(*                                                                         *)
(* The statements of a request are evaluated on one state: that a sync may *)
(* commit between two of them is left out, and so are the orders by name   *)
(* and by price.                                                           *)
(***************************************************************************)
EXTENDS Integers, FiniteSets, SequencesExt

Dimensions == {"channels", "vendors", "endpoints", "units", "keys"}

NoVendor == ""  \* vendor_name is NULL

\* The values a row has in a dimension.  One without a vendor is in no vendor's
\* facet and no choice of vendors finds it.
Values(r) == [channels |-> {r.channel}, vendors |-> {r.vendor} \ {NoVendor}, endpoints |-> r.endpoints,
              units |-> {r.unit}, keys |-> r.keys]

\* catalogWhere: a row has one of the wanted values of each dimension.
Where(rows, f) ==
  {r \in rows : /\ r.model \in f.q
                /\ \A d \in Dimensions : f[d] = {} \/ f[d] \cap Values(r)[d] # {}}

Without(f, d) == [f EXCEPT ![d] = {}]

ModelsOf(rows) == {r.model : r \in rows}

\* Mutant: the facet is counted under the whole filter.
OwnFacet(rows, f, d) ==
  LET shown == Where(rows, f)
  IN [v \in UNION {Values(r)[d] : r \in shown} |->
        Cardinality(ModelsOf({r \in shown : v \in Values(r)[d]}))]

\* Units, Endpoints, Vendors and Channels of a page.
Facet(rows, f, d) ==
  LET shown == Where(rows, Without(f, d))
  IN [v \in UNION {Values(r)[d] : r \in shown} |->
        Cardinality(ModelsOf({r \in shown : v \in Values(r)[d]}))]

\* Whole: the models of all units.
Whole(rows, f) == Cardinality(ModelsOf(Where(rows, Without(f, "units"))))

\* The rows listed under a model.
Details(rows, f, m) == {r \in Where(rows, f) : r.model = m}

\* ORDER BY count(*) DESC, c.model_name: a comes before b in the list of the rows
\* found.
Precedes(found, names, a, b) ==
  LET n(m) == Cardinality({r \in found : r.model = m})
      place(m) == CHOOSE i \in DOMAIN names : names[i] = m
  IN n(a) > n(b) \/ (n(a) = n(b) /\ place(a) < place(b))

\* The models in that order: each at the place that the number of those before
\* it gives.
Listing(rows, f, names) ==
  LET found == Where(rows, f)
      models == ModelsOf(found)
      before(m) == {k \in models : Precedes(found, names, k, m)}
  IN [i \in 1..Cardinality(models) |-> CHOOSE m \in models : Cardinality(before(m)) = i - 1]

\* An entry: a model, its rows, and its three counts.
Entry(rows, f, m) ==
  LET found == {r \in Where(rows, f) : r.model = m}
  IN [model |-> m, channels |-> Details(rows, f, m), count |-> Cardinality(found),
      stale |-> Cardinality({r \in found : r.stale}),
      disabled |-> Cardinality({r \in found : r.disabled})]

\* A page: the entries and the total, which every row of the page carries.
Page(rows, f, limit, offset, names) ==
  LET all == Listing(rows, f, names)
      shown == SubSeq(all, offset + 1, IF offset + limit < Len(all) THEN offset + limit ELSE Len(all))
  IN [items |-> [i \in DOMAIN shown |-> Entry(rows, f, shown[i])],
      total |-> IF shown = <<>> THEN 0 ELSE Len(all)]
=============================================================================
