----------------------------- MODULE CatalogBrowser -----------------------------
(***************************************************************************)
(* The model catalog over what the syncs of a channel leave (CatalogRounds)*)
(* and the rows of another channel, which stay as they are.                *)
(***************************************************************************)
EXTENDS CatalogRounds, ModelCatalog

CONSTANTS
  Channel,         \* the channel that is synced
  OtherRows,       \* the rows of another one
  Described,       \* vendor, unit and endpoints of its models
  NameOrder,       \* the models by name
  Keys, InGroup,   \* its Keys, and those whose group is the common one
  Filters, PageSize

ASSUME BrowserAssumption ==
  /\ IsFiniteSet(Models) /\ IsFiniteSet(OtherRows) /\ PageSize \in Nat \ {0}
  /\ NameOrder \in Seq(Models \cup ModelsOf(OtherRows))
  /\ \A m \in Models \cup ModelsOf(OtherRows) : \E i \in DOMAIN NameOrder : NameOrder[i] = m
  /\ \A f \in Filters : DOMAIN f = Dimensions \cup {"q"}

\* The rows of the synced channel: a Key reaches the models of its group, or of
\* the account's default group; without either it reaches none.
ChannelRows ==
  {[channel |-> Channel, model |-> m, vendor |-> Described[m].vendor,
    unit |-> Described[m].unit, endpoints |-> Described[m].endpoints,
    keys |-> IF m \in group THEN InGroup ELSE {},
    stale |-> Stale(m), disabled |-> FALSE] : m \in {x \in Models : seen[x] # Unseen}}

Rows == ChannelRows \cup OtherRows

\* What a person sees who pages through the list to its end: the entries in
\* their order, and how many models the first page announces.
PageAt(f, i) == Page(Rows, f, PageSize, i * PageSize, NameOrder)
Entries(f) == FlattenSeq([i \in 1..Len(NameOrder) |-> PageAt(f, i - 1).items])

\* What the registry holds between syncs, it also holds during one: End may
\* come at any step.  So the listings need be looked at between syncs only.
Quiet == pc = "idle"

\* The list under filter f, paged through to its end, has n entries, each of
\* another model, and each with as many channels as it says.
Lists(f, n) ==
  LET e == Entries(f)
  IN /\ Len(e) = n /\ Cardinality({e[i].model : i \in DOMAIN e}) = n
     /\ PageAt(f, 0).total = n
     /\ \A i \in DOMAIN e : Cardinality(e[i].channels) = e[i].count

\* The number at a facet's value is the number of models the list shows, page by
\* page, when that value is chosen instead of the present ones, and Whole is the
\* number it shows over all units, although a model may be in several: a choice
\* never leads to an empty list, and none is hidden by what is chosen in its own
\* dimension.
FacetsAnnounceTotals ==
  Quiet => \A f \in Filters :
             /\ Lists(Without(f, "units"), Whole(Rows, f))
             /\ \A d \in Dimensions \ {"keys"} :
                  LET facet == Facet(Rows, f, d)
                  IN \A v \in DOMAIN facet : Lists([f EXCEPT ![d] = {v}], facet[v])
=============================================================================
