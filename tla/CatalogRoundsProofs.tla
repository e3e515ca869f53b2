-------------------------- MODULE CatalogRoundsProofs --------------------------
(***************************************************************************)
(* Proofs about CatalogRounds and CatalogBrowser, for any accounts, models *)
(* and rounds: when a model is called delisted, when a catalog is called   *)
(* ok, when a group loses a model, and what the list of the catalog shows. *)
(*                                                                         *)
(* The first two hold where an account without models is a failed account  *)
(* (EmptyIsError, the NewAPI adapter): only then has every account had its *)
(* say in a collection that counts.                                        *)
(***************************************************************************)
EXTENDS CatalogBrowser, FiniteSetTheorems, SequenceTheorems, TLAPS

\* Between syncs nobody is authenticated.
Resting == pc = "idle" => authed = {}

\* A model has been gone for as many rounds as its row is behind.
Behind ==
  \A m \in Models : seen[m] # Unseen => gone[m] = MissingRounds \/ seq - seen[m] <= gone[m]

-----------------------------------------------------------------------------
LEMMA Constants ==
  /\ Adapters \subseteq [Capabilities -> Supports] /\ Selections \subseteq SUBSET Capabilities
  /\ MissingRounds \in Nat \ {0} /\ MaxSeq \in Nat /\ None \notin Capabilities
BY CatalogAssumption

LEMMA OrderIs == DOMAIN Order = 1..5 /\ Len(Order) = 5 /\ \A i \in 1..5 : Order[i] \in Capabilities
<1>1. DOMAIN Order = 1..5 /\ Len(Order) = 5
  BY DEF Order
<1>2. QED
  BY <1>1 DEF Capabilities

LEMMA LeastPlace ==
  ASSUME NEW S \in SUBSET (1..5), S # {}
  PROVE  \E j \in S : \A k \in S : j <= k
<1>1. CASE 1 \in S
  BY <1>1
<1>2. CASE 1 \notin S /\ 2 \in S
  BY <1>2
<1>3. CASE 1 \notin S /\ 2 \notin S /\ 3 \in S
  BY <1>3
<1>4. CASE 1 \notin S /\ 2 \notin S /\ 3 \notin S
  <2>1. \A k \in S : k \in {4, 5}
    BY <1>4
  <2>2. CASE 4 \in S
    BY <2>1, <2>2
  <2>3. CASE 4 \notin S
    <3>1. 5 \in S /\ \A k \in S : k = 5
      BY <2>1, <2>3
    <3>2. QED
      BY <3>1
  <2>4. QED
    BY <2>2, <2>3
<1>5. QED
  BY <1>1, <1>2, <1>3, <1>4

\* The sync goes on at a capability or is done.
LEMMA WantedTypes ==
  ASSUME NEW i \in Nat \ {0}
  PROVE  WantedFrom(i) \in {"done"} \cup Capabilities
<1> DEFINE rest == {j \in i..Len(Order) : Order[j] \in only}
           first == CHOOSE j \in rest : \A k \in rest : j <= k
<1>1. rest \in SUBSET (1..5)
  BY OrderIs
<1> HIDE DEF rest
<1>2. CASE rest = {}
  BY <1>2 DEF WantedFrom, rest
<1>3. CASE rest # {}
  <2>1. \E j \in rest : \A k \in rest : j <= k
    BY <1>1, <1>3, LeastPlace
  <2>2. first \in rest
    BY <2>1
  <2>3. Order[first] \in Capabilities
    BY <1>1, <2>2, OrderIs
  <2>4. WantedFrom(i) = Order[first]
    BY <1>3 DEF WantedFrom, rest
  <2>5. QED
    BY <2>3, <2>4
<1>4. QED
  BY <1>2, <1>3

LEMMA AfterTypes ==
  ASSUME NEW cap \in Capabilities
  PROVE  After(cap) \in {"done"} \cup Capabilities
<1> DEFINE place == CHOOSE i \in DOMAIN Order : Order[i] = cap
<1>1. \E i \in DOMAIN Order : Order[i] = cap
  BY DEF Capabilities
<1>2. place \in 1..5
  BY <1>1, OrderIs
<1> HIDE DEF place
<1>3. 1 + place \in Nat \ {0}
  BY <1>2
<1>4. WantedFrom(1 + place) \in {"done"} \cup Capabilities
  BY <1>3, WantedTypes
<1>5. QED
  BY <1>4 DEF After, place

\* A step of the sync leaves an item behind and goes on.
LEMMA DoneTypes ==
  ASSUME TypeOK, NEW cap \in Capabilities, NEW status \in Statuses, Done(cap, status),
         seq' \in 0..MaxSeq, seen' \in [Models -> Unseen..MaxSeq], \A m \in Models : seen'[m] <= seq',
         group' \in SUBSET Models, gone' \in [Models -> 0..MissingRounds]
  PROVE  TypeOK'
<1>1. item' \in [cap : Capabilities, status : Statuses]
  BY DEF Done
<1>2. pc' \in {"done"} \cup Capabilities
  BY AfterTypes DEF Done
<1>3. UNCHANGED <<support, active, offer, only, listed, authed>>
  BY DEF Done
<1>4. QED
  BY <1>1, <1>2, <1>3 DEF TypeOK

LEMMA StatusTypes ==
  ASSUME NEW cap, NEW rows, NEW errors
  PROVE  Status(cap, rows, errors) \in {"ok", "partial", "failed"}
BY DEF Status

LEMMA CapabilityNames ==
  {"account", "groups", "keys", "pricing", "model_catalog"} \subseteq Capabilities
<1>1. /\ Order[1] = "account" /\ Order[2] = "groups" /\ Order[3] = "keys" /\ Order[4] = "pricing"
      /\ Order[5] = "model_catalog"
  BY DEF Order
<1>2. QED
  BY <1>1, OrderIs

\* Steps that write nothing of the catalog.
LEMMA OtherCapabilities ==
  ASSUME TypeOK,
         \/ \E cap \in Capabilities : Skip(cap) \/ SaveFails(cap)
         \/ \E whole \in SUBSET authed : SyncAccounts(whole)
         \/ \E whole \in SUBSET authed, rows \in 0..1 : SyncKeys(rows, whole)
         \/ \E full, bare \in SUBSET authed : SyncGroups(full, bare) \/ SyncPricing(full, bare)
  PROVE  TypeOK' /\ UNCHANGED <<seq, seen, gone>>
<1>t. /\ seq \in 0..MaxSeq /\ seen \in [Models -> Unseen..MaxSeq] /\ (\A m \in Models : seen[m] <= seq)
      /\ group \in SUBSET Models /\ gone \in [Models -> 0..MissingRounds]
      /\ offer \in [Accounts -> SUBSET Models] /\ authed \in SUBSET listed /\ listed \in SUBSET Accounts
  BY DEF TypeOK
<1>1. UNCHANGED <<seq, seen, gone>>
  BY DEF Skip, SaveFails, SyncAccounts, SyncKeys, SyncGroups, SyncPricing
<1>2. group' \in SUBSET Models
  <2>1. ASSUME NEW full \in SUBSET authed, NEW bare \in SUBSET authed, SyncGroups(full, bare)
        PROVE  group' \in SUBSET Models
    <3>1. Offered(full) \in SUBSET Models
      BY <1>t DEF Offered
    <3>2. QED
      BY <1>t, <2>1, <3>1 DEF SyncGroups, GroupAfter
  <2>2. QED
    BY <1>t, <2>1 DEF Skip, SaveFails, SyncAccounts, SyncKeys, SyncPricing
<1>3. PICK cap \in Capabilities, status \in Statuses : Done(cap, status)
  BY StatusTypes, CapabilityNames
     DEF Skip, SaveFails, SyncAccounts, SyncKeys, SyncGroups, SyncPricing, Statuses
<1>4. TypeOK'
  BY <1>t, <1>1, <1>2, <1>3, DoneTypes
<1>5. QED
  BY <1>1, <1>4

LEMMA StampTypes ==
  ASSUME TypeOK, NEW full \in SUBSET authed, NEW bare \in SUBSET authed, SyncCatalog(full, bare)
  PROVE  /\ seq' \in 0..MaxSeq /\ Stamp(full, bare) = seq' /\ seq <= seq' /\ seq' <= seq + 1
         /\ seen' \in [Models -> Unseen..MaxSeq] /\ \A m \in Models : seen'[m] <= seq'
         /\ gone' \in [Models -> 0..MissingRounds]
<1>1. /\ seq \in 0..MaxSeq /\ seen \in [Models -> Unseen..MaxSeq] /\ (\A m \in Models : seen[m] <= seq)
      /\ gone \in [Models -> 0..MissingRounds] /\ MaxSeq \in Nat /\ MissingRounds \in Nat
  BY Constants DEF TypeOK
<1>2. seq' \in 0..MaxSeq /\ Stamp(full, bare) = seq' /\ seq <= seq' /\ seq' <= seq + 1
  BY <1>1 DEF SyncCatalog, Stamp
<1>3. seen' = [m \in Models |-> IF m \in Offered(full) THEN seq' ELSE seen[m]]
  BY <1>2 DEF SyncCatalog
<1>4. seen' \in [Models -> Unseen..MaxSeq] /\ \A m \in Models : seen'[m] <= seq'
  BY <1>1, <1>2, <1>3 DEF Unseen
<1>5. gone' \in [Models -> 0..MissingRounds]
  BY <1>1 DEF SyncCatalog
<1>6. QED
  BY <1>2, <1>4, <1>5

LEMMA CatalogTypes ==
  ASSUME TypeOK, NEW full \in SUBSET authed, NEW bare \in SUBSET authed, SyncCatalog(full, bare)
  PROVE  TypeOK'
<1>1. PICK status \in Statuses : Done("model_catalog", status)
  BY StatusTypes DEF SyncCatalog, Statuses
<1>2. group' \in SUBSET Models
  BY DEF SyncCatalog, TypeOK
<1>3. QED
  BY <1>1, <1>2, CapabilityNames, StampTypes, DoneTypes

LEMMA QuietTypes ==
  ASSUME TypeOK, Resting,
         \/ \E a \in Accounts, ms \in SUBSET Models : Reoffer(a, ms)
         \/ \E a \in Accounts : Switch(a) \/ Provision(a)
         \/ \E caps \in Selections : Start(caps)
         \/ \E good \in SUBSET listed : Authenticate(good)
         \/ End
  PROVE  TypeOK' /\ UNCHANGED <<seq, seen, gone>>
<1>1. ASSUME NEW a \in Accounts, NEW ms \in SUBSET Models, Reoffer(a, ms)
      PROVE  TypeOK' /\ UNCHANGED <<seq, seen, gone>>
  BY <1>1 DEF Reoffer, TypeOK
<1>2. ASSUME NEW a \in Accounts, Switch(a)
      PROVE  TypeOK' /\ UNCHANGED <<seq, seen, gone>>
  BY <1>2 DEF Switch, TypeOK
<1>p. ASSUME NEW a \in Accounts, Provision(a)
      PROVE  TypeOK' /\ UNCHANGED <<seq, seen, gone>>
  <2>1. group' \in SUBSET Models
    BY <1>p DEF Provision, TypeOK
  <2>2. QED
    BY <1>p, <2>1 DEF Provision, TypeOK
<1>3. ASSUME NEW caps \in Selections, Start(caps)
      PROVE  TypeOK' /\ UNCHANGED <<seq, seen, gone>>
  <2>1. only' \in SUBSET Capabilities /\ listed' = active
    BY <1>3, Constants DEF Start
  <2>2. authed' \in SUBSET listed'
    BY <1>3 DEF Start, Resting
  <2>3. QED
    BY <1>3, <2>1, <2>2 DEF Start, TypeOK
<1>4. ASSUME NEW good \in SUBSET listed, Authenticate(good)
      PROVE  TypeOK' /\ UNCHANGED <<seq, seen, gone>>
  <2>1. pc' \in {"done"} \cup Capabilities
    BY <1>4, WantedTypes DEF Authenticate
  <2>2. QED
    BY <1>4, <2>1 DEF Authenticate, TypeOK
<1>5. CASE End
  BY <1>5 DEF End, TypeOK
<1>6. QED
  BY <1>1, <1>2, <1>p, <1>3, <1>4, <1>5

-----------------------------------------------------------------------------
(***************************************************************************)
(* The theorems                                                            *)
(***************************************************************************)
LEMMA NotIdle == "idle" \notin {"done", "auth"} \cup Capabilities
BY OrderIs DEF Order, Capabilities

LEMMA StaysResting ==
  ASSUME TypeOK, Resting, [Next]_vars
  PROVE  Resting'
<1>1. ASSUME NEW cap \in Capabilities, NEW status, Done(cap, status)
      PROVE  Resting'
  BY <1>1, AfterTypes, NotIdle DEF Done, Resting
<1>2. CASE \/ \E cap \in Capabilities : Skip(cap) \/ SaveFails(cap)
           \/ \E whole \in SUBSET authed : SyncAccounts(whole)
           \/ \E whole \in SUBSET authed, rows \in 0..1 : SyncKeys(rows, whole)
           \/ \E full, bare \in SUBSET authed :
                SyncGroups(full, bare) \/ SyncPricing(full, bare) \/ SyncCatalog(full, bare)
  BY <1>1, <1>2, CapabilityNames
     DEF Skip, SaveFails, SyncAccounts, SyncKeys, SyncGroups, SyncPricing, SyncCatalog
<1>3. ASSUME NEW good \in SUBSET listed, Authenticate(good)
      PROVE  Resting'
  BY <1>3, WantedTypes, NotIdle DEF Authenticate, Resting
<1>4. CASE \/ \E a \in Accounts, ms \in SUBSET Models : Reoffer(a, ms)
           \/ \E a \in Accounts : Switch(a) \/ Provision(a)
           \/ \E caps \in Selections : Start(caps)
           \/ End \/ UNCHANGED vars
  BY <1>4 DEF Reoffer, Switch, Provision, Start, End, vars, Resting
<1>5. QED
  BY <1>2, <1>3, <1>4 DEF Next

(* The variables have the types the code gives them, and no more collections
   are counted than there were. *)
THEOREM TypeCorrect == Spec => [](TypeOK /\ Resting)
<1>1. Init => TypeOK /\ Resting
  BY Constants DEF Init, TypeOK, Resting, Unseen
<1>2. TypeOK /\ Resting /\ [Next]_vars => TypeOK' /\ Resting'
  <2> SUFFICES ASSUME TypeOK, Resting, [Next]_vars
               PROVE  TypeOK'
    BY StaysResting
  <2>1. ASSUME NEW full \in SUBSET authed, NEW bare \in SUBSET authed, SyncCatalog(full, bare)
        PROVE  TypeOK'
    BY <2>1, CatalogTypes
  <2>2. CASE UNCHANGED vars
    BY <2>2 DEF vars, TypeOK
  <2>3. QED
    BY <2>1, <2>2, OtherCapabilities, QuietTypes DEF Next
<1>3. QED
  BY <1>1, <1>2, PTL DEF Spec

\* Where a bare account is a failed one, a collection that counts is one to which
\* every account contributed.
LEMMA ReliableIsFull ==
  ASSUME TypeOK, EmptyIsError, NEW full \in SUBSET authed, NEW bare \in SUBSET authed,
         ~CatalogErrors(full, bare)
  PROVE  full = listed
BY DEF CatalogErrors, TypeOK

LEMMA BehindStep ==
  ASSUME TypeOK, Resting, Behind, EmptyIsError, [Next]_vars
  PROVE  Behind'
<1>1. ASSUME NEW full \in SUBSET authed, NEW bare \in SUBSET authed, SyncCatalog(full, bare)
      PROVE  Behind'
  <2> SUFFICES ASSUME NEW m \in Models, seen'[m] # Unseen
               PROVE  gone'[m] = MissingRounds \/ seq' - seen'[m] <= gone'[m]
    BY DEF Behind
  <2>1. /\ seq \in 0..MaxSeq /\ seen[m] \in Unseen..MaxSeq /\ gone[m] \in 0..MissingRounds
        /\ MissingRounds \in Nat /\ MaxSeq \in Nat /\ Unseen \in Int
    BY Constants DEF TypeOK, Unseen
  <2>2. seq' \in 0..MaxSeq /\ Stamp(full, bare) = seq' /\ gone'[m] \in 0..MissingRounds
    BY <1>1, StampTypes
  <2>3. CASE m \in Offered(full)
    <3>1. seen'[m] = seq'
      BY <1>1, <2>2, <2>3 DEF SyncCatalog
    <3>2. QED
      BY <2>1, <2>2, <3>1
  <2>4. CASE m \notin Offered(full)
    <3>1. /\ seen'[m] = seen[m]
          /\ gone'[m] = IF full = listed /\ gone[m] < MissingRounds THEN gone[m] + 1 ELSE gone[m]
      BY <1>1, <2>4 DEF SyncCatalog
    <3>2. seq' = seq \/ (seq' = seq + 1 /\ full = listed)
      BY <1>1, ReliableIsFull DEF SyncCatalog, PresenceReliable
    <3>3. gone[m] = MissingRounds \/ seq - seen[m] <= gone[m]
      BY <3>1 DEF Behind
    <3>4. QED
      BY <2>1, <3>1, <3>2, <3>3
  <2>5. QED
    BY <2>3, <2>4
<1>2. CASE UNCHANGED <<seq, seen, gone>>
  BY <1>2 DEF Behind
<1>3. CASE UNCHANGED vars
  BY <1>3 DEF vars, Behind
<1>4. QED
  BY <1>1, <1>2, <1>3, OtherCapabilities, QuietTypes DEF Next

(* upstream_write.go, sync.go:catalogPresenceReliable (FR-126): a model is
   reported as delisted only after MissingRounds collections to which every
   account contributed and that did not have it. *)
THEOREM NoFalseDelisting == EmptyIsError => (Spec => []NeverWronglyDelisted)
<1> SUFFICES ASSUME EmptyIsError
             PROVE  Spec => []NeverWronglyDelisted
  OBVIOUS
<1>1. Init => Behind
  BY DEF Init, Behind
<1>2. TypeOK /\ Resting /\ Behind /\ [Next]_vars => Behind'
  BY BehindStep
<1>3. TypeOK /\ Behind => NeverWronglyDelisted
  <2> SUFFICES ASSUME TypeOK, Behind, NEW m \in Models, Stale(m)
               PROVE  gone[m] = MissingRounds
    BY DEF NeverWronglyDelisted
  <2>1. seq \in Int /\ seen[m] \in Int /\ gone[m] \in 0..MissingRounds /\ MissingRounds \in Nat
    BY Constants DEF TypeOK, Unseen
  <2>2. QED
    BY <2>1 DEF Stale, Behind
<1>4. QED
  BY <1>1, <1>2, <1>3, TypeCorrect, PTL DEF Spec

(* sync.go:capabilityResult: a catalog that is called ok holds every model of
   every account, as of this round. *)
THEOREM OkComplete == EmptyIsError => (Spec => OkIsComplete)
<1> SUFFICES ASSUME EmptyIsError
             PROVE  Spec => OkIsComplete
  OBVIOUS
<1>1. ASSUME TypeOK, Next, pc = "model_catalog", item'.cap = "model_catalog", item'.status = "ok", pc' # pc
      PROVE  \A a \in listed : \A m \in offer[a] : seen'[m] = seq' /\ seq' = seq + 1
  <2>1. PICK full \in SUBSET authed, bare \in SUBSET authed : SyncCatalog(full, bare)
    <3>1. item' = NoItem => item'.cap # "model_catalog"
      BY Constants, CapabilityNames DEF NoItem
    <3>2. \A cap \in Capabilities : ~Skip(cap) /\ ~SaveFails(cap)
      BY <1>1 DEF Skip, SaveFails, Done
    <3>3. QED
      BY <1>1, <3>1, <3>2
         DEF Next, Reoffer, Switch, Provision, Start, Authenticate, SyncAccounts, SyncKeys, SyncGroups, SyncPricing,
             End, At
  <2>2. ~CatalogErrors(full, bare)
    BY <1>1, <2>1 DEF SyncCatalog, Done, Status
  <2>3. full = listed /\ \A a \in listed : offer[a] # {} /\ offer[a] \subseteq Models
    BY <1>1, <2>1, <2>2, ReliableIsFull DEF SyncCatalog, Answers, TypeOK
  <2> SUFFICES ASSUME NEW a \in listed, NEW m \in offer[a]
               PROVE  seen'[m] = seq' /\ seq' = seq + 1
    OBVIOUS
  <2>4. m \in Offered(full) /\ m \in Models
    BY <2>3 DEF Offered
  <2>5. PresenceReliable(full, bare)
    BY <2>2, <2>4 DEF PresenceReliable
  <2>6. QED
    BY <2>1, <2>4, <2>5 DEF SyncCatalog, Stamp
<1>2. TypeOK /\ Resting /\ [Next]_vars =>
        [ (pc = "model_catalog" /\ item'.cap = "model_catalog" /\ item'.status = "ok" /\ pc' # pc)
            => \A a \in listed : \A m \in offer[a] : seen'[m] = seq' /\ seq' = seq + 1 ]_vars
  BY <1>1
<1>3. QED
  BY <1>2, TypeCorrect, PTL DEF Spec, OkIsComplete

\* A sync that is done with the groups is not at the groups.
LEMMA GroupsDone == After("groups") # "groups"
<1>1. Order[2] = "groups" /\ \A i \in 1..5 : Order[i] = "groups" => i = 2
  BY DEF Order
<1> DEFINE place == CHOOSE i \in DOMAIN Order : Order[i] = "groups"
           rest == {j \in 3..Len(Order) : Order[j] \in only}
           first == CHOOSE j \in rest : \A k \in rest : j <= k
<1>g. \E i \in DOMAIN Order : Order[i] = "groups"
  BY <1>1, OrderIs
<1>p. place \in 1..5 /\ Order[place] = "groups"
  BY <1>g, OrderIs
<1>w. After("groups") = WantedFrom(1 + place)
  BY DEF After
<1> HIDE DEF place
<1>2. place = 2
  BY <1>1, <1>p
<1>3. After("groups") = WantedFrom(3)
  BY <1>2, <1>w
<1>4. WantedFrom(3) = IF rest = {} THEN "done" ELSE Order[first]
  BY DEF WantedFrom
<1>5. rest \in SUBSET (1..5) /\ 2 \notin rest
  BY OrderIs
<1> HIDE DEF rest
<1>6. CASE rest = {}
  BY <1>3, <1>4, <1>6
<1>7. CASE rest # {}
  <2>1. first \in rest
    BY <1>5, <1>7, LeastPlace
  <2>2. QED
    BY <1>1, <1>3, <1>4, <1>5, <1>7, <2>1
<1>8. QED
  BY <1>6, <1>7

(* upsertGroups, under a sync and under Runner.ProvisionKeys: the list of a group
   loses a model only by a sync to which every account answered without the model,
   or by a provisioning whose account answered with other models. *)
THEOREM ShrinksKnowingly == Spec => GroupShrinksKnowingly
<1> DEFINE Known(m) == IF pc' = pc THEN \E a \in active : offer[a] # {} /\ m \notin offer[a]
                       ELSE \A a \in listed : a \in authed /\ m \notin offer[a]
<1>1. ASSUME TypeOK, Next, NEW m \in group \ group'
      PROVE  Known(m)
  <2>1. ASSUME NEW full \in SUBSET authed, NEW bare \in SUBSET authed, SyncGroups(full, bare)
        PROVE  Known(m)
    <3>1. listed = full /\ m \notin Offered(full)
      BY <1>1, <2>1 DEF SyncGroups, GroupAfter
    <3>2. pc = "groups" /\ pc' # pc
      BY <2>1, GroupsDone DEF SyncGroups, At, Done
    <3>3. QED
      BY <3>1, <3>2 DEF Offered
  <2>2. ASSUME NEW a \in Accounts, Provision(a)
        PROVE  Known(m)
    BY <1>1, <2>2 DEF Provision
  <2>3. QED
    BY <1>1, <2>1, <2>2
       DEF Next, Reoffer, Switch, Start, Authenticate, Skip, SaveFails, SyncAccounts, SyncKeys,
           SyncPricing, SyncCatalog, End
<1>2. TypeOK /\ Resting /\ [Next]_vars => [\A m \in group \ group' : Known(m)]_vars
  BY <1>1
<1>3. QED
  BY <1>2, TypeCorrect, PTL DEF Spec, GroupShrinksKnowingly
-----------------------------------------------------------------------------
(***************************************************************************)
(* The list of the catalog.  It holds in every state, whatever the syncs   *)
(* left: the models have their places by a strict total order, the pages   *)
(* cut the list without gap or overlap, and a facet counts under the       *)
(* condition that its value would be listed with.                          *)
(***************************************************************************)
\* A set of numbers has a least one.
LEMMA LeastOne ==
  ASSUME NEW T \in SUBSET Nat, T # {}
  PROVE  \E x \in T : \A y \in T : x <= y
<1>1. PICK x \in T : \A y \in T : ~ (<<y, x>> \in OpToRel(<, Nat))
  BY WFMin, NatLessThanWellFounded
<1>2. \A y \in T : ~ (y < x)
  BY <1>1 DEF OpToRel
<1> QED
  BY <1>2

\* The sequences that are flattened, one after the other: any g that appends them one
\* by one ends in the same.
LEMMA Flattened ==
  ASSUME NEW seqs, NEW n \in Nat, n # 0, Len(seqs) = n, NEW g,
         \A i \in 1..n : g[i] = IF i = 1 THEN seqs[i] ELSE g[i - 1] \o seqs[i]
  PROVE  FlattenSeq(seqs) = g[n]
<1> DEFINE Flat(h) == h = [i \in 1..n |-> IF i = 1 THEN seqs[i] ELSE h[i - 1] \o seqs[i]]
           f == CHOOSE h : Flat(h)
<1>1. FlattenSeq(seqs) = f[n]
  BY DEF FlattenSeq
<1>2. \E h : Flat(h)
  <2> DEFINE h == [i \in 1..n |-> g[i]]
  <2>1. ASSUME NEW i \in 1..n
        PROVE  h[i] = IF i = 1 THEN seqs[i] ELSE h[i - 1] \o seqs[i]
    <3>1. i # 1 => i - 1 \in 1..n
      OBVIOUS
    <3> QED
      BY <3>1
  <2>2. h = [i \in 1..n |-> h[i]]
    OBVIOUS
  <2> HIDE DEF h
  <2>3. Flat(h)
    BY <2>1, <2>2
  <2> QED
    BY <2>3
<1>3. Flat(f)
  BY <1>2
<1> HIDE DEF f
<1>4. \A i \in 1..n : f[i] = IF i = 1 THEN seqs[i] ELSE f[i - 1] \o seqs[i]
  BY <1>3, ZenonT(30)
<1> HIDE DEF Flat
<1> DEFINE Wrong == {i \in 1..n : f[i] # g[i]}
<1>5. Wrong = {}
  <2> SUFFICES ASSUME Wrong # {} PROVE FALSE
    OBVIOUS
  <2>1. PICK i \in Wrong : \A k \in Wrong : i <= k
    <3>1. Wrong \in SUBSET Nat
      OBVIOUS
    <3> QED
      BY <3>1, LeastOne
  <2>2. i \in 1..n /\ f[i] # g[i]
    BY <2>1
  <2>3. i # 1
    BY <2>2, <1>4
  <2>4. i - 1 \in 1..n /\ ~ (i <= i - 1)
    BY <2>2, <2>3
  <2>5. f[i - 1] = g[i - 1]
    BY <2>1, <2>4
  <2>6. f[i] = f[i - 1] \o seqs[i] /\ g[i] = g[i - 1] \o seqs[i]
    <3> HIDE DEF Wrong
    <3> QED
      BY <2>2, <2>3, <1>4
  <2> QED
    BY <2>2, <2>5, <2>6
<1>6. n \in 1..n
  OBVIOUS
<1> QED
  BY <1>1, <1>5, <1>6

\* The number of elements before an element of a finite set, under a strict total
\* order, is its place: each number below the cardinality is the place of one.
LEMMA Places ==
  ASSUME NEW S, IsFiniteSet(S), NEW n, n = Cardinality(S), NEW below \in [S -> SUBSET S],
         \A a \in S : a \notin below[a],
         \A a, b \in S : a = b \/ a \in below[b] \/ b \in below[a],
         \A a, b \in S : a \in below[b] => below[a] \subseteq below[b]
  PROVE  /\ n \in Nat
         /\ \A a \in S : Cardinality(below[a]) \in 0..(n - 1)
         /\ \A i \in 0..(n - 1) : \E a \in S : Cardinality(below[a]) = i
         /\ \A a, b \in S : Cardinality(below[a]) = Cardinality(below[b]) => a = b
<1>1. n \in Nat
  BY FS_CardinalityType
<1>2. ASSUME NEW a \in S PROVE IsFiniteSet(below[a]) /\ Cardinality(below[a]) \in 0..(n - 1)
  <2>1. IsFiniteSet(S \ {a}) /\ Cardinality(S \ {a}) = n - 1
    BY FS_RemoveElement
  <2>2. below[a] \in SUBSET (S \ {a})
    OBVIOUS
  <2>3. IsFiniteSet(below[a]) /\ Cardinality(below[a]) <= n - 1
    BY <2>1, <2>2, FS_Subset
  <2> QED
    BY <2>3, FS_CardinalityType, <1>1
<1>3. ASSUME NEW a \in S, NEW b \in S, a \in below[b] PROVE Cardinality(below[a]) # Cardinality(below[b])
  BY <1>2, <1>3, FS_Subset
<1>4. ASSUME NEW a \in S, NEW b \in S, Cardinality(below[a]) = Cardinality(below[b]) PROVE a = b
  BY <1>3, <1>4
<1> DEFINE place == [a \in S |-> Cardinality(below[a])]
<1>5. place \in Injection(S, 0..(n - 1))
  <2>1. place \in [S -> 0..(n - 1)]
    BY <1>2
  <2>2. \A a, b \in DOMAIN place : place[a] = place[b] => a = b
    BY <1>4
  <2> QED
    BY <2>1, <2>2 DEF Injection, IsInjective
<1>6. place \in Surjection(S, 0..(n - 1))
  <2>1. IsFiniteSet(0..(n - 1)) /\ Cardinality(0..(n - 1)) = n
    <3>1. 0 \in Int /\ n - 1 \in Int /\ (n - 1) - 0 + 1 = n /\ (0 > n - 1 => n = 0)
      BY <1>1
    <3> QED
      BY <3>1, FS_Interval
  <2> HIDE DEF place
  <2> QED
    BY <2>1, <1>5, FS_Injection
<1>7. \A i \in 0..(n - 1) : \E a \in S : Cardinality(below[a]) = i
  BY <1>6 DEF Surjection
<1> QED
  BY <1>1, <1>2, <1>4, <1>7

LEMMA UpTo == \A n \in Nat : IsFiniteSet(1..n) /\ Cardinality(1..n) = n
<1> SUFFICES ASSUME NEW n \in Nat PROVE IsFiniteSet(1..n) /\ Cardinality(1..n) = n
  OBVIOUS
<1>1. 1 \in Int /\ n \in Int /\ n - 1 + 1 = n /\ (1 > n => n = 0)
  OBVIOUS
<1> QED
  BY <1>1, FS_Interval

\* The rows of the channel and those of the other one are finitely many, and the
\* order of the names has their models.
Named == Models \cup ModelsOf(OtherRows)

LEMMA FewRows == IsFiniteSet(Rows) /\ ModelsOf(Rows) \subseteq Named
<1> DEFINE Had == {x \in Models : seen[x] # Unseen}
           RowOf(m) == [channel |-> Channel, model |-> m, vendor |-> Described[m].vendor,
                        unit |-> Described[m].unit, endpoints |-> Described[m].endpoints,
                        keys |-> IF m \in group THEN InGroup ELSE {},
                        stale |-> Stale(m), disabled |-> FALSE]
           row == [m \in Had |-> RowOf(m)]
<1>1. ChannelRows = {RowOf(m) : m \in Had}
  BY DEF ChannelRows
<1>2. \A m \in Had : RowOf(m).model = m /\ m \in Models
  OBVIOUS
<1> HIDE DEF RowOf
<1>3. row \in Surjection(Had, ChannelRows)
  BY <1>1 DEF Surjection
<1>4. IsFiniteSet(Had)
  <2>1. Had \in SUBSET Models
    OBVIOUS
  <2> QED
    BY <2>1, BrowserAssumption, FS_Subset
<1> HIDE DEF row, Had
<1>5. IsFiniteSet(ChannelRows)
  BY <1>3, <1>4, FS_Surjection
<1>6. IsFiniteSet(Rows)
  BY <1>5, BrowserAssumption, FS_Union DEF Rows
<1>7. ModelsOf(Rows) \subseteq Named
  BY <1>1, <1>2 DEF ModelsOf, Rows, Named
<1> QED
  BY <1>6, <1>7

LEMMA FewModels ==
  ASSUME NEW found, IsFiniteSet(found)
  PROVE  IsFiniteSet(ModelsOf(found))
<1> DEFINE h == [r \in found |-> r.model]
<1>1. h \in Surjection(found, ModelsOf(found))
  BY DEF Surjection, ModelsOf
<1> QED
  BY <1>1, FS_Surjection

LEMMA NamesCover ==
  /\ Len(NameOrder) \in Nat /\ DOMAIN NameOrder = 1..Len(NameOrder)
  /\ \A m \in Named : \E i \in 1..Len(NameOrder) : NameOrder[i] = m
BY BrowserAssumption DEF Named

LEMMA InOrder ==
  ASSUME NEW found, IsFiniteSet(found), ModelsOf(found) \subseteq Named,
         NEW M, M = ModelsOf(found)
  PROVE  /\ \A a \in M : ~Precedes(found, NameOrder, a, a)
         /\ \A a, b \in M : a = b \/ Precedes(found, NameOrder, a, b) \/ Precedes(found, NameOrder, b, a)
         /\ \A a, b, c \in M : Precedes(found, NameOrder, a, b) /\ Precedes(found, NameOrder, b, c)
                                 => Precedes(found, NameOrder, a, c)
<1> DEFINE n(m) == Cardinality({r \in found : r.model = m})
           place(m) == CHOOSE i \in DOMAIN NameOrder : NameOrder[i] = m
<1>1. \A a, b : Precedes(found, NameOrder, a, b) <=> (n(a) > n(b) \/ (n(a) = n(b) /\ place(a) < place(b)))
  BY DEF Precedes
<1>2. \A m : n(m) \in Nat
  <2> SUFFICES ASSUME NEW m PROVE n(m) \in Nat
    OBVIOUS
  <2>1. {r \in found : r.model = m} \in SUBSET found
    OBVIOUS
  <2> QED
    BY <2>1, FS_Subset, FS_CardinalityType
<1>3. \A m \in M : place(m) \in Nat /\ NameOrder[place(m)] = m
  <2> SUFFICES ASSUME NEW m \in M PROVE place(m) \in Nat /\ NameOrder[place(m)] = m
    OBVIOUS
  <2>1. \E i \in DOMAIN NameOrder : NameOrder[i] = m
    BY NamesCover
  <2>2. place(m) \in DOMAIN NameOrder /\ NameOrder[place(m)] = m
    BY <2>1
  <2> QED
    BY <2>2, NamesCover
<1> HIDE DEF n, place
<1> QED
  BY <1>1, <1>2, <1>3

\* What the list of a filter is: each model of the rows found, once.
LEMMA Listed ==
  ASSUME NEW f, NEW all, all = Listing(Rows, f, NameOrder),
         NEW M, M = ModelsOf(Where(Rows, f)), NEW n, n = Cardinality(M)
  PROVE  /\ n \in Nat /\ n <= Len(NameOrder) /\ IsFiniteSet(M)
         /\ all \in [1..n -> M] /\ \A m \in M : \E i \in 1..n : all[i] = m
<1> DEFINE found == Where(Rows, f)
           models == ModelsOf(found)
           Before(m) == {k \in models : Precedes(found, NameOrder, k, m)}
           below == [m \in models |-> Before(m)]
           Pick(i) == CHOOSE m \in models : Cardinality(Before(m)) = i - 1
<1>1. IsFiniteSet(found) /\ models \subseteq Named
  <2>1. found \in SUBSET Rows
    BY DEF Where
  <2>2. IsFiniteSet(found)
    BY <2>1, FewRows, FS_Subset
  <2> QED
    BY <2>1, <2>2, FewRows DEF ModelsOf
<1>2. IsFiniteSet(M) /\ M = models
  BY <1>1, FewModels
<1>3. /\ \A m \in models : below[m] = Before(m)
      /\ below \in [models -> SUBSET models]
      /\ \A a, b \in models : a \in below[b] <=> Precedes(found, NameOrder, a, b)
  <2> HIDE DEF found, models
  <2> QED
    OBVIOUS
<1>4. /\ n \in Nat
      /\ \A a \in models : Cardinality(below[a]) \in 0..(n - 1)
      /\ \A i \in 0..(n - 1) : \E a \in models : Cardinality(below[a]) = i
      /\ \A a, b \in models : Cardinality(below[a]) = Cardinality(below[b]) => a = b
  <2>1. /\ \A a \in models : ~Precedes(found, NameOrder, a, a)
        /\ \A a, b \in models : a = b \/ Precedes(found, NameOrder, a, b) \/ Precedes(found, NameOrder, b, a)
        /\ \A a, b, c \in models : Precedes(found, NameOrder, a, b) /\ Precedes(found, NameOrder, b, c)
                               => Precedes(found, NameOrder, a, c)
    BY <1>1, InOrder
  <2> HIDE DEF below, found, models
  <2>2. /\ \A a \in models : a \notin below[a]
        /\ \A a, b \in models : a = b \/ a \in below[b] \/ b \in below[a]
        /\ \A a, b \in models : a \in below[b] => below[a] \subseteq below[b]
    BY <2>1, <1>3
  <2> QED
    BY <1>2, <1>3, <2>2, Places
<1>5. all = [i \in 1..n |-> Pick(i)]
  <2>1. Listing(Rows, f, NameOrder) = [i \in 1..Cardinality(models) |-> Pick(i)]
    BY Zenon DEF Listing
  <2> HIDE DEF Pick, models
  <2> QED
    BY <2>1, <1>2
<1>6. \A i \in 1..n : all[i] \in models /\ Cardinality(below[all[i]]) = i - 1
  <2> SUFFICES ASSUME NEW i \in 1..n PROVE all[i] \in models /\ Cardinality(below[all[i]]) = i - 1
    OBVIOUS
  <2>1. i - 1 \in 0..(n - 1)
    BY <1>4
  <2> HIDE DEF Before, below, models
  <2>2. \E m \in models : Cardinality(Before(m)) = i - 1
    BY <2>1, <1>3, <1>4
  <2>3. Pick(i) \in models /\ Cardinality(Before(Pick(i))) = i - 1
    BY <2>2
  <2> HIDE DEF Pick
  <2> QED
    BY <2>3, <1>3, <1>5
<1> HIDE DEF Before, below, Pick
<1>7. all \in [1..n -> M]
  <2> HIDE DEF models
  <2> QED
    BY <1>2, <1>5, <1>6
<1>8. \A m \in M : \E i \in 1..n : all[i] = m
  <2> HIDE DEF models, found
  <2> SUFFICES ASSUME NEW m \in models PROVE \E i \in 1..n : all[i] = m
    BY <1>2
  <2> DEFINE i == Cardinality(below[m]) + 1
  <2>1. i \in 1..n /\ i - 1 = Cardinality(below[m])
    BY <1>4
  <2>2. all[i] \in models /\ Cardinality(below[all[i]]) = Cardinality(below[m])
    BY <2>1, <1>6
  <2> QED
    BY <2>1, <2>2, <1>4
<1>9. n <= Len(NameOrder)
  <2>1. Len(NameOrder) \in Nat /\ IsFiniteSet(1..Len(NameOrder)) /\ Cardinality(1..Len(NameOrder)) = Len(NameOrder)
    BY NamesCover, UpTo
  <2> DEFINE Held == {i \in 1..Len(NameOrder) : NameOrder[i] \in M}
             name == [i \in Held |-> NameOrder[i]]
  <2>2. Held \in SUBSET (1..Len(NameOrder))
    OBVIOUS
  <2>3. IsFiniteSet(Held) /\ Cardinality(Held) <= Len(NameOrder)
    BY <2>1, <2>2, FS_Subset
  <2>4. name \in Surjection(Held, M)
    BY <1>1, <1>2, NamesCover DEF Surjection
  <2> HIDE DEF name, Held
  <2>5. Cardinality(M) <= Cardinality(Held) /\ Cardinality(Held) \in Nat
    BY <2>3, <2>4, FS_Surjection, FS_CardinalityType
  <2> QED
    BY <2>1, <2>3, <2>5, <1>4
<1> QED
  BY <1>2, <1>4, <1>9, <1>7, <1>8

\* How far a list of n models reaches that is cut after x of them.
Cut(x, n) == IF x < n THEN x ELSE n

LEMMA Multiples ==
  ASSUME NEW i \in Nat, NEW p \in Nat
  PROVE  /\ i * p \in Nat /\ (i + 1) * p = i * p + p
         /\ (p # 0 => i <= i * p)
OBVIOUS

\* The list of a filter, its length, and its entries from one cut to the next.
List(f) == Listing(Rows, f, NameOrder)
Total(f) == Cardinality(ModelsOf(Where(Rows, f)))
Slice(f, from, to) == [k \in 1..(to - from) |-> Entry(Rows, f, List(f)[from + k])]

LEMMA ListIs ==
  ASSUME NEW f
  PROVE  /\ Total(f) \in Nat /\ Total(f) <= Len(NameOrder)
         /\ List(f) \in [1..Total(f) -> ModelsOf(Where(Rows, f))]
         /\ List(f) \in Seq(ModelsOf(Where(Rows, f))) /\ Len(List(f)) = Total(f)
<1>1. /\ Total(f) \in Nat /\ Total(f) <= Len(NameOrder)
      /\ List(f) \in [1..Total(f) -> ModelsOf(Where(Rows, f))]
  BY Listed DEF List, Total
<1> QED
  BY <1>1

\* A page has the models between two cuts of the list.
LEMMA PageIs ==
  ASSUME NEW f, NEW i, NEW off \in Nat, off = i * PageSize,
         NEW from, from = Cut(off, Total(f)), NEW to, to = Cut(off + PageSize, Total(f))
  PROVE  /\ from \in Nat /\ to \in Nat /\ from <= to
         /\ PageAt(f, i).items = Slice(f, from, to)
         /\ PageAt(f, i).total = IF to = from THEN 0 ELSE Total(f)
<1> DEFINE all == List(f)
           n == Total(f)
           M == ModelsOf(Where(Rows, f))
           end == IF off + PageSize < Len(all) THEN off + PageSize ELSE Len(all)
           shown == SubSeq(all, off + 1, end)
<1>1. PageSize \in Nat /\ PageSize # 0
  BY BrowserAssumption
<1>2. Len(all) = n /\ n \in Nat /\ all \in [1..n -> M]
  BY ListIs
<1>3. end = to
  BY <1>1, <1>2 DEF Cut
<1>4. /\ from \in Nat /\ to \in Nat /\ from <= to /\ to <= n
      /\ to - from = IF off + 1 <= to THEN to - (off + 1) + 1 ELSE 0
      /\ off + 1 <= to => from = off
  <2>1. from = Cut(off, n) /\ to = Cut(off + PageSize, n)
    OBVIOUS
  <2> HIDE DEF n
  <2>2. from \in Nat /\ to \in Nat /\ from <= to /\ to <= n /\ (off + 1 <= to => from = off)
        /\ (~(off + 1 <= to) => to = from)
    BY <1>1, <1>2, <2>1 DEF Cut
  <2> QED
    BY <2>2
<1>5. /\ shown \in Seq(M) /\ Len(shown) = to - from
      /\ \A k \in 1..(to - from) : shown[k] = all[from + k]
  <2> HIDE DEF n, M, all
  <2>1. off + 1 \in Int /\ to \in Int /\ \A j \in (off + 1)..to : all[j] \in M
    BY <1>1, <1>2, <1>4, SMTT(40)
  <2>2. shown = SubSeq(all, off + 1, to)
    BY <1>3
  <2> HIDE DEF shown
  <2>3. /\ shown \in Seq(M)
        /\ Len(shown) = IF off + 1 <= to THEN to - (off + 1) + 1 ELSE 0
        /\ \A k \in 1..(to - (off + 1) + 1) : shown[k] = all[off + 1 + k - 1]
    BY <2>1, <2>2, SubSeqProperties, SMTT(40)
  <2>4. ASSUME NEW k \in 1..(to - from) PROVE shown[k] = all[from + k]
    <3>1. off + 1 <= to /\ from = off /\ k \in 1..(to - (off + 1) + 1) /\ off + 1 + k - 1 = from + k
      BY <1>1, <1>4
    <3> QED
      BY <3>1, <2>3
  <2> QED
    BY <2>3, <2>4, <1>4
<1>6. /\ PageAt(f, i).items = [k \in DOMAIN shown |-> Entry(Rows, f, shown[k])]
      /\ PageAt(f, i).total = IF shown = <<>> THEN 0 ELSE Len(all)
  BY DEF PageAt, Page, List
<1> HIDE DEF shown
<1>7. DOMAIN shown = 1..(to - from) /\ (shown = <<>> <=> to = from)
  BY <1>4, <1>5
<1>8. [k \in DOMAIN shown |-> Entry(Rows, f, shown[k])] = [k \in 1..(to - from) |-> Entry(Rows, f, all[from + k])]
  BY <1>5, <1>7
<1> QED
  BY <1>2, <1>4, <1>6, <1>7, <1>8 DEF Slice

\* Paged to its end, the list is read whole and each model once.
LEMMA EntriesAre ==
  ASSUME NEW f
  PROVE  Entries(f) = [k \in 1..Total(f) |-> Entry(Rows, f, List(f)[k])]
<1> DEFINE L == Len(NameOrder)
           n == Total(f)
           pages == [i \in 1..L |-> PageAt(f, i - 1).items]
           Read(i) == [k \in 1..Cut(i * PageSize, n) |-> Entry(Rows, f, List(f)[k])]
           g == [i \in 1..L |-> Read(i)]
<1>1. PageSize \in Nat /\ PageSize # 0 /\ L \in Nat /\ n \in Nat /\ n <= L
  BY BrowserAssumption, NamesCover, ListIs
<1>2. Len(pages) = L /\ Entries(f) = FlattenSeq(pages)
  BY <1>1 DEF Entries
<1>3. CASE L = 0
  <2>1. n = 0 /\ pages = <<>>
    BY <1>1, <1>3
  <2>2. FlattenSeq(pages) = pages
    BY <1>2, <1>3, Zenon DEF FlattenSeq
  <2> QED
    BY <1>2, <2>1, <2>2
<1>4. CASE L # 0
  <2>1. ASSUME NEW i \in 1..L
        PROVE  g[i] = IF i = 1 THEN pages[i] ELSE g[i - 1] \o pages[i]
    <3> DEFINE from == Cut((i - 1) * PageSize, n)
               to == Cut(i * PageSize, n)
    <3>1. i - 1 \in Nat /\ (i - 1) + 1 = i
      OBVIOUS
    <3>2. /\ from \in Nat /\ to \in Nat /\ from <= to
          /\ pages[i] = [k \in 1..(to - from) |-> Entry(Rows, f, List(f)[from + k])]
      <4>1. pages[i] = PageAt(f, i - 1).items
        OBVIOUS
      <4> DEFINE j == i - 1
                 off == j * PageSize
      <4>2. off \in Nat /\ from = Cut(off, n) /\ to = Cut(off + PageSize, n)
        BY <1>1, <3>1, Multiples
      <4> HIDE DEF from, to, pages, j
      <4>3. /\ from \in Nat /\ to \in Nat /\ from <= to
            /\ PageAt(f, j).items = Slice(f, from, to)
        <5>1. off = j * PageSize
          OBVIOUS
        <5> HIDE DEF off
        <5> QED
          BY <4>2, <5>1, PageIs
      <4> QED
        BY <4>1, <4>3 DEF Slice, j
    <3>3. g[i] = [k \in 1..to |-> Entry(Rows, f, List(f)[k])]
      OBVIOUS
    <3>4. CASE i = 1
      <4>1. from = 0
        BY <1>1, <3>4 DEF Cut
      <4> HIDE DEF to, g, pages
      <4> QED
        BY <3>2, <3>3, <3>4, <4>1
    <3>5. CASE i # 1
      <4>1. i - 1 \in 1..L /\ g[i - 1] = [k \in 1..from |-> Entry(Rows, f, List(f)[k])]
        BY <3>5
      <4> HIDE DEF to, from, g, pages
      <4>2. g[i - 1] \o pages[i] = g[i]
        BY <3>2, <3>3, <4>1
      <4> QED
        BY <3>5, <4>2
    <3> QED
      BY <3>4, <3>5
  <2>2. FlattenSeq(pages) = g[L]
    <3> HIDE DEF g, pages, L
    <3> QED
      BY <1>1, <1>2, <1>4, <2>1, Flattened
  <2>3. Cut(L * PageSize, n) = n
    BY <1>1, Multiples DEF Cut
  <2>4. L \in 1..L
    BY <1>1, <1>4
  <2> QED
    BY <1>2, <2>2, <2>3, <2>4
<1> QED
  BY <1>3, <1>4

\* Whatever the filter, the list shows the models it finds: all of them, each once.
LEMMA ListsAll ==
  ASSUME NEW f
  PROVE  Lists(f, Total(f))
<1> DEFINE n == Total(f)
           M == ModelsOf(Where(Rows, f))
           all == List(f)
           e == Entries(f)
<1>1. n \in Nat /\ all \in [1..n -> M] /\ \A m \in M : \E i \in 1..n : all[i] = m
  BY Listed DEF List, Total
<1>2. e = [k \in 1..n |-> Entry(Rows, f, all[k])]
  BY EntriesAre
<1>3. \A m : /\ Entry(Rows, f, m).model = m
             /\ Cardinality(Entry(Rows, f, m).channels) = Entry(Rows, f, m).count
  BY DEF Entry, Details
<1>4. PageAt(f, 0).total = n
  <2> DEFINE from == Cut(0, n)
             to == Cut(0 + PageSize, n)
  <2>1. PageSize \in Nat /\ PageSize # 0 /\ 0 = 0 * PageSize
    BY BrowserAssumption
  <2>2. PageAt(f, 0).total = IF to = from THEN 0 ELSE n
    BY <2>1, PageIs
  <2> HIDE DEF n
  <2>3. to = from => n = 0
    BY <1>1, <2>1 DEF Cut
  <2> QED
    BY <2>2, <2>3
<1>5. Cardinality(M) = n
  BY DEF Total
<1> HIDE DEF n, M, all, e
<1>6. {e[i].model : i \in DOMAIN e} = M
  BY <1>1, <1>2, <1>3
<1>7. \A i \in DOMAIN e : Cardinality(e[i].channels) = e[i].count
  BY <1>2, <1>3
<1>8. Len(e) = n
  BY <1>1, <1>2
<1> QED
  BY <1>4, <1>5, <1>6, <1>7, <1>8 DEF Lists, n, e

\* The rows of a value that a facet counts are those a person gets who chooses it.
LEMMA ChosenRows ==
  ASSUME NEW f, DOMAIN f = Dimensions \cup {"q"}, NEW d \in Dimensions, NEW v
  PROVE  {r \in Where(Rows, Without(f, d)) : v \in Values(r)[d]} = Where(Rows, [f EXCEPT ![d] = {v}])
<1> DEFINE none == Without(f, d)
           one == [f EXCEPT ![d] = {v}]
<1>1. d # "q"
  BY DEF Dimensions
<1>2. none.q = f.q /\ one.q = f.q
  BY <1>1 DEF Without
<1>3. none[d] = {} /\ one[d] = {v} /\ \A x \in Dimensions \ {d} : none[x] = f[x] /\ one[x] = f[x]
  BY DEF Without
<1> HIDE DEF none, one
<1>4. ASSUME NEW r \in Rows
      PROVE  (/\ r.model \in none.q
              /\ \A x \in Dimensions : none[x] = {} \/ none[x] \cap Values(r)[x] # {}
              /\ v \in Values(r)[d])
             <=> (/\ r.model \in one.q
                  /\ \A x \in Dimensions : one[x] = {} \/ one[x] \cap Values(r)[x] # {})
  BY <1>2, <1>3
<1>5. {r \in Where(Rows, none) : v \in Values(r)[d]} = Where(Rows, one)
  BY <1>4 DEF Where
<1> QED
  BY <1>5 DEF none, one

LEMMA Announced == FacetsAnnounceTotals
<1> SUFFICES ASSUME NEW f \in Filters
             PROVE  /\ Lists(Without(f, "units"), Whole(Rows, f))
                    /\ \A d \in Dimensions \ {"keys"} : \A v \in DOMAIN Facet(Rows, f, d) :
                         Lists([f EXCEPT ![d] = {v}], Facet(Rows, f, d)[v])
  BY DEF FacetsAnnounceTotals
<1>1. Whole(Rows, f) = Total(Without(f, "units"))
  BY DEF Whole, Total
<1>2. ASSUME NEW d \in Dimensions, NEW v \in DOMAIN Facet(Rows, f, d)
      PROVE  Facet(Rows, f, d)[v] = Total([f EXCEPT ![d] = {v}])
  <2>1. Facet(Rows, f, d)[v] = Cardinality(ModelsOf({r \in Where(Rows, Without(f, d)) : v \in Values(r)[d]}))
    BY <1>2 DEF Facet
  <2>2. DOMAIN f = Dimensions \cup {"q"}
    BY BrowserAssumption
  <2>3. {r \in Where(Rows, Without(f, d)) : v \in Values(r)[d]} = Where(Rows, [f EXCEPT ![d] = {v}])
    BY <2>2, ChosenRows
  <2> QED
    BY <2>1, <2>3 DEF Total
<1> QED
  BY <1>1, <1>2, ListsAll

(* model_catalog.go:ListGlobalCatalog, catalogWhere: the number at a value of a
   facet is the number of models that the list has, over all its pages, when that
   value is chosen, and Whole the number over all units - for any rows, filters and
   size of a page. *)
THEOREM FacetsTrue == Spec => []FacetsAnnounceTotals
BY Announced, PTL
=============================================================================
