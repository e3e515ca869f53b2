----------------------------- MODULE CatalogRounds -----------------------------
(***************************************************************************)
(* A sync of one channel (collector/sync.go) and what it leaves in the     *)
(* registry (store/sink.go, store/upstream_write.go).                      *)
(*                                                                         *)
(* A sync reads the channel's accounts, authenticates them and collects    *)
(* the capabilities asked for in a fixed order.  The answers of the        *)
(* accounts are merged and each capability is committed on its own, so a   *)
(* sync that fails or dies half-way keeps what it has.  A model that was   *)
(* absent from the last MissingRounds complete collections of the catalog  *)
(* is reported as delisted.                                                *)
(*                                                                         *)
(* The channel lock (ChannelSessions) keeps other syncs away, so one sync  *)
(* at a time is modelled.  The provisioning of Keys (collection/runner.go) *)
(* holds the automation lock instead and saves the groups of its account   *)
(* next to any sync.  The accounts show one common group of models.        *)
(***************************************************************************)
EXTENDS Integers, FiniteSets, Sequences

CONSTANTS
  Accounts,
  Models,
  Adapters,       \* the CapabilityMaps of the adapters
  EmptyIsError,   \* NewAPI takes a catalog without models for an error
  MissingRounds,  \* catalog_missing_rounds
  Selections,     \* the sets of capabilities a sync is asked for
  MaxSeq,         \* bound: complete collections of the catalog in a behaviour
  None

Order == <<"account", "groups", "keys", "pricing", "model_catalog">>
Capabilities == {Order[i] : i \in DOMAIN Order}
Supports == {"supported", "degraded", "unsupported"}

ASSUME CatalogAssumption ==
  /\ Adapters \subseteq [Capabilities -> Supports] /\ Selections \subseteq SUBSET Capabilities
  /\ EmptyIsError \in BOOLEAN /\ MissingRounds \in Nat \ {0} /\ MaxSeq \in Nat
  /\ None \notin Capabilities

VARIABLES
  support,  \* CapabilityMap of the channel's adapter
  active,   \* accounts that are active and have a valid credential
  offer,    \* upstream: the models each account is shown
  pc,       \* "idle", "auth", the capability the sync is at, or "done"
  only,     \* the capabilities asked for
  listed,   \* the accounts the sync was given
  authed,   \* those that are authenticated
  item,     \* the last SyncItem of the sync: its capability and status
  seq,      \* channels.catalog_sync_seq
  seen,     \* channel_model_catalog.last_seen_seq, Unseen without a row
  group,    \* group_models of the common group
  gone      \* history: complete collections since a model was last offered

vars == <<support, active, offer, pc, only, listed, authed, item, seq, seen, group, gone>>

Unseen == -1
Statuses == {"ok", "partial", "failed", "unsupported"}
NoItem == [cap |-> None, status |-> None]

TypeOK ==
  /\ support \in Adapters
  /\ active \in SUBSET Accounts
  /\ offer \in [Accounts -> SUBSET Models]
  /\ pc \in {"idle", "auth", "done"} \cup Capabilities
  /\ only \in SUBSET Capabilities
  /\ authed \in SUBSET listed /\ listed \in SUBSET Accounts
  /\ item \in [cap : Capabilities, status : Statuses] \cup {NoItem}
  /\ seq \in 0..MaxSeq
  /\ seen \in [Models -> Unseen..MaxSeq] /\ \A m \in Models : seen[m] <= seq
  /\ group \in SUBSET Models
  /\ gone \in [Models -> 0..MissingRounds]

Init ==
  /\ support \in Adapters
  /\ active = Accounts
  /\ offer \in [Accounts -> SUBSET Models]
  /\ pc = "idle" /\ only = {} /\ listed = {} /\ authed = {} /\ item = NoItem
  /\ seq = 0 /\ seen = [m \in Models |-> Unseen] /\ group = {}
  /\ gone = [m \in Models |-> 0]

\* The upstream shows an account other models; an account is disabled or its
\* credential ends, or it comes back.
Reoffer(a, ms) ==
  /\ offer[a] # ms
  /\ offer' = [offer EXCEPT ![a] = ms]
  /\ UNCHANGED <<support, active, pc, only, listed, authed, item, seq, seen, group, gone>>

Switch(a) ==
  /\ active' = IF a \in active THEN active \ {a} ELSE active \cup {a}
  /\ UNCHANGED <<support, offer, pc, only, listed, authed, item, seq, seen, group, gone>>

\* SyncManySelected with the credentials ListByChannel found.
Start(caps) ==
  /\ pc = "idle" /\ active # {}
  /\ only' = caps /\ listed' = active
  /\ pc' = "auth"
  /\ UNCHANGED <<support, active, offer, authed, item, seq, seen, group, gone>>

\* The wanted capability at or after position i of the order.
WantedFrom(i) ==
  LET rest == {j \in i..Len(Order) : Order[j] \in only}
  IN IF rest = {} THEN "done" ELSE Order[CHOOSE j \in rest : \A k \in rest : j <= k]

After(cap) == WantedFrom(1 + CHOOSE i \in DOMAIN Order : Order[i] = cap)

\* authenticate: renewal or authentication fails for some of the accounts.
Authenticate(good) ==
  /\ pc = "auth" /\ good # {}
  /\ authed' = good
  /\ pc' = WantedFrom(1)
  /\ UNCHANGED <<support, active, offer, only, listed, item, seq, seen, group, gone>>

\* Mutant: what was written counts, not what failed.
StatusOfRows(cap, rows, errors) == IF rows > 0 THEN "ok" ELSE "failed"

\* capabilityResult and run: rows written, and whether any account failed.
Status(cap, rows, errors) ==
  IF errors THEN IF rows > 0 THEN "partial" ELSE "failed"
  ELSE IF support[cap] = "supported" /\ rows = 0 THEN "failed" ELSE "ok"

Done(cap, status) ==
  /\ item' = [cap |-> cap, status |-> status]
  /\ pc' = After(cap)
  /\ UNCHANGED <<support, active, offer, only, listed, authed>>

Skip(cap) ==
  /\ pc = cap /\ support[cap] = "unsupported"
  /\ Done(cap, "unsupported")
  /\ UNCHANGED <<seq, seen, group, gone>>

At(cap) == pc = cap /\ support[cap] # "unsupported"

\* The sink cannot save: nothing of the capability is written.
SaveFails(cap) ==
  /\ At(cap) /\ Done(cap, "failed")
  /\ UNCHANGED <<seq, seen, group, gone>>

\* One row for each account that is read and saved.
SyncAccounts(whole) ==
  /\ At("account")
  /\ Done("account", Status("account", Cardinality(whole), whole # listed))
  /\ UNCHANGED <<seq, seen, group, gone>>

\* Each Key is a row, registered or not; an account is whole if none failed.
SyncKeys(rows, whole) ==
  /\ At("keys")
  /\ Done("keys", Status("keys", rows, whole # listed))
  /\ UNCHANGED <<seq, seen, group, gone>>

\* The models of the answers: an account in full answers with its models, one
\* in bare without any (it has none, or the field is left out).
Offered(full) == UNION {offer[a] : a \in full}
Answers(full, bare) ==
  /\ full \in SUBSET {a \in authed : offer[a] # {}}
  /\ bare \in SUBSET (authed \ full)

\* Mutant: an incomplete list of the group replaces the whole one.
GroupReplaced(full, bare) == Offered(full)

\* upsertGroups: a list is replaced by a complete answer and only extended by
\* an incomplete one (PreserveModels).
GroupAfter(full, bare) ==
  IF listed = full THEN Offered(full) ELSE group \cup Offered(full)

SyncGroups(full, bare) ==
  /\ At("groups") /\ Answers(full, bare)
  /\ group' = IF full \cup bare = {} THEN group ELSE GroupAfter(full, bare)
  /\ Done("groups", Status("groups", IF full \cup bare = {} THEN 0 ELSE 1,
                           listed # full \cup bare))
  /\ UNCHANGED <<seq, seen, gone>>

\* Runner.ProvisionKeys reads the groups of one account and saves them before it
\* looks at the Keys.  Nothing marks them as the answer of one account: its models
\* replace the list, and only an answer without models leaves it as it is.
Provision(a) ==
  /\ a \in active
  /\ group' = IF offer[a] = {} THEN group ELSE offer[a]
  /\ UNCHANGED <<support, active, offer, pc, only, listed, authed, item, seq, seen, gone>>

\* Mutant: accounts that were not authenticated are not counted as failed.
AuthErrorsForgotten(full, bare) ==
  authed \ (IF EmptyIsError THEN full ELSE full \cup bare) # {}

\* syncCatalog and syncPricing: whether an account failed.
CatalogErrors(full, bare) ==
  listed \ (IF EmptyIsError THEN full ELSE full \cup bare) # {}

\* catalogPresenceReliable: every merged model is free of the mark an error
\* leaves on it, and there is one.
PresenceReliable(full, bare) == Offered(full) # {} /\ ~CatalogErrors(full, bare)

\* SavePricing writes a snapshot for each model that has a price.
Snapshots(full) == IF support["pricing"] = "degraded" THEN 0 ELSE Cardinality(Offered(full))

SyncPricing(full, bare) ==
  /\ At("pricing") /\ Answers(full, bare)
  /\ Done("pricing", Status("pricing", Snapshots(full), CatalogErrors(full, bare)))
  /\ UNCHANGED <<seq, seen, group, gone>>

\* The round the saved rows are stamped with, of this collection if it counts.
Stamp(full, bare) == IF PresenceReliable(full, bare) THEN seq + 1 ELSE seq

SyncCatalog(full, bare) ==
  LET models == Offered(full)
  IN /\ At("model_catalog") /\ Answers(full, bare)
     /\ seq' = (IF PresenceReliable(full, bare) THEN seq + 1 ELSE seq) /\ seq' <= MaxSeq
     /\ seen' = [m \in Models |-> IF m \in models THEN Stamp(full, bare) ELSE seen[m]]
     /\ gone' = [m \in Models |->
                   IF m \in models THEN 0
                   ELSE IF full = listed /\ gone[m] < MissingRounds THEN gone[m] + 1
                   ELSE gone[m]]
     /\ Done("model_catalog", Status("model_catalog", Cardinality(models),
                                     CatalogErrors(full, bare)))
     /\ UNCHANGED group

\* The sync returns, or ends before: every account is rejected, the process
\* dies or the context is cancelled.
End ==
  /\ pc # "idle" /\ pc' = "idle"
  /\ only' = {} /\ listed' = {} /\ authed' = {} /\ item' = NoItem
  /\ UNCHANGED <<support, active, offer, seq, seen, group, gone>>

Next ==
  \/ \E a \in Accounts, ms \in SUBSET Models : Reoffer(a, ms)
  \/ \E a \in Accounts : Switch(a) \/ Provision(a)
  \/ \E caps \in Selections : Start(caps)
  \/ \E good \in SUBSET listed : Authenticate(good)
  \/ \E cap \in Capabilities : Skip(cap) \/ SaveFails(cap)
  \/ \E whole \in SUBSET authed : SyncAccounts(whole)
  \/ \E whole \in SUBSET authed, rows \in 0..1 : SyncKeys(rows, whole)
  \/ \E full, bare \in SUBSET authed :
       SyncGroups(full, bare) \/ SyncPricing(full, bare) \/ SyncCatalog(full, bare)
  \/ End

Spec == Init /\ [][Next]_vars
-----------------------------------------------------------------------------
\* ListCatalog's stale.
Stale(m) == seen[m] # Unseen /\ seq - seen[m] >= MissingRounds

\* A model is reported as delisted (FR-126) only if the last MissingRounds or
\* more collections to which every account of the channel contributed its
\* models did not have it, whatever failed in other rounds between.
NeverWronglyDelisted == \A m \in Models : Stale(m) => gone[m] = MissingRounds

\* A sync that says its catalog is ok has every model of every account it was
\* given in the registry, as of this round; a failed or rejected account makes
\* the item partial or failed.
OkIsComplete ==
  [][ (pc = "model_catalog" /\ item'.cap = "model_catalog" /\ item'.status = "ok" /\ pc' # pc)
        => \A a \in listed : \A m \in offer[a] : seen'[m] = seq' /\ seq' = seq + 1 ]_vars

\* The list of a group loses a model only by one who was shown the group without
\* it: a sync if every account it was given answered and none was shown the model,
\* the provisioning of Keys if its one account answered with other models.  An
\* account that failed or left the models out takes nothing from the list.
\* (That what one account is not shown is taken from all is what the code does,
\* against the rule in upstream_write.go:101 that the answer of some of the
\* accounts must not delete.)
GroupShrinksKnowingly ==
  [][ \A m \in group \ group' :
        IF pc' = pc THEN \E a \in active : offer[a] # {} /\ m \notin offer[a]
        ELSE \A a \in listed : a \in authed /\ m \notin offer[a] ]_vars
=============================================================================
