------------------------------ MODULE KeyRegistry ------------------------------
(***************************************************************************)
(* The Keys of an upstream and the Keys the gateway has registered         *)
(* (collection/runner.go ImportKeys, ProvisionKeys and the loops they      *)
(* share; admin/key_automation.go provisionKeys; admin/upstream_crud.go;   *)
(* store/key_crud.go).                                                     *)
(*                                                                         *)
(* Two parties write the registry at the same time.  The importer          *)
(* registers the Keys one account shows.  The provisioner goes through a   *)
(* batch of accounts, registers what each of them shows, and then creates  *)
(* a remote Key in every group that has none.  The automation lock keeps   *)
(* provisioners apart; it does not keep the import that follows a new      *)
(* channel (admin/import_api.go) away, so an importer runs next to a       *)
(* provisioner.  By hand, Keys are registered and deleted here and         *)
(* created and removed at the upstream at any moment.                      *)
(***************************************************************************)
EXTENDS Integers, FiniteSets

CONSTANTS
  Accounts,
  Groups,
  Refs,          \* the references of the Keys of all accounts
  MaxCreates,    \* DefaultKeyProvisionCreateLimit
  MaxSecrets,    \* DefaultKeySecretResolveLimit
  ImportBudgets, \* the secrets an import may ask for: what its queue has left
  ListsSecrets,  \* accounts whose upstream shows the secrets in its list
  MaxBatches,    \* bound: provisioning batches
  None

ASSUME RegistryAssumption ==
  /\ MaxCreates \in Nat \ {0} /\ MaxSecrets \in Nat \ {0} /\ MaxBatches \in Nat
  /\ ListsSecrets \subseteq Accounts /\ ImportBudgets \subseteq 1..MaxSecrets
  /\ None \notin Accounts /\ None \notin Groups
  /\ IsFiniteSet(Refs) /\ IsFiniteSet(Groups)

Importer == "importer"
Provisioner == "provisioner"
Parties == {Importer, Provisioner}

VARIABLES
  remote,   \* upstream: the Key each reference names, None before there is one
  rows,     \* upstream_keys: the references that are registered
  dropped,  \* history: references whose row was deleted by hand
  pc,
  at,       \* the account a party is at
  list,     \* the references it was shown
  known,    \* KeyRefIndex: those of them registered when it looked
  todo,     \* the references its loop has not come to
  count,    \* KeyImportResult
  budget,   \* secrets it may still ask for
  left,     \* the accounts the batch has not come to
  only,     \* OnlyWithoutKeys
  creates,  \* remainingCreates and
  secrets,  \* remainingSecrets of the batch
  missing,  \* groups without a Key
  group,    \* the group the Key was created in last
  max,      \* MaxCreates of the account
  created,
  batches

registry == <<remote, rows, dropped>>
batch == <<left, only, creates, secrets, batches>>
account == <<missing, group, max, created>>
vars == <<registry, pc, at, list, known, todo, count, budget, batch, account>>

Key == [account : Accounts, group : Groups, auto : BOOLEAN]
NoCount == [found |-> 0, imported |-> 0, skipped |-> 0, failed |-> 0, deferred |-> 0]
Counts == DOMAIN NoCount

ASSUME NoneAssumption == None \notin Key

TypeOK ==
  /\ remote \in [Refs -> Key \cup {None}]
  /\ rows \in SUBSET Refs /\ dropped \in SUBSET Refs
  /\ pc \in [Parties -> {"idle", "account", "keys", "create", "verify", "new", "done"}]
  /\ at \in [Parties -> Accounts \cup {None}]
  /\ list \in [Parties -> SUBSET Refs]
  /\ known \in [Parties -> SUBSET Refs]
  /\ todo \in [Parties -> SUBSET Refs]
  /\ count \in [Parties -> [Counts -> Nat]]
  /\ budget \in [Parties -> 0..MaxSecrets]
  /\ left \in SUBSET Accounts /\ only \in BOOLEAN
  /\ creates \in 0..MaxCreates /\ secrets \in 0..MaxSecrets
  /\ missing \in SUBSET Groups /\ group \in Groups \cup {None}
  /\ max \in 0..MaxCreates /\ created \in 0..MaxCreates
  /\ batches \in 0..MaxBatches

Init ==
  /\ remote = [r \in Refs |-> None] /\ rows = {} /\ dropped = {}
  /\ pc = [p \in Parties |-> "idle"] /\ at = [p \in Parties |-> None]
  /\ list = [p \in Parties |-> {}] /\ known = [p \in Parties |-> {}]
  /\ todo = [p \in Parties |-> {}] /\ count = [p \in Parties |-> NoCount]
  /\ budget = [p \in Parties |-> 0]
  /\ left = {} /\ only = FALSE /\ creates = 0 /\ secrets = 0 /\ batches = 0
  /\ missing = {} /\ group = None /\ max = 0 /\ created = 0

\* FetchKeys: the references of an account's Keys.
Exists(r) == remote[r] # None
Shown(a) == {r \in Refs : Exists(r) /\ remote[r].account = a}

Goto(p, label) == pc' = [pc EXCEPT ![p] = label]
-----------------------------------------------------------------------------
\* By hand, at the upstream and here: createKey, and deleteKey or patchKey to
\* another external_ref.
RemoteCreated(r, a, g) ==
  /\ remote[r] = None
  /\ remote' = [remote EXCEPT ![r] = [account |-> a, group |-> g, auto |-> FALSE]]
  /\ UNCHANGED <<rows, dropped, pc, at, list, known, todo, count, budget, batch, account>>

Register(r) ==
  /\ r \notin rows /\ Exists(r)
  /\ rows' = rows \cup {r} /\ dropped' = dropped \ {r}
  /\ UNCHANGED <<remote, pc, at, list, known, todo, count, budget, batch, account>>

Delete(r) ==
  /\ r \in rows
  /\ rows' = rows \ {r} /\ dropped' = dropped \cup {r}
  /\ UNCHANGED <<remote, pc, at, list, known, todo, count, budget, batch, account>>
-----------------------------------------------------------------------------
\* importFetchedKeys: the list is counted and the index read; then each Key in
\* turn is refreshed if the index has it, and registered otherwise.
StartKeys(p, shown, refs, label) ==
  /\ list' = [list EXCEPT ![p] = shown]
  /\ known' = [known EXCEPT ![p] = refs \cap rows]
  /\ todo' = [todo EXCEPT ![p] = refs]
  /\ count' = [count EXCEPT ![p] = [NoCount EXCEPT !.found = Cardinality(refs)]]
  /\ Goto(p, label)

Loop(p, r) == pc[p] \in {"keys", "new"} /\ r \in todo[p]

Tally(p, r, field) ==
  /\ count' = [count EXCEPT ![p][field] = @ + 1]
  /\ todo' = [todo EXCEPT ![p] = @ \ {r}] /\ known' = [known EXCEPT ![p] = @ \ {r}]
  /\ UNCHANGED <<remote, pc, at, list, batch, account>>

\* A Key without a reference, an unreadable group, a row that is gone.
KeyFails(p, r) ==
  /\ Loop(p, r) /\ Tally(p, r, "failed")
  /\ UNCHANGED <<rows, dropped, budget>>

KeyUpdated(p, r) ==
  /\ Loop(p, r) /\ r \in known[p] /\ r \in rows
  /\ Tally(p, r, "skipped")
  /\ UNCHANGED <<rows, dropped, budget>>

\* A secret the list does not show is asked for, as long as there is budget.
Listed(p) == at[p] \in ListsSecrets

CanAsk(p) == Listed(p) \/ budget[p] > 0
Ask(p) ==
  /\ CanAsk(p)
  /\ budget' = IF Listed(p) THEN budget ELSE [budget EXCEPT ![p] = @ - 1]

\* CreateKey is refused if the reference was registered after the index was
\* read, and the update that follows it may fail.
KeyRegistered(p, r, updated) ==
  /\ Loop(p, r) /\ r \notin known[p] /\ Ask(p)
  /\ r \notin rows
  /\ rows' = rows \cup {r} /\ dropped' = dropped \ {r}
  /\ Tally(p, r, IF updated THEN "imported" ELSE "failed")

\* Mutant: a Key that could not be registered passes for one that was.
RefusedIsSkipped(p, r) ==
  /\ Loop(p, r) /\ r \notin known[p] /\ Ask(p)
  /\ Tally(p, r, "skipped")
  /\ UNCHANGED <<rows, dropped>>

\* The secret or the group cannot be read, or CreateKey fails.
KeyRefused(p, r) ==
  /\ Loop(p, r) /\ r \notin known[p] /\ Ask(p)
  /\ Tally(p, r, "failed")
  /\ UNCHANGED <<rows, dropped>>

\* The rest of the list is deferred.
PutOff(p) ==
  /\ count' = [count EXCEPT ![p].deferred = @ + Cardinality(todo[p])]
  /\ todo' = [todo EXCEPT ![p] = {}] /\ known' = [known EXCEPT ![p] = {}]

OutOfBudget(p, r) ==
  /\ Loop(p, r) /\ r \notin known[p] /\ ~CanAsk(p) /\ PutOff(p)
  /\ UNCHANGED <<registry, pc, at, list, budget, batch, account>>

TooManyRequests(p, r) ==
  /\ Loop(p, r) /\ r \notin known[p] /\ ~Listed(p) /\ Ask(p) /\ PutOff(p)
  /\ UNCHANGED <<registry, pc, at, list, batch, account>>
-----------------------------------------------------------------------------
\* ImportKeys for one account, as the queue and the import of a file call it.
StartImport(a, secrets0) ==
  /\ pc[Importer] = "idle"
  /\ at' = [at EXCEPT ![Importer] = a] /\ budget' = [budget EXCEPT ![Importer] = secrets0]
  /\ StartKeys(Importer, Shown(a), Shown(a), "keys")
  /\ UNCHANGED <<registry, batch, account>>

ImportEnds ==
  /\ pc[Importer] = "keys" /\ todo[Importer] = {}
  /\ Goto(Importer, "done")
  /\ UNCHANGED <<registry, at, list, known, todo, count, budget, batch, account>>

\* The call returns, with a result or an error, or its process dies.
Leave(p, label) ==
  /\ Goto(p, label) /\ at' = [at EXCEPT ![p] = None]
  /\ list' = [list EXCEPT ![p] = {}] /\ known' = [known EXCEPT ![p] = {}]
  /\ todo' = [todo EXCEPT ![p] = {}] /\ count' = [count EXCEPT ![p] = NoCount]
  /\ budget' = [budget EXCEPT ![p] = 0]

ImportReturns ==
  /\ pc[Importer] # "idle" /\ Leave(Importer, "idle")
  /\ UNCHANGED <<registry, batch, account>>
-----------------------------------------------------------------------------
NoAccount == missing' = {} /\ group' = None /\ max' = 0 /\ created' = 0

\* provisionKeys with the automation lock: budgets for the batch.
StartBatch(accounts, flag) ==
  /\ pc[Provisioner] = "idle" /\ batches < MaxBatches
  /\ left' = accounts /\ only' = flag
  /\ creates' = MaxCreates /\ secrets' = MaxSecrets /\ batches' = batches + 1
  /\ Goto(Provisioner, "account")
  /\ UNCHANGED <<registry, at, list, known, todo, count, budget, account>>

\* The batch ends: no account or no budget is left, ProvisionKeys failed or
\* deferred something, or the process died.
BatchEnds ==
  /\ pc[Provisioner] # "idle" /\ Leave(Provisioner, "idle") /\ NoAccount
  /\ left' = {} /\ only' = FALSE /\ creates' = 0 /\ secrets' = 0
  /\ UNCHANGED <<registry, batches>>

\* Mutant: a group is covered by what is registered here.
UncoveredHere(a, gs) == {g \in gs : ~\E r \in Shown(a) : r \in rows /\ remote[r].group = g}

\* selectProvisionGroups: the groups that no Key of the upstream's list is in.
Uncovered(a, gs) == {g \in gs : ~\E r \in Shown(a) : remote[r].group = g}

Turn(a) ==
  /\ pc[Provisioner] = "account" /\ a \in left /\ creates > 0 /\ secrets > 0
  /\ left' = left \ {a}

\* An account that is disabled, or has Keys while only those without are asked.
SkipAccount(a) ==
  /\ Turn(a)
  /\ UNCHANGED <<registry, pc, at, list, known, todo, count, budget, only, creates, secrets,
                 batches, account>>

\* ProvisionKeys for the next account, with what is left of the budgets: its
\* Keys and groups are read, the groups saved (what that does to the list of
\* models is CatalogRounds' Provision), and the Keys found are registered.  If the
\* groups cannot be saved the batch ends (BatchEnds).
Discover(a, gs) ==
  /\ Turn(a)
  /\ ~(only /\ Shown(a) # {})
  /\ at' = [at EXCEPT ![Provisioner] = a] /\ budget' = [budget EXCEPT ![Provisioner] = secrets]
  /\ missing' = Uncovered(a, gs)
  /\ StartKeys(Provisioner, Shown(a), Shown(a), "keys")
  /\ UNCHANGED <<registry, only, creates, secrets, batches, group, max, created>>

\* Mutant: unregistered Keys do not matter.
MayCreateAnyway(c, b) == b > 0

\* onDiscovered: nothing is created while a Key of the account is not
\* registered or no secret can be asked for.
MayCreate(c, b) == c.failed = 0 /\ c.deferred = 0 /\ b > 0
CutMax(b) == IF creates > b THEN b ELSE creates

Discovered ==
  /\ pc[Provisioner] = "keys" /\ todo[Provisioner] = {}
  /\ MayCreate(count[Provisioner], budget[Provisioner])
  /\ max' = CutMax(budget[Provisioner])
  /\ Goto(Provisioner, "create")
  /\ UNCHANGED <<registry, at, list, known, todo, count, budget, batch, missing, group, created>>

\* CreateRemoteKey: the upstream creates the Key, whether or not its answer
\* arrives.  Without an answer the batch ends (BatchEnds).
CreateRemoteKey(g, r) ==
  /\ pc[Provisioner] = "create" /\ g \in missing /\ created < max
  /\ remote[r] = None
  /\ remote' = [remote EXCEPT ![r] = [account |-> at[Provisioner], group |-> g, auto |-> TRUE]]
  /\ missing' = missing \ {g} /\ group' = g
  /\ Goto(Provisioner, "verify")
  /\ UNCHANGED <<rows, dropped, at, list, known, todo, count, budget, batch, max, created>>

\* FetchKeys again; singleCreatedKey knows the new Key by its group.
Verified(r) ==
  /\ pc[Provisioner] = "verify"
  /\ {r} = {k \in Shown(at[Provisioner]) \ list[Provisioner] : remote[k].group = group}
  /\ StartKeys(Provisioner, Shown(at[Provisioner]), {r}, "new")
  /\ group' = None
  /\ UNCHANGED <<registry, at, budget, batch, missing, max, created>>

\* onCreated: the new Key counts only if it could be registered at once.
Created ==
  /\ pc[Provisioner] = "new" /\ todo[Provisioner] = {}
  /\ count[Provisioner].imported = 1
  /\ created' = created + 1
  /\ Goto(Provisioner, "create")
  /\ UNCHANGED <<registry, at, list, known, todo, count, budget, batch, missing, group, max>>

\* The account is done and nothing of it deferred.  The secrets it reports are
\* what it took from its budget.
AccountDone ==
  /\ pc[Provisioner] = "create" /\ missing = {}
  /\ creates' = creates - created /\ secrets' = budget[Provisioner]
  /\ Leave(Provisioner, "account")
  /\ NoAccount
  /\ UNCHANGED <<registry, left, only, batches>>

Next ==
  \/ \E r \in Refs : Register(r) \/ Delete(r)
  \/ \E r \in Refs, a \in Accounts, g \in Groups : RemoteCreated(r, a, g)
  \/ \E p \in Parties, r \in Refs :
       \/ KeyFails(p, r) \/ KeyUpdated(p, r) \/ KeyRefused(p, r)
       \/ \E updated \in BOOLEAN : KeyRegistered(p, r, updated)
       \/ OutOfBudget(p, r) \/ TooManyRequests(p, r)
  \/ \E a \in Accounts, b \in ImportBudgets : StartImport(a, b)
  \/ ImportEnds \/ ImportReturns
  \/ \E accounts \in SUBSET Accounts, flag \in BOOLEAN : StartBatch(accounts, flag)
  \/ \E a \in Accounts : SkipAccount(a) \/ \E gs \in SUBSET Groups : Discover(a, gs)
  \/ Discovered \/ Created \/ AccountDone \/ BatchEnds
  \/ \E g \in Groups, r \in Refs : CreateRemoteKey(g, r)
  \/ \E r \in Refs : Verified(r)

Spec == Init /\ [][Next]_vars
-----------------------------------------------------------------------------
\* The gateway never has two Keys it created itself in one group of an
\* account, whatever failed, was answered late or died between.
OneAutoKeyPerGroup ==
  \A r, q \in Refs :
    (Exists(r) /\ Exists(q) /\ remote[r].auto /\ remote[q].auto
       /\ remote[r].account = remote[q].account /\ remote[r].group = remote[q].group) => r = q

\* A Key the gateway created and could not register: its secret is lost to the
\* gateway until an import asks for it.
Orphan(r) == Exists(r) /\ remote[r].auto /\ r \notin rows /\ r \notin dropped

\* No account ever has more than one of them: before anything is created,
\* what earlier runs left behind is registered.
AtMostOneOrphan ==
  \A r, q \in Refs :
    (Orphan(r) /\ Orphan(q) /\ remote[r].account = remote[q].account) => r = q

\* An import without failed and deferred Keys has left every Key of the list
\* registered, but for those deleted by hand since; and the account has no
\* orphan when a Key is created in it.
CleanMeansRegistered ==
  /\ (pc[Importer] = "done" /\ count[Importer].failed = 0 /\ count[Importer].deferred = 0)
       => list[Importer] \subseteq rows \cup dropped
  /\ pc[Provisioner] = "create"
       => \A r \in Refs : Orphan(r) => remote[r].account # at[Provisioner]
=============================================================================
