----------------------------- MODULE RegistryProofs -----------------------------
(***************************************************************************)
(* Proofs about what imports leave in the registry: KeyRegistry, for any   *)
(* accounts, groups, Keys and budgets, and HubImport, for any replicas,    *)
(* uploads, sites, accounts and credentials.                               *)
(*                                                                         *)
(* KeyRegistry: before a Key is created in a group, the account was found  *)
(* to have none there, and only the provisioner, which is alone, adds one; *)
(* and an orphan of the account is still to come in the list that is being *)
(* registered, or one of its Keys failed or was put off, which stops the   *)
(* creating.                                                               *)
(*                                                                         *)
(* HubImport: channels and accounts only gain parts, so what an item has   *)
(* found still holds when it commits; what it has found missing may be     *)
(* there by then, unless the address is unique or the channel is locked.   *)
(***************************************************************************)
EXTENDS KeyRegistry, HubImport, FiniteSetTheorems, TLAPS

\* A party is shown only what exists.
ListsExist == \A p \in Parties : \A r \in list[p] : Exists(r)

\* The gateway has created nothing in the groups it still finds without a Key.
MissingFree ==
  \A g \in missing, r \in Refs :
    ~(Exists(r) /\ remote[r].auto /\ remote[r].account = at[Provisioner] /\ remote[r].group = g)

\* No more is created than the account and the batch may have.
Bounded ==
  /\ created <= max /\ max <= creates
  /\ pc[Provisioner] \in {"idle", "account", "keys"} => created = 0
  /\ pc[Provisioner] \in {"verify", "new"} => created < max

AtAccount ==
  pc[Provisioner] \in {"keys", "create", "verify", "new"} => at[Provisioner] \in Accounts

\* The loop comes to every Key of the list, or counts it as failed or deferred.
Troubled(p) == count[p].failed > 0 \/ count[p].deferred > 0
ImportCovers ==
  pc[Importer] \in {"keys", "done"} =>
    \/ list[Importer] \subseteq todo[Importer] \cup rows \cup dropped
    \/ Troubled(Importer)
ImportIsOver == pc[Importer] = "done" => todo[Importer] = {}

OwnOrphan(r) == Orphan(r) /\ remote[r].account = at[Provisioner]

\* Where the orphans of the account are, at each place of the provisioner.
OrphansSeen ==
  /\ pc[Provisioner] = "keys" =>
       (\A r \in Refs : OwnOrphan(r) => r \in todo[Provisioner]) \/ Troubled(Provisioner)
  /\ pc[Provisioner] = "create" => \A r \in Refs : ~OwnOrphan(r)
  /\ pc[Provisioner] = "verify" =>
       \A r \in Refs : OwnOrphan(r) => r \notin list[Provisioner] /\ remote[r].group = group
  /\ pc[Provisioner] = "new" =>
       /\ \A r, q \in todo[Provisioner] : r = q
       /\ todo[Provisioner] # {} => count[Provisioner].imported = 0
       /\ \/ \A r \in Refs : OwnOrphan(r) => r \in todo[Provisioner]
          \/ todo[Provisioner] = {} /\ count[Provisioner].imported = 0

IInv ==
  /\ TypeOK /\ ListsExist /\ MissingFree /\ Bounded /\ AtAccount
  /\ ImportCovers /\ ImportIsOver /\ OrphansSeen
  /\ OneAutoKeyPerGroup /\ AtMostOneOrphan

-----------------------------------------------------------------------------
LEMMA Constants ==
  /\ MaxCreates \in Nat \ {0} /\ MaxSecrets \in Nat \ {0} /\ MaxBatches \in Nat
  /\ ListsSecrets \subseteq Accounts /\ ImportBudgets \subseteq 1..MaxSecrets
  /\ None \notin Accounts /\ None \notin Groups /\ IsFiniteSet(Refs) /\ IsFiniteSet(Groups)
BY RegistryAssumption

LEMMA CountNames == Counts = {"found", "imported", "skipped", "failed", "deferred"}
BY DEF Counts, NoCount

LEMMA NoneIsNoKey == None \notin Key
BY NoneAssumption

LEMMA NoCountIsZero ==
  /\ NoCount \in [Counts -> Nat]
  /\ NoCount.found = 0 /\ NoCount.imported = 0 /\ NoCount.skipped = 0 /\ NoCount.failed = 0
  /\ NoCount.deferred = 0
BY CountNames DEF NoCount

\* A fresh count of a list.
LEMMA FoundCount ==
  ASSUME NEW S \in SUBSET Refs, NEW c, c = [NoCount EXCEPT !.found = Cardinality(S)]
  PROVE  c \in [Counts -> Nat] /\ c.imported = 0 /\ c.failed = 0 /\ c.deferred = 0
<1>1. Cardinality(S) \in Nat
  BY Constants, FS_Subset, FS_CardinalityType
<1>2. QED
  BY <1>1, NoCountIsZero, CountNames DEF NoCount

LEMMA CardinalityPositive ==
  ASSUME NEW S \in SUBSET Refs, NEW r \in S
  PROVE  Cardinality(S) \in Nat /\ Cardinality(S) > 0
<1>1. IsFiniteSet(S) /\ Cardinality(S) \in Nat
  BY Constants, FS_Subset, FS_CardinalityType
<1>2. Cardinality(S) # 0
  BY <1>1, FS_EmptySet
<1>3. QED
  BY <1>1, <1>2

\* One more in a field of a party's count.
LEMMA TallyCounts ==
  ASSUME TypeOK, NEW p \in Parties, NEW f \in Counts, NEW n \in Nat,
         count' = [count EXCEPT ![p][f] = @ + n]
  PROVE  /\ count' \in [Parties -> [Counts -> Nat]]
         /\ count'[p][f] = count[p][f] + n /\ count[p][f] \in Nat
         /\ \A h \in Counts \ {f} : count'[p][h] = count[p][h]
         /\ \A q \in Parties \ {p} : count'[q] = count[q]
<1>1. count \in [Parties -> [Counts -> Nat]]
  BY DEF TypeOK
<1>2. count[p] \in [Counts -> Nat] /\ count[p][f] \in Nat
  BY <1>1
<1>3. [count[p] EXCEPT ![f] = @ + n] \in [Counts -> Nat]
  BY <1>2
<1>4. QED
  BY <1>1, <1>2, <1>3

-----------------------------------------------------------------------------
(***************************************************************************)
(* The loop over the Keys of a list                                        *)
(***************************************************************************)
LoopSteps(p, r) ==
  \/ KeyFails(p, r) \/ KeyUpdated(p, r) \/ KeyRefused(p, r)
  \/ \E updated \in BOOLEAN : KeyRegistered(p, r, updated)
  \/ OutOfBudget(p, r) \/ TooManyRequests(p, r)

\* What a step of the loop does to the Key it has come to.
Handled(p, r) ==
  \/ /\ todo'[p] = todo[p] \ {r} /\ r \in rows'
     /\ count'[p].failed = count[p].failed /\ count'[p].deferred = count[p].deferred
  \/ /\ todo'[p] \subseteq todo[p] /\ count'[p].imported = count[p].imported
     /\ \/ count'[p].failed > 0
        \/ count'[p].deferred > 0

LEMMA TallyDoes ==
  ASSUME TypeOK, NEW p \in Parties, NEW r \in Refs, NEW f \in Counts, Tally(p, r, f)
  PROVE  /\ count' \in [Parties -> [Counts -> Nat]]
         /\ todo' \in [Parties -> SUBSET Refs] /\ known' \in [Parties -> SUBSET Refs]
         /\ todo'[p] = todo[p] \ {r}
         /\ count'[p][f] = count[p][f] + 1 /\ count[p][f] \in Nat
         /\ \A h \in Counts \ {f} : count'[p][h] = count[p][h]
         /\ \A q \in Parties \ {p} : count'[q] = count[q] /\ todo'[q] = todo[q]
<1>1. count' = [count EXCEPT ![p][f] = @ + 1] /\ 1 \in Nat
  BY DEF Tally
<1>2. todo \in [Parties -> SUBSET Refs] /\ known \in [Parties -> SUBSET Refs]
  BY DEF TypeOK
<1>3. todo' = [todo EXCEPT ![p] = @ \ {r}] /\ known' = [known EXCEPT ![p] = @ \ {r}]
  BY DEF Tally
<1>4. QED
  BY <1>1, <1>2, <1>3, TallyCounts

LEMMA PutOffDoes ==
  ASSUME TypeOK, NEW p \in Parties, NEW r \in todo[p], PutOff(p)
  PROVE  /\ count' \in [Parties -> [Counts -> Nat]]
         /\ todo' \in [Parties -> SUBSET Refs] /\ known' \in [Parties -> SUBSET Refs]
         /\ todo'[p] = {} /\ count'[p].deferred > 0 /\ count'[p].imported = count[p].imported
         /\ \A q \in Parties \ {p} : count'[q] = count[q] /\ todo'[q] = todo[q]
<1> DEFINE n == Cardinality(todo[p])
<1>1. todo \in [Parties -> SUBSET Refs] /\ known \in [Parties -> SUBSET Refs] /\ todo[p] \in SUBSET Refs
  BY DEF TypeOK
<1>2. n \in Nat /\ n > 0
  BY <1>1, CardinalityPositive
<1>3. count' = [count EXCEPT ![p]["deferred"] = @ + n]
  BY DEF PutOff
<1>4. todo' = [todo EXCEPT ![p] = {}] /\ known' = [known EXCEPT ![p] = {}]
  BY DEF PutOff
<1>5. "deferred" \in Counts /\ "imported" \in Counts \ {"deferred"}
  BY CountNames
<1> HIDE DEF n
<1>6. /\ count' \in [Parties -> [Counts -> Nat]]
      /\ count'[p]["deferred"] = count[p]["deferred"] + n /\ count[p]["deferred"] \in Nat
      /\ count'[p]["imported"] = count[p]["imported"]
      /\ \A q \in Parties \ {p} : count'[q] = count[q]
  BY <1>2, <1>3, <1>5, TallyCounts
<1>7. count'[p].deferred > 0
  BY <1>2, <1>6
<1>8. /\ todo' \in [Parties -> SUBSET Refs] /\ known' \in [Parties -> SUBSET Refs]
      /\ todo'[p] = {} /\ \A q \in Parties \ {p} : todo'[q] = todo[q]
  BY <1>1, <1>4
<1>9. QED
  BY <1>6, <1>7, <1>8

LEMMA AskDoes ==
  ASSUME TypeOK, NEW p \in Parties, Ask(p)
  PROVE  budget' \in [Parties -> 0..MaxSecrets]
<1>1. budget \in [Parties -> 0..MaxSecrets] /\ MaxSecrets \in Nat
  BY Constants DEF TypeOK
<1>2. CASE Listed(p)
  BY <1>1, <1>2 DEF Ask
<1>3. CASE ~Listed(p)
  BY <1>1, <1>3 DEF Ask, CanAsk
<1>4. QED
  BY <1>2, <1>3

LEMMA LoopDoes ==
  ASSUME TypeOK, NEW p \in Parties, NEW r \in Refs, LoopSteps(p, r)
  PROVE  /\ TypeOK' /\ Handled(p, r) /\ r \in todo[p] /\ pc[p] \in {"keys", "new"}
         /\ UNCHANGED <<remote, pc, at, list, batch, account>>
         /\ \A q \in Parties \ {p} : count'[q] = count[q] /\ todo'[q] = todo[q]
         /\ rows \subseteq rows' /\ rows \cup dropped \subseteq rows' \cup dropped'
<1>n. /\ "failed" \in Counts /\ "deferred" \in Counts /\ "skipped" \in Counts /\ "imported" \in Counts
  BY CountNames
<1>r. rows \in SUBSET Refs /\ dropped \in SUBSET Refs /\ budget \in [Parties -> 0..MaxSecrets]
      /\ count \in [Parties -> [Counts -> Nat]]
  BY DEF TypeOK
<1>l. r \in todo[p] /\ pc[p] \in {"keys", "new"}
  BY DEF LoopSteps, KeyFails, KeyUpdated, KeyRefused, KeyRegistered, OutOfBudget, TooManyRequests, Loop
<1>1. ASSUME KeyFails(p, r) \/ KeyRefused(p, r) \/ (KeyRegistered(p, r, FALSE))
      PROVE  /\ Tally(p, r, "failed")
             /\ rows' \in SUBSET Refs /\ dropped' \in SUBSET Refs /\ budget' \in [Parties -> 0..MaxSecrets]
             /\ rows \subseteq rows' /\ rows \cup dropped \subseteq rows' \cup dropped'
  BY <1>1, <1>r, AskDoes DEF KeyFails, KeyRefused, KeyRegistered
<1>2. ASSUME Tally(p, r, "failed")
      PROVE  Handled(p, r)
  BY <1>2, <1>n, TallyDoes DEF Handled
<1>3. ASSUME KeyUpdated(p, r)
      PROVE  /\ Tally(p, r, "skipped") /\ r \in rows'
             /\ rows' \in SUBSET Refs /\ dropped' \in SUBSET Refs /\ budget' \in [Parties -> 0..MaxSecrets]
             /\ rows \subseteq rows' /\ rows \cup dropped \subseteq rows' \cup dropped'
  BY <1>3, <1>r DEF KeyUpdated
<1>4. ASSUME KeyRegistered(p, r, TRUE)
      PROVE  /\ Tally(p, r, "imported") /\ r \in rows'
             /\ rows' \in SUBSET Refs /\ dropped' \in SUBSET Refs /\ budget' \in [Parties -> 0..MaxSecrets]
             /\ rows \subseteq rows' /\ rows \cup dropped \subseteq rows' \cup dropped'
  BY <1>4, <1>r, AskDoes DEF KeyRegistered
<1>5. ASSUME NEW f \in {"skipped", "imported"}, Tally(p, r, f), r \in rows'
      PROVE  Handled(p, r)
  BY <1>5, <1>n, TallyDoes DEF Handled
<1>6. ASSUME NEW f \in Counts, Tally(p, r, f),
             rows' \in SUBSET Refs, dropped' \in SUBSET Refs, budget' \in [Parties -> 0..MaxSecrets]
      PROVE  /\ TypeOK' /\ UNCHANGED <<remote, pc, at, list, batch, account>>
             /\ \A q \in Parties \ {p} : count'[q] = count[q] /\ todo'[q] = todo[q]
  <2>1. UNCHANGED <<remote, pc, at, list, batch, account>>
    BY <1>6 DEF Tally
  <2>2. QED
    BY <1>6, <2>1, TallyDoes DEF TypeOK, batch, account
<1>7. CASE OutOfBudget(p, r) \/ TooManyRequests(p, r)
  <2>1. PutOff(p) /\ UNCHANGED <<registry, pc, at, list, batch, account>>
    BY <1>7 DEF OutOfBudget, TooManyRequests
  <2>2. budget' \in [Parties -> 0..MaxSecrets]
    BY <1>7, <1>r, AskDoes DEF OutOfBudget, TooManyRequests
  <2>3. /\ count' \in [Parties -> [Counts -> Nat]]
        /\ todo' \in [Parties -> SUBSET Refs] /\ known' \in [Parties -> SUBSET Refs]
        /\ todo'[p] = {} /\ count'[p].deferred > 0 /\ count'[p].imported = count[p].imported
        /\ \A q \in Parties \ {p} : count'[q] = count[q] /\ todo'[q] = todo[q]
    BY <1>l, <2>1, PutOffDoes
  <2>4. TypeOK'
    BY <2>1, <2>2, <2>3 DEF TypeOK, registry, batch, account
  <2>5. QED
    BY <1>l, <2>1, <2>3, <2>4 DEF Handled, registry
<1>8. CASE KeyFails(p, r) \/ KeyRefused(p, r) \/ KeyRegistered(p, r, FALSE)
  BY <1>1, <1>2, <1>6, <1>8, <1>l, <1>n
<1>9. CASE KeyUpdated(p, r)
  BY <1>3, <1>5, <1>6, <1>9, <1>l, <1>n
<1>10. CASE KeyRegistered(p, r, TRUE)
  BY <1>4, <1>5, <1>6, <1>10, <1>l, <1>n
<1>11. QED
  BY <1>7, <1>8, <1>9, <1>10 DEF LoopSteps

\* The invariant is about what a step changes: a loop step changes the registry,
\* the counts and the lists that are left.
LEMMA LoopKeeps ==
  ASSUME IInv, NEW p \in Parties, NEW r \in Refs, LoopSteps(p, r)
  PROVE  IInv'
<1>1. /\ TypeOK /\ TypeOK' /\ Handled(p, r) /\ r \in todo[p] /\ pc[p] \in {"keys", "new"}
      /\ UNCHANGED <<remote, pc, at, list, left, only, creates, secrets, batches>>
      /\ UNCHANGED <<missing, group, max, created>>
      /\ \A q \in Parties \ {p} : count'[q] = count[q] /\ todo'[q] = todo[q]
      /\ rows \subseteq rows' /\ rows \cup dropped \subseteq rows' \cup dropped'
  BY LoopDoes DEF IInv, batch, account
<1>2. ListsExist' /\ MissingFree' /\ Bounded' /\ AtAccount' /\ OneAutoKeyPerGroup'
  BY <1>1 DEF IInv, ListsExist, MissingFree, Bounded, AtAccount, OneAutoKeyPerGroup, Exists
<1>3. \A k \in Refs : /\ Orphan(k)' => Orphan(k)
                      /\ OwnOrphan(k)' => OwnOrphan(k)
  BY <1>1 DEF Orphan, OwnOrphan, Exists
<1>4. AtMostOneOrphan'
  BY <1>1, <1>3 DEF IInv, AtMostOneOrphan
<1>5. ImportIsOver'
  <2>1. Importer \in Parties
    BY DEF Parties
  <2>2. QED
    BY <1>1, <2>1 DEF IInv, ImportIsOver
<1>6. ImportCovers'
  <2>1. CASE p = Importer
    BY <1>1, <2>1 DEF IInv, ImportCovers, Handled, Troubled
  <2>2. CASE p # Importer
    <3>1. Importer \in Parties
      BY DEF Parties
    <3>2. QED
      BY <1>1, <2>2, <3>1 DEF IInv, ImportCovers, Troubled
  <2>3. QED
    BY <2>1, <2>2
<1>7. OrphansSeen'
  <2>p. Provisioner \in Parties
    BY DEF Parties
  <2>1. CASE p # Provisioner
    BY <1>1, <1>3, <2>p, <2>1 DEF IInv, OrphansSeen, Troubled
  <2>2. CASE p = Provisioner /\ pc[Provisioner] = "keys"
    <3>1. (\A k \in Refs : OwnOrphan(k) => k \in todo[p]) \/ Troubled(p)
      BY <2>2 DEF IInv, OrphansSeen
    <3>2. \A k \in Refs : k \in rows' => ~OwnOrphan(k)'
      BY DEF OwnOrphan, Orphan
    <3>3. (\A k \in Refs : OwnOrphan(k)' => k \in todo'[p]) \/ Troubled(p)'
      BY <1>1, <1>3, <3>1, <3>2 DEF Handled, Troubled
    <3>4. QED
      BY <1>1, <2>2, <3>3 DEF OrphansSeen
  <2>3. CASE p = Provisioner /\ pc[Provisioner] = "new"
    <3>1. /\ \A k, q \in todo[p] : k = q
          /\ count[p].imported = 0
          /\ \A k \in Refs : OwnOrphan(k) => k \in todo[p]
      BY <1>1, <2>3 DEF IInv, OrphansSeen
    <3>2. todo[p] = {r}
      BY <1>1, <3>1
    <3>3. CASE todo'[p] = todo[p] \ {r} /\ r \in rows'
      <4>1. todo'[p] = {}
        BY <3>2, <3>3
      <4>3. ~OwnOrphan(r)'
        BY <3>3 DEF OwnOrphan, Orphan
      <4>4. \A k \in Refs : ~OwnOrphan(k)'
        BY <1>3, <3>1, <3>2, <4>3
      <4>5. QED
        BY <1>1, <2>3, <4>1, <4>4 DEF OrphansSeen
    <3>4. CASE todo'[p] \subseteq todo[p] /\ count'[p].imported = count[p].imported
      <4>1. todo'[p] = {} \/ todo'[p] = todo[p]
        BY <3>2, <3>4
      <4>2. count'[p].imported = 0
        BY <3>1, <3>4
      <4>3. QED
        BY <1>1, <1>3, <2>3, <3>1, <4>1, <4>2 DEF OrphansSeen
    <3>5. QED
      BY <1>1, <3>3, <3>4 DEF Handled
  <2>4. QED
    BY <1>1, <2>1, <2>2, <2>3
<1>8. QED
  BY <1>1, <1>2, <1>4, <1>5, <1>6, <1>7 DEF IInv

-----------------------------------------------------------------------------
(***************************************************************************)
(* Steps of people                                                         *)
(***************************************************************************)
LEMMA HandKeeps ==
  ASSUME IInv,
         \/ \E r \in Refs : Register(r) \/ Delete(r)
         \/ \E r \in Refs, a \in Accounts, g \in Groups : RemoteCreated(r, a, g)
  PROVE  IInv'
<1>1. UNCHANGED <<pc, at, list, known, todo, count, budget, left, only, creates, secrets, batches,
                  missing, group, max, created>>
  BY DEF Register, Delete, RemoteCreated, batch, account
<1>t. /\ TypeOK /\ remote \in [Refs -> Key \cup {None}] /\ rows \in SUBSET Refs /\ dropped \in SUBSET Refs
      /\ list \in [Parties -> SUBSET Refs]
  BY DEF IInv, TypeOK
<1>2. /\ remote' \in [Refs -> Key \cup {None}] /\ rows' \in SUBSET Refs /\ dropped' \in SUBSET Refs
      /\ rows \cup dropped \subseteq rows' \cup dropped'
      /\ \A k \in Refs : Exists(k) => remote'[k] = remote[k]
      /\ \A k \in Refs : ~Exists(k) /\ Exists(k)' => ~remote'[k].auto
      /\ \A k \in Refs : k \notin rows' /\ k \notin dropped' => k \notin rows /\ k \notin dropped
  <2>1. ASSUME NEW r \in Refs, Register(r) \/ Delete(r)
        PROVE  <1>2!:
    BY <2>1, <1>t DEF Register, Delete, Exists
  <2>2. ASSUME NEW r \in Refs, NEW a \in Accounts, NEW g \in Groups, RemoteCreated(r, a, g)
        PROVE  <1>2!:
    <3>1. [account |-> a, group |-> g, auto |-> FALSE] \in Key
      BY DEF Key
    <3>2. remote[r] = None /\ remote' = [remote EXCEPT ![r] = [account |-> a, group |-> g, auto |-> FALSE]]
          /\ UNCHANGED <<rows, dropped>>
      BY <2>2 DEF RemoteCreated
    <3>3. QED
      BY <1>t, <3>1, <3>2 DEF Exists
  <2>3. QED
    BY <2>1, <2>2
<1>3. TypeOK'
  BY <1>1, <1>2 DEF IInv, TypeOK
<1>4. ListsExist'
  <2> SUFFICES ASSUME NEW p \in Parties, NEW r \in list[p]
               PROVE  Exists(r)'
    BY <1>1 DEF ListsExist
  <2>1. r \in Refs /\ Exists(r)
    BY <1>t DEF IInv, ListsExist
  <2>2. QED
    BY <1>2, <2>1 DEF Exists
<1>5. MissingFree' /\ OneAutoKeyPerGroup'
  BY <1>1, <1>2 DEF IInv, MissingFree, OneAutoKeyPerGroup, Exists
<1>6. \A k \in Refs : Orphan(k)' => Orphan(k) /\ remote'[k] = remote[k]
  BY <1>2 DEF Orphan
<1>7. AtMostOneOrphan'
  BY <1>6 DEF IInv, AtMostOneOrphan
<1>8. OrphansSeen'
  BY <1>1, <1>6 DEF IInv, OrphansSeen, OwnOrphan, Troubled
<1>9. Bounded' /\ AtAccount' /\ ImportCovers' /\ ImportIsOver'
  BY <1>1, <1>2 DEF IInv, Bounded, AtAccount, ImportCovers, ImportIsOver, Troubled
<1>10. QED
  BY <1>3, <1>4, <1>5, <1>7, <1>8, <1>9 DEF IInv

-----------------------------------------------------------------------------
(***************************************************************************)
(* Steps of the importer                                                   *)
(***************************************************************************)
LEMMA PartiesAre == Parties = {Importer, Provisioner} /\ Importer # Provisioner
BY DEF Parties, Importer, Provisioner

LEMMA LeaveDoes ==
  ASSUME TypeOK, NEW p \in Parties, NEW l, Leave(p, l)
  PROVE  /\ at' \in [Parties -> Accounts \cup {None}] /\ list' \in [Parties -> SUBSET Refs]
         /\ known' \in [Parties -> SUBSET Refs] /\ todo' \in [Parties -> SUBSET Refs]
         /\ count' \in [Parties -> [Counts -> Nat]] /\ budget' \in [Parties -> 0..MaxSecrets]
         /\ list'[p] = {} /\ todo'[p] = {} /\ at'[p] = None
         /\ \A q \in Parties \ {p} : /\ at'[q] = at[q] /\ list'[q] = list[q]
                                      /\ todo'[q] = todo[q] /\ count'[q] = count[q]
<1>1. 0 \in 0..MaxSecrets /\ NoCount \in [Counts -> Nat]
  BY Constants, NoCountIsZero
<1>2. QED
  BY <1>1 DEF Leave, TypeOK

\* The lists are of what the account shows.
LEMMA StartDoes ==
  ASSUME TypeOK, NEW p \in Parties, NEW shown \in SUBSET Refs, NEW refs \in SUBSET Refs, NEW l,
         StartKeys(p, shown, refs, l)
  PROVE  /\ list' \in [Parties -> SUBSET Refs] /\ known' \in [Parties -> SUBSET Refs]
         /\ todo' \in [Parties -> SUBSET Refs] /\ count' \in [Parties -> [Counts -> Nat]]
         /\ list'[p] = shown /\ todo'[p] = refs /\ count'[p].imported = 0
         /\ \A q \in Parties \ {p} : list'[q] = list[q] /\ todo'[q] = todo[q] /\ count'[q] = count[q]
<1> DEFINE c == [NoCount EXCEPT !.found = Cardinality(refs)]
<1>1. c \in [Counts -> Nat] /\ c.imported = 0
  BY FoundCount
<1>2. count' = [count EXCEPT ![p] = c]
  BY DEF StartKeys
<1> HIDE DEF c
<1>3. QED
  BY <1>1, <1>2, ZenonT(60) DEF StartKeys, TypeOK

LEMMA ShownExist ==
  ASSUME TypeOK, NEW a \in Accounts
  PROVE  Shown(a) \in SUBSET Refs /\ \A r \in Shown(a) : Exists(r)
BY DEF Shown

\* What the importer does to its own lists does not touch the provisioner.
LEMMA ImporterKeeps ==
  ASSUME IInv, TypeOK', UNCHANGED <<remote, rows, dropped, left, only, creates, secrets, batches>>,
         UNCHANGED <<missing, group, max, created>>,
         pc'[Provisioner] = pc[Provisioner], at'[Provisioner] = at[Provisioner],
         list'[Provisioner] = list[Provisioner], todo'[Provisioner] = todo[Provisioner],
         count'[Provisioner] = count[Provisioner],
         \A r \in list'[Importer] : Exists(r),
         ImportCovers', ImportIsOver'
  PROVE  IInv'
<1>1. ListsExist'
  BY PartiesAre DEF IInv, ListsExist, Exists
<1>2. MissingFree' /\ Bounded' /\ AtAccount' /\ OneAutoKeyPerGroup' /\ AtMostOneOrphan'
  BY DEF IInv, MissingFree, Bounded, AtAccount, OneAutoKeyPerGroup, AtMostOneOrphan, Orphan, Exists
<1>3. OrphansSeen'
  BY DEF IInv, OrphansSeen, OwnOrphan, Orphan, Exists, Troubled
<1>4. QED
  BY <1>1, <1>2, <1>3 DEF IInv

LEMMA ImporterSteps ==
  ASSUME IInv,
         \/ \E a \in Accounts, b \in ImportBudgets : StartImport(a, b)
         \/ ImportEnds \/ ImportReturns
  PROVE  IInv'
<1>t. /\ TypeOK /\ pc \in [Parties -> {"idle", "account", "keys", "create", "verify", "new", "done"}]
      /\ at \in [Parties -> Accounts \cup {None}] /\ budget \in [Parties -> 0..MaxSecrets]
      /\ Importer \in Parties /\ Provisioner \in Parties \ {Importer}
  BY PartiesAre DEF IInv, TypeOK
<1>1. ASSUME NEW a \in Accounts, NEW b \in ImportBudgets, StartImport(a, b)
      PROVE  IInv'
  <2>1. /\ Shown(a) \in SUBSET Refs /\ (\A r \in Shown(a) : Exists(r))
        /\ StartKeys(Importer, Shown(a), Shown(a), "keys")
        /\ pc' = [pc EXCEPT ![Importer] = "keys"]
        /\ at' = [at EXCEPT ![Importer] = a] /\ budget' = [budget EXCEPT ![Importer] = b]
        /\ UNCHANGED <<remote, rows, dropped, left, only, creates, secrets, batches>>
        /\ UNCHANGED <<missing, group, max, created>>
    BY <1>1, <1>t, ShownExist DEF StartImport, StartKeys, Goto, registry, batch, account
  <2>2. b \in 0..MaxSecrets
    BY Constants
  <2>3. /\ list' \in [Parties -> SUBSET Refs] /\ known' \in [Parties -> SUBSET Refs]
        /\ todo' \in [Parties -> SUBSET Refs] /\ count' \in [Parties -> [Counts -> Nat]]
        /\ list'[Importer] = Shown(a) /\ todo'[Importer] = Shown(a)
        /\ list'[Provisioner] = list[Provisioner] /\ todo'[Provisioner] = todo[Provisioner]
        /\ count'[Provisioner] = count[Provisioner]
    BY <1>t, <2>1, StartDoes
  <2>4. /\ pc' \in [Parties -> {"idle", "account", "keys", "create", "verify", "new", "done"}]
        /\ at' \in [Parties -> Accounts \cup {None}] /\ budget' \in [Parties -> 0..MaxSecrets]
        /\ pc'[Importer] = "keys"
        /\ pc'[Provisioner] = pc[Provisioner] /\ at'[Provisioner] = at[Provisioner]
    BY <1>t, <2>1, <2>2
  <2>5. TypeOK'
    BY <1>t, <2>1, <2>3, <2>4 DEF TypeOK
  <2>6. ImportCovers' /\ ImportIsOver'
    BY <2>3, <2>4 DEF ImportCovers, ImportIsOver
  <2>7. QED
    BY <2>1, <2>3, <2>4, <2>5, <2>6, ImporterKeeps
<1>2. CASE ImportEnds
  <2>1. /\ pc[Importer] = "keys" /\ todo[Importer] = {} /\ pc' = [pc EXCEPT ![Importer] = "done"]
        /\ UNCHANGED <<remote, rows, dropped, left, only, creates, secrets, batches>>
        /\ UNCHANGED <<missing, group, max, created, at, list, known, todo, count, budget>>
    BY <1>2 DEF ImportEnds, Goto, registry, batch, account
  <2>2. /\ pc' \in [Parties -> {"idle", "account", "keys", "create", "verify", "new", "done"}]
        /\ pc'[Importer] = "done" /\ pc'[Provisioner] = pc[Provisioner]
    BY <1>t, <2>1
  <2>3. TypeOK'
    BY <1>t, <2>1, <2>2 DEF TypeOK
  <2>4. ImportCovers' /\ ImportIsOver'
    BY <2>1, <2>2 DEF IInv, ImportCovers, ImportIsOver, Troubled
  <2>5. \A r \in list'[Importer] : Exists(r)
    BY <1>t, <2>1 DEF IInv, ListsExist
  <2>6. QED
    BY <2>1, <2>2, <2>3, <2>4, <2>5, ImporterKeeps
<1>3. CASE ImportReturns
  <2>1. /\ Leave(Importer, "idle") /\ pc' = [pc EXCEPT ![Importer] = "idle"]
        /\ UNCHANGED <<remote, rows, dropped, left, only, creates, secrets, batches>>
        /\ UNCHANGED <<missing, group, max, created>>
    BY <1>3 DEF ImportReturns, Leave, Goto, registry, batch, account
  <2>2. /\ pc' \in [Parties -> {"idle", "account", "keys", "create", "verify", "new", "done"}]
        /\ pc'[Importer] = "idle" /\ pc'[Provisioner] = pc[Provisioner]
    BY <1>t, <2>1
  <2>3. TypeOK'
    BY <1>t, <2>1, <2>2, LeaveDoes DEF TypeOK
  <2>4. ImportCovers' /\ ImportIsOver'
    BY <2>2 DEF ImportCovers, ImportIsOver
  <2>5. QED
    BY <1>t, <2>1, <2>2, <2>3, <2>4, LeaveDoes, ImporterKeeps
<1>4. QED
  BY <1>1, <1>2, <1>3

-----------------------------------------------------------------------------
(***************************************************************************)
(* Steps of the provisioner                                                *)
(***************************************************************************)
\* What the provisioner does to its own lists does not touch the importer.
LEMMA ProvisionerKeeps ==
  ASSUME IInv, TypeOK', UNCHANGED <<remote, rows, dropped>>,
         pc'[Importer] = pc[Importer], list'[Importer] = list[Importer],
         todo'[Importer] = todo[Importer], count'[Importer] = count[Importer],
         \A r \in list'[Provisioner] : Exists(r),
         MissingFree', Bounded', AtAccount', OrphansSeen'
  PROVE  IInv'
<1>1. ListsExist'
  BY PartiesAre DEF IInv, ListsExist, Exists
<1>2. OneAutoKeyPerGroup' /\ AtMostOneOrphan'
  BY DEF IInv, OneAutoKeyPerGroup, AtMostOneOrphan, Orphan, Exists
<1>3. ImportCovers' /\ ImportIsOver'
  BY DEF IInv, ImportCovers, ImportIsOver, Troubled
<1>4. QED
  BY <1>1, <1>2, <1>3 DEF IInv

Places == {"idle", "account", "keys", "create", "verify", "new", "done"}

LEMMA TypeFacts ==
  ASSUME TypeOK
  PROVE  /\ pc \in [Parties -> Places] /\ at \in [Parties -> Accounts \cup {None}]
         /\ list \in [Parties -> SUBSET Refs] /\ todo \in [Parties -> SUBSET Refs]
         /\ budget \in [Parties -> 0..MaxSecrets] /\ count \in [Parties -> [Counts -> Nat]]
         /\ creates \in 0..MaxCreates /\ secrets \in 0..MaxSecrets
         /\ max \in 0..MaxCreates /\ created \in 0..MaxCreates /\ batches \in 0..MaxBatches
         /\ Importer \in Parties \ {Provisioner} /\ Provisioner \in Parties
BY PartiesAre DEF TypeOK, Places

LEMMA GotoDoes ==
  ASSUME TypeOK, NEW l \in Places, Goto(Provisioner, l)
  PROVE  /\ pc' \in [Parties -> Places] /\ pc'[Provisioner] = l /\ pc'[Importer] = pc[Importer]
BY TypeFacts DEF Goto

LEMMA StartBatchKeeps ==
  ASSUME IInv, NEW accounts \in SUBSET Accounts, NEW flag \in BOOLEAN, StartBatch(accounts, flag)
  PROVE  IInv'
<1>1. /\ TypeOK /\ pc[Provisioner] = "idle" /\ batches < MaxBatches
      /\ left' = accounts /\ only' = flag
      /\ creates' = MaxCreates /\ secrets' = MaxSecrets /\ batches' = batches + 1
      /\ UNCHANGED <<remote, rows, dropped, at, list, known, todo, count, budget,
                     missing, group, max, created>>
  BY DEF IInv, StartBatch, registry, account
<1>2. /\ pc' \in [Parties -> Places] /\ pc'[Provisioner] = "account" /\ pc'[Importer] = pc[Importer]
  BY <1>1, GotoDoes DEF StartBatch, Places
<1>3. /\ creates' \in 0..MaxCreates /\ secrets' \in 0..MaxSecrets /\ batches' \in 0..MaxBatches
  BY <1>1, TypeFacts, Constants
<1>4. TypeOK'
  BY <1>1, <1>2, <1>3 DEF TypeOK, Places
<1>5. MissingFree' /\ OrphansSeen'
  BY <1>1, <1>2 DEF IInv, MissingFree, OrphansSeen, Exists
<1>6. Bounded'
  BY <1>1, <1>2, TypeFacts DEF IInv, Bounded
<1>a. AtAccount'
  BY <1>2 DEF AtAccount
<1>7. \A r \in list'[Provisioner] : Exists(r)
  BY <1>1, PartiesAre DEF IInv, ListsExist
<1>8. QED
  BY <1>1, <1>2, <1>4, <1>5, <1>6, <1>7, <1>a, ProvisionerKeeps

LEMMA BatchEndsKeeps ==
  ASSUME IInv, BatchEnds
  PROVE  IInv'
<1>1. /\ TypeOK /\ Leave(Provisioner, "idle") /\ pc' = [pc EXCEPT ![Provisioner] = "idle"]
      /\ missing' = {} /\ group' = None /\ max' = 0 /\ created' = 0
      /\ left' = {} /\ only' = FALSE /\ creates' = 0 /\ secrets' = 0
      /\ UNCHANGED <<remote, rows, dropped, batches>>
  BY DEF IInv, BatchEnds, Leave, Goto, NoAccount, registry
<1>2. /\ pc' \in [Parties -> Places] /\ pc'[Provisioner] = "idle" /\ pc'[Importer] = pc[Importer]
  BY <1>1, TypeFacts DEF Places
<1>3. only' \in BOOLEAN
  BY <1>1
<1>4. 0 \in 0..MaxCreates /\ 0 \in 0..MaxSecrets
  BY Constants
<1>5. /\ at' \in [Parties -> Accounts \cup {None}] /\ list' \in [Parties -> SUBSET Refs]
      /\ known' \in [Parties -> SUBSET Refs] /\ todo' \in [Parties -> SUBSET Refs]
      /\ count' \in [Parties -> [Counts -> Nat]] /\ budget' \in [Parties -> 0..MaxSecrets]
      /\ list'[Provisioner] = {} /\ list'[Importer] = list[Importer]
      /\ todo'[Importer] = todo[Importer] /\ count'[Importer] = count[Importer]
  BY <1>1, LeaveDoes, PartiesAre
<1>6. TypeOK'
  BY <1>1, <1>2, <1>3, <1>4, <1>5 DEF TypeOK, Places
<1>7. MissingFree' /\ OrphansSeen' /\ Bounded' /\ AtAccount'
  BY <1>1, <1>2 DEF MissingFree, OrphansSeen, Bounded, AtAccount
<1>8. QED
  BY <1>1, <1>2, <1>5, <1>6, <1>7, ProvisionerKeeps

LEMMA SkipAccountKeeps ==
  ASSUME IInv, NEW a \in Accounts, SkipAccount(a)
  PROVE  IInv'
<1>1. /\ left' \in SUBSET Accounts
      /\ UNCHANGED <<remote, rows, dropped, pc, at, list, known, todo, count, budget, only, creates, secrets,
                     batches, missing, group, max, created>>
  BY DEF SkipAccount, Turn, IInv, TypeOK, registry, account
<1>2. QED
  BY <1>1 DEF IInv, TypeOK, ListsExist, MissingFree, Bounded, AtAccount, ImportCovers, ImportIsOver, OrphansSeen,
              OwnOrphan, Orphan, Exists, Troubled, OneAutoKeyPerGroup, AtMostOneOrphan

LEMMA DiscoverKeeps ==
  ASSUME IInv, NEW a \in Accounts, NEW gs \in SUBSET Groups, Discover(a, gs)
  PROVE  IInv'
<1>1. /\ TypeOK /\ pc[Provisioner] = "account" /\ left' \in SUBSET Accounts
      /\ at' = [at EXCEPT ![Provisioner] = a] /\ budget' = [budget EXCEPT ![Provisioner] = secrets]
      /\ missing' = Uncovered(a, gs) /\ StartKeys(Provisioner, Shown(a), Shown(a), "keys")
      /\ UNCHANGED <<remote, rows, dropped, only, creates, secrets, batches, group, max, created>>
  BY DEF IInv, TypeOK, Discover, Turn, registry
<1>2. /\ pc' \in [Parties -> Places] /\ pc'[Provisioner] = "keys" /\ pc'[Importer] = pc[Importer]
  BY <1>1, GotoDoes DEF StartKeys, Places
<1>3. Shown(a) \in SUBSET Refs /\ \A r \in Shown(a) : Exists(r)
  BY <1>1, ShownExist
<1>4. /\ list' \in [Parties -> SUBSET Refs] /\ known' \in [Parties -> SUBSET Refs]
      /\ todo' \in [Parties -> SUBSET Refs] /\ count' \in [Parties -> [Counts -> Nat]]
      /\ list'[Provisioner] = Shown(a) /\ todo'[Provisioner] = Shown(a)
      /\ list'[Importer] = list[Importer] /\ todo'[Importer] = todo[Importer]
      /\ count'[Importer] = count[Importer]
  BY <1>1, <1>3, StartDoes, PartiesAre
<1>5. /\ at' \in [Parties -> Accounts \cup {None}] /\ budget' \in [Parties -> 0..MaxSecrets]
      /\ missing' \in SUBSET Groups /\ at'[Provisioner] = a
  BY <1>1, TypeFacts DEF Uncovered
<1>6. TypeOK'
  BY <1>1, <1>2, <1>4, <1>5 DEF TypeOK, Places
<1>7. MissingFree'
  <2> SUFFICES ASSUME NEW g \in missing', NEW r \in Refs, Exists(r), remote[r].account = a, remote[r].group = g
               PROVE  FALSE
    BY <1>1, <1>5 DEF MissingFree, Exists
  <2>1. r \in Shown(a)
    BY DEF Shown
  <2>2. QED
    BY <1>1, <2>1 DEF Uncovered
<1>8. OrphansSeen'
  <2>1. \A r \in Refs : OwnOrphan(r)' => r \in Shown(a)
    BY <1>1, <1>5 DEF OwnOrphan, Orphan, Exists, Shown
  <2>2. QED
    BY <1>2, <1>4, <2>1 DEF OrphansSeen
<1>9. Bounded' /\ AtAccount'
  BY <1>1, <1>2, <1>5 DEF IInv, Bounded, AtAccount
<1>10. QED
  BY <1>1, <1>2, <1>3, <1>4, <1>6, <1>7, <1>8, <1>9, ProvisionerKeeps

LEMMA DiscoveredKeeps ==
  ASSUME IInv, Discovered
  PROVE  IInv'
<1>1. /\ TypeOK /\ pc[Provisioner] = "keys" /\ todo[Provisioner] = {}
      /\ count[Provisioner].failed = 0 /\ count[Provisioner].deferred = 0
      /\ max' = CutMax(budget[Provisioner])
      /\ UNCHANGED <<remote, rows, dropped, at, list, known, todo, count, budget, left, only, creates, secrets,
                     batches, missing, group, created>>
  BY DEF IInv, Discovered, MayCreate, registry, batch
<1>2. /\ pc' \in [Parties -> Places] /\ pc'[Provisioner] = "create" /\ pc'[Importer] = pc[Importer]
  BY <1>1, GotoDoes DEF Discovered, Places
<1>3. max' \in 0..MaxCreates /\ max' <= creates
  BY <1>1, TypeFacts, Constants DEF CutMax
<1>4. TypeOK'
  BY <1>1, <1>2, <1>3 DEF TypeOK, Places
<1>5. MissingFree'
  BY <1>1 DEF IInv, MissingFree, Exists
<1>6. Bounded' /\ AtAccount'
  BY <1>1, <1>2, <1>3, TypeFacts DEF IInv, Bounded, AtAccount
<1>7. \A r \in Refs : ~OwnOrphan(r)
  BY <1>1 DEF IInv, OrphansSeen, Troubled
<1>8. OrphansSeen'
  BY <1>1, <1>2, <1>7 DEF OrphansSeen, OwnOrphan, Orphan, Exists
<1>9. \A r \in list'[Provisioner] : Exists(r)
  BY <1>1, PartiesAre DEF IInv, ListsExist
<1>10. QED
  BY <1>1, <1>2, <1>4, <1>5, <1>6, <1>8, <1>9, ProvisionerKeeps

\* The one step that adds a Key of the gateway's: in a group that has none, of an
\* account that has no orphan.
LEMMA CreateKeeps ==
  ASSUME IInv, NEW g \in Groups, NEW r \in Refs, CreateRemoteKey(g, r)
  PROVE  IInv'
<1> DEFINE key == [account |-> at[Provisioner], group |-> g, auto |-> TRUE]
<1>1. /\ TypeOK /\ pc[Provisioner] = "create" /\ g \in missing /\ created < max /\ remote[r] = None
      /\ remote' = [remote EXCEPT ![r] = key] /\ missing' = missing \ {g} /\ group' = g
      /\ UNCHANGED <<rows, dropped, at, list, known, todo, count, budget, left, only, creates, secrets,
                     batches, max, created>>
  BY DEF IInv, CreateRemoteKey, batch
<1>2. /\ pc' \in [Parties -> Places] /\ pc'[Provisioner] = "verify" /\ pc'[Importer] = pc[Importer]
  BY <1>1, GotoDoes DEF CreateRemoteKey, Places
<1>3. key \in Key
  <2>1. at[Provisioner] \in Accounts
    BY <1>1 DEF IInv, AtAccount
  <2>2. QED
    BY <2>1 DEF Key
<1>4. key # None /\ key.auto = TRUE /\ key.account = at[Provisioner] /\ key.group = g
  BY <1>3, NoneIsNoKey
<1> HIDE DEF key
<1>5. /\ remote' \in [Refs -> Key \cup {None}] /\ remote'[r] = key
      /\ \A k \in Refs \ {r} : remote'[k] = remote[k]
  BY <1>1, <1>3 DEF TypeOK
<1>6. TypeOK'
  BY <1>1, <1>2, <1>5 DEF TypeOK, Places
<1>7. ListsExist'
  <2> SUFFICES ASSUME NEW p \in Parties, NEW k \in list[p]
               PROVE  Exists(k)'
    BY <1>1 DEF ListsExist
  <2>1. k \in Refs /\ Exists(k)
    BY <1>1 DEF IInv, ListsExist, TypeOK
  <2>2. QED
    BY <1>1, <1>4, <1>5, <2>1 DEF Exists
<1>8. MissingFree'
  BY <1>1, <1>4, <1>5 DEF IInv, MissingFree, Exists
<1>9. Bounded' /\ AtAccount'
  BY <1>1, <1>2 DEF IInv, Bounded, AtAccount
<1>10. OneAutoKeyPerGroup'
  <2>1. \A q \in Refs : ~(Exists(q) /\ remote[q].auto /\ remote[q].account = at[Provisioner] /\ remote[q].group = g)
    BY <1>1 DEF IInv, MissingFree
  <2>2. QED
    BY <1>4, <1>5, <2>1 DEF IInv, OneAutoKeyPerGroup, Exists
<1>11. \A q \in Refs \ {r} : Orphan(q)' => Orphan(q) /\ remote'[q] = remote[q]
  BY <1>1, <1>5 DEF Orphan, Exists
<1>12. \A q \in Refs \ {r} : Orphan(q)' => remote'[q].account # at[Provisioner]
  BY <1>1, <1>11 DEF IInv, OrphansSeen, OwnOrphan
<1>13. AtMostOneOrphan'
  <2> SUFFICES ASSUME NEW q \in Refs, NEW k \in Refs, Orphan(q)', Orphan(k)',
                      remote'[q].account = remote'[k].account
               PROVE  q = k
    BY DEF AtMostOneOrphan
  <2>1. CASE q = r \/ k = r
    BY <1>4, <1>5, <1>12, <2>1
  <2>2. CASE q # r /\ k # r
    BY <1>11, <2>2 DEF IInv, AtMostOneOrphan
  <2>3. QED
    BY <2>1, <2>2
<1>14. OrphansSeen'
  <2>1. r \notin list[Provisioner]
    BY <1>1, PartiesAre DEF IInv, ListsExist, Exists
  <2>2. \A q \in Refs : OwnOrphan(q)' => q = r
    BY <1>1, <1>12 DEF OwnOrphan
  <2>3. QED
    BY <1>1, <1>2, <1>4, <1>5, <2>1, <2>2 DEF OrphansSeen
<1>15. ImportCovers' /\ ImportIsOver'
  BY <1>1, <1>2 DEF IInv, ImportCovers, ImportIsOver, Troubled
<1>16. QED
  BY <1>6, <1>7, <1>8, <1>9, <1>10, <1>13, <1>14, <1>15 DEF IInv

LEMMA VerifiedKeeps ==
  ASSUME IInv, NEW r \in Refs, Verified(r)
  PROVE  IInv'
<1> DEFINE shown == Shown(at[Provisioner])
<1>1. /\ TypeOK /\ pc[Provisioner] = "verify"
      /\ {r} = {k \in shown \ list[Provisioner] : remote[k].group = group}
      /\ StartKeys(Provisioner, shown, {r}, "new") /\ group' = None
      /\ UNCHANGED <<remote, rows, dropped, at, budget, left, only, creates, secrets, batches,
                     missing, max, created>>
  BY DEF IInv, Verified, registry, batch
<1>2. /\ pc' \in [Parties -> Places] /\ pc'[Provisioner] = "new" /\ pc'[Importer] = pc[Importer]
  BY <1>1, GotoDoes DEF StartKeys, Places
<1>3. shown \in SUBSET Refs /\ \A k \in shown : Exists(k)
  BY DEF Shown
<1>4. /\ list' \in [Parties -> SUBSET Refs] /\ known' \in [Parties -> SUBSET Refs]
      /\ todo' \in [Parties -> SUBSET Refs] /\ count' \in [Parties -> [Counts -> Nat]]
      /\ list'[Provisioner] = shown /\ todo'[Provisioner] = {r} /\ count'[Provisioner].imported = 0
      /\ list'[Importer] = list[Importer] /\ todo'[Importer] = todo[Importer]
      /\ count'[Importer] = count[Importer]
  <2>1. {r} \in SUBSET Refs
    OBVIOUS
  <2> HIDE DEF shown
  <2>2. QED
    BY <1>1, <1>3, <2>1, StartDoes, PartiesAre
<1>5. TypeOK'
  BY <1>1, <1>2, <1>4 DEF TypeOK, Places
<1>6. MissingFree' /\ Bounded' /\ AtAccount'
  BY <1>1, <1>2 DEF IInv, MissingFree, Bounded, AtAccount, Exists
<1>7. OrphansSeen'
  <2>1. ASSUME NEW q \in Refs, OwnOrphan(q)'
        PROVE  q = r
    <3>1. OwnOrphan(q)
      BY <1>1, <2>1 DEF OwnOrphan, Orphan, Exists
    <3>2. q \in shown \ list[Provisioner] /\ remote[q].group = group
      BY <1>1, <3>1 DEF IInv, OrphansSeen, OwnOrphan, Orphan, Shown
    <3>3. QED
      BY <1>1, <3>2
  <2>2. QED
    BY <1>2, <1>4, <2>1 DEF OrphansSeen
<1>8. QED
  BY <1>1, <1>2, <1>3, <1>4, <1>5, <1>6, <1>7, ProvisionerKeeps

LEMMA CreatedKeeps ==
  ASSUME IInv, Created
  PROVE  IInv'
<1>1. /\ TypeOK /\ pc[Provisioner] = "new" /\ todo[Provisioner] = {} /\ count[Provisioner].imported = 1
      /\ created' = created + 1
      /\ UNCHANGED <<remote, rows, dropped, at, list, known, todo, count, budget, left, only, creates, secrets,
                     batches, missing, group, max>>
  BY DEF IInv, Created, registry, batch
<1>2. /\ pc' \in [Parties -> Places] /\ pc'[Provisioner] = "create" /\ pc'[Importer] = pc[Importer]
  BY <1>1, GotoDoes DEF Created, Places
<1>3. created' <= max /\ created' \in 0..MaxCreates
  BY <1>1, TypeFacts, Constants DEF IInv, Bounded
<1>4. TypeOK'
  BY <1>1, <1>2, <1>3 DEF TypeOK, Places
<1>5. MissingFree' /\ Bounded' /\ AtAccount'
  BY <1>1, <1>2, <1>3 DEF IInv, MissingFree, Bounded, AtAccount, Exists
<1>6. \A r \in Refs : ~OwnOrphan(r)
  BY <1>1 DEF IInv, OrphansSeen
<1>7. OrphansSeen'
  BY <1>1, <1>2, <1>6 DEF OrphansSeen, OwnOrphan, Orphan, Exists
<1>8. \A r \in list'[Provisioner] : Exists(r)
  BY <1>1, PartiesAre DEF IInv, ListsExist
<1>9. QED
  BY <1>1, <1>2, <1>4, <1>5, <1>7, <1>8, ProvisionerKeeps

LEMMA AccountDoneKeeps ==
  ASSUME IInv, AccountDone
  PROVE  IInv'
<1>1. /\ TypeOK /\ pc[Provisioner] = "create"
      /\ creates' = creates - created /\ secrets' = budget[Provisioner]
      /\ Leave(Provisioner, "account") /\ pc' = [pc EXCEPT ![Provisioner] = "account"]
      /\ missing' = {} /\ group' = None /\ max' = 0 /\ created' = 0
      /\ UNCHANGED <<remote, rows, dropped, left, only, batches>>
  BY DEF IInv, AccountDone, Leave, Goto, NoAccount, registry
<1>2. /\ pc' \in [Parties -> Places] /\ pc'[Provisioner] = "account" /\ pc'[Importer] = pc[Importer]
  BY <1>1, TypeFacts DEF Places
<1>3. creates' \in 0..MaxCreates /\ secrets' \in 0..MaxSecrets
  BY <1>1, TypeFacts, Constants DEF IInv, Bounded
<1>4. 0 \in 0..MaxCreates
  BY Constants
<1>5. /\ at' \in [Parties -> Accounts \cup {None}] /\ list' \in [Parties -> SUBSET Refs]
      /\ known' \in [Parties -> SUBSET Refs] /\ todo' \in [Parties -> SUBSET Refs]
      /\ count' \in [Parties -> [Counts -> Nat]] /\ budget' \in [Parties -> 0..MaxSecrets]
      /\ list'[Provisioner] = {} /\ list'[Importer] = list[Importer]
      /\ todo'[Importer] = todo[Importer] /\ count'[Importer] = count[Importer]
  BY <1>1, LeaveDoes, PartiesAre
<1>6. TypeOK'
  BY <1>1, <1>2, <1>3, <1>4, <1>5 DEF TypeOK, Places
<1>7. MissingFree' /\ OrphansSeen' /\ Bounded' /\ AtAccount'
  BY <1>1, <1>2, <1>3 DEF MissingFree, OrphansSeen, Bounded, AtAccount
<1>8. QED
  BY <1>1, <1>2, <1>5, <1>6, <1>7, ProvisionerKeeps

-----------------------------------------------------------------------------
(***************************************************************************)
(* The theorems                                                            *)
(***************************************************************************)
LEMMA InitInv == Init => IInv
<1> SUFFICES ASSUME Init
             PROVE  IInv
  OBVIOUS
<1>1. TypeOK
  <2>1. 0 \in 0..MaxSecrets /\ 0 \in 0..MaxCreates /\ 0 \in 0..MaxBatches
    BY Constants
  <2>2. count \in [Parties -> [Counts -> Nat]]
    BY NoCountIsZero DEF Init
  <2>3. only \in BOOLEAN
    BY DEF Init
  <2>4. QED
    BY <2>1, <2>2, <2>3 DEF Init, TypeOK
<1>2. ListsExist /\ MissingFree /\ Bounded /\ AtAccount /\ ImportCovers /\ ImportIsOver
  BY PartiesAre, Constants DEF Init, ListsExist, MissingFree, Bounded, AtAccount, ImportCovers, ImportIsOver
<1>3. OrphansSeen /\ OneAutoKeyPerGroup /\ AtMostOneOrphan
  BY PartiesAre DEF Init, OrphansSeen, OneAutoKeyPerGroup, AtMostOneOrphan, Orphan, Exists
<1>4. QED
  BY <1>1, <1>2, <1>3 DEF IInv

LEMMA StepInv == IInv /\ [Next]_vars => IInv'
<1> SUFFICES ASSUME IInv, [Next]_vars
             PROVE  IInv'
  OBVIOUS
<1>1. CASE \/ \E r \in Refs : Register(r) \/ Delete(r)
           \/ \E r \in Refs, a \in Accounts, g \in Groups : RemoteCreated(r, a, g)
  BY <1>1, HandKeeps
<1>2. ASSUME NEW p \in Parties, NEW r \in Refs, LoopSteps(p, r)
      PROVE  IInv'
  BY <1>2, LoopKeeps
<1>3. CASE \/ \E a \in Accounts, b \in ImportBudgets : StartImport(a, b)
           \/ ImportEnds \/ ImportReturns
  BY <1>3, ImporterSteps
<1>4. ASSUME \/ \E accounts \in SUBSET Accounts, flag \in BOOLEAN : StartBatch(accounts, flag)
             \/ \E a \in Accounts : SkipAccount(a) \/ \E gs \in SUBSET Groups : Discover(a, gs)
             \/ BatchEnds \/ Discovered
      PROVE  IInv'
  BY <1>4, StartBatchKeeps, SkipAccountKeeps, DiscoverKeeps, BatchEndsKeeps, DiscoveredKeeps
<1>5. ASSUME \/ \E g \in Groups, r \in Refs : CreateRemoteKey(g, r)
             \/ \E r \in Refs : Verified(r)
             \/ Created \/ AccountDone
      PROVE  IInv'
  BY <1>5, CreateKeeps, VerifiedKeeps, CreatedKeeps, AccountDoneKeeps
<1>6. CASE UNCHANGED vars
  BY <1>6 DEF vars, registry, batch, account, IInv, TypeOK, ListsExist, MissingFree, Bounded, AtAccount,
              ImportCovers, ImportIsOver, OrphansSeen, OwnOrphan, Orphan, Exists, Troubled,
              OneAutoKeyPerGroup, AtMostOneOrphan
<1>7. QED
  BY <1>1, <1>2, <1>3, <1>4, <1>5, <1>6 DEF Next, LoopSteps

(* What a list has left to register, and what the provisioner may still create,
   in every reachable state: the invariant the theorems below are read from. *)
THEOREM Inductive == Spec => []IInv
BY InitInv, StepInv, PTL DEF Spec

(* The variables have the types the code gives them; budgets never go below
   zero. *)
THEOREM TypeCorrect == Spec => []TypeOK
<1>1. IInv => TypeOK
  BY DEF IInv
<1>2. QED
  BY <1>1, Inductive, PTL

(* runner.go, ProvisionKeys: the gateway never has two Keys of its own in one
   group of an account. *)
THEOREM OneAutoKey == Spec => []OneAutoKeyPerGroup
<1>1. IInv => OneAutoKeyPerGroup
  BY DEF IInv
<1>2. QED
  BY <1>1, Inductive, PTL

(* runner.go:434: of the Keys the gateway created and could not register, an
   account never has more than one. *)
THEOREM OneOrphan == Spec => []AtMostOneOrphan
<1>1. IInv => AtMostOneOrphan
  BY DEF IInv
<1>2. QED
  BY <1>1, Inductive, PTL

(* An import that reports nothing failed or deferred has registered its list,
   and nothing is created in an account with an orphan. *)
THEOREM CleanImport == Spec => []CleanMeansRegistered
<1>1. IInv => CleanMeansRegistered
  <2> SUFFICES ASSUME IInv
               PROVE  CleanMeansRegistered
    OBVIOUS
  <2>1. (pc[Importer] = "done" /\ count[Importer].failed = 0 /\ count[Importer].deferred = 0)
          => list[Importer] \subseteq rows \cup dropped
    BY DEF IInv, ImportCovers, ImportIsOver, Troubled
  <2>2. pc[Provisioner] = "create" => \A r \in Refs : Orphan(r) => remote[r].account # at[Provisioner]
    BY DEF IInv, OrphansSeen, OwnOrphan
  <2>3. QED
    BY <2>1, <2>2 DEF CleanMeansRegistered
<1>2. QED
  BY <1>1, Inductive, PTL

-----------------------------------------------------------------------------
(***************************************************************************)
(* Synchronisations: the invariant                                         *)
(***************************************************************************)
\* The types, but for the bound on the rows, which follows from AddsBounded.
HubTyped ==
  /\ channel \in [Sites -> Channel \cup {Nothing}]
  /\ accountRows \in [HubAccounts -> Nat]
  /\ cred \in [HubAccounts -> Tokens \cup {Nothing}]
  /\ config \in Config /\ due \in BOOLEAN
  /\ lock \in Replicas \cup {Nothing}
  /\ loop \in [Replicas -> {"idle", "due", "run"}]
  /\ run \in [HubParties -> Run \cup {Nothing}]
  /\ file \in Files
  /\ events \in 0..MaxEvents /\ drops \in 0..events

\* What a run has at each of its stages: it writes only from its first item
\* on, a dry run never, and a run that failed did so before any item.
Shape(x) ==
  /\ x.stage \in {"load", "fetch"} => ~x.wrote /\ x.todo = {} /\ x.item = Nothing
  /\ x.stage = "import" => x.file \in Files
  /\ x.failed => x.stage = "record" /\ ~x.wrote
  /\ x.dry => ~x.wrote /\ x.todo = {} /\ x.item = Nothing
RunShape == \A p \in HubParties : run[p] # Nothing => Shape(run[p])

\* The run of p is at the item of account a.
AtItem(p, a) == run[p] # Nothing /\ run[p].item = a

\* What the transaction of an item has read still holds, as far as its writes
\* rely on it: the channel and the parts it found are there; and the row it
\* found missing still is, if it has locked the channel.
ItemKnows ==
  \A p \in HubParties, a \in HubAccounts : AtItem(p, a) =>
    /\ "channel" \in run[p].missing => "account" \in run[p].missing
    /\ "channel" \notin run[p].missing => channel[SiteOf[a]] # Nothing
    /\ "account" \notin run[p].missing => accountRows[a] > 0
    /\ "detected" \notin run[p].missing => channel[SiteOf[a]] # Nothing /\ channel[SiteOf[a]].detected
    /\ a \in CookieAccounts /\ "channel" \notin run[p].missing /\ "account" \in run[p].missing =>
         accountRows[a] = 0

\* An account has rows only below a channel.
RowsHaveChannel == \A a \in HubAccounts : channel[SiteOf[a]] = Nothing => accountRows[a] = 0

\* Those that are about to insert a row for the account.
Adding(a) == {p \in HubParties : AtItem(p, a) /\ "account" \in run[p].missing}
AddsBounded ==
  \A a \in HubAccounts : accountRows[a] + Cardinality(Adding(a)) <= Cardinality(HubParties)

\* Who holds the lock runs, and every other run has lost it.
Running == {r \in Replicas : run[r] # Nothing}
LockHeld ==
  /\ lock # Nothing => lock \in Running
  /\ Cardinality(Running) <= drops + (IF lock = Nothing THEN 0 ELSE 1)

HubInv ==
  /\ HubTyped /\ RunShape /\ ItemKnows /\ RowsHaveChannel /\ AddsBounded
  /\ OneRowPerCookieAccount /\ HubIsCollectable /\ LockHeld

-----------------------------------------------------------------------------
LEMMA HubConstants ==
  /\ SiteOf \in [HubAccounts -> Sites] /\ CookieAccounts \subseteq HubAccounts /\ MaxEvents \in Nat
  /\ Replicas \cap Uploads = {} /\ Replicas \subseteq HubParties /\ Uploads \subseteq HubParties
  /\ Nothing \notin Replicas /\ Nothing \notin HubAccounts /\ Nothing \notin Tokens
BY HubAssumption DEF HubParties

LEMMA NothingIsNoRecord == Nothing \notin Channel /\ Nothing \notin Files /\ Nothing \notin Run
BY NothingAssumption

\* The parties are finitely many, and there is one.
LEMMA PartiesFinite ==
  /\ IsFiniteSet(HubParties) /\ IsFiniteSet(Replicas)
  /\ Cardinality(HubParties) \in Nat /\ Cardinality(HubParties) >= 1
  /\ \A S \in SUBSET HubParties :
       IsFiniteSet(S) /\ Cardinality(S) \in Nat /\ Cardinality(S) <= Cardinality(HubParties)
<1>1. IsFiniteSet(HubParties) /\ IsFiniteSet(Replicas)
  BY HubAssumption, FS_Union DEF HubParties
<1>2. \A S \in SUBSET HubParties :
        IsFiniteSet(S) /\ Cardinality(S) \in Nat /\ Cardinality(S) <= Cardinality(HubParties)
  BY <1>1, FS_Subset, FS_CardinalityType
<1>3. Cardinality(HubParties) \in Nat /\ Cardinality(HubParties) # 0
  <2>1. HubParties # {}
    BY HubAssumption DEF HubParties
  <2>2. QED
    BY <1>1, <2>1, FS_CardinalityType, FS_EmptySet
<1>4. QED
  BY <1>1, <1>2, <1>3

LEMMA RunFields ==
  ASSUME NEW x \in Run
  PROVE  /\ x.stage \in {"load", "fetch", "import", "record"} /\ x.dry \in BOOLEAN
         /\ x.file \in Files \cup {Nothing} /\ x.todo \in SUBSET HubAccounts
         /\ x.item \in HubAccounts \cup {Nothing} /\ x.missing \in SUBSET Parts
         /\ x.failed \in BOOLEAN /\ x.wrote \in BOOLEAN
BY DEF Run

\* One run starts, goes on or ends.
RunTurn(p, x) ==
  /\ p \in HubParties /\ x \in Run \cup {Nothing}
  /\ x # Nothing => Shape(x)
  /\ run' = [run EXCEPT ![p] = x]

\* ... and is at no item afterwards.
Clear(p, x) == RunTurn(p, x) /\ (x # Nothing => x.item = Nothing)

LEMMA TurnDoes ==
  ASSUME HubTyped, RunShape, NEW p, NEW x, RunTurn(p, x)
  PROVE  /\ run' \in [HubParties -> Run \cup {Nothing}] /\ RunShape'
         /\ run'[p] = x /\ \A q \in HubParties \ {p} : run'[q] = run[q]
<1>1. run \in [HubParties -> Run \cup {Nothing}] /\ p \in HubParties
  BY DEF HubTyped, RunTurn
<1>2. /\ run' \in [HubParties -> Run \cup {Nothing}]
      /\ run'[p] = x /\ \A q \in HubParties \ {p} : run'[q] = run[q]
  BY <1>1 DEF RunTurn
<1>3. RunShape'
  BY <1>1, <1>2 DEF RunShape, RunTurn
<1>4. QED
  BY <1>2, <1>3

LEMMA FreshRun ==
  ASSUME NEW force \in BOOLEAN
  PROVE  Fresh(force) \in Run /\ Shape(Fresh(force)) /\ Fresh(force).item = Nothing
BY DEF Fresh, Run, Shape

LEMMA GrabTurns ==
  ASSUME NEW r \in Replicas, NEW force \in BOOLEAN, Grab(r, force)
  PROVE  Clear(r, Fresh(force)) /\ Fresh(force) # Nothing
BY FreshRun, HubConstants, NothingIsNoRecord DEF Grab, Clear, RunTurn

LEMMA EndTurns ==
  ASSUME NEW p \in HubParties, run' = [run EXCEPT ![p] = Nothing]
  PROVE  Clear(p, Nothing)
BY DEF Clear, RunTurn

\* The stages of a synchronisation before its first item.
LEMMA StagesTurn ==
  ASSUME HubTyped, RunShape, NEW r \in Replicas, run[r] # Nothing,
         \/ run[r].stage = "load" /\ LoadConfig(r)
         \/ Fetch(r) \/ FetchFails(r)
  PROVE  \E x : Clear(r, x) /\ (EndRun(r) \/ (x # Nothing /\ lock' = lock))
<1>t. /\ r \in HubParties /\ run \in [HubParties -> Run \cup {Nothing}] /\ run[r] \in Run /\ Shape(run[r])
      /\ file \in Files /\ file # Nothing
  BY HubConstants, NothingIsNoRecord DEF HubTyped, RunShape
<1>f. InBackup(file) \in SUBSET HubAccounts
  BY DEF InBackup
<1>1. CASE LoadConfig(r) /\ config.url
  <2> DEFINE x == [run[r] EXCEPT !.stage = "fetch", !.force = FALSE,
                                 !.dry = ~run[r].force /\ config.mode # "import"]
  <2>1. run[r].stage = "load" /\ run' = [run EXCEPT ![r] = x]
    BY <1>1, <1>t DEF LoadConfig
  <2>2. x \in Run /\ Shape(x) /\ x.item = Nothing
    BY <1>t, <2>1 DEF Run, Shape
  <2>3. lock' = lock
    BY <1>1 DEF LoadConfig
  <2>4. Clear(r, x) /\ x # Nothing
    BY <2>1, <2>2, <1>t, NothingIsNoRecord DEF Clear, RunTurn
  <2>5. QED
    BY <2>3, <2>4
<1>2. CASE LoadConfig(r) /\ ~config.url
  BY <1>2, <1>t, EndTurns DEF LoadConfig, EndRun
<1>3. CASE Fetch(r)
  <2> DEFINE x == [run[r] EXCEPT !.stage = "import", !.file = file,
                                 !.todo = IF run[r].dry THEN {} ELSE InBackup(file)]
  <2>1. run[r].stage = "fetch" /\ run' = [run EXCEPT ![r] = x]
    BY <1>3, <1>t DEF Fetch
  <2>2. x \in Run /\ Shape(x) /\ x.item = Nothing
    BY <1>t, <1>f, <2>1 DEF Run, Shape
  <2>3. lock' = lock
    BY <1>3 DEF Fetch
  <2>4. Clear(r, x) /\ x # Nothing
    BY <2>1, <2>2, <1>t, NothingIsNoRecord DEF Clear, RunTurn
  <2>5. QED
    BY <2>3, <2>4
<1>4. CASE FetchFails(r)
  <2> DEFINE x == [run[r] EXCEPT !.stage = "record", !.failed = TRUE]
  <2>1. run[r].stage = "fetch" /\ run' = [run EXCEPT ![r] = x]
    BY <1>4, <1>t DEF FetchFails
  <2>2. x \in Run /\ Shape(x) /\ x.item = Nothing
    BY <1>t, <2>1 DEF Run, Shape
  <2>3. lock' = lock
    BY <1>4 DEF FetchFails
  <2>4. Clear(r, x) /\ x # Nothing
    BY <2>1, <2>2, <1>t, NothingIsNoRecord DEF Clear, RunTurn
  <2>5. QED
    BY <2>3, <2>4
<1>5. QED
  BY <1>1, <1>2, <1>3, <1>4

LEMMA UploadTurns ==
  ASSUME HubTyped, NEW u \in Uploads, Upload(u)
  PROVE  \E x : Clear(u, x)
<1>1. PICK f \in Files : run' = [run EXCEPT ![u] = [Fresh(FALSE) EXCEPT
                 !.stage = "import", !.file = f, !.todo = InBackup(f)]]
  BY DEF Upload
<1> DEFINE x == [Fresh(FALSE) EXCEPT !.stage = "import", !.file = f, !.todo = InBackup(f)]
<1>2. x \in Run /\ Shape(x) /\ x.item = Nothing
  <2>1. InBackup(f) \in SUBSET HubAccounts
    BY DEF InBackup
  <2>2. QED
    BY <2>1 DEF Fresh, Run, Shape
<1>3. QED
  BY <1>1, <1>2, HubConstants DEF Clear, RunTurn

-----------------------------------------------------------------------------
(***************************************************************************)
(* Synchronisations: runs exclude each other                               *)
(***************************************************************************)
LEMMA RunningFinite ==
  /\ IsFiniteSet(Running) /\ Cardinality(Running) \in Nat
  /\ \A r : /\ Cardinality(Running \cup {r}) <= Cardinality(Running) + 1
            /\ Cardinality(Running \ {r}) <= Cardinality(Running)
            /\ Cardinality(Running \cup {r}) \in Nat /\ Cardinality(Running \ {r}) \in Nat
            /\ r \in Running => Cardinality(Running \ {r}) = Cardinality(Running) - 1
<1>1. IsFiniteSet(Running) /\ Cardinality(Running) \in Nat
  BY PartiesFinite, FS_Subset, FS_CardinalityType DEF Running
<1>2. ASSUME NEW r
      PROVE  /\ Cardinality(Running \cup {r}) <= Cardinality(Running) + 1
             /\ Cardinality(Running \ {r}) <= Cardinality(Running)
             /\ Cardinality(Running \cup {r}) \in Nat /\ Cardinality(Running \ {r}) \in Nat
             /\ r \in Running => Cardinality(Running \ {r}) = Cardinality(Running) - 1
  BY <1>1, FS_AddElement, FS_RemoveElement, FS_CardinalityType
<1>3. QED
  BY <1>1, <1>2

LEMMA GrabHolds ==
  ASSUME HubTyped, LockHeld, NEW r \in Replicas, NEW force \in BOOLEAN, Grab(r, force)
  PROVE  LockHeld'
<1>t. r \in HubParties /\ run \in [HubParties -> Run \cup {Nothing}] /\ Fresh(force) # Nothing
  BY HubConstants, GrabTurns DEF HubTyped
<1>1. run' = [run EXCEPT ![r] = Fresh(force)] /\ lock = Nothing /\ lock' = r /\ drops' = drops
  BY DEF Grab
<1>2. Running' = Running \cup {r}
  BY <1>t, <1>1, HubConstants DEF Running
<1>3. lock' # Nothing /\ lock' \in Running'
  BY <1>1, <1>2, HubConstants
<1>4. Cardinality(Running') <= drops' + 1
  <2>1. drops \in Nat /\ Cardinality(Running) <= drops /\ Cardinality(Running) \in Nat
    BY <1>1, RunningFinite DEF LockHeld, HubTyped
  <2>2. Cardinality(Running \cup {r}) <= Cardinality(Running) + 1 /\ Cardinality(Running \cup {r}) \in Nat
    BY RunningFinite
  <2>3. QED
    BY <1>1, <1>2, <2>1, <2>2
<1>5. QED
  BY <1>3, <1>4 DEF LockHeld

LEMMA EndHolds ==
  ASSUME HubTyped, LockHeld, NEW r \in Replicas, run' = [run EXCEPT ![r] = Nothing],
         lock' = IF lock = r THEN Nothing ELSE lock, drops' = drops
  PROVE  LockHeld'
<1>t. /\ r \in HubParties /\ run \in [HubParties -> Run \cup {Nothing}] /\ drops \in Nat
      /\ lock \in Replicas \cup {Nothing} /\ r # Nothing /\ Cardinality(Running) \in Nat
  BY HubConstants, RunningFinite DEF HubTyped
<1>1. Running' = Running \ {r}
  BY <1>t, HubConstants DEF Running
<1>2. CASE lock = r
  <2>1. lock' = Nothing /\ Cardinality(Running') = Cardinality(Running) - 1
    BY <1>2, <1>1, <1>t, RunningFinite DEF LockHeld
  <2>2. QED
    BY <2>1, <1>2, <1>t DEF LockHeld
<1>3. CASE lock # r
  <2>1. lock' = lock /\ Cardinality(Running') <= Cardinality(Running) /\ Cardinality(Running') \in Nat
    BY <1>3, <1>1, RunningFinite
  <2>2. lock' # Nothing => lock' \in Running'
    BY <2>1, <1>1, <1>3 DEF LockHeld
  <2>3. QED
    BY <2>1, <2>2, <1>t DEF LockHeld
<1>4. QED
  BY <1>2, <1>3

LEMMA DropHolds ==
  ASSUME HubTyped, LockHeld, Drop
  PROVE  LockHeld'
<1>1. lock # Nothing /\ lock' = Nothing /\ drops' = drops + 1 /\ Running' = Running /\ drops \in Nat
  BY DEF Drop, HubTyped, Running
<1>2. QED
  BY <1>1, RunningFinite DEF LockHeld

\* The steps that neither start nor end a synchronisation.
LEMMA SameHolds ==
  ASSUME LockHeld, UNCHANGED <<lock, drops>>,
         \A r \in Replicas : run'[r] = Nothing <=> run[r] = Nothing
  PROVE  LockHeld'
<1>1. Running' = Running
  BY DEF Running
<1>2. QED
  BY <1>1 DEF LockHeld

-----------------------------------------------------------------------------
(***************************************************************************)
(* Synchronisations: what the channels and the accounts have               *)
(***************************************************************************)
RegistryInv ==
  ItemKnows /\ RowsHaveChannel /\ AddsBounded /\ OneRowPerCookieAccount /\ HubIsCollectable

\* Channels appear and gain parts, none comes to follow the backup.
Grown ==
  /\ \A s \in Sites : channel[s] # Nothing =>
       channel'[s] # Nothing /\ (channel[s].detected => channel'[s].detected)
  /\ \A s \in Sites : channel'[s] # Nothing /\ channel'[s].source = "hub" =>
       channel[s] # Nothing /\ channel[s].source = "hub"

\* Items end, none begins.
Fewer == \A q \in HubParties : run'[q] = run[q] \/ run'[q] = Nothing \/ run'[q].item = Nothing

LEMMA AddingFewer ==
  ASSUME NEW a \in HubAccounts, Adding(a)' \subseteq Adding(a)
  PROVE  /\ Cardinality(Adding(a)') <= Cardinality(Adding(a))
         /\ Cardinality(Adding(a)) \in Nat /\ Cardinality(Adding(a)') \in Nat
<1>1. IsFiniteSet(Adding(a)) /\ Cardinality(Adding(a)) \in Nat
  BY PartiesFinite DEF Adding
<1>2. QED
  BY <1>1, FS_Subset, FS_CardinalityType

LEMMA GrownKeeps ==
  ASSUME HubTyped, RegistryInv, Grown, Fewer, accountRows' = accountRows
  PROVE  RegistryInv'
<1>t. /\ Nothing \notin HubAccounts /\ \A a \in HubAccounts : SiteOf[a] \in Sites
      /\ accountRows \in [HubAccounts -> Nat]
  BY HubConstants DEF HubTyped
<1>1. ASSUME NEW p \in HubParties, NEW a \in HubAccounts, AtItem(p, a)'
      PROVE  AtItem(p, a) /\ run'[p] = run[p]
  BY <1>1, <1>t DEF AtItem, Fewer
<1>2. ItemKnows'
  <2> SUFFICES ASSUME NEW p \in HubParties, NEW a \in HubAccounts, AtItem(p, a)'
               PROVE  /\ "channel" \in run'[p].missing => "account" \in run'[p].missing
                      /\ "channel" \notin run'[p].missing => channel'[SiteOf[a]] # Nothing
                      /\ "account" \notin run'[p].missing => accountRows'[a] > 0
                      /\ "detected" \notin run'[p].missing =>
                           channel'[SiteOf[a]] # Nothing /\ channel'[SiteOf[a]].detected
                      /\ a \in CookieAccounts /\ "channel" \notin run'[p].missing
                         /\ "account" \in run'[p].missing => accountRows'[a] = 0
    BY DEF ItemKnows
  <2>1. AtItem(p, a) /\ run'[p] = run[p] /\ SiteOf[a] \in Sites
    BY <1>1, <1>t
  <2>2. QED
    BY <2>1 DEF RegistryInv, ItemKnows, Grown
<1>3. RowsHaveChannel'
  BY <1>t DEF RegistryInv, RowsHaveChannel, Grown
<1>4. AddsBounded'
  <2>1. ASSUME NEW a \in HubAccounts
        PROVE  accountRows'[a] + Cardinality(Adding(a)') <= Cardinality(HubParties)
    <3>1. Adding(a)' \subseteq Adding(a)
      BY <1>1 DEF Adding
    <3>2. accountRows[a] + Cardinality(Adding(a)) <= Cardinality(HubParties) /\ accountRows[a] \in Nat
      BY <1>t DEF RegistryInv, AddsBounded
    <3>3. QED
      BY <3>1, <3>2, AddingFewer, PartiesFinite
  <2>2. QED
    BY <2>1 DEF AddsBounded
<1>5. OneRowPerCookieAccount'
  BY DEF RegistryInv, OneRowPerCookieAccount
<1>6. HubIsCollectable'
  BY DEF RegistryInv, HubIsCollectable, Grown
<1>7. QED
  BY <1>2, <1>3, <1>4, <1>5, <1>6 DEF RegistryInv

\* What importOne finds when it looks.
LEMMA MissingIs ==
  ASSUME HubTyped, RowsHaveChannel, NEW a \in HubAccounts, NEW exported
  PROVE  /\ Missing(a, exported) \in SUBSET Parts
         /\ "channel" \in Missing(a, exported) <=> channel[SiteOf[a]] = Nothing
         /\ "account" \in Missing(a, exported) <=> accountRows[a] = 0
         /\ channel[SiteOf[a]] = Nothing => "detected" \in Missing(a, exported)
         /\ "detected" \notin Missing(a, exported) =>
              channel[SiteOf[a]] # Nothing /\ channel[SiteOf[a]].detected
BY DEF Missing, Parts, RowsHaveChannel

LEMMA LookTurns ==
  ASSUME HubTyped, RunShape, RegistryInv, NEW p \in HubParties, NEW a \in HubAccounts, Look(p, a)
  PROVE  \E x \in Run : RunTurn(p, x) /\ x.item = a /\ x.missing = Missing(a, run[p].file[a])
<1>1. run[p] # Nothing /\ run[p].stage = "import" /\ a \in run[p].todo /\ run[p] \in Run /\ Shape(run[p])
  BY DEF Look, Importing, HubTyped, RunShape
<1> DEFINE x == [run[p] EXCEPT !.item = a, !.todo = @ \ {a}, !.missing = Missing(a, run[p].file[a])]
<1>2. run' = [run EXCEPT ![p] = x]
  BY <1>1 DEF Look, HubTyped
<1>3. Missing(a, run[p].file[a]) \in SUBSET Parts
  BY MissingIs DEF RegistryInv
<1>4. x \in Run /\ Shape(x) /\ x.item = a /\ x.missing = Missing(a, run[p].file[a])
  BY <1>1, <1>3 DEF Run, Shape
<1>5. QED
  BY <1>2, <1>4 DEF RunTurn

LEMMA LookKeeps ==
  ASSUME HubTyped, RunShape, RegistryInv, NEW p \in HubParties, NEW a \in HubAccounts, Look(p, a)
  PROVE  RegistryInv'
<1>u. channel' = channel /\ accountRows' = accountRows /\ accountRows \in [HubAccounts -> Nat]
  BY DEF Look, HubTyped
<1>1. PICK x \in Run : RunTurn(p, x) /\ x.item = a /\ x.missing = Missing(a, run[p].file[a])
  BY LookTurns
<1>2. run'[p] = x /\ \A q \in HubParties \ {p} : run'[q] = run[q]
  BY <1>1, TurnDoes
<1>3. ASSUME NEW q \in HubParties, NEW b \in HubAccounts, AtItem(q, b)'
      PROVE  (q = p /\ b = a) \/ (q # p /\ AtItem(q, b) /\ run'[q] = run[q])
  BY <1>1, <1>2, <1>3 DEF AtItem
<1>4. ItemKnows'
  <2> SUFFICES ASSUME NEW q \in HubParties, NEW b \in HubAccounts, AtItem(q, b)'
               PROVE  /\ "channel" \in run'[q].missing => "account" \in run'[q].missing
                      /\ "channel" \notin run'[q].missing => channel'[SiteOf[b]] # Nothing
                      /\ "account" \notin run'[q].missing => accountRows'[b] > 0
                      /\ "detected" \notin run'[q].missing =>
                           channel'[SiteOf[b]] # Nothing /\ channel'[SiteOf[b]].detected
                      /\ b \in CookieAccounts /\ "channel" \notin run'[q].missing
                         /\ "account" \in run'[q].missing => accountRows'[b] = 0
    BY DEF ItemKnows
  <2>1. CASE q = p /\ b = a
    <3>1. run'[q].missing = Missing(a, run[p].file[a]) /\ accountRows[a] \in Nat
      BY <2>1, <1>1, <1>2, <1>u
    <3>2. RowsHaveChannel
      BY DEF RegistryInv
    <3>3. QED
      BY <2>1, <3>1, <3>2, <1>u, MissingIs DEF RowsHaveChannel
  <2>2. CASE AtItem(q, b) /\ run'[q] = run[q]
    BY <2>2, <1>u DEF RegistryInv, ItemKnows
  <2>3. QED
    BY <2>1, <2>2, <1>3
<1>5. AddsBounded'
  <2>1. ASSUME NEW b \in HubAccounts
        PROVE  accountRows'[b] + Cardinality(Adding(b)') <= Cardinality(HubParties)
    <3>1. accountRows[b] + Cardinality(Adding(b)) <= Cardinality(HubParties) /\ accountRows[b] \in Nat
      BY <1>u DEF RegistryInv, AddsBounded
    <3>2. CASE accountRows[b] = 0
      <4>1. Adding(b)' \in SUBSET HubParties
        BY DEF Adding
      <4>2. QED
        BY <3>2, <4>1, <1>u, PartiesFinite
    <3>3. CASE accountRows[b] # 0
      <4>1. b = a => "account" \notin x.missing
        BY <3>3, <1>1, MissingIs DEF RegistryInv
      <4>2. Adding(b)' \subseteq Adding(b)
        BY <4>1, <1>2, <1>3 DEF Adding
      <4>3. QED
        BY <3>1, <4>2, <1>u, AddingFewer, PartiesFinite
    <3>4. QED
      BY <3>2, <3>3
  <2>2. QED
    BY <2>1 DEF AddsBounded
<1>6. RowsHaveChannel' /\ OneRowPerCookieAccount' /\ HubIsCollectable'
  BY <1>u DEF RegistryInv, RowsHaveChannel, OneRowPerCookieAccount, HubIsCollectable
<1>7. QED
  BY <1>4, <1>5, <1>6 DEF RegistryInv

LEMMA CommitTurns ==
  ASSUME HubTyped, RunShape, NEW p \in HubParties, Commit(p)
  PROVE  \E x \in Run : Clear(p, x)
<1>1. run[p] # Nothing /\ run[p].stage = "import" /\ run[p] \in Run /\ Shape(run[p]) /\ run[p].item # Nothing
  BY DEF Commit, Importing, HubTyped, RunShape
<1> DEFINE x == [run[p] EXCEPT !.item = Nothing, !.missing = {}, !.wrote = TRUE]
<1>2. run' = [run EXCEPT ![p] = x]
  BY <1>1 DEF Commit, HubTyped
<1>3. x \in Run /\ Shape(x) /\ x.item = Nothing
  BY <1>1 DEF Run, Shape
<1>4. QED
  BY <1>2, <1>3 DEF Clear, RunTurn

LEMMA ItemFailsTurns ==
  ASSUME HubTyped, RunShape, NEW p \in HubParties, ItemFails(p)
  PROVE  \E x \in Run : Clear(p, x)
<1>1. run[p] # Nothing /\ run[p].stage = "import" /\ run[p] \in Run /\ Shape(run[p])
  BY DEF ItemFails, Importing, HubTyped, RunShape
<1> DEFINE x == [run[p] EXCEPT !.item = Nothing, !.missing = {}]
<1>2. run' = [run EXCEPT ![p] = x]
  BY <1>1 DEF ItemFails, HubTyped
<1>3. x \in Run /\ Shape(x) /\ x.item = Nothing
  BY <1>1 DEF Run, Shape
<1>4. QED
  BY <1>2, <1>3 DEF Clear, RunTurn

LEMMA ClearIsFewer ==
  ASSUME HubTyped, RunShape, NEW p, NEW x, Clear(p, x)
  PROVE  Fewer /\ (x = Nothing \/ x.item = Nothing) /\ run'[p] = x
BY TurnDoes DEF Clear, Fewer

\* What a transaction writes to its channel: it is there afterwards, keeps
\* what it had, and follows the backup only if it is complete.
LEMMA CommitWrites ==
  ASSUME HubTyped, RegistryInv, NEW p \in HubParties, Commit(p),
         NEW a \in HubAccounts, AtItem(p, a)
  PROVE  /\ channel' \in [Sites -> Channel \cup {Nothing}]
         /\ \A s \in Sites \ {SiteOf[a]} : channel'[s] = channel[s]
         /\ channel'[SiteOf[a]] # Nothing
         /\ channel[SiteOf[a]] # Nothing => channel'[SiteOf[a]].status = channel[SiteOf[a]].status
         /\ channel[SiteOf[a]] # Nothing /\ channel[SiteOf[a]].detected => channel'[SiteOf[a]].detected
         /\ "channel" \in run[p].missing => channel[SiteOf[a]] = Nothing
         /\ channel'[SiteOf[a]].source = "hub" =>
              \/ channel[SiteOf[a]] # Nothing /\ channel[SiteOf[a]].source = "hub"
              \/ /\ channel'[SiteOf[a]].detected
                 /\ "account" \in run[p].missing \/ accountRows[a] > 0
<1> DEFINE s == SiteOf[a]
           m == run[p].missing
<1>t. s \in Sites /\ channel \in [Sites -> Channel \cup {Nothing}] /\ a = run[p].item /\ Nothing \notin Channel
  BY HubConstants, NothingIsNoRecord DEF HubTyped, AtItem
<1>k. /\ "channel" \in m => "account" \in m
      /\ "channel" \notin m => channel[s] # Nothing
      /\ "account" \notin m => accountRows[a] > 0
      /\ "detected" \notin m => channel[s] # Nothing /\ channel[s].detected
  BY DEF RegistryInv, ItemKnows
<1>1. CASE "channel" \in m
  <2>1. CreatedWhole(s)
    BY <1>1, <1>t DEF Commit
  <2> DEFINE new == [source |-> "hub", detected |-> TRUE, status |-> "enabled"]
  <2>2. new \in Channel /\ new.detected
    BY DEF Channel
  <2>3. channel[s] = Nothing /\ channel' = [channel EXCEPT ![s] = new]
    BY <2>1 DEF CreatedWhole
  <2> HIDE DEF new
  <2>n. new # Nothing
    BY <2>2, <1>t
  <2>4. /\ channel'[s] = new /\ \A t \in Sites \ {s} : channel'[t] = channel[t]
        /\ channel' \in [Sites -> Channel \cup {Nothing}]
    BY <2>2, <2>3, <1>t
  <2>5. "account" \in run[p].missing
    BY <1>1, <1>k
  <2>6. QED
    BY <2>2, <2>n, <2>3, <2>4, <2>5
<1>2. CASE "channel" \notin m /\ m = {}
  <2>1. Adopted(s)
    BY <1>2, <1>t DEF Commit
  <2>2. channel[s] \in Channel /\ channel[s].detected /\ accountRows[a] > 0
    BY <1>2, <1>k, <1>t
  <2>3. channel'[s] = [channel[s] EXCEPT !.source = "hub"] /\ \A t \in Sites \ {s} : channel'[t] = channel[t]
    BY <2>1, <1>t DEF Adopted
  <2>4. channel'[s] \in Channel /\ channel'[s].detected = channel[s].detected /\ channel'[s].status = channel[s].status
    BY <2>2, <2>3 DEF Channel
  <2>5. channel' \in [Sites -> Channel \cup {Nothing}]
    BY <2>1, <2>2, <2>3, <2>4, <1>t DEF Adopted
  <2>6. QED
    BY <2>2, <2>3, <2>4, <2>5, <1>2, <1>t
<1>3. CASE "channel" \notin m /\ m # {}
  <2>1. Repaired(s, m)
    BY <1>3, <1>t DEF Commit
  <2>2. channel[s] \in Channel
    BY <1>3, <1>k, <1>t
  <2>3. /\ channel'[s] = [channel[s] EXCEPT !.detected = @ \/ "detected" \in m]
        /\ \A t \in Sites \ {s} : channel'[t] = channel[t]
    BY <2>1, <1>t DEF Repaired
  <2>4. /\ channel'[s] \in Channel /\ (channel[s].detected => channel'[s].detected)
        /\ channel'[s].status = channel[s].status /\ channel'[s].source = channel[s].source
    BY <2>2, <2>3 DEF Channel
  <2>5. channel' \in [Sites -> Channel \cup {Nothing}]
    BY <2>1, <2>2, <2>3, <2>4, <1>t DEF Repaired
  <2>6. QED
    BY <2>2, <2>3, <2>4, <2>5, <1>3, <1>t
<1>4. QED
  BY <1>1, <1>2, <1>3

LEMMA CommitKeeps ==
  ASSUME HubTyped, RunShape, RegistryInv, NEW p \in HubParties, Commit(p)
  PROVE  RegistryInv' /\ accountRows' \in [HubAccounts -> Nat]
<1>0. run[p] # Nothing /\ run[p] \in Run /\ run[p].item # Nothing
  BY DEF Commit, Importing, HubTyped
<1> DEFINE a == run[p].item
<1>1. a \in HubAccounts /\ AtItem(p, a) /\ SiteOf[a] \in Sites
  BY <1>0, RunFields, HubConstants DEF AtItem
<1>2. /\ \A s \in Sites \ {SiteOf[a]} : channel'[s] = channel[s]
      /\ channel'[SiteOf[a]] # Nothing
      /\ channel[SiteOf[a]] # Nothing /\ channel[SiteOf[a]].detected => channel'[SiteOf[a]].detected
      /\ "channel" \in run[p].missing => channel[SiteOf[a]] = Nothing
      /\ channel'[SiteOf[a]].source = "hub" =>
           \/ channel[SiteOf[a]] # Nothing /\ channel[SiteOf[a]].source = "hub"
           \/ /\ channel'[SiteOf[a]].detected
              /\ "account" \in run[p].missing \/ accountRows[a] > 0
  BY <1>1, CommitWrites
<1>3. /\ accountRows \in [HubAccounts -> Nat] /\ accountRows' \in [HubAccounts -> Nat]
      /\ \A b \in HubAccounts \ {a} : accountRows'[b] = accountRows[b]
      /\ "account" \in run[p].missing => accountRows'[a] = accountRows[a] + 1
      /\ "account" \notin run[p].missing => accountRows'[a] = accountRows[a]
  BY <1>1 DEF Commit, HubTyped
<1>4. /\ \A q \in HubParties \ {p} : run'[q] = run[q]
      /\ \A b \in HubAccounts : ~AtItem(p, b)'
  <2>1. PICK x \in Run : Clear(p, x)
    BY CommitTurns
  <2>2. run'[p] = x /\ x.item = Nothing /\ \A q \in HubParties \ {p} : run'[q] = run[q]
    BY <2>1, TurnDoes, NothingIsNoRecord DEF Clear
  <2>3. QED
    BY <2>2, HubConstants DEF AtItem
<1>5. \A b \in HubAccounts : accountRows'[b] >= accountRows[b]
  BY <1>3
<1>6. ASSUME NEW q \in HubParties, NEW b \in HubAccounts, AtItem(q, b)'
      PROVE  q # p /\ AtItem(q, b) /\ run'[q] = run[q]
  BY <1>4, <1>6 DEF AtItem
<1>7. ItemKnows'
  <2> SUFFICES ASSUME NEW q \in HubParties, NEW b \in HubAccounts, AtItem(q, b)'
               PROVE  /\ "channel" \in run'[q].missing => "account" \in run'[q].missing
                      /\ "channel" \notin run'[q].missing => channel'[SiteOf[b]] # Nothing
                      /\ "account" \notin run'[q].missing => accountRows'[b] > 0
                      /\ "detected" \notin run'[q].missing =>
                           channel'[SiteOf[b]] # Nothing /\ channel'[SiteOf[b]].detected
                      /\ b \in CookieAccounts /\ "channel" \notin run'[q].missing
                         /\ "account" \in run'[q].missing => accountRows'[b] = 0
    BY DEF ItemKnows
  <2>1. q # p /\ AtItem(q, b) /\ run'[q] = run[q] /\ SiteOf[b] \in Sites
    BY <1>6, HubConstants
  <2>2. /\ "channel" \in run[q].missing => "account" \in run[q].missing
        /\ "channel" \notin run[q].missing => channel[SiteOf[b]] # Nothing
        /\ "account" \notin run[q].missing => accountRows[b] > 0
        /\ "detected" \notin run[q].missing => channel[SiteOf[b]] # Nothing /\ channel[SiteOf[b]].detected
        /\ b \in CookieAccounts /\ "channel" \notin run[q].missing /\ "account" \in run[q].missing =>
             accountRows[b] = 0
    BY <2>1 DEF RegistryInv, ItemKnows
  <2>3. b \in CookieAccounts /\ "channel" \notin run[q].missing => b # a
    <3>1. Free(p, SiteOf[a])
      BY DEF Commit
    <3>2. QED
      BY <3>1, <2>1 DEF Free, Locks, AtItem
  <2>4. channel[SiteOf[b]] # Nothing =>
          channel'[SiteOf[b]] # Nothing /\ (channel[SiteOf[b]].detected => channel'[SiteOf[b]].detected)
    BY <2>1, <1>2
  <2>5. accountRows'[b] >= accountRows[b] /\ accountRows[b] \in Nat /\ accountRows'[b] \in Nat
    BY <1>3, <1>5
  <2>6. QED
    BY <2>1, <2>2, <2>3, <2>4, <2>5, <1>3
<1>8. RowsHaveChannel'
  BY <1>2, <1>3, HubConstants DEF RegistryInv, RowsHaveChannel
<1>9. AddsBounded'
  <2>1. ASSUME NEW b \in HubAccounts
        PROVE  accountRows'[b] + Cardinality(Adding(b)') <= Cardinality(HubParties)
    <3>1. /\ accountRows[b] + Cardinality(Adding(b)) <= Cardinality(HubParties) /\ accountRows[b] \in Nat
          /\ IsFiniteSet(Adding(b)) /\ Cardinality(Adding(b)) \in Nat
      BY <1>3, PartiesFinite DEF RegistryInv, AddsBounded, Adding
    <3>2. Adding(b)' \subseteq Adding(b) \ {p}
      BY <1>6 DEF Adding
    <3>3. CASE b = a /\ "account" \in run[p].missing
      <4>1. p \in Adding(b)
        BY <3>3, <1>1 DEF Adding
      <4>2. /\ IsFiniteSet(Adding(b) \ {p}) /\ Cardinality(Adding(b) \ {p}) = Cardinality(Adding(b)) - 1
            /\ Cardinality(Adding(b)') <= Cardinality(Adding(b) \ {p}) /\ Cardinality(Adding(b)') \in Nat
        BY <4>1, <3>1, <3>2, FS_RemoveElement, FS_Subset, FS_CardinalityType
      <4>3. accountRows'[b] = accountRows[b] + 1
        BY <3>3, <1>3
      <4>4. QED
        BY <4>2, <4>3, <3>1, PartiesFinite
    <3>4. CASE ~(b = a /\ "account" \in run[p].missing)
      <4>1. accountRows'[b] = accountRows[b] /\ Adding(b)' \subseteq Adding(b)
        BY <3>4, <3>2, <1>3
      <4>2. QED
        BY <4>1, <3>1, AddingFewer, PartiesFinite
    <3>5. QED
      BY <3>3, <3>4
  <2>2. QED
    BY <2>1 DEF AddsBounded
<1>10. OneRowPerCookieAccount'
  <2>1. a \in CookieAccounts /\ "account" \in run[p].missing => accountRows[a] = 0
    BY <1>1, <1>2 DEF RegistryInv, ItemKnows, RowsHaveChannel
  <2>2. QED
    BY <2>1, <1>1, <1>3, HubConstants DEF RegistryInv, OneRowPerCookieAccount
<1>11. HubIsCollectable'
  <2> SUFFICES ASSUME NEW s \in Sites, channel'[s] # Nothing, channel'[s].source = "hub"
               PROVE  channel'[s].detected /\ \E b \in HubAccounts : SiteOf[b] = s /\ accountRows'[b] > 0
    BY DEF HubIsCollectable
  <2>1. CASE channel[s] # Nothing /\ channel[s].source = "hub"
    <3>1. channel[s].detected /\ \E b \in HubAccounts : SiteOf[b] = s /\ accountRows[b] > 0
      BY <2>1 DEF RegistryInv, HubIsCollectable
    <3>2. PICK b \in HubAccounts : SiteOf[b] = s /\ accountRows[b] > 0
      BY <3>1
    <3>3. accountRows'[b] > 0
      BY <3>2, <1>3, <1>5
    <3>4. QED
      BY <3>1, <3>2, <3>3, <2>1, <1>2
  <2>2. CASE ~(channel[s] # Nothing /\ channel[s].source = "hub")
    <3>1. s = SiteOf[a]
      BY <2>2, <1>2
    <3>2. channel'[s].detected /\ accountRows'[a] > 0
      BY <2>2, <3>1, <1>2, <1>3, <1>1
    <3>3. QED
      BY <3>1, <3>2, <1>1
  <2>3. QED
    BY <2>1, <2>2
<1>12. QED
  BY <1>3, <1>7, <1>8, <1>9, <1>10, <1>11 DEF RegistryInv

\* The synchronisation disables channels and comes to its last stage.
LEMMA DisableTurns ==
  ASSUME HubTyped, RunShape, NEW r \in Replicas, DisableHubRemoved(r)
  PROVE  \E x \in Run : Clear(r, x)
<1>1. /\ run[r] # Nothing /\ run[r].stage = "import" /\ run[r] \in Run /\ Shape(run[r])
      /\ run[r].item = Nothing /\ run[r].todo = {} /\ r \in HubParties
  BY HubConstants DEF DisableHubRemoved, Imported, Importing, HubTyped, RunShape
<1> DEFINE gone == IF run[r].dry THEN {} ELSE HubRemoved(Keep(run[r].file))
<1>2. PICK disabled \in {{}, gone} :
        run' = [run EXCEPT ![r].stage = "record", ![r].file = Nothing, ![r].wrote = @ \/ disabled # {}]
  BY DEF DisableHubRemoved
<1> DEFINE x == [run[r] EXCEPT !.stage = "record", !.file = Nothing, !.wrote = @ \/ disabled # {}]
<1>3. run' = [run EXCEPT ![r] = x]
  BY <1>1, <1>2 DEF HubTyped
<1>4. run[r].dry => disabled = {}
  BY <1>2
<1>5. x \in Run /\ Shape(x) /\ x.item = Nothing
  BY <1>1, <1>4 DEF Run, Shape
<1>6. QED
  BY <1>1, <1>3, <1>5 DEF Clear, RunTurn

LEMMA DisableGrows ==
  ASSUME HubTyped, NEW r \in Replicas, DisableHubRemoved(r)
  PROVE  Grown /\ channel' \in [Sites -> Channel \cup {Nothing}]
<1> DEFINE gone == IF run[r].dry THEN {} ELSE HubRemoved(Keep(run[r].file))
<1>1. PICK disabled \in {{}, gone} :
        channel' = [s \in Sites |-> IF s \in disabled THEN [channel[s] EXCEPT !.status = "removed"]
                                   ELSE channel[s]]
  BY DEF DisableHubRemoved
<1>2. ASSUME NEW s \in Sites
      PROVE  /\ channel'[s] \in Channel \cup {Nothing}
             /\ channel'[s] # Nothing <=> channel[s] # Nothing
             /\ channel[s] # Nothing =>
                  channel'[s].detected = channel[s].detected /\ channel'[s].source = channel[s].source
  <2>1. CASE s \in disabled
    <3>1. channel[s] \in Channel
      BY <2>1, <1>1 DEF HubRemoved, HubTyped
    <3>2. channel'[s] = [channel[s] EXCEPT !.status = "removed"]
      BY <2>1, <1>1
    <3>3. QED
      BY <3>1, <3>2, NothingIsNoRecord DEF Channel
  <2>2. CASE s \notin disabled
    BY <2>2, <1>1 DEF HubTyped
  <2>3. QED
    BY <2>1, <2>2
<1>3. QED
  BY <1>1, <1>2 DEF Grown

LEMMA EditGrows ==
  ASSUME HubTyped, NEW s \in Sites, CreateByHand(s) \/ PatchStatus(s)
  PROVE  Grown /\ channel' \in [Sites -> Channel \cup {Nothing}]
<1>t. channel \in [Sites -> Channel \cup {Nothing}] /\ Nothing \notin Channel
  BY NothingIsNoRecord DEF HubTyped
<1>1. CASE CreateByHand(s)
  <2>1. PICK detected \in BOOLEAN : channel' = [channel EXCEPT ![s] =
          [source |-> "manual", detected |-> detected, status |-> "enabled"]]
    BY <1>1 DEF CreateByHand
  <2>2. [source |-> "manual", detected |-> detected, status |-> "enabled"] \in Channel
    BY DEF Channel
  <2>3. channel[s] = Nothing /\ channel'[s].source = "manual"
    BY <1>1, <2>1, <1>t DEF CreateByHand
  <2>4. QED
    BY <2>1, <2>2, <2>3, <1>t DEF Grown
<1>2. CASE PatchStatus(s)
  <2>1. PICK status \in {"enabled", "by_hand"} : channel' = [channel EXCEPT ![s].status = status]
    BY <1>2 DEF PatchStatus
  <2>2. channel[s] # Nothing /\ channel[s] \in Channel
    BY <1>2, <1>t DEF PatchStatus
  <2>3. /\ channel'[s] \in Channel /\ channel'[s].detected = channel[s].detected
        /\ channel'[s].source = channel[s].source
    BY <2>1, <2>2, <1>t DEF Channel
  <2>4. QED
    BY <2>1, <2>2, <2>3, <1>t DEF Grown
<1>3. QED
  BY <1>1, <1>2

-----------------------------------------------------------------------------
(***************************************************************************)
(* Synchronisations: the steps                                             *)
(***************************************************************************)
\* The types of what no item and no stage is about.
RestTyped ==
  /\ cred \in [HubAccounts -> Tokens \cup {Nothing}]
  /\ config \in Config /\ due \in BOOLEAN
  /\ lock \in Replicas \cup {Nothing}
  /\ loop \in [Replicas -> {"idle", "due", "run"}]
  /\ file \in Files
  /\ events \in 0..MaxEvents /\ drops \in 0..events

LEMMA CountedTypes ==
  ASSUME HubTyped, Counted
  PROVE  /\ events' \in 0..MaxEvents /\ events' # events
         /\ drops \in 0..events' /\ drops + 1 \in 0..events'
BY HubConstants DEF HubTyped, Counted

\* One lemma for each group of steps: what they do beside the runs.
LEMMA ReplicaRests ==
  ASSUME HubTyped, NEW r \in Replicas,
         \/ Tick(r) \/ Schedule(r) \/ GiveUp(r) \/ RunNow(r)
         \/ LoadConfig(r) \/ Fetch(r) \/ FetchFails(r)
         \/ DisableHubRemoved(r) \/ Record(r) \/ Stop(r)
  PROVE  RestTyped'
<1>t. RestTyped /\ r \in Replicas \cup {Nothing} /\ Nothing \in Replicas \cup {Nothing}
  BY DEF HubTyped, RestTyped
<1>l. /\ [loop EXCEPT ![r] = "due"] \in [Replicas -> {"idle", "due", "run"}]
      /\ [loop EXCEPT ![r] = "run"] \in [Replicas -> {"idle", "due", "run"}]
      /\ [loop EXCEPT ![r] = "idle"] \in [Replicas -> {"idle", "due", "run"}]
      /\ [loop EXCEPT ![r] = IF @ = "run" THEN "idle" ELSE @] \in [Replicas -> {"idle", "due", "run"}]
  BY DEF HubTyped
<1>1. CASE Tick(r) \/ GiveUp(r)
  BY <1>1, <1>t, <1>l DEF Tick, GiveUp, RestTyped
<1>2. CASE Schedule(r)
  BY <1>2, <1>t, <1>l DEF Schedule, Grab, RestTyped
<1>3. CASE RunNow(r)
  BY <1>3, <1>t DEF RunNow, Grab, RestTyped
<1>4. CASE LoadConfig(r)
  BY <1>4, <1>t, <1>l DEF LoadConfig, EndRun, RestTyped
<1>5. CASE Fetch(r) \/ FetchFails(r) \/ DisableHubRemoved(r)
  BY <1>5, <1>t DEF Fetch, FetchFails, DisableHubRemoved, RestTyped
<1>6. CASE Record(r)
  <2>1. due' \in BOOLEAN
    BY <1>6, <1>t DEF Record, RestTyped
  <2>2. QED
    BY <2>1, <1>6, <1>t, <1>l DEF Record, EndRun, RestTyped
<1>7. CASE Stop(r)
  BY <1>7, <1>t, <1>l DEF Stop, RestTyped
<1>8. QED
  BY <1>1, <1>2, <1>3, <1>4, <1>5, <1>6, <1>7

LEMMA PartyRests ==
  ASSUME HubTyped, RunShape, NEW p \in HubParties,
         (\E a \in HubAccounts : Look(p, a)) \/ Commit(p) \/ ItemFails(p)
  PROVE  RestTyped'
<1>t. RestTyped
  BY DEF HubTyped, RestTyped
<1>1. CASE (\E a \in HubAccounts : Look(p, a)) \/ ItemFails(p)
  BY <1>1, <1>t DEF Look, ItemFails, RestTyped
<1>2. CASE Commit(p)
  <2> DEFINE a == run[p].item
  <2>1. run[p] \in Run /\ a \in HubAccounts /\ run[p].stage = "import" /\ Shape(run[p])
    <3>1. run[p] \in Run /\ a # Nothing /\ run[p].stage = "import" /\ Shape(run[p])
      BY <1>2 DEF Commit, Importing, HubTyped, RunShape
    <3>2. QED
      BY <3>1, RunFields
  <2>2. run[p].file \in Files
    BY <2>1 DEF Shape
  <2>3. Stored(a, run[p].file[a], run[p].missing) \in Tokens \cup {Nothing}
    BY <2>1, <2>2, <1>t DEF Stored, RestTyped
  <2>4. cred' = [cred EXCEPT ![a] = Stored(a, run[p].file[a], run[p].missing)]
    BY <1>2 DEF Commit
  <2>5. cred' \in [HubAccounts -> Tokens \cup {Nothing}]
    BY <2>1, <2>3, <2>4, <1>t DEF RestTyped
  <2>6. QED
    BY <2>5, <1>2, <1>t DEF Commit, RestTyped
<1>3. QED
  BY <1>1, <1>2

LEMMA OutsideRests ==
  ASSUME HubTyped,
         \/ \E u \in Uploads : Upload(u) \/ UploadEnds(u)
         \/ Drop \/ Elapse \/ Export \/ PutConfig
         \/ \E s \in Sites : CreateByHand(s) \/ PatchStatus(s)
  PROVE  RestTyped'
<1>t. RestTyped /\ drops \in 0..events /\ events \in 0..MaxEvents
  BY DEF HubTyped, RestTyped
<1>1. CASE (\E u \in Uploads : UploadEnds(u)) \/ Elapse
  BY <1>1, <1>t DEF UploadEnds, Elapse, RestTyped
<1>2. CASE \/ \E u \in Uploads : Upload(u)
           \/ \E s \in Sites : CreateByHand(s) \/ PatchStatus(s)
  <2>1. Counted
    BY <1>2 DEF Upload, CreateByHand, PatchStatus
  <2>2. QED
    BY <2>1, <1>2, <1>t, CountedTypes DEF Upload, CreateByHand, PatchStatus, RestTyped
<1>3. CASE Drop
  BY <1>3, <1>t, CountedTypes DEF Drop, RestTyped
<1>4. CASE Export
  BY <1>4, <1>t, CountedTypes DEF Export, RestTyped
<1>5. CASE PutConfig
  BY <1>5, <1>t, CountedTypes DEF PutConfig, RestTyped
<1>6. QED
  BY <1>1, <1>2, <1>3, <1>4, <1>5

\* Every step whose items only end keeps the invariant, if it keeps the lock.
LEMMA FewerKeeps ==
  ASSUME HubInv, RestTyped', LockHeld', Grown, Fewer, accountRows' = accountRows,
         channel' \in [Sites -> Channel \cup {Nothing}],
         run' \in [HubParties -> Run \cup {Nothing}], RunShape'
  PROVE  HubInv'
<1>1. HubTyped /\ RegistryInv
  BY DEF HubInv, RegistryInv
<1>2. RegistryInv'
  BY <1>1, GrownKeeps
<1>3. HubTyped'
  BY <1>1 DEF HubTyped, RestTyped
<1>4. QED
  BY <1>2, <1>3 DEF HubInv, RegistryInv

LEMMA ClearKeeps ==
  ASSUME HubInv, RestTyped', LockHeld', NEW p, NEW x, Clear(p, x), UNCHANGED <<channel, accountRows>>
  PROVE  HubInv'
<1>1. HubTyped /\ RunShape
  BY DEF HubInv
<1>2. Fewer /\ run' \in [HubParties -> Run \cup {Nothing}] /\ RunShape'
  BY <1>1, ClearIsFewer, TurnDoes DEF Clear
<1>3. Grown /\ channel' \in [Sites -> Channel \cup {Nothing}]
  BY <1>1 DEF Grown, HubTyped
<1>4. QED
  BY <1>2, <1>3, FewerKeeps

LEMMA QuietKeeps ==
  ASSUME HubInv, RestTyped', LockHeld', UNCHANGED run, Grown, UNCHANGED accountRows,
         channel' \in [Sites -> Channel \cup {Nothing}]
  PROVE  HubInv'
<1>1. Fewer /\ run' \in [HubParties -> Run \cup {Nothing}] /\ RunShape'
  BY DEF HubInv, HubTyped, RunShape, Fewer
<1>2. QED
  BY <1>1, FewerKeeps

\* A turn of a run that goes on neither takes nor gives up the lock.
LEMMA OngoingHolds ==
  ASSUME HubTyped, RunShape, LockHeld, NEW p, NEW x \in Run, RunTurn(p, x), run[p] # Nothing,
         UNCHANGED <<lock, drops>>
  PROVE  LockHeld'
<1>1. run'[p] = x /\ \A q \in HubParties \ {p} : run'[q] = run[q]
  BY TurnDoes
<1>2. \A r \in Replicas : run'[r] = Nothing <=> run[r] = Nothing
  BY <1>1, HubConstants, NothingIsNoRecord
<1>3. QED
  BY <1>2, SameHolds

LEMMA UploadHolds ==
  ASSUME HubTyped, RunShape, LockHeld, NEW u \in Uploads, NEW x, RunTurn(u, x), UNCHANGED <<lock, drops>>
  PROVE  LockHeld'
<1>1. \A r \in Replicas : run'[r] = run[r]
  BY TurnDoes, HubConstants
<1>2. QED
  BY <1>1, SameHolds

LEMMA ReplicaSteps ==
  ASSUME HubInv, NEW r \in Replicas,
         \/ Tick(r) \/ Schedule(r) \/ GiveUp(r) \/ RunNow(r)
         \/ LoadConfig(r) \/ Fetch(r) \/ FetchFails(r)
         \/ DisableHubRemoved(r) \/ Record(r) \/ Stop(r)
  PROVE  HubInv'
<1>t. HubTyped /\ RunShape /\ LockHeld /\ r \in HubParties
  BY HubConstants DEF HubInv
<1>r. RestTyped'
  BY <1>t, ReplicaRests
<1>1. CASE Tick(r) \/ GiveUp(r)
  <2>1. UNCHANGED <<channel, accountRows, run, lock, drops>>
    BY <1>1 DEF Tick, GiveUp
  <2>2. LockHeld'
    BY <2>1, <1>t, SameHolds
  <2>3. Grown /\ channel' \in [Sites -> Channel \cup {Nothing}]
    BY <2>1, <1>t DEF Grown, HubTyped
  <2>4. QED
    BY <2>1, <2>2, <2>3, <1>r, QuietKeeps
<1>2. CASE Schedule(r) \/ RunNow(r)
  <2>1. PICK force \in BOOLEAN : Grab(r, force)
    BY <1>2 DEF Schedule, RunNow
  <2>2. LockHeld' /\ Clear(r, Fresh(force))
    BY <2>1, <1>t, GrabHolds, GrabTurns
  <2>3. UNCHANGED <<channel, accountRows>>
    BY <2>1 DEF Grab
  <2>4. QED
    BY <2>2, <2>3, <1>r, ClearKeeps
<1>3. CASE LoadConfig(r) \/ Fetch(r) \/ FetchFails(r)
  <2>1. /\ UNCHANGED <<channel, accountRows, drops>> /\ run[r] # Nothing
        /\ (run[r].stage = "load" /\ LoadConfig(r)) \/ Fetch(r) \/ FetchFails(r)
    BY <1>3 DEF LoadConfig, Fetch, FetchFails
  <2>2. PICK x : Clear(r, x) /\ (EndRun(r) \/ (x # Nothing /\ lock' = lock))
    BY <2>1, <1>t, StagesTurn
  <2>3. LockHeld'
    <3>1. CASE EndRun(r)
      BY <3>1, <2>1, <1>t, EndHolds DEF EndRun
    <3>2. CASE x # Nothing /\ lock' = lock
      <4>1. x \in Run /\ RunTurn(r, x)
        BY <3>2, <2>2 DEF Clear, RunTurn
      <4>2. QED
        BY <4>1, <3>2, <2>1, <1>t, OngoingHolds
    <3>3. QED
      BY <3>1, <3>2, <2>2
  <2>4. QED
    BY <2>1, <2>2, <2>3, <1>r, ClearKeeps
<1>4. CASE DisableHubRemoved(r)
  <2>1. PICK x \in Run : Clear(r, x)
    BY <1>4, <1>t, DisableTurns
  <2>2. UNCHANGED <<accountRows, lock, drops>> /\ run[r] # Nothing
    BY <1>4 DEF DisableHubRemoved, Imported, Importing
  <2>3. LockHeld'
    BY <2>1, <2>2, <1>t, OngoingHolds DEF Clear
  <2>4. Fewer /\ run' \in [HubParties -> Run \cup {Nothing}] /\ RunShape'
    BY <2>1, <1>t, ClearIsFewer, TurnDoes DEF Clear
  <2>5. QED
    BY <2>2, <2>3, <2>4, <1>4, <1>t, <1>r, DisableGrows, FewerKeeps
<1>5. CASE Record(r) \/ Stop(r)
  <2>1. /\ run' = [run EXCEPT ![r] = Nothing] /\ lock' = (IF lock = r THEN Nothing ELSE lock)
        /\ UNCHANGED <<channel, accountRows, drops>>
    BY <1>5 DEF Record, Stop, EndRun
  <2>2. LockHeld' /\ Clear(r, Nothing)
    BY <2>1, <1>t, EndHolds, EndTurns
  <2>3. QED
    BY <2>1, <2>2, <1>r, ClearKeeps
<1>6. QED
  BY <1>1, <1>2, <1>3, <1>4, <1>5

LEMMA PartySteps ==
  ASSUME HubInv, NEW p \in HubParties,
         (\E a \in HubAccounts : Look(p, a)) \/ Commit(p) \/ ItemFails(p)
  PROVE  HubInv'
<1>t. HubTyped /\ RunShape /\ LockHeld /\ RegistryInv
  BY DEF HubInv, RegistryInv
<1>r. RestTyped'
  BY <1>t, PartyRests
<1>u. UNCHANGED <<lock, drops>> /\ run[p] # Nothing
  BY DEF Look, Commit, ItemFails, Importing
<1>1. ASSUME NEW a \in HubAccounts, Look(p, a)
      PROVE  HubInv'
  <2>1. PICK x \in Run : RunTurn(p, x)
    BY <1>1, <1>t, LookTurns
  <2>2. LockHeld' /\ run' \in [HubParties -> Run \cup {Nothing}] /\ RunShape'
    BY <2>1, <1>t, <1>u, OngoingHolds, TurnDoes
  <2>3. RegistryInv'
    BY <1>1, <1>t, LookKeeps
  <2>4. HubTyped'
    BY <2>2, <1>1, <1>t, <1>r DEF HubTyped, RestTyped, Look
  <2>5. QED
    BY <2>2, <2>3, <2>4 DEF HubInv, RegistryInv
<1>2. CASE Commit(p)
  <2>1. PICK x \in Run : Clear(p, x)
    BY <1>2, <1>t, CommitTurns
  <2>2. LockHeld' /\ run' \in [HubParties -> Run \cup {Nothing}] /\ RunShape'
    BY <2>1, <1>t, <1>u, OngoingHolds, TurnDoes DEF Clear
  <2>3. RegistryInv' /\ accountRows' \in [HubAccounts -> Nat]
    BY <1>2, <1>t, CommitKeeps
  <2>4. channel' \in [Sites -> Channel \cup {Nothing}]
    <3>1. run[p].item \in HubAccounts /\ AtItem(p, run[p].item)
      BY <1>2, <1>t, RunFields DEF Commit, Importing, HubTyped, AtItem
    <3>2. QED
      BY <3>1, <1>2, <1>t, CommitWrites
  <2>5. HubTyped'
    BY <2>2, <2>3, <2>4, <1>r DEF HubTyped, RestTyped
  <2>6. QED
    BY <2>2, <2>3, <2>5 DEF HubInv, RegistryInv
<1>3. CASE ItemFails(p)
  <2>1. PICK x \in Run : Clear(p, x)
    BY <1>3, <1>t, ItemFailsTurns
  <2>2. LockHeld'
    BY <2>1, <1>t, <1>u, OngoingHolds DEF Clear
  <2>3. UNCHANGED <<channel, accountRows>>
    BY <1>3 DEF ItemFails
  <2>4. QED
    BY <2>1, <2>2, <2>3, <1>r, ClearKeeps
<1>4. QED
  BY <1>1, <1>2, <1>3

LEMMA OutsideSteps ==
  ASSUME HubInv,
         \/ \E u \in Uploads : Upload(u) \/ UploadEnds(u)
         \/ Drop \/ Elapse \/ Export \/ PutConfig
         \/ \E s \in Sites : CreateByHand(s) \/ PatchStatus(s)
  PROVE  HubInv'
<1>t. HubTyped /\ RunShape /\ LockHeld
  BY DEF HubInv
<1>r. RestTyped'
  BY <1>t, OutsideRests
<1>1. ASSUME NEW u \in Uploads, Upload(u) \/ UploadEnds(u)
      PROVE  HubInv'
  <2>1. UNCHANGED <<channel, accountRows, lock, drops>>
    BY <1>1 DEF Upload, UploadEnds
  <2>2. PICK x : Clear(u, x)
    BY <1>1, <1>t, UploadTurns, EndTurns, HubConstants DEF UploadEnds
  <2>3. LockHeld'
    BY <2>1, <2>2, <1>t, UploadHolds DEF Clear
  <2>4. QED
    BY <2>1, <2>2, <2>3, <1>r, ClearKeeps
<1>2. CASE Drop \/ Elapse \/ Export \/ PutConfig
  <2>1. UNCHANGED <<channel, accountRows, run>>
    BY <1>2 DEF Drop, Elapse, Export, PutConfig
  <2>2. LockHeld'
    <3>1. CASE Drop
      BY <3>1, <1>t, DropHolds
    <3>2. CASE Elapse \/ Export \/ PutConfig
      BY <3>2, <2>1, <1>t, SameHolds DEF Elapse, Export, PutConfig
    <3>3. QED
      BY <3>1, <3>2, <1>2
  <2>3. Grown /\ channel' \in [Sites -> Channel \cup {Nothing}]
    BY <2>1, <1>t DEF Grown, HubTyped
  <2>4. QED
    BY <2>1, <2>2, <2>3, <1>r, QuietKeeps
<1>3. ASSUME NEW s \in Sites, CreateByHand(s) \/ PatchStatus(s)
      PROVE  HubInv'
  <2>1. UNCHANGED <<accountRows, run, lock, drops>>
    BY <1>3 DEF CreateByHand, PatchStatus
  <2>2. LockHeld'
    BY <2>1, <1>t, SameHolds
  <2>3. QED
    BY <2>1, <2>2, <1>3, <1>t, <1>r, EditGrows, QuietKeeps
<1>4. QED
  BY <1>1, <1>2, <1>3

LEMMA HubInitInv == HubInit => HubInv
<1> SUFFICES ASSUME HubInit
             PROVE  HubInv
  OBVIOUS
<1>0. \A p \in HubParties : run[p] = Nothing
  BY DEF HubInit
<1>1. channel \in [Sites -> Channel \cup {Nothing}]
  <2>1. /\ [source |-> "manual", detected |-> FALSE, status |-> "enabled"] \in Channel
        /\ [source |-> "hub", detected |-> TRUE, status |-> "by_hand"] \in Channel
    BY DEF Channel
  <2>2. QED
    BY <2>1 DEF HubInit
<1>2. HubTyped
  <2>1. accountRows \in [HubAccounts -> Nat] /\ file \in Files /\ config \in Config
    BY DEF HubInit, Files, Config
  <2>2. QED
    BY <1>1, <2>1, HubConstants DEF HubInit, HubTyped
<1>3. RunShape /\ ItemKnows /\ RowsHaveChannel /\ OneRowPerCookieAccount
  BY <1>0, HubConstants DEF HubInit, RunShape, ItemKnows, AtItem, RowsHaveChannel, OneRowPerCookieAccount
<1>4. AddsBounded
  <2>1. ASSUME NEW a \in HubAccounts
        PROVE  accountRows[a] + Cardinality(Adding(a)) <= Cardinality(HubParties)
    <3>1. Adding(a) = {}
      BY <1>0 DEF Adding, AtItem
    <3>2. accountRows[a] \in {0, 1} /\ Cardinality(Adding(a)) = 0
      BY <3>1, FS_EmptySet DEF HubInit
    <3>3. QED
      BY <3>2, PartiesFinite
  <2>2. QED
    BY <2>1 DEF AddsBounded
<1>5. HubIsCollectable
  BY HubConstants DEF HubInit, HubIsCollectable
<1>6. LockHeld
  <2>1. Running = {}
    BY <1>0, HubConstants DEF Running
  <2>2. QED
    BY <2>1, FS_EmptySet DEF HubInit, LockHeld
<1>7. QED
  BY <1>2, <1>3, <1>4, <1>5, <1>6 DEF HubInv

LEMMA HubStepInv == HubInv /\ [HubNext]_hubVars => HubInv'
<1> SUFFICES ASSUME HubInv, [HubNext]_hubVars
             PROVE  HubInv'
  OBVIOUS
<1>1. CASE HubNext
  BY <1>1, ReplicaSteps, PartySteps, OutsideSteps DEF HubNext
<1>2. CASE UNCHANGED hubVars
  BY <1>2 DEF hubVars, HubInv, HubTyped, RunShape, ItemKnows, AtItem, RowsHaveChannel, AddsBounded, Adding,
              OneRowPerCookieAccount, HubIsCollectable, LockHeld, Running
<1>3. QED
  BY <1>1, <1>2

-----------------------------------------------------------------------------
(***************************************************************************)
(* Synchronisations: the theorems                                          *)
(***************************************************************************)
(* What the imports and the synchronisations have under way agrees with the
   channels, the accounts and the lock, in every reachable state: the
   invariant that the theorems below are read from. *)
THEOREM HubInductive == HubSpec => []HubInv
BY HubInitInv, HubStepInv, PTL DEF HubSpec

(* The variables have the types the code gives them; overlapping imports give an account
   at most one row each. *)
THEOREM HubTypeCorrect == HubSpec => []HubTypeOK
<1>1. HubInv => HubTypeOK
  <2> SUFFICES ASSUME HubInv
               PROVE  HubTypeOK
    OBVIOUS
  <2>1. ASSUME NEW a \in HubAccounts
        PROVE  accountRows[a] \in 0..Cardinality(HubParties)
    <3>1. Cardinality(Adding(a)) \in Nat
      BY PartiesFinite DEF Adding
    <3>2. QED
      BY <3>1, PartiesFinite DEF HubInv, AddsBounded, HubTyped
  <2>2. accountRows \in [HubAccounts -> 0..Cardinality(HubParties)]
    BY <2>1 DEF HubInv, HubTyped
  <2>3. QED
    BY <2>2 DEF HubInv, HubTyped, HubTypeOK
<1>2. QED
  BY <1>1, HubInductive, PTL

(* hubsync.go:78-103, RunHubSync: a row of the history that says nothing was applied is
   true, whatever was configured or went wrong while the run was under way. *)
THEOREM HistoryTrue == HubSpec => []RecordTellsTruth
<1>1. HubInv => RecordTellsTruth
  <2> SUFFICES ASSUME HubInv, NEW r \in Replicas, run[r] # Nothing, run[r].stage = "record", run[r].wrote
               PROVE  ~run[r].dry /\ ~run[r].failed
    BY DEF RecordTellsTruth, Row
  <2>1. Shape(run[r])
    BY HubConstants DEF HubInv, RunShape
  <2>2. QED
    BY <2>1 DEF Shape
<1>2. QED
  BY <1>1, HubInductive, PTL

(* hubsync.go:228-252, tryHubSyncLock: any number of replicas run one synchronisation at a
   time, but for one more with each session that was lost with the lock. *)
THEOREM RunsExclude == HubSpec => []OneRun
<1>1. HubInv => OneRun
  <2> SUFFICES ASSUME HubInv
               PROVE  Cardinality(Running) <= 1 + drops
    BY DEF OneRun, Running
  <2>1. drops \in Nat /\ Cardinality(Running) \in Nat
    BY RunningFinite DEF HubInv, HubTyped
  <2>2. QED
    BY <2>1 DEF HubInv, LockHeld
<1>2. QED
  BY <1>1, HubInductive, PTL

(* import_api.go:320-325, importOne: imports that overlap never give an account with
   a Cookie a second row. *)
THEOREM OneCookieRow == HubSpec => []OneRowPerCookieAccount
<1>1. HubInv => OneRowPerCookieAccount
  BY DEF HubInv
<1>2. QED
  BY <1>1, HubInductive, PTL

(* import_api.go:326-464, importOne: a channel that follows the backup has its detection
   snapshot and an account. *)
THEOREM HubCollectable == HubSpec => []HubIsCollectable
<1>1. HubInv => HubIsCollectable
  BY DEF HubInv
<1>2. QED
  BY <1>1, HubInductive, PTL

\* Only the end of a synchronisation changes a status that no person changed.
LEMMA StatusStays ==
  ASSUME HubInv, HubNext, events' = events, NEW s \in Sites, channel[s] # Nothing,
         channel'[s].status # channel[s].status
  PROVE  \E r \in Replicas : DisableHubRemoved(r)
<1>t. HubTyped /\ RunShape /\ RegistryInv
  BY DEF HubInv, RegistryInv
<1>1. ~Counted
  BY <1>t, CountedTypes
<1>2. ASSUME NEW p \in HubParties, Commit(p)
      PROVE  FALSE
  <2>1. run[p].item \in HubAccounts /\ AtItem(p, run[p].item)
    BY <1>2, <1>t, RunFields DEF Commit, Importing, HubTyped, AtItem
  <2>2. channel'[s].status = channel[s].status
    BY <2>1, <1>2, <1>t, CommitWrites
  <2>3. QED
    BY <2>2
<1>3. channel' # channel
  OBVIOUS
<1>4. QED
  BY <1>1, <1>2, <1>3 DEF HubNext, Tick, Schedule, GiveUp, RunNow, Grab, LoadConfig, Fetch, FetchFails, Record, Stop,
     Look, ItemFails, Upload, UploadEnds, Drop, Elapse, Export, PutConfig, CreateByHand, PatchStatus

LEMMA DisablesRemoved ==
  ASSUME HubInv, NEW r \in Replicas, DisableHubRemoved(r), NEW s \in Sites, channel[s] # Nothing,
         channel'[s].status # channel[s].status
  PROVE  /\ channel[s].source = "hub" /\ channel[s].status = "enabled"
         /\ channel'[s].status = "removed"
         /\ run[r] # Nothing /\ ~run[r].dry /\ run[r].file # Nothing
         /\ InBackup(run[r].file) # {}
         /\ \A a \in InBackup(run[r].file) : SiteOf[a] # s
<1>1. run[r] # Nothing /\ run[r].stage = "import" /\ run[r].file \in Files /\ channel[s] \in Channel
  BY HubConstants DEF DisableHubRemoved, Imported, Importing, HubInv, HubTyped, RunShape, Shape
<1> DEFINE gone == IF run[r].dry THEN {} ELSE HubRemoved(Keep(run[r].file))
<1>2. PICK disabled \in {{}, gone} :
        channel' = [t \in Sites |-> IF t \in disabled THEN [channel[t] EXCEPT !.status = "removed"]
                                   ELSE channel[t]]
  BY DEF DisableHubRemoved
<1>3. s \in gone /\ channel'[s] = [channel[s] EXCEPT !.status = "removed"]
  BY <1>2
<1>4. ~run[r].dry /\ s \in HubRemoved(Keep(run[r].file))
  BY <1>3
<1>5. channel[s].source = "hub" /\ channel[s].status = "enabled" /\ channel'[s].status = "removed"
  BY <1>1, <1>3, <1>4 DEF HubRemoved, Channel
<1>6. InBackup(run[r].file) # {} /\ \A a \in InBackup(run[r].file) : SiteOf[a] # s
  BY <1>4 DEF HubRemoved, Keep
<1>7. QED
  BY <1>1, <1>4, <1>5, <1>6, NothingIsNoRecord

(* hubsync.go:137-157 and channels.go:500-548, disableHubRemoved: a synchronisation
   disables a channel only when its whole, non-empty backup no longer lists the site,
   and nothing but a person enables one. *)
THEOREM AbsenceDisables == HubSpec => OnlyAbsenceDisables
<1>1. HubInv /\ [HubNext]_hubVars =>
        [\A s \in Sites :
           /\ channel[s] # Nothing /\ events' = events
           /\ channel'[s].status # channel[s].status
           => /\ channel[s].source = "hub" /\ channel[s].status = "enabled"
              /\ channel'[s].status = "removed"
              /\ \E r \in Replicas :
                   /\ run[r] # Nothing /\ ~run[r].dry /\ run[r].file # Nothing
                   /\ InBackup(run[r].file) # {}
                   /\ \A a \in InBackup(run[r].file) : SiteOf[a] # s]_hubVars
  BY StatusStays, DisablesRemoved
<1>2. QED
  BY <1>1, HubInductive, PTL DEF HubSpec, OnlyAbsenceDisables
=================================================================================
