----------------------------- MODULE ConfigVersions -----------------------------
(***************************************************************************)
(* The configuration: versions in config_params, the two-step change of a  *)
(* critical key, and the snapshot each process decides by (admin/          *)
(* config_api.go, admin/confirm.go, store/config_write.go, config_read.go, *)
(* seed.go, bootstrap/bootstrap.go, cmd/sla-core/main.go).                 *)
(*                                                                         *)
(* A change reads the latest version, waits for that row's lock, compares  *)
(* it with the version its caller expects, and inserts the next one; two   *)
(* UNIQUE constraints guard the version and the idempotency key.  A        *)
(* critical key first needs a preview, whose token names the key, the      *)
(* value and the version it was made on, and can be used once.             *)
(***************************************************************************)
EXTENDS Migrations, Sequences, SequencesExt

CONSTANTS
  Keys,            \* config.Params
  Values,          \* values that validateValue accepts
  Default,         \* a key's default
  Requests,        \* requests that can be in progress at once
  Idems,           \* idempotency keys
  MaxPreviews,     \* bound: previews
  MaxApplies,      \* bound: applies
  MaxStops         \* bound: processes that stop

ASSUME ConfigAssumption ==
  /\ Default \in Values /\ MaxPreviews \in Nat /\ MaxApplies \in Nat /\ MaxStops \in Nat
  /\ None \notin Values \cup Idems

VARIABLES
  critical, \* keys that are Critical, fixed in a build
  params,   \* config_params: each key's versions
  tokens,   \* tokenStore of each process
  previews, \* history: what each token was issued for
  req,      \* requests in progress
  snap,     \* each process's snapshot, by version; 0 is the built-in default
  applies, stops

configVars == <<critical, params, tokens, previews, req, snap, applies, stops>>
vars == <<migrationVars, configVars>>
others == <<critical, migrationVars>>

Versions == 0..(MaxApplies + 1)
Diff == [key : Keys, value : Values, version : Versions]
Tokens == 1..MaxPreviews
Row == [value : Values, prev : Values \cup {None}, confirmed : BOOLEAN,
        idem : Idems \cup {None}, token : Tokens \cup {None}]
Loaded == [Keys -> Versions]
Request == [pc : {"check", "select", "locked", "load", "store"}, proc : Procs,
            key : Keys, value : Values, expected : Versions, idem : Idems \cup {None},
            token : Tokens \cup {None}, cur : Versions, values : Loaded \cup {None}]

TypeOK ==
  /\ MigrationTypeOK /\ critical \subseteq Keys
  /\ \A k \in Keys : /\ Len(params[k]) \in Versions
                     /\ \A i \in 1..Len(params[k]) : params[k][i] \in Row
  /\ \A p \in Procs : tokens[p] \subseteq 1..Len(previews)
  /\ \A i \in 1..Len(previews) : previews[i] \in Diff
  /\ req \in [Requests -> Request \cup {None}]
  /\ snap \in [Procs -> Loaded \cup {None}] /\ applies \in 0..MaxApplies /\ stops \in 0..MaxStops

Init ==
  /\ MigrationInit /\ critical \in SUBSET Keys
  /\ params = [k \in Keys |-> <<>>] /\ tokens = [p \in Procs |-> {}] /\ previews = <<>>
  /\ req = [r \in Requests |-> None] /\ snap = [p \in Procs |-> None] /\ applies = 0 /\ stops = 0

-----------------------------------------------------------------------------
(* Starting: seeds and the first snapshot. *)

Seeded(k) == <<[value |-> Default, prev |-> None, confirmed |-> k \in critical, idem |-> None, token |-> None]>>

\* SeedConfigParams: version 1 of every key that has none.
Seed(p) ==
  /\ At(p, "seed") /\ Exists(Tables)
  /\ params' = [k \in Keys |-> IF params[k] = <<>> THEN Seeded(k) ELSE params[k]]
  /\ Goto(p, "load")
  /\ UNCHANGED <<critical, lock, database, tokens, previews, req, snap, applies, stops>>

\* LoadConfigValues: the last version, if it is confirmed where it must be.
Effective(k) ==
  LET n == Len(params[k]) IN
  IF n = 0 \/ (k \in critical /\ ~params[k][n].confirmed) THEN 0 ELSE n

\* Mutant: the snapshot has only what the table has.
LoadConfigValuesOnly == [k \in {c \in Keys : Effective(c) # 0} |-> Effective(k)]

\* NewSnapshot: a key without a value gets the built-in default.
LoadConfigValues == [k \in Keys |-> Effective(k)]

FirstSnapshot(p) ==
  /\ At(p, "load") /\ Exists(Tables)
  /\ snap' = [snap EXCEPT ![p] = LoadConfigValues] /\ Goto(p, "up")
  /\ UNCHANGED <<critical, lock, database, params, tokens, previews, req, applies, stops>>

\* bootstrap.Run up to the seeds, or LoadReadOnly
Run(p) ==
  \/ Start(p) /\ UNCHANGED configVars
  \/ Lock(p) /\ UNCHANGED configVars
  \/ (\E f \in Files : Migrate(p, f)) /\ UNCHANGED configVars
  \/ Migrated(p) /\ UNCHANGED configVars

\* With the process go its tokens, its snapshot and its requests.
Exit(p) ==
  /\ Stop(p) /\ stops < MaxStops /\ stops' = stops + 1
  /\ tokens' = [tokens EXCEPT ![p] = {}] /\ snap' = [snap EXCEPT ![p] = None]
  /\ req' = [r \in Requests |-> IF req[r] # None /\ req[r].proc = p THEN None ELSE req[r]]
  /\ UNCHANGED <<critical, params, previews, applies>>

-----------------------------------------------------------------------------
(* previewConfig and the tokens. *)

\* Mutant: the token does not name the version.
diffHashWithoutVersion(k, v, n) == <<k, v>>

\* What a token is bound to.
diffHash(k, v, n) == <<k, v, n>>

Preview(p, k, v) ==
  /\ At(p, "up") /\ k \in critical /\ params[k] # <<>> /\ Len(previews) < MaxPreviews
  /\ previews' = Append(previews, [key |-> k, value |-> v, version |-> Len(params[k])])
  /\ tokens' = [tokens EXCEPT ![p] = @ \cup {Len(previews')}]
  /\ UNCHANGED <<others, params, req, snap, applies, stops>>

\* Five minutes are over.
Expire(p, t) ==
  /\ t \in tokens[p]
  /\ tokens' = [tokens EXCEPT ![p] = @ \ {t}]
  /\ UNCHANGED <<others, params, previews, req, snap, applies, stops>>

Matches(t, k, v, n) ==
  LET d == previews[t] IN diffHash(d.key, d.value, d.version) = diffHash(k, v, n)

\* consume: the token is gone whether or not it matches.
Consumed(p, t) == tokens' = [tokens EXCEPT ![p] = @ \ {t}]

Accepted(p, t, k, v, n) == t \in tokens[p] /\ Matches(t, k, v, n)

-----------------------------------------------------------------------------
(* applyConfig, in the steps of ApplyConfig's transaction. *)

Is(r, pc) == req[r] # None /\ req[r].pc = pc
Step(r, pc) == req' = [req EXCEPT ![r].pc = pc]
End(r) == req' = [req EXCEPT ![r] = None]

Begin(r, p, k, v, n, i) ==
  /\ req[r] = None /\ At(p, "up") /\ applies < MaxApplies /\ applies' = applies + 1
  /\ \/ /\ k \notin critical /\ UNCHANGED tokens
        /\ req' = [req EXCEPT ![r] = [pc |-> "check", proc |-> p, key |-> k, value |-> v, expected |-> n,
                     idem |-> i, token |-> None, cur |-> 0, values |-> None]]
     \/ \E t \in 1..Len(previews) :
          /\ k \in critical /\ Consumed(p, t)
          /\ req' = IF Accepted(p, t, k, v, n)
                    THEN [req EXCEPT ![r] = [pc |-> "check", proc |-> p, key |-> k, value |-> v, expected |-> n,
                            idem |-> i, token |-> t, cur |-> 0, values |-> None]]
                    ELSE req
  /\ UNCHANGED <<others, params, previews, snap, stops>>

Applied(k, i) == \E row \in Range(params[k]) : row.idem # None /\ row.idem = i

\* Not the first delivery: nothing is written, and the snapshot is rebuilt.
CheckIdempotency(r) ==
  /\ Is(r, "check")
  /\ Step(r, IF Applied(req[r].key, req[r].idem) THEN "load" ELSE "select")
  /\ UNCHANGED <<others, params, tokens, previews, snap, applies, stops>>

\* SELECT ... LIMIT 1 FOR UPDATE picks the row and then waits for it.  Only one
\* transaction has the row while it inserts, so waiting and inserting are one
\* step, on the row that was picked.
SelectCurrent(r) ==
  /\ Is(r, "select") /\ ~ReadOnly(req[r].proc) /\ params[req[r].key] # <<>>
  /\ req' = [req EXCEPT ![r].pc = "locked", ![r].cur = Len(params[req[r].key])]
  /\ UNCHANGED <<others, params, tokens, previews, snap, applies, stops>>

Expected(r) == req[r].expected \in {0, req[r].cur}

\* Mutants: there is no UNIQUE constraint.
VersionUnguarded(k, n) == TRUE
IdemUnguarded(k, i) == TRUE

\* UNIQUE (scope, param_key, version) and UNIQUE (param_key, idempotency_key)
VersionFree(k, n) == Len(params[k]) < n
IdemFree(k, i) == ~Applied(k, i)

Insert(r) ==
  LET k == req[r].key IN
  /\ Is(r, "locked") /\ Expected(r)
  /\ VersionFree(k, req[r].cur + 1) /\ IdemFree(k, req[r].idem)
  /\ params' = [params EXCEPT ![k] = Append(@,
                  [value |-> req[r].value, prev |-> params[k][req[r].cur].value, confirmed |-> k \in critical,
                   idem |-> req[r].idem, token |-> req[r].token])]
  /\ Step(r, "load")
  /\ UNCHANGED <<others, tokens, previews, snap, applies, stops>>

\* rebuild, in its two steps
LoadAgain(r) ==
  /\ Is(r, "load")
  /\ req' = [req EXCEPT ![r].pc = "store", ![r].values = LoadConfigValues]
  /\ UNCHANGED <<others, params, tokens, previews, snap, applies, stops>>

StoreSnapshot(r) ==
  /\ Is(r, "store")
  /\ snap' = [snap EXCEPT ![req[r].proc] = req[r].values] /\ End(r)
  /\ UNCHANGED <<others, params, tokens, previews, applies, stops>>

\* A conflict, a constraint, an error of the database, a rebuild that failed.
Refused(r) ==
  /\ Is(r, "locked") /\ (~Expected(r) \/ ~VersionFree(req[r].key, req[r].cur + 1) \/ ~IdemFree(req[r].key, req[r].idem))
  /\ End(r)
  /\ UNCHANGED <<others, params, tokens, previews, snap, applies, stops>>

Fails(r) ==
  /\ req[r] # None /\ End(r)
  /\ UNCHANGED <<others, params, tokens, previews, snap, applies, stops>>

Apply(r) ==
  \/ CheckIdempotency(r) \/ SelectCurrent(r) \/ Insert(r)
  \/ LoadAgain(r) \/ StoreSnapshot(r) \/ Refused(r) \/ Fails(r)

Next ==
  \/ \E p \in Procs : Run(p) \/ Seed(p) \/ FirstSnapshot(p) \/ Exit(p)
  \/ \E p \in Procs, k \in Keys, v \in Values : Preview(p, k, v)
  \/ \E p \in Procs, t \in Tokens : Expire(p, t)
  \/ \E r \in Requests, p \in Procs, k \in Keys, v \in Values, i \in Idems \cup {None} :
       \E n \in 0..Len(params[k]) : Begin(r, p, k, v, n, i)
  \/ \E r \in Requests : Apply(r)

Spec == Init /\ [][Next]_vars

-----------------------------------------------------------------------------
(* Properties. *)

Ready(p) == At(p, "up") /\ ~ReadOnly(p)

(* A process that serves and may write found or made the schema of its own
   build, file by file, and every configuration key has a row: with several
   processes starting, stopping and being killed at once.  (migrate.go:95-193,
   bootstrap.go:30-53) *)
UpIsMigrated ==
  \A p \in Procs : Ready(p) =>
    (\A f \in Files : ledger[f] = OwnSum(p, f)) /\ (\A k \in Keys : params[k] # <<>>)

(* No credential is lost on the way from plain text to ciphertext: each is in
   one of the two columns, whoever migrates, with a deployment key or without,
   and once 035 is recorded none is in plain text.
   (credential_migration.go:30-121) *)
SecretsSurvive == plain \cup cipher = held /\ (Exists(DropPlaintext) => plain = {})

(* The history of a key is a chain: what a version says it replaced is what
   the version before it held, also when two changes waited for each other.
   (config_write.go:72-103) *)
VersionsChain ==
  \A k \in Keys : \A i \in 2..Len(params[k]) : params[k][i].prev = params[k][i - 1].value

(* A change that is delivered again, also while the first delivery is under
   way, takes effect once.  (config_write.go:55-68) *)
AppliedOnce ==
  \A k \in Keys : \A i, j \in 1..Len(params[k]) :
    i # j /\ params[k][i].idem # None => params[k][i].idem # params[k][j].idem

Previewed(k, i) ==
  previews[params[k][i].token] = [key |-> k, value |-> params[k][i].value, version |-> i - 1]

(* Each version of a critical key was previewed: as that value, on the version
   it replaced, and with a token no other version used.  (confirm.go:42-86) *)
CriticalIsConfirmed ==
  \A k \in critical : \A i \in 2..Len(params[k]) :
    /\ Previewed(k, i)
    /\ \A c \in critical : \A j \in 2..Len(params[c]) :
         params[c][j].token = params[k][i].token => c = k /\ j = i

(* main.go:119: a change rebuilds the snapshot so that the new value is used.
   So a running process never returns to an older version. *)
SnapshotFollows ==
  [][\A p \in Procs : snap[p] # None /\ snap'[p] # None =>
       \A k \in Keys : snap'[p][k] >= snap[p][k]]_vars
================================================================================
