------------------------------- MODULE Migrations -------------------------------
(***************************************************************************)
(* Bringing the database to a build's schema (store/migrate.go,            *)
(* store/credential_migration.go).                                         *)
(*                                                                         *)
(* Several processes may start at once.  One holds a PostgreSQL advisory   *)
(* lock, reads which files were applied, applies the others in order, each *)
(* in a transaction of its own, and releases the lock.  The last file is   *)
(* migration 035: its transaction first encrypts the credentials that are  *)
(* stored as plain text, and then drops their columns.  The files up to    *)
(* 034 create everything else and are one file here.                       *)
(***************************************************************************)
EXTENDS Integers, FiniteSets

CONSTANTS
  Procs,
  Builds,
  Checksum,   \* LoadMigrations: a build's checksum of each file
  Secrets,    \* credentials that exist before 035, by row and column
  None

Tables == 1
DropPlaintext == 2
Files == {Tables, DropPlaintext}
Sums == {Checksum[b][f] : b \in Builds, f \in Files}

ASSUME MigrationAssumption ==
  /\ Checksum \in [Builds -> [Files -> Sums]] /\ None \notin Sums \cup Procs \cup Builds

VARIABLES
  lock,     \* the process that holds the advisory lock
  ledger,   \* schema_migrations: the checksum of an applied file
  plain,    \* the secrets in the plaintext columns
  cipher,   \* the secrets that can be read from the ciphertext columns
  emptyKey, \* a row of upstream_keys has an empty secret
  held,     \* history: the secrets the database came with
  proc      \* the processes; a read-only one has no use for its build's files

database == <<ledger, plain, cipher, emptyKey, held>>
migrationVars == <<lock, database, proc>>

Down == [phase |-> "down", build |-> None, known |-> [f \in Files |-> None]]

Proc == [phase : {"down", "lock", "migrate", "seed", "load", "up"},
         build : Builds \cup {None},
         known : [Files -> Sums \cup {None}]]

MigrationTypeOK ==
  /\ lock \in Procs \cup {None} /\ ledger \in [Files -> Sums \cup {None}]
  /\ plain \subseteq Secrets /\ cipher \subseteq Secrets /\ held \subseteq Secrets
  /\ emptyKey \in BOOLEAN
  /\ proc \in [Procs -> Proc]

\* A new database, or one of an earlier release with credentials in it.
MigrationInit ==
  /\ lock = None /\ cipher = {} /\ proc = [p \in Procs |-> Down]
  /\ \/ ledger = [f \in Files |-> None] /\ plain = {} /\ emptyKey = FALSE
     \/ /\ \E b \in Builds : ledger = [f \in Files |-> IF f = Tables THEN Checksum[b][f] ELSE None]
        /\ plain \in SUBSET Secrets /\ emptyKey \in BOOLEAN
  /\ held = plain

Exists(f) == ledger[f] # None
OwnSum(p, f) == Checksum[proc[p].build][f]
At(p, phase) == proc[p].phase = phase
Goto(p, phase) == proc' = [proc EXCEPT ![p].phase = phase]

\* A process starts.  A read-only one goes to its snapshot at once.
Start(p) ==
  /\ At(p, "down")
  /\ \/ \E b \in Builds : proc' = [proc EXCEPT ![p].phase = "lock", ![p].build = b]
     \/ Goto(p, "load")
  /\ UNCHANGED <<lock, database>>

ReadOnly(p) == proc[p].build = None

\* The list of applied files is read under the lock.
Locked(p) == lock' = p /\ proc' = [proc EXCEPT ![p].phase = "migrate", ![p].known = ledger]

\* Mutant: the lock is tried, and whoever does not get it goes on.
LockOrSkip(p) ==
  /\ At(p, "lock") /\ UNCHANGED database
  /\ IF lock = None THEN Locked(p) ELSE UNCHANGED lock /\ Goto(p, "seed")

Lock(p) == At(p, "lock") /\ lock = None /\ Locked(p) /\ UNCHANGED database

Pending(p) == {f \in Files : proc[p].known[f] = None}
Changed(p, f) == proc[p].known[f] \notin {None, OwnSum(p, f)}

\* The first file that was not applied, if no earlier one was changed since.
NextFile(p, f) ==
  /\ f \in Pending(p)
  /\ \A g \in Files : g < f => g \notin Pending(p) /\ ~Changed(p, g)

\* What sealCredential encrypts with a deployment key, or without one.
Sealed(key) == IF key THEN plain ELSE {}

\* Mutant: 035 passes over what it cannot encrypt.
EncryptedSome(key) == cipher' = cipher \cup Sealed(key)

\* encryptPlaintextCredentials and verify
Encrypted(key) == Sealed(key) = plain /\ ~emptyKey /\ cipher' = cipher \cup plain

\* One file's transaction.  Creating what exists already fails.
Migrate(p, f) ==
  /\ At(p, "migrate") /\ NextFile(p, f)
  /\ ~Exists(f)
  /\ CASE f = Tables -> UNCHANGED <<plain, cipher>>
       [] f = DropPlaintext -> (\E key \in BOOLEAN : Encrypted(key)) /\ plain' = {}
  /\ ledger' = [ledger EXCEPT ![f] = OwnSum(p, f)]
  /\ proc' = [proc EXCEPT ![p].known[f] = OwnSum(p, f)]
  /\ UNCHANGED <<lock, emptyKey, held>>

\* All files are applied: the lock is released.
Migrated(p) ==
  /\ At(p, "migrate") /\ Pending(p) = {} /\ \A f \in Files : ~Changed(p, f)
  /\ lock' = None /\ proc' = [proc EXCEPT ![p].phase = "seed", ![p].known = Down.known]
  /\ UNCHANGED database

\* The process stops: a file was changed or fails, the two minutes are over,
\* or it crashes.  Its connection closes, which releases the lock.
Stop(p) ==
  /\ ~At(p, "down")
  /\ proc' = [proc EXCEPT ![p] = Down]
  /\ lock' = IF lock = p THEN None ELSE lock
  /\ UNCHANGED database
================================================================================
