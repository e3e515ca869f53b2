------------------------------- MODULE HubImport -------------------------------
(***************************************************************************)
(* Importing an all-api-hub backup (admin/hubsync.go, admin/import_api.go, *)
(* admin/import_cookie.go, store/hubsync.go, store/channels.go).           *)
(*                                                                         *)
(* Every sla-core replica has a loop that runs a synchronisation when one  *)
(* is due, and serves the request that runs one at once.  A run fetches    *)
(* the backup from WebDAV, imports it item by item, disables the channels  *)
(* the backup no longer lists and records itself.  Runs exclude each other *)
(* by a flag of the process and an advisory lock.  Somebody may at the     *)
(* same time upload a file, which imports it under no lock, edit channels  *)
(* and change the configuration.                                           *)
(*                                                                         *)
(* A channel is identified with its normalised address, which is unique in *)
(* the table.  The import of Keys that follows an item is KeyRegistry's.   *)
(***************************************************************************)
EXTENDS Integers, FiniteSets

CONSTANTS
  Replicas,         \* sla-core processes
  Uploads,          \* requests that import an uploaded file
  Sites,            \* normalised addresses
  HubAccounts,         \* accounts the extension may export
  SiteOf,           \* the site of an account
  CookieAccounts,   \* those exported with a Cookie rather than a token
  Tokens,           \* credentials the export may hold
  MaxEvents,        \* bound: steps of people, of the extension, lost sessions
  Nothing

ASSUME HubAssumption ==
  /\ SiteOf \in [HubAccounts -> Sites]
  /\ CookieAccounts \subseteq HubAccounts
  /\ MaxEvents \in Nat
  /\ IsFiniteSet(Replicas) /\ IsFiniteSet(Uploads)
  /\ Replicas # {} /\ Replicas \cap Uploads = {}
  /\ Nothing \notin Replicas /\ Nothing \notin HubAccounts /\ Nothing \notin Tokens

VARIABLES
  channel,   \* the row of channels with an address, if there is one
  accountRows,      \* how many rows of upstream_accounts an account has
  cred,      \* the credential stored for an account
  config,    \* hub_sync_config: the switch, the mode and whether it has an address
  due,       \* the interval since the last recorded run has passed
  lock,      \* owner of the advisory lock hub-sync
  loop,      \* each replica's loop: idle, past its check, or running
  run,       \* the import each replica and each upload has under way
  file,      \* WebDAV: the backup the extension keeps there
  events,    \* those of MaxEvents so far
  drops      \* sessions lost so far

hubVars == <<channel, accountRows, cred, config, due, lock, loop, run, file, events, drops>>

HubParties == Replicas \cup Uploads

\* An export tells of an account: not listed (Nothing), listed without a
\* credential ("bare"), or listed with one.  ParseHubBackup.
Files == [HubAccounts -> Tokens \cup {"bare", Nothing}]

\* The statuses "disabled" of a channel differ in their disabled_reason.
\* detected: its site family and its detection snapshot are there.
Channel == [source : {"manual", "hub"}, detected : BOOLEAN,
            status : {"enabled", "by_hand", "removed"}]

\* What importOne finds missing: the channel itself, or the parts of it
\* that incompleteParts names.
Parts == {"channel", "account", "credential", "detected"}

Run == [stage : {"load", "fetch", "import", "record"}, force : BOOLEAN,
        dry : BOOLEAN, file : Files \cup {Nothing}, todo : SUBSET HubAccounts,
        item : HubAccounts \cup {Nothing}, missing : SUBSET Parts,
        failed : BOOLEAN, wrote : BOOLEAN]

Config == {c \in [enabled : BOOLEAN, mode : {"report", "import"}, url : BOOLEAN] :
             c.enabled => c.url}

HubTypeOK ==
  /\ channel \in [Sites -> Channel \cup {Nothing}]
  /\ accountRows \in [HubAccounts -> 0..Cardinality(HubParties)]
  /\ cred \in [HubAccounts -> Tokens \cup {Nothing}]
  /\ config \in Config /\ due \in BOOLEAN
  /\ lock \in Replicas \cup {Nothing}
  /\ loop \in [Replicas -> {"idle", "due", "run"}]
  /\ run \in [HubParties -> Run \cup {Nothing}]
  /\ file \in Files
  /\ events \in 0..MaxEvents /\ drops \in 0..events

ASSUME NothingAssumption == Nothing \notin Channel /\ Nothing \notin Files /\ Nothing \notin Run

\* An address is free, or has the channel somebody made by hand, or one that
\* came from a backup, with an account, and was disabled by hand.
HubInit ==
  /\ channel \in [Sites -> {Nothing,
       [source |-> "manual", detected |-> FALSE, status |-> "enabled"],
       [source |-> "hub", detected |-> TRUE, status |-> "by_hand"]}]
  /\ \A s \in Sites : channel[s] # Nothing /\ channel[s].source = "hub" =>
       \E a \in HubAccounts : SiteOf[a] = s
  /\ accountRows = [a \in HubAccounts |->
       IF channel[SiteOf[a]] # Nothing /\ channel[SiteOf[a]].source = "hub" THEN 1 ELSE 0]
  /\ cred = [a \in HubAccounts |-> Nothing]
  /\ config = [enabled |-> TRUE, mode |-> "import", url |-> TRUE] /\ due = TRUE
  /\ lock = Nothing
  /\ loop = [r \in Replicas |-> "idle"]
  /\ run = [p \in HubParties |-> Nothing]
  /\ file \in {[a \in HubAccounts |-> t] : t \in Tokens}
  /\ events = 0 /\ drops = 0

Counted == events < MaxEvents /\ events' = events + 1

InBackup(f) == {a \in HubAccounts : f[a] # Nothing}

-------------------------------------------------------------------------------
\* The loop and the request that run a synchronisation

\* hubSyncTickOnce up to hubSyncDue.
Tick(r) ==
  /\ loop[r] = "idle" /\ config.enabled /\ config.url /\ due
  /\ loop' = [loop EXCEPT ![r] = "due"]
  /\ UNCHANGED <<channel, accountRows, cred, config, due, lock, run, file, events, drops>>

Fresh(force) == [stage |-> "load", force |-> force, dry |-> FALSE, file |-> Nothing,
                 todo |-> {}, item |-> Nothing, missing |-> {},
                 failed |-> FALSE, wrote |-> FALSE]

\* Mutant: only the flag of the process is consulted.
GrabByFlag(r, force) ==
  /\ run[r] = Nothing
  /\ lock' = r
  /\ run' = [run EXCEPT ![r] = Fresh(force)]
  /\ UNCHANGED <<channel, accountRows, cred, config, due, file, events, drops>>

\* The process has no run under way (hubSyncBusy) and the lock is free.
Grab(r, force) ==
  /\ run[r] = Nothing /\ lock = Nothing
  /\ lock' = r
  /\ run' = [run EXCEPT ![r] = Fresh(force)]
  /\ UNCHANGED <<channel, accountRows, cred, config, due, file, events, drops>>

\* hubSyncTickOnce from the flag on: the run starts, ...
Schedule(r) ==
  /\ loop[r] = "due"
  /\ loop' = [loop EXCEPT ![r] = "run"]
  /\ Grab(r, FALSE)

\* ... or is left to the one that holds the flag or the lock.
GiveUp(r) ==
  /\ loop[r] = "due" /\ ~(run[r] = Nothing /\ lock = Nothing)
  /\ loop' = [loop EXCEPT ![r] = "idle"]
  /\ UNCHANGED <<channel, accountRows, cred, config, due, lock, run, file, events, drops>>

\* runHubSyncNow, when it does not answer with an error.
RunNow(r) == config.url /\ UNCHANGED loop /\ \E force \in BOOLEAN : Grab(r, force)

\* The run returns: the lock is released and the flag cleared.
EndRun(r) ==
  /\ run' = [run EXCEPT ![r] = Nothing]
  /\ lock' = IF lock = r THEN Nothing ELSE lock
  /\ loop' = [loop EXCEPT ![r] = IF @ = "run" THEN "idle" ELSE @]

-------------------------------------------------------------------------------
\* RunHubSync

\* It reads the configuration again; without an address it only returns.
LoadConfig(r) ==
  /\ run[r] # Nothing /\ run[r].stage = "load"
  /\ IF config.url
     THEN /\ run' = [run EXCEPT ![r].stage = "fetch", ![r].force = FALSE,
                     ![r].dry = ~run[r].force /\ config.mode # "import"]
          /\ UNCHANGED <<lock, loop>>
     ELSE EndRun(r)
  /\ UNCHANGED <<channel, accountRows, cred, config, due, file, events, drops>>

\* The backup is fetched, decrypted and parsed: one without any entry is an
\* error, so an empty list is one without a usable address.  A site that does not
\* answer or is of no known family is skipped: like an item that fails.
Fetch(r) ==
  /\ run[r] # Nothing /\ run[r].stage = "fetch"
  /\ run' = [run EXCEPT ![r].stage = "import", ![r].file = file,
             ![r].todo = IF run[r].dry THEN {} ELSE InBackup(file)]
  /\ UNCHANGED <<channel, accountRows, cred, config, due, lock, loop, file, events, drops>>

FetchFails(r) ==
  /\ run[r] # Nothing /\ run[r].stage = "fetch"
  /\ run' = [run EXCEPT ![r].stage = "record", ![r].failed = TRUE]
  /\ UNCHANGED <<channel, accountRows, cred, config, due, lock, loop, file, events, drops>>

\* importAllAPIHub with a file of the client's (without dry_run).
Upload(u) ==
  /\ run[u] = Nothing
  /\ Counted
  /\ \E f \in Files :
       run' = [run EXCEPT ![u] = [Fresh(FALSE) EXCEPT
                 !.stage = "import", !.file = f, !.todo = InBackup(f)]]
  /\ UNCHANGED <<channel, accountRows, cred, config, due, lock, loop, file, drops>>

-------------------------------------------------------------------------------
\* importOne, one transaction per item

Importing(p) == run[p] # Nothing /\ run[p].stage = "import"

\* Mutant: an item with a Cookie takes no lock.
LocksNothing(p, s) == FALSE

\* The row of channels that the transaction of p has locked FOR UPDATE: an
\* item with a Cookie locks the channel it has found.
Locks(p, s) ==
  /\ run[p] # Nothing /\ run[p].item \in CookieAccounts
  /\ SiteOf[run[p].item] = s /\ "channel" \notin run[p].missing

Free(p, s) == \A q \in HubParties \ {p} : ~Locks(q, s)

\* Mutant: a channel without its detection snapshot counts as complete.
MissingRowsOnly(a, exported) ==
  IF channel[SiteOf[a]] = Nothing THEN Parts
  ELSE {part \in Parts :
          \/ part = "account" /\ accountRows[a] = 0
          \/ part = "credential" /\ cred[a] = Nothing /\ exported \in Tokens}

\* incompleteParts, or everything when ListChannels shows no such channel.
Missing(a, exported) ==
  IF channel[SiteOf[a]] = Nothing THEN Parts
  ELSE {part \in Parts :
          \/ part = "account" /\ accountRows[a] = 0
          \/ part = "credential" /\ cred[a] = Nothing /\ exported \in Tokens
          \/ part = "detected" /\ ~channel[SiteOf[a]].detected}

\* The reads of the transaction, which the writes rely on.
Look(p, a) ==
  /\ Importing(p) /\ run[p].item = Nothing /\ a \in run[p].todo
  /\ a \in CookieAccounts => Free(p, SiteOf[a])
  /\ run' = [run EXCEPT ![p].item = a, ![p].todo = @ \ {a},
             ![p].missing = Missing(a, run[p].file[a])]
  /\ UNCHANGED <<channel, accountRows, cred, config, due, lock, loop, file, events, drops>>

\* The credential after the import of item a: a repair leaves the one that
\* is there, but saves a Cookie in any case.
Stored(a, exported, missing) ==
  IF /\ exported \in Tokens
     /\ missing = {} \/ cred[a] = Nothing \/ a \in CookieAccounts
  THEN exported ELSE cred[a]

\* The unique address rejects a second channel.
CreatedWhole(s) ==
  /\ channel[s] = Nothing
  /\ channel' = [channel EXCEPT ![s] =
       [source |-> "hub", detected |-> TRUE, status |-> "enabled"]]

\* AdoptChannelBySource
Adopted(s) == channel' = [channel EXCEPT ![s].source = "hub"]

\* repairChannel
Repaired(s, missing) ==
  channel' = [channel EXCEPT ![s].detected = @ \/ "detected" \in missing]

Commit(p) ==
  /\ Importing(p) /\ run[p].item # Nothing
  /\ LET a == run[p].item
         missing == run[p].missing
     IN /\ Free(p, SiteOf[a])
        /\ IF "channel" \in missing THEN CreatedWhole(SiteOf[a])
           ELSE IF missing = {} THEN Adopted(SiteOf[a])
           ELSE Repaired(SiteOf[a], missing)
        /\ accountRows' = [accountRows EXCEPT ![a] = @ + (IF "account" \in missing THEN 1 ELSE 0)]
        /\ cred' = [cred EXCEPT ![a] = Stored(a, run[p].file[a], missing)]
  /\ run' = [run EXCEPT ![p].item = Nothing, ![p].missing = {}, ![p].wrote = TRUE]
  /\ UNCHANGED <<config, due, lock, loop, file, events, drops>>

\* Anything in the item fails: it is rolled back and marked, the next follows.
ItemFails(p) ==
  /\ Importing(p) /\ run[p].item # Nothing
  /\ run' = [run EXCEPT ![p].item = Nothing, ![p].missing = {}]
  /\ UNCHANGED <<channel, accountRows, cred, config, due, lock, loop, file, events, drops>>

Imported(p) == Importing(p) /\ run[p].item = Nothing /\ run[p].todo = {}

\* The response to an upload.
UploadEnds(u) ==
  /\ Imported(u)
  /\ run' = [run EXCEPT ![u] = Nothing]
  /\ UNCHANGED <<channel, accountRows, cred, config, due, lock, loop, file, events, drops>>

-------------------------------------------------------------------------------
\* The end of a synchronisation

\* keepBaseURLs: every site of the backup, whatever became of its items.
Keep(f) == {SiteOf[a] : a \in InBackup(f)}

\* Mutant: a channel disabled by hand is disabled once more.
HubRemovedAgain(keep) ==
  {s \in Sites : /\ keep # {} /\ s \notin keep /\ channel[s] # Nothing
                 /\ channel[s].source = "hub"}

\* What DisableHubRemovedChannels selects; HubRemovedChannels only lists it.
HubRemoved(keep) ==
  {s \in Sites : /\ keep # {} /\ s \notin keep /\ channel[s] # Nothing
                 /\ channel[s].source = "hub" /\ channel[s].status = "enabled"}

\* disableHubRemoved, which a dry run does not do and which may fail.
DisableHubRemoved(r) ==
  /\ Imported(r)
  /\ LET gone == IF run[r].dry THEN {} ELSE HubRemoved(Keep(run[r].file))
     IN /\ \A s \in gone : Free(r, s)
        /\ \E disabled \in {{}, gone} :
             /\ channel' = [s \in Sites |->
                  IF s \in disabled THEN [channel[s] EXCEPT !.status = "removed"]
                  ELSE channel[s]]
             /\ run' = [run EXCEPT ![r].stage = "record", ![r].file = Nothing,
                        ![r].wrote = @ \/ disabled # {}]
  /\ UNCHANGED <<accountRows, cred, config, due, lock, loop, file, events, drops>>

\* Mutant: the mode is read when the row is written.
RowOfLaterMode(r) ==
  [applied |-> config.mode = "import" /\ ~run[r].failed, wrote |-> run[r].wrote]

\* The row of hub_sync_runs that RunHubSync writes, and whether the run wrote.
Row(r) == [applied |-> ~run[r].dry /\ ~run[r].failed, wrote |-> run[r].wrote]

\* It is inserted, or lost when no connection is to be had; the callers of
\* RunHubSync then release the lock and the flag.
Record(r) ==
  /\ run[r] # Nothing /\ run[r].stage = "record"
  /\ due' \in {FALSE, due}
  /\ EndRun(r)
  /\ UNCHANGED <<channel, accountRows, cred, config, file, events, drops>>

-------------------------------------------------------------------------------
\* Faults and the environment

\* The process stops: its context ends every statement, nothing is recorded.
Stop(r) ==
  /\ run[r] # Nothing \/ loop[r] # "idle"
  /\ run' = [run EXCEPT ![r] = Nothing]
  /\ lock' = IF lock = r THEN Nothing ELSE lock
  /\ loop' = [loop EXCEPT ![r] = "idle"]
  /\ UNCHANGED <<channel, accountRows, cred, config, due, file, events, drops>>

\* The PostgreSQL session that owns the lock ends; the run knows nothing of it.
Drop ==
  /\ lock # Nothing /\ Counted
  /\ lock' = Nothing /\ drops' = drops + 1
  /\ UNCHANGED <<channel, accountRows, cred, config, due, loop, run, file>>

\* The interval since the last recorded run passes.
Elapse ==
  /\ ~due /\ due' = TRUE
  /\ UNCHANGED <<channel, accountRows, cred, config, lock, loop, run, file, events, drops>>

\* The extension writes another backup.
Export ==
  /\ Counted
  /\ file' \in Files \ {file}
  /\ UNCHANGED <<channel, accountRows, cred, config, due, lock, loop, run, drops>>

\* Mutant: the switch is accepted without an address.
PutAnyConfig ==
  /\ Counted
  /\ config' \in [enabled : BOOLEAN, mode : {"report", "import"}, url : BOOLEAN]
  /\ UNCHANGED <<channel, accountRows, cred, due, lock, loop, run, file, drops>>

\* putHubSync
PutConfig ==
  /\ Counted
  /\ config' \in Config \ {config}
  /\ UNCHANGED <<channel, accountRows, cred, due, lock, loop, run, file, drops>>

\* createChannel, whose detection is optional.
CreateByHand(s) ==
  /\ channel[s] = Nothing /\ Counted
  /\ \E detected \in BOOLEAN :
       channel' = [channel EXCEPT ![s] =
         [source |-> "manual", detected |-> detected, status |-> "enabled"]]
  /\ UNCHANGED <<accountRows, cred, config, due, lock, loop, run, file, drops>>

\* patchChannel of the status.
PatchStatus(s) ==
  /\ channel[s] # Nothing /\ \A p \in HubParties : ~Locks(p, s)
  /\ Counted
  /\ \E status \in {"enabled", "by_hand"} \ {channel[s].status} :
       channel' = [channel EXCEPT ![s].status = status]
  /\ UNCHANGED <<accountRows, cred, config, due, lock, loop, run, file, drops>>

HubNext ==
  \/ \E r \in Replicas :
       \/ Tick(r) \/ Schedule(r) \/ GiveUp(r) \/ RunNow(r)
       \/ LoadConfig(r) \/ Fetch(r) \/ FetchFails(r)
       \/ DisableHubRemoved(r) \/ Record(r) \/ Stop(r)
  \/ \E p \in HubParties :
       (\E a \in HubAccounts : Look(p, a)) \/ Commit(p) \/ ItemFails(p)
  \/ \E u \in Uploads : Upload(u) \/ UploadEnds(u)
  \/ Drop \/ Elapse \/ Export \/ PutConfig
  \/ \E s \in Sites : CreateByHand(s) \/ PatchStatus(s)

HubSpec == HubInit /\ [][HubNext]_hubVars

-------------------------------------------------------------------------------
\* Properties

\* No step but a person's takes a channel out of "disabled by hand" or enables
\* it, and a synchronisation disables a channel only when it came from a
\* backup, was enabled, and the whole backup of that run, which lists other
\* sites, does not list its site: a site that merely failed to answer, or whose
\* import failed, stays enabled (keepBaseURLs, DisableHubRemovedChannels).
OnlyAbsenceDisables ==
  [][\A s \in Sites :
       /\ channel[s] # Nothing /\ events' = events
       /\ channel'[s].status # channel[s].status
       => /\ channel[s].source = "hub" /\ channel[s].status = "enabled"
          /\ channel'[s].status = "removed"
          /\ \E r \in Replicas :
               /\ run[r] # Nothing /\ ~run[r].dry /\ run[r].file # Nothing
               /\ InBackup(run[r].file) # {}
               /\ \A a \in InBackup(run[r].file) : SiteOf[a] # s]_hubVars

\* A row of the history that says nothing was applied, because the run failed
\* or only reported, tells the truth, even when the mode was changed while it
\* ran (RunHubSync: a failed run is not to look as if it had built channels).
RecordTellsTruth ==
  \A r \in Replicas : run[r] # Nothing /\ run[r].stage = "record" =>
    (Row(r).wrote => Row(r).applied)

\* Two synchronisations run at once only when a session that held the lock was
\* lost: the replicas' loops and requests exclude each other otherwise
\* (tryHubSyncLock, hubSyncBusy).
OneRun == Cardinality({r \in Replicas : run[r] # Nothing}) <= 1 + drops

\* An account exported with a Cookie never gets a second row, whatever imports
\* overlap: importOne decides under the lock of the channel's row.
OneRowPerCookieAccount == \A a \in CookieAccounts : accountRows[a] <= 1

\* A channel that follows the backup can be collected: it has its detection
\* snapshot and an account.  Creation is all or nothing, and only a complete
\* channel is adopted (importOne).
HubIsCollectable ==
  \A s \in Sites : channel[s] # Nothing /\ channel[s].source = "hub" =>
    /\ channel[s].detected
    /\ \E a \in HubAccounts : SiteOf[a] = s /\ accountRows[a] > 0
================================================================================
