--------------------------- MODULE ChannelSessions ---------------------------
(***************************************************************************)
(* Who talks to a channel's upstream, and with which database connections. *)
(*                                                                         *)
(* A worker of the periodic collector (collection/service.go), a request   *)
(* for a manual sync (admin/upstream_api.go) and an import of the channel's*)
(* Keys (collection/runner.go) all take a connection from the pool of      *)
(* their process (store/pool.go), try the channel's advisory lock on it,   *)
(* and keep it for as long as they work.  The work takes more connections  *)
(* meanwhile: to load the credentials, to renew a token, to reserve a slot *)
(* of the site's rate limit (store/host_rate_limit.go), to save what was   *)
(* read.  One process is modelled in full, the others as owners of locks.  *)
(* The provisioning of Keys (KeyRegistry) takes the automation lock and no *)
(* channel's: it is none of these sessions.                                *)
(*                                                                         *)
(* A step that waits for a connection is followed by the step that has it. *)
(***************************************************************************)
EXTENDS Integers, FiniteSets

CONSTANTS
  Channels,
  Workers,       \* goroutines of runTasks
  Requests,      \* manual syncs that may be in flight
  Imports,       \* imports of Keys that may be in flight
  PoolSize,      \* MaxConns of the pool
  MinInterval,   \* sync_min_interval_s, in ticks
  Free, Others,  \* a lock's owner: nobody, a session of another process
  None,          \* the channel of a session that has none
  MaxCrashes     \* bound: crashes of the process in a behaviour

Sessions == Workers \cup Requests \cup Imports

ASSUME SessionsAssumption ==
  /\ IsFiniteSet(Sessions)
  /\ Workers \cap Requests = {} /\ Workers \cap Imports = {} /\ Requests \cap Imports = {}
  /\ Free \notin Sessions /\ Others \notin Sessions /\ Free # Others
  /\ None \notin Channels
  /\ PoolSize \in Nat \ {0} /\ MinInterval \in Nat /\ MaxCrashes \in Nat

VARIABLES
  pc,       \* where each session is
  chan,     \* the channel it works on
  reached,  \* syncChannel.reachedUpstream, and nothing for the others
  lock,     \* the owner of each channel's advisory lock
  window,   \* syncGuard.last: ticks until a manual sync is allowed again
  quota,    \* the channels whose quota_per_unit is known (or not needed)
  sent,     \* history: the manual syncs in flight that sent a request
  crashes

vars == <<pc, chan, reached, lock, window, quota, sent, crashes>>

\* Mutant: the connection the credentials were loaded on is kept for the work.
HeldForWork == [idle |-> 0, conn |-> 0, lock |-> 1,
         creds |-> 1, load |-> 2, probe |-> 2, probing |-> 3, probed |-> 2,
         renew |-> 2, renewing |-> 3, slot |-> 3, reserving |-> 4, renewed |-> 3,
         fetch |-> 2, fetching |-> 3, read |-> 2, save |-> 2, saving |-> 3,
         unlock |-> 1, release |-> 0]

\* Connections a session holds in each step; creds, probe, renew, slot, fetch
\* and save wait for one more, conn for the first.
Held == [idle |-> 0, conn |-> 0, lock |-> 1,
         creds |-> 1, load |-> 2, probe |-> 2, probing |-> 3, probed |-> 2,
         renew |-> 1, renewing |-> 2, slot |-> 2, reserving |-> 3, renewed |-> 2,
         fetch |-> 1, fetching |-> 2, read |-> 1, save |-> 1, saving |-> 2,
         unlock |-> 1, release |-> 0]
Steps == DOMAIN Held

\* The step that follows when the connection waited for is there.
Granted == [conn |-> "lock", creds |-> "load", probe |-> "probing", renew |-> "renewing",
            slot |-> "reserving", fetch |-> "fetching", save |-> "saving"]
Waiting == DOMAIN Granted

\* LoadCredentials: whatever fails in there is a failed precondition.
Loading == {"creds", "load", "probe", "probing", "probed"}
Working == Steps \ {"idle", "conn", "lock", "unlock", "release"}
Owning == Working \cup {"unlock"}

\* The connections in use: the first, the second, ... of each session.
Connections == UNION {{s} \X (1..Held[pc[s]]) : s \in Sessions}
InUse == Cardinality(Connections)

TypeOK ==
  /\ pc \in [Sessions -> Steps]
  /\ chan \in [Sessions -> Channels \cup {None}]
  /\ reached \in [Requests -> BOOLEAN]
  /\ lock \in [Channels -> Sessions \cup {Free, Others}]
  /\ window \in [Channels -> 0..MinInterval]
  /\ quota \in SUBSET Channels
  /\ sent \in SUBSET Requests
  /\ crashes \in 0..MaxCrashes

Init ==
  /\ pc = [s \in Sessions |-> "idle"]
  /\ chan = [s \in Sessions |-> None]
  /\ reached = [r \in Requests |-> FALSE]
  /\ lock = [c \in Channels |-> Free]
  /\ window = [c \in Channels |-> 0]
  /\ quota \in SUBSET Channels
  /\ sent = {}
  /\ crashes = 0

Go(s, step) == pc' = [pc EXCEPT ![s] = step]

\* A request in flight notes that it sent something to the upstream.
NoteSent(s) == sent' = sent \cup ({s} \cap Requests)

(***************************************************************************)
(* How a session starts.                                                   *)
(***************************************************************************)

\* A round hands each channel to one worker.
WorkerTakes(w, c) ==
  /\ pc[w] = "idle"
  /\ \A v \in Workers : pc[v] # "idle" => chan[v] # c
  /\ Go(w, "conn")
  /\ chan' = [chan EXCEPT ![w] = c]
  /\ UNCHANGED <<reached, lock, window, quota, sent, crashes>>

\* syncGuard.running of a channel
Running(c) == \E r \in Requests : pc[r] # "idle" /\ chan[r] = c

\* Mutant: the guard knows the interval and not who is running.
ManualStartTwice(r, c) ==
  /\ pc[r] = "idle"
  /\ window[c] = 0
  /\ Go(r, "conn")
  /\ chan' = [chan EXCEPT ![r] = c]
  /\ UNCHANGED <<reached, lock, window, quota, sent, crashes>>


ManualStart(r, c) ==
  /\ pc[r] = "idle"
  /\ ~Running(c)
  /\ window[c] = 0
  /\ Go(r, "conn")
  /\ chan' = [chan EXCEPT ![r] = c]
  /\ UNCHANGED <<reached, lock, window, quota, sent, crashes>>

ImportStart(i, c) ==
  /\ pc[i] = "idle"
  /\ Go(i, "conn")
  /\ chan' = [chan EXCEPT ![i] = c]
  /\ UNCHANGED <<reached, lock, window, quota, sent, crashes>>

\* Acquire: a session waits until a connection is free, and gets it.
Connect(s) ==
  /\ pc[s] \in Waiting
  /\ InUse < PoolSize
  /\ Go(s, Granted[pc[s]])
  /\ UNCHANGED <<chan, reached, lock, window, quota, sent, crashes>>

\* The client goes away while its request waits for the first connection.
Dropped(r) ==
  /\ pc[r] = "conn"
  /\ Go(r, "release")
  /\ UNCHANGED <<chan, reached, lock, window, quota, sent, crashes>>

(***************************************************************************)
(* The channel's advisory lock, tried and never waited for.                *)
(***************************************************************************)

\* The channel is unknown or disabled, the query failed, or the lock is taken.
Turned(s) ==
  /\ pc[s] = "lock"
  /\ Go(s, "release")
  /\ UNCHANGED <<chan, reached, lock, window, quota, sent, crashes>>

\* Mutant: the result of pg_try_advisory_lock is not looked at.
LockedUnseen(s) ==
  /\ pc[s] = "lock"
  /\ lock' = [lock EXCEPT ![chan[s]] = s]
  /\ \E step \in IF s \in Imports THEN {"renew", "fetch"} ELSE {"creds"} : Go(s, step)
  /\ UNCHANGED <<chan, reached, window, quota, sent, crashes>>

\* An import loaded the account's credentials before, on the same connection.
Locked(s) ==
  /\ pc[s] = "lock"
  /\ lock[chan[s]] = Free
  /\ lock' = [lock EXCEPT ![chan[s]] = s]
  /\ \E step \in IF s \in Imports THEN {"renew", "fetch"} ELSE {"creds"} : Go(s, step)
  /\ UNCHANGED <<chan, reached, window, quota, sent, crashes>>

(***************************************************************************)
(* The work.  An error ends it: the lock is given back and the request is  *)
(* answered, with reached unless the error is a failed precondition.       *)
(***************************************************************************)
Answer(s, up) ==
  /\ Go(s, "unlock")
  /\ reached' = IF s \in Requests THEN [reached EXCEPT ![s] = up] ELSE reached

\* Each account's token is renewed when due, then the account is read.
Accounts(s) == (Go(s, "renew") \/ Go(s, "fetch")) /\ UNCHANGED reached

Load(s) ==
  /\ pc[s] = "load"
  /\ \/ chan[s] \in quota /\ Accounts(s)
     \/ chan[s] \notin quota /\ Go(s, "probe") /\ UNCHANGED reached
     \/ Answer(s, FALSE)
  /\ UNCHANGED <<chan, lock, window, quota, sent, crashes>>

\* Wait of the limiter gives the connection back, sleeps, and the request goes out.
Send(s) ==
  /\ \/ pc[s] = "probing" /\ Go(s, "probed")
     \/ pc[s] = "reserving" /\ Go(s, "renewed")
     \/ pc[s] = "fetching" /\ Go(s, "read")
  /\ NoteSent(s)
  /\ UNCHANGED <<chan, reached, lock, window, quota, crashes>>

\* Detect came back: quota_per_unit is saved, or it is missing.
Probed(s) ==
  /\ pc[s] = "probed"
  /\ \/ quota' = quota \cup {chan[s]} /\ Accounts(s)
     \/ Answer(s, FALSE) /\ UNCHANGED quota
  /\ UNCHANGED <<chan, lock, window, sent, crashes>>

\* Under the refresh lock: another session renewed it already, the token is
\* renewed, or it cannot be (relogin needed: a failed precondition).
Renewing(s) ==
  /\ pc[s] = "renewing"
  /\ \/ Go(s, "fetch") /\ UNCHANGED reached
     \/ Go(s, "slot") /\ UNCHANGED reached
     \/ Answer(s, FALSE)
  /\ UNCHANGED <<chan, lock, window, quota, sent, crashes>>

Renewed(s) ==
  /\ pc[s] = "renewed"
  /\ \/ Accounts(s)
     \/ Answer(s, TRUE)
  /\ UNCHANGED <<chan, lock, window, quota, sent, crashes>>

\* An import writes what it read on the connection it has.
Read(s) ==
  /\ pc[s] = "read"
  /\ \/ Accounts(s)
     \/ s \notin Imports /\ Go(s, "save") /\ UNCHANGED reached
     \/ Answer(s, TRUE)
  /\ UNCHANGED <<chan, lock, window, quota, sent, crashes>>

Saving(s) ==
  /\ pc[s] = "saving"
  /\ \/ Go(s, "fetch") /\ UNCHANGED reached
     \/ Answer(s, TRUE)
  /\ UNCHANGED <<chan, lock, window, quota, sent, crashes>>

\* Mutant: Acquire is given a context without the deadline.
TimeoutOfWorkOnly(s) ==
  /\ pc[s] \in Working \ Waiting
  /\ Answer(s, pc[s] \notin Loading)
  /\ UNCHANGED <<chan, lock, window, quota, sent, crashes>>

\* The deadline of the session passes, or its client goes away: whatever it
\* does or waits for returns.
Timeout(s) ==
  /\ pc[s] \in Working
  /\ Answer(s, pc[s] \notin Loading)
  /\ UNCHANGED <<chan, lock, window, quota, sent, crashes>>

(***************************************************************************)
(* The deferred calls: the lock, the connection, then the guard.           *)
(***************************************************************************)
Unlock(s) ==
  /\ pc[s] = "unlock"
  /\ lock' = [lock EXCEPT ![chan[s]] = Free]
  /\ Go(s, "release")
  /\ UNCHANGED <<chan, reached, window, quota, sent, crashes>>


Release(s) ==
  /\ pc[s] = "release"
  /\ Go(s, "idle")
  /\ window' = IF s \in Requests /\ reached[s]
               THEN [window EXCEPT ![chan[s]] = MinInterval] ELSE window
  /\ chan' = [chan EXCEPT ![s] = None]
  /\ reached' = IF s \in Requests THEN [reached EXCEPT ![s] = FALSE] ELSE reached
  /\ sent' = sent \ {s}
  /\ UNCHANGED <<lock, quota, crashes>>

(***************************************************************************)
(* The other processes, time, and a crash of this one: PostgreSQL ends its *)
(* sessions and with them their locks; the guard is memory.                *)
(***************************************************************************)
OthersTake(c) ==
  /\ lock[c] = Free
  /\ lock' = [lock EXCEPT ![c] = Others]
  /\ UNCHANGED <<pc, chan, reached, window, quota, sent, crashes>>

OthersRelease(c) ==
  /\ lock[c] = Others
  /\ lock' = [lock EXCEPT ![c] = Free]
  /\ UNCHANGED <<pc, chan, reached, window, quota, sent, crashes>>

Tick(c) ==
  /\ window[c] > 0
  /\ window' = [window EXCEPT ![c] = @ - 1]
  /\ UNCHANGED <<pc, chan, reached, lock, quota, sent, crashes>>

Crash ==
  /\ crashes < MaxCrashes
  /\ crashes' = crashes + 1
  /\ pc' = [s \in Sessions |-> "idle"]
  /\ chan' = [s \in Sessions |-> None]
  /\ lock' = [c \in Channels |-> IF lock[c] \in Sessions THEN Free ELSE lock[c]]
  /\ window' = [c \in Channels |-> 0]
  /\ reached' = [r \in Requests |-> FALSE]
  /\ sent' = {}
  /\ UNCHANGED quota

\* What a session does once started.
Step(s) ==
  \/ Connect(s) \/ Turned(s) \/ Locked(s)
  \/ Load(s) \/ Send(s) \/ Probed(s) \/ Renewing(s) \/ Renewed(s) \/ Read(s) \/ Saving(s)
  \/ Timeout(s) \/ Unlock(s) \/ Release(s)

Environment ==
  \/ \E c \in Channels : OthersTake(c) \/ OthersRelease(c) \/ Tick(c)
  \/ Crash

Next ==
  \/ \E w \in Workers, c \in Channels : WorkerTakes(w, c)
  \/ \E r \in Requests, c \in Channels : ManualStart(r, c)
  \/ \E i \in Imports, c \in Channels : ImportStart(i, c)
  \/ \E r \in Requests : Dropped(r)
  \/ \E s \in Sessions : Step(s)
  \/ Environment

Spec == Init /\ [][Next]_vars

\* Statements and deferred calls run; a deadline passes; the pool serves those
\* who wait in the order they came (puddle), so none waits while others are
\* served for ever.
Fairness ==
  \A s \in Sessions :
    /\ WF_vars(Turned(s) \/ Locked(s))
    /\ WF_vars(Timeout(s))
    /\ WF_vars(Unlock(s))
    /\ WF_vars(Release(s))
    /\ SF_vars(Connect(s))

FairSpec == Spec /\ Fairness

(***************************************************************************)
(* Properties.                                                             *)
(***************************************************************************)

\* Whoever works on a channel owns its advisory lock, so no two of the worker,
\* the manual sync, the import and the other processes ever send to one
\* channel's upstream together, whatever times out, is dropped or crashes
\* (service.go:251, upstream_api.go:455, cookie_access.go:402).
ChannelExclusive == \A s \in Sessions : pc[s] \in Owning => lock[chan[s]] = s

\* No manual sync is in flight on a channel inside the minimum interval after
\* one that reached the upstream, although the interval starts only after the
\* advisory lock was given back (upstream_api.go:337, :439).
IntervalKept ==
  \A r \in Requests : pc[r] # "idle" => window[chan[r]] = 0

\* Nobody but those who wait holds a connection and none is free.
Stalled ==
  /\ InUse = PoolSize
  /\ \A s \in Sessions : Held[pc[s]] > 0 => pc[s] \in Waiting

\* Holding a connection while waiting for the next one can bring everyone to a
\* halt only when half as many sessions as there are connections are in it: the
\* four workers of a round cannot exhaust a pool of twelve (pool.go:73).
StallNeedsCrowd ==
  Stalled => 2 * Cardinality({s \in Sessions : Held[pc[s]] > 0}) >= PoolSize

\* Every session ends, because each of its waits is under its deadline: a
\* pool brought to a halt comes back (service.go:364, upstream_api.go:474,
\* runner.go:79).
SessionEnds == \A s \in Sessions : pc[s] # "idle" ~> pc[s] = "idle"

\* Refuted (upstream_api.go:353): "the window starts only when this attempt
\* really reached the upstream" and a failed precondition is one that did not.
WindowArmed ==
  [][\A r \in sent : pc[r] = "release" /\ pc'[r] = "idle" /\ crashes' = crashes
       => window'[chan[r]] = MinInterval]_vars
=============================================================================
