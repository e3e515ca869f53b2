-------------------------- MODULE CollectorSchedule --------------------------
(***************************************************************************)
(* The periodic collector (internal/collection/service.go): when is each   *)
(* capability of each channel collected again.                             *)
(*                                                                         *)
(* One process loops: list the channels, collect what is due with a few    *)
(* workers, apply the outcomes to the in-memory schedule when the whole    *)
(* round is over, sleep until something is due.  What a collection does    *)
(* upstream, and who else holds the channel's lock, is in ChannelSessions; *)
(* here it is one step with any result.                                    *)
(*                                                                         *)
(* Instants are relative: a nextAt is the ticks left until it (0: reached, *)
(* or unset), a completedAt is the ticks passed since it.                  *)
(***************************************************************************)
EXTENDS Integers, FiniteSets

CONSTANTS
  Channels,
  Capabilities,
  Interval,        \* Schedule.interval: the period of each capability
  BackoffBase,     \* retryBackoffBase
  BackoffMax,      \* retryBackoffMax
  AuthFloor,       \* the five minutes of retryMinimum
  RetryAfters,     \* the Retry-After values upstreams send, 0 for none
  IdleDelay,       \* the 30 seconds Run sleeps when nothing is ahead
  MaxConcurrent,   \* maxConcurrentChannels
  FailureCap,      \* the 63 at which failureCount stops
  MaxDelay,        \* no delay above is longer
  MaxRestarts      \* bound: restarts of the process in a behaviour

ASSUME ScheduleAssumption ==
  /\ IsFiniteSet(Channels)
  /\ Interval \in [Capabilities -> 1..MaxDelay]
  /\ BackoffBase \in 1..MaxDelay /\ BackoffMax \in 1..MaxDelay
  /\ AuthFloor \in 0..MaxDelay /\ RetryAfters \subseteq 0..MaxDelay /\ 0 \in RetryAfters
  /\ IdleDelay \in 1..MaxDelay /\ MaxConcurrent \in Nat \ {0} /\ FailureCap \in Nat \ {0}
  /\ MaxDelay \in Nat /\ MaxRestarts \in Nat

VARIABLES
  enabled,   \* what collectionDisabled denies: status and disabled_until of each channel
  states,    \* Schedule.states
  phase,     \* where Run is
  timer,     \* ticks until the timer of Run fires
  tasks,     \* the channelTask of each channel in this round, then its outcome
  stopping,  \* the context of the process is canceled
  hold,      \* history: ticks until a capability may be asked for again
  restarts

vars == <<enabled, states, phase, timer, tasks, stopping, hold, restarts>>

Smaller(a, b) == IF a <= b THEN a ELSE b
Larger(a, b) == IF a >= b THEN a ELSE b

\* scheduleState; known: there is an entry in the map.
Unknown == [known |-> FALSE, wait |-> 0, fails |-> 0]
State == [known : BOOLEAN, wait : Nat, fails : 0..FailureCap]

\* retryMinimum: the delay an upstream's answer imposes.  "auth" stands for 401,
\* 403 and a recognised authentication failure, "rate" for 429.
RetryMinimum(status, retryAfter) ==
  CASE status = "auth" -> Larger(retryAfter, AuthFloor)
    [] status = "rate" -> IF retryAfter > 0 THEN retryAfter ELSE AuthFloor
    [] OTHER -> retryAfter

Ok == [kind |-> "ok", floor |-> 0]
Skipped == [kind |-> "skipped", floor |-> 0]
Failure(floor) == [kind |-> "failed", floor |-> floor]
Failures == {Failure(RetryMinimum(s, ra)) : s \in {"auth", "rate", "other"}, ra \in RetryAfters}
Result == [kind : {"ok", "skipped"}, floor : {0}] \cup [kind : {"failed"}, floor : Nat]

\* channelTask, later channelOutcome: age is the time since completedAt.
Task == [st : {"none", "queued", "lock", "sync", "done"}, due : SUBSET Capabilities,
         age : Nat, result : [Capabilities -> Result]]
NoTask == [st |-> "none", due |-> {}, age |-> 0, result |-> [k \in Capabilities |-> Ok]]

-----------------------------------------------------------------------------
(***************************************************************************)
(* Schedule                                                                *)
(***************************************************************************)
\* retryDelay before its jitter: the base, doubled for every failure but the
\* first until it reaches the smaller of the period and BackoffMax.
Limit(k) == Smaller(Interval[k], BackoffMax)
Backoff(k, fails) == Smaller(BackoffBase * 2 ^ (fails - 1), Limit(k))

\* The jitter is any amount up to a fifth of the delay, either way.
Spread(k, fails) == Backoff(k, fails) \div 5
Jitters == -(MaxDelay \div 5)..(MaxDelay \div 5)

\* What is left of a delay that began age ticks ago.
Left(delay, age) == IF delay >= age THEN delay - age ELSE 0

Failed(old) == Smaller(old.fails + 1, FailureCap)

\* Mutant: the jitter is applied last, so it can undercut what the upstream asked for.
FailureDelayJitterLast(k, fails, floor, jitter) == Larger(Backoff(k, fails), floor) + jitter

FailureDelay(k, fails, floor, jitter) == Larger(Backoff(k, fails) + jitter, floor)

\* MarkSuccess, MarkFailure and MarkSkipped.
Marked(k, old, result, age, jitter) ==
  CASE result.kind = "ok" ->
         [known |-> TRUE, wait |-> Left(Interval[k], age), fails |-> 0]
    [] result.kind = "failed" ->
         [known |-> TRUE, fails |-> Failed(old),
          wait |-> Left(FailureDelay(k, Failed(old), result.floor, jitter), age)]
    [] OTHER ->
         [known |-> TRUE, wait |-> Left(Backoff(k, 1) + jitter, age), fails |-> old.fails]

\* Mutant: a capability that keeps failing is given up.
DueUnlessHopeless(c) == {k \in Capabilities : states[c][k].wait = 0 /\ states[c][k].fails < FailureCap}

\* Due: no entry, an entry that was never scheduled, or its time has come.
Due(c) == {k \in Capabilities : states[c][k].wait = 0}

\* Due also creates the entries; Prune removes those of the other channels.
Listed(c) == IF enabled[c] THEN [k \in Capabilities |-> [states[c][k] EXCEPT !.known = TRUE]]
                           ELSE [k \in Capabilities |-> Unknown]

\* The waits of the entries that exist.
Waits(sts) == {sts[e[1]][e[2]].wait :
                 e \in {x \in Channels \X Capabilities : sts[x[1]][x[2]].known}}

\* Mutant: the longest of the waits, when none is over.
NextDelayLongest(sts) ==
  LET longest == {w \in Waits(sts) : 0 \notin Waits(sts) /\ \A x \in Waits(sts) : x <= w}
  IN IF longest = {} THEN 0 ELSE CHOOSE w \in longest : TRUE

\* NextDelay: the shortest wait of all the entries, 0 when one is due or none is there.
NextDelay(sts) ==
  LET shortest == {w \in Waits(sts) : w > 0 /\ \A x \in Waits(sts) : w <= x}
  IN IF shortest = {} THEN 0 ELSE CHOOSE w \in shortest : TRUE

\* What Run sleeps after a round.
Pause(sts) == IF NextDelay(sts) = 0 THEN IdleDelay ELSE NextDelay(sts)

-----------------------------------------------------------------------------
(***************************************************************************)
(* Run and RunOnce                                                         *)
(***************************************************************************)
Init ==
  /\ enabled \in [Channels -> BOOLEAN]
  /\ states = [c \in Channels |-> [k \in Capabilities |-> Unknown]]
  /\ phase = "list"
  /\ timer = 0
  /\ tasks = [c \in Channels |-> NoTask]
  /\ stopping = FALSE
  /\ hold = [c \in Channels |-> [k \in Capabilities |-> 0]]
  /\ restarts = 0

\* ListChannels answered: the tasks of the round are what is due now of what is
\* enabled now.  A pruned channel is forgotten with whatever held it back.
List ==
  /\ phase = "list" /\ ~stopping
  /\ states' = [c \in Channels |-> Listed(c)]
  /\ tasks' = [c \in Channels |->
       IF enabled[c] /\ Due(c) # {} THEN [NoTask EXCEPT !.st = "queued", !.due = Due(c)]
                                    ELSE NoTask]
  /\ hold' = [c \in Channels |-> [k \in Capabilities |-> IF enabled[c] THEN hold[c][k] ELSE 0]]
  /\ phase' = "run"
  /\ UNCHANGED <<enabled, timer, stopping, restarts>>

\* RunOnce failed before anything was scheduled; Run sleeps, or leaves when stopping.
ListFails ==
  /\ phase = "list"
  /\ phase' = IF stopping THEN "stopped" ELSE "sleep"
  /\ timer' = IF stopping THEN 0 ELSE Pause(states)
  /\ UNCHANGED <<enabled, states, tasks, stopping, hold, restarts>>

Active == {c \in Channels : tasks[c].st \in {"lock", "sync"}}

\* A worker takes a task; completedAt is now, in case the lock is not obtained.
Submit(c) ==
  /\ tasks[c].st = "queued"
  /\ Cardinality(Active) < MaxConcurrent
  /\ tasks' = [tasks EXCEPT ![c].st = "lock"]
  /\ UNCHANGED <<enabled, states, phase, timer, stopping, hold, restarts>>

\* "break submit": the tasks nobody took are dropped without an outcome.
BreakSubmit ==
  /\ stopping /\ \E c \in Channels : tasks[c].st = "queued"
  /\ tasks' = [c \in Channels |-> IF tasks[c].st = "queued" THEN NoTask ELSE tasks[c]]
  /\ UNCHANGED <<enabled, states, phase, timer, stopping, hold, restarts>>

Outcome(c, result) == [tasks EXCEPT ![c].st = "done", ![c].result = result]

\* TryLock returned an error (every capability fails), or found the channel busy.
LockDenied(c) ==
  /\ tasks[c].st = "lock"
  /\ \E r \in {Failure(0), Skipped} : tasks' = Outcome(c, [k \in Capabilities |-> r])
  /\ UNCHANGED <<enabled, states, phase, timer, stopping, hold, restarts>>

LockTaken(c) ==
  /\ tasks[c].st = "lock"
  /\ tasks' = [tasks EXCEPT ![c].st = "sync"]
  /\ UNCHANGED <<enabled, states, phase, timer, stopping, hold, restarts>>

\* What the answer obliges the collector to wait, from completedAt on.
Owed(k, result) == IF result.kind = "ok" THEN Interval[k] ELSE result.floor

\* Sync returned, by its deadline at the latest: an error fails every capability
\* with one floor, a result has each of them completed or failed with its own.
SyncEnds(c) ==
  /\ tasks[c].st = "sync"
  /\ \E result \in [Capabilities -> {Ok} \cup Failures] :
       /\ \A k \in Capabilities \ tasks[c].due : result[k] = Ok
       /\ tasks' = [Outcome(c, result) EXCEPT ![c].age = 0]
       /\ hold' = [hold EXCEPT ![c] = [k \in Capabilities |->
            IF k \in tasks[c].due THEN Owed(k, result[k]) ELSE hold[c][k]]]
  /\ UNCHANGED <<enabled, states, phase, timer, stopping, restarts>>

\* Capability k of channel c has an outcome, and its retry may jitter this much.
HasOutcome(c, k) == tasks[c].st = "done" /\ k \in tasks[c].due
JitterRange(c, k) ==
  LET kind == tasks[c].result[k].kind
      spread == IF ~HasOutcome(c, k) \/ kind = "ok" THEN 0
                ELSE Spread(k, IF kind = "failed" THEN Failed(states[c][k]) ELSE 1)
  IN -spread..spread

\* The last worker returned: the outcomes are applied, then Run sleeps or leaves.
RoundEnds ==
  /\ phase = "run" /\ \A c \in Channels : tasks[c].st \in {"none", "done"}
  /\ \E jitter \in [Channels -> [Capabilities -> Jitters]] :
       /\ \A c \in Channels, k \in Capabilities : jitter[c][k] \in JitterRange(c, k)
       /\ states' = [c \in Channels |-> [k \in Capabilities |->
            IF HasOutcome(c, k)
              THEN Marked(k, states[c][k], tasks[c].result[k], tasks[c].age, jitter[c][k])
              ELSE states[c][k]]]
  /\ tasks' = [c \in Channels |-> NoTask]
  /\ phase' = IF stopping THEN "stopped" ELSE "sleep"
  /\ timer' = IF stopping THEN 0 ELSE Pause(states')
  /\ UNCHANGED <<enabled, stopping, hold, restarts>>

Wake ==
  /\ phase = "sleep" /\ timer = 0
  /\ phase' = "list"
  /\ UNCHANGED <<enabled, states, timer, tasks, stopping, hold, restarts>>

Leave ==
  /\ phase = "sleep" /\ stopping
  /\ phase' = "stopped" /\ timer' = 0
  /\ UNCHANGED <<enabled, states, tasks, stopping, hold, restarts>>

-----------------------------------------------------------------------------
(***************************************************************************)
(* Time, the administrator, the signal, the end of the process             *)
(***************************************************************************)
Before(n) == IF n > 0 THEN n - 1 ELSE 0

\* A completedAt exists from Submit on; SyncEnds renews it.
Aged(task) == IF task.st \in {"lock", "done"} THEN Smaller(task.age + 1, (6 * MaxDelay) \div 5) ELSE task.age

Tick ==
  /\ phase # "stopped"
  /\ timer' = Before(timer)
  /\ states' = [c \in Channels |-> [k \in Capabilities |->
                  [states[c][k] EXCEPT !.wait = Before(@)]]]
  /\ tasks' = [c \in Channels |-> [tasks[c] EXCEPT !.age = Aged(tasks[c])]]
  /\ hold' = [c \in Channels |-> [k \in Capabilities |-> Before(hold[c][k])]]
  /\ UNCHANGED <<enabled, phase, stopping, restarts>>

\* PATCH of the channel's status, or its disabled_until comes.
Toggle(c) ==
  /\ enabled' = [enabled EXCEPT ![c] = ~@]
  /\ UNCHANGED <<states, phase, timer, tasks, stopping, hold, restarts>>

Stop ==
  /\ ~stopping /\ phase # "stopped"
  /\ stopping' = TRUE
  /\ UNCHANGED <<enabled, states, phase, timer, tasks, hold, restarts>>

\* The process ends, by Leave or by a crash, and starts with an empty schedule.
Restart ==
  /\ restarts < MaxRestarts                                            \* bound
  /\ restarts' = restarts + 1
  /\ states' = [c \in Channels |-> [k \in Capabilities |-> Unknown]]
  /\ phase' = "list" /\ timer' = 0
  /\ tasks' = [c \in Channels |-> NoTask]
  /\ stopping' = FALSE
  /\ hold' = [c \in Channels |-> [k \in Capabilities |-> 0]]
  /\ UNCHANGED enabled

TaskStep(c) == Submit(c) \/ LockDenied(c) \/ LockTaken(c) \/ SyncEnds(c)

Next ==
  \/ List \/ ListFails \/ BreakSubmit \/ RoundEnds \/ Wake \/ Leave
  \/ Tick \/ Stop \/ Restart
  \/ \E c \in Channels : TaskStep(c) \/ Toggle(c)

Spec == Init /\ [][Next]_vars

\* Time passes; Run and its workers move on (TryLock and Sync return: Sync has a
\* deadline); the database answers again after any number of failures.
Fairness ==
  /\ WF_vars(Tick) /\ WF_vars(Wake) /\ WF_vars(RoundEnds)
  /\ SF_vars(List)
  /\ \A c \in Channels : WF_vars(TaskStep(c))

FairSpec == Spec /\ Fairness

-----------------------------------------------------------------------------
(***************************************************************************)
(* Properties                                                              *)
(***************************************************************************)
\* Every variable has its type.
TypeOK ==
  /\ enabled \in [Channels -> BOOLEAN]
  /\ states \in [Channels -> [Capabilities -> State]]
  /\ phase \in {"list", "run", "sleep", "stopped"}
  /\ timer \in Nat
  /\ tasks \in [Channels -> Task]
  /\ stopping \in BOOLEAN
  /\ hold \in [Channels -> [Capabilities -> Nat]]
  /\ restarts \in 0..MaxRestarts

\* A capability is asked for only when its period has passed since it succeeded,
\* or the Retry-After, or the five minutes of a 401, 403 or bare 429, since it
\* failed - although outcomes are applied only when the slowest channel of the
\* round has finished, and skips and lock errors are dated before the attempt
\* (service.go:290-298, 351-361).  A channel pruned while disabled and a
\* restarted process start afresh.
AskedOnlyWhenDue ==
  \A c \in Channels : tasks[c].st \in {"lock", "sync"} =>
    \A k \in tasks[c].due : hold[c][k] = 0

\* Run never sleeps past the time of an entry, except for the IdleDelay it takes
\* instead of a delay of zero (service.go:190-202, 465-468).
NoOversleep ==
  phase = "sleep" =>
    \A c \in Channels, k \in Capabilities :
      states[c][k].known => states[c][k].wait >= timer \/ timer <= IdleDelay

\* Every capability of an enabled channel is asked for again and again, however
\* often it failed, was skipped or shared its round with a failing channel.
EveryCapabilityServed ==
  \A c \in Channels, k \in Capabilities :
    [](<>(\/ tasks[c].st \in {"lock", "sync"} /\ k \in tasks[c].due
          \/ ~enabled[c] \/ stopping))
=============================================================================
