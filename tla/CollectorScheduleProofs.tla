----------------------- MODULE CollectorScheduleProofs -----------------------
(***************************************************************************)
(* Proofs about CollectorSchedule, for all channels, capabilities, periods *)
(* and delays.                                                             *)
(*                                                                         *)
(* The invariant relates the history variable hold to what the program     *)
(* keeps: what is owed to the upstream is covered by the entry's wait      *)
(* while the capability is not in the round, is nothing while it is being  *)
(* asked for, and is covered by the outcome, less its age, until the round *)
(* ends and the outcome becomes the entry's new wait.                      *)
(***************************************************************************)
EXTENDS CollectorSchedule, TLAPS

\* Tasks exist only during a round.
RoundOpen == phase # "run" => \A c \in Channels : tasks[c] = NoTask

\* What covers the hold of a capability.
Cover(c, k) ==
  IF k \notin tasks[c].due THEN states[c][k].wait
  ELSE IF tasks[c].st = "done" THEN Left(Owed(k, tasks[c].result[k]), tasks[c].age)
  ELSE 0

HoldCovered == \A c \in Channels, k \in Capabilities : hold[c][k] <= Cover(c, k)

IInv == TypeOK /\ RoundOpen /\ HoldCovered /\ NoOversleep

-----------------------------------------------------------------------------
(***************************************************************************)
(* The delays                                                              *)
(***************************************************************************)
\* The constants' types that the proofs need.
LEMMA Constants ==
  /\ \A k \in Capabilities : Interval[k] \in Nat /\ Interval[k] > 0
  /\ AuthFloor \in Nat /\ RetryAfters \subseteq Nat /\ 0 \in RetryAfters
  /\ BackoffBase \in Int /\ BackoffMax \in Int /\ MaxDelay \in Nat
  /\ IdleDelay \in Nat /\ FailureCap \in Nat /\ FailureCap > 0 /\ MaxRestarts \in Nat
BY ScheduleAssumption

\* Any failure an upstream or a lock reports, and Ok and Skipped, are results.
LEMMA FailureTypes == Failures \subseteq Result /\ Failure(0) \in Result /\ Ok \in Result /\ Skipped \in Result
<1>1. ASSUME NEW s \in {"auth", "rate", "other"}, NEW ra \in RetryAfters
      PROVE  RetryMinimum(s, ra) \in Nat
  BY <1>1, Constants DEF RetryMinimum, Larger
<1>2. QED
  BY <1>1 DEF Failures, Failure, Ok, Skipped, Result

\* A delay before its jitter is an integer, whatever the number of failures.
LEMMA BackoffType ==
  ASSUME NEW k \in Capabilities, NEW f \in Nat, f > 0
  PROVE  Backoff(k, f) \in Int
<1>1. Limit(k) \in Int
  BY Constants DEF Limit, Smaller
<1>2. f - 1 \in Nat
  OBVIOUS
<1>3. 2 ^ (f - 1) \in Int
  BY <1>2
<1>4. BackoffBase * 2 ^ (f - 1) \in Int
  BY <1>3, Constants
<1>5. QED
  BY <1>1, <1>4 DEF Backoff, Smaller

\* The state an outcome leaves is a state, and owes no less than the outcome did.
LEMMA MarkedCovers ==
  ASSUME NEW k \in Capabilities, NEW old \in State, NEW result \in Result,
         NEW age \in Nat, NEW jitter \in Int
  PROVE  /\ Marked(k, old, result, age, jitter) \in State
         /\ Left(Owed(k, result), age) <= Marked(k, old, result, age, jitter).wait
<1> DEFINE new == Marked(k, old, result, age, jitter)
<1>0. old.fails \in 0..FailureCap /\ result.floor \in Nat /\ result.kind \in {"ok", "skipped", "failed"}
      /\ (result.kind # "failed" => result.floor = 0)
  BY DEF State, Result
<1>1. CASE result.kind = "ok"
  <2>1. new = [known |-> TRUE, wait |-> Left(Interval[k], age), fails |-> 0]
    BY <1>1 DEF Marked
  <2>2. Left(Interval[k], age) \in Nat
    BY Constants DEF Left
  <2>3. Owed(k, result) = Interval[k]
    BY <1>1 DEF Owed
  <2>4. QED
    BY <2>1, <2>2, <2>3, Constants DEF State
<1>2. CASE result.kind = "failed"
  <2> DEFINE fails == Failed(old)
  <2>1. fails \in 0..FailureCap /\ fails \in Nat /\ fails > 0
    BY <1>0, Constants DEF Failed, Smaller
  <2>2. Backoff(k, fails) + jitter \in Int
    BY <2>1, BackoffType
  <2> DEFINE delay == FailureDelay(k, fails, result.floor, jitter)
  <2>3. delay \in Int /\ result.floor <= delay
    BY <2>2, <1>0 DEF FailureDelay, Larger
  <2>4. new = [known |-> TRUE, fails |-> fails, wait |-> Left(delay, age)]
    BY <1>2 DEF Marked
  <2>5. Owed(k, result) = result.floor
    BY <1>2 DEF Owed
  <2> HIDE DEF delay, fails, new
  <2>6. Left(delay, age) \in Nat /\ Left(result.floor, age) <= Left(delay, age)
    BY <2>3, <1>0 DEF Left
  <2>7. new \in State /\ new.wait = Left(delay, age)
    BY <2>1, <2>4, <2>6 DEF State
  <2>8. QED
    BY <2>5, <2>6, <2>7 DEF new
<1>3. CASE result.kind = "skipped"
  <2>1. Backoff(k, 1) + jitter \in Int
    BY BackoffType
  <2>2. new = [known |-> TRUE, wait |-> Left(Backoff(k, 1) + jitter, age), fails |-> old.fails]
    BY <1>3 DEF Marked
  <2>3. Left(Backoff(k, 1) + jitter, age) \in Nat /\ Left(0, age) = 0
    BY <2>1 DEF Left
  <2>4. Owed(k, result) = 0
    BY <1>0, <1>3 DEF Owed
  <2>5. new \in State /\ new.wait = Left(Backoff(k, 1) + jitter, age)
    BY <1>0, <2>2, <2>3 DEF State
  <2>6. QED
    BY <2>3, <2>4, <2>5 DEF new
<1>4. QED
  BY <1>0, <1>1, <1>2, <1>3

StatesType == [Channels -> [Capabilities -> State]]

\* The pause is positive, and longer than no existing entry's wait, unless it is
\* the idle delay.
LEMMA PauseBounded ==
  ASSUME NEW sts \in StatesType
  PROVE  /\ Pause(sts) \in Nat
         /\ \A c \in Channels, k \in Capabilities :
              sts[c][k].known => sts[c][k].wait >= Pause(sts) \/ Pause(sts) <= IdleDelay
<1> DEFINE shortest == {w \in Waits(sts) : w > 0 /\ \A x \in Waits(sts) : w <= x}
<1>1. \A c \in Channels, k \in Capabilities : sts[c][k] \in State
  BY DEF StatesType
<1>2. \A c \in Channels, k \in Capabilities : sts[c][k].known => sts[c][k].wait \in Waits(sts)
  <2>1. SUFFICES ASSUME NEW c \in Channels, NEW k \in Capabilities, sts[c][k].known
                 PROVE  sts[c][k].wait \in Waits(sts)
    OBVIOUS
  <2>2. <<c, k>> \in Channels \X Capabilities /\ <<c, k>>[1] = c /\ <<c, k>>[2] = k
    OBVIOUS
  <2>3. QED
    BY <2>1, <2>2 DEF Waits
<1>3. Waits(sts) \subseteq Nat
  <2>1. SUFFICES ASSUME NEW e \in Channels \X Capabilities
                 PROVE  sts[e[1]][e[2]].wait \in Nat
    BY DEF Waits
  <2>2. e[1] \in Channels /\ e[2] \in Capabilities
    OBVIOUS
  <2>3. QED
    BY <1>1, <2>2 DEF State
<1>4. CASE shortest = {}
  <2>1. NextDelay(sts) = 0
    BY <1>4 DEF NextDelay
  <2>2. QED
    BY <2>1, Constants DEF Pause
<1>5. CASE shortest # {}
  <2>1. PICK w \in shortest : NextDelay(sts) = w
    BY <1>5 DEF NextDelay
  <2>2. w \in Nat /\ w > 0 /\ \A x \in Waits(sts) : w <= x
    BY <2>1, <1>3
  <2>3. Pause(sts) = w
    BY <2>1, <2>2 DEF Pause
  <2>4. \A c \in Channels, k \in Capabilities : sts[c][k].known => w <= sts[c][k].wait
    BY <1>2, <2>2
  <2>5. \A c \in Channels, k \in Capabilities : sts[c][k].wait \in Nat
    BY <1>1 DEF State
  <2>6. QED
    BY <2>2, <2>3, <2>4, <2>5
<1>6. QED
  BY <1>4, <1>5

-----------------------------------------------------------------------------
(***************************************************************************)
(* The invariant                                                           *)
(***************************************************************************)
\* A fresh process: nothing known, nothing owed.
LEMMA FreshTypes ==
  /\ Unknown \in State /\ NoTask \in Task
  /\ NoTask.due = {} /\ NoTask.st = "none" /\ Unknown.wait = 0
<1>1. Unknown \in State
  BY Constants DEF Unknown, State
<1>2. [k \in Capabilities |-> Ok] \in [Capabilities -> Result]
  BY FailureTypes
<1>3. QED
  BY <1>1, <1>2 DEF NoTask, Task, Unknown

LEMMA InitIInv == Init => IInv
<1>1. ASSUME Init PROVE TypeOK
  <2>1. states \in [Channels -> [Capabilities -> State]]
    BY <1>1, FreshTypes DEF Init
  <2>2. tasks \in [Channels -> Task]
    BY <1>1, FreshTypes DEF Init
  <2>3. hold \in [Channels -> [Capabilities -> Nat]]
    BY <1>1 DEF Init
  <2>4. timer \in Nat /\ restarts \in 0..MaxRestarts
    BY <1>1, Constants DEF Init
  <2>5. QED
    BY <1>1, <2>1, <2>2, <2>3, <2>4 DEF Init, TypeOK
<1>2. ASSUME Init PROVE RoundOpen
  BY <1>2 DEF Init, RoundOpen
<1>3. ASSUME Init PROVE HoldCovered
  <2>1. SUFFICES ASSUME NEW c \in Channels, NEW k \in Capabilities
                 PROVE  hold[c][k] <= Cover(c, k)
    BY DEF HoldCovered
  <2>2. hold[c][k] = 0 /\ states[c][k].wait = 0 /\ k \notin tasks[c].due
    BY <1>3, FreshTypes DEF Init
  <2>3. QED
    BY <2>2 DEF Cover
<1>4. ASSUME Init PROVE NoOversleep
  BY <1>4 DEF Init, NoOversleep
<1>5. QED
  BY <1>1, <1>2, <1>3, <1>4 DEF IInv

\* What the invariant says of one capability of one channel.
LEMMA Cell ==
  ASSUME IInv, NEW c \in Channels, NEW k \in Capabilities
  PROVE  /\ hold[c][k] \in Nat /\ states[c][k] \in State /\ states[c][k].wait \in Nat
         /\ tasks[c] \in Task /\ tasks[c].age \in Nat /\ tasks[c].result[k] \in Result
         /\ Owed(k, tasks[c].result[k]) \in Nat
         /\ k \notin tasks[c].due => hold[c][k] <= states[c][k].wait
         /\ k \in tasks[c].due /\ tasks[c].st # "done" => hold[c][k] = 0
         /\ k \in tasks[c].due /\ tasks[c].st = "done" =>
              hold[c][k] <= Left(Owed(k, tasks[c].result[k]), tasks[c].age)
<1>1. hold[c][k] \in Nat /\ states[c][k] \in State /\ tasks[c] \in Task
  BY DEF IInv, TypeOK
<1>2. states[c][k].wait \in Nat
  BY <1>1 DEF State
<1>3. tasks[c].age \in Nat /\ tasks[c].result[k] \in Result
  BY <1>1 DEF Task
<1>4. Owed(k, tasks[c].result[k]) \in Nat
  BY <1>3, Constants DEF Owed, Result
<1>5. hold[c][k] <= Cover(c, k)
  BY DEF IInv, HoldCovered
<1>6. QED
  BY <1>1, <1>2, <1>3, <1>4, <1>5 DEF Cover

\* A step that leaves the entries, the timer and the phase alone.
LEMMA SamePause ==
  ASSUME IInv, UNCHANGED <<states, phase, timer>>
  PROVE  NoOversleep'
BY DEF IInv, NoOversleep

LEMMA ListStep == ASSUME IInv, List PROVE IInv'
<1> USE DEF List
<1>1. TypeOK'
  <2>1. states' \in [Channels -> [Capabilities -> State]]
    <3>1. ASSUME NEW c \in Channels PROVE Listed(c) \in [Capabilities -> State]
      <4>1. ASSUME NEW k \in Capabilities
            PROVE  [states[c][k] EXCEPT !.known = TRUE] \in State
        <5>1. states[c][k] \in State
          BY DEF IInv, TypeOK
        <5>2. QED
          BY <5>1 DEF State
      <4>2. QED
        BY <4>1, FreshTypes DEF Listed
    <3>2. QED
      BY <3>1
  <2>2. tasks' \in [Channels -> Task]
    <3>1. ASSUME NEW c \in Channels
          PROVE  [NoTask EXCEPT !.st = "queued", !.due = Due(c)] \in Task
      BY FreshTypes DEF Due, Task, NoTask
    <3>2. QED
      BY <3>1, FreshTypes
  <2>3. hold' \in [Channels -> [Capabilities -> Nat]]
    BY DEF IInv, TypeOK
  <2>4. QED
    BY <2>1, <2>2, <2>3 DEF IInv, TypeOK
<1>2. RoundOpen'
  BY DEF RoundOpen
<1>3. HoldCovered'
  <2>1. SUFFICES ASSUME NEW c \in Channels, NEW k \in Capabilities
                 PROVE  hold'[c][k] <= Cover(c, k)'
    BY DEF HoldCovered
  <2>2. tasks[c] = NoTask
    BY DEF IInv, RoundOpen
  <2>3. hold[c][k] \in Nat /\ states[c][k].wait \in Nat /\ hold[c][k] <= states[c][k].wait
    BY <2>2, Cell, FreshTypes
  <2>4. CASE enabled[c]
    <3>1. states'[c][k].wait = states[c][k].wait
      <4>1. states[c][k] \in State
        BY Cell
      <4>2. states'[c][k] = [states[c][k] EXCEPT !.known = TRUE]
        BY <2>4 DEF Listed
      <4>3. QED
        BY <4>1, <4>2 DEF State
    <3>2. hold'[c][k] = hold[c][k]
      BY <2>4
    <3>3. CASE Due(c) = {}
      <4>1. k \notin tasks'[c].due
        BY <3>3, FreshTypes
      <4>2. QED
        BY <2>3, <3>1, <3>2, <4>1 DEF Cover
    <3>4. CASE Due(c) # {}
      <4>1. tasks'[c].st = "queued" /\ tasks'[c].due = Due(c)
        BY <2>4, <3>4 DEF NoTask
      <4>2. k \in Due(c) <=> states[c][k].wait = 0
        BY DEF Due
      <4>3. QED
        BY <2>3, <3>1, <3>2, <4>1, <4>2 DEF Cover
    <3>5. QED
      BY <3>3, <3>4
  <2>5. CASE ~enabled[c]
    <3>1. states'[c][k] = Unknown /\ tasks'[c] = NoTask
      BY <2>5 DEF Listed
    <3>2. hold'[c][k] = 0
      BY <2>5
    <3> HIDE DEF List
    <3>3. states'[c][k].wait = 0 /\ k \notin tasks'[c].due
      BY <3>1, FreshTypes
    <3>4. QED
      BY <3>2, <3>3 DEF Cover
  <2>6. QED
    BY <2>4, <2>5
<1>4. NoOversleep'
  BY DEF NoOversleep
<1>5. QED
  BY <1>1, <1>2, <1>3, <1>4 DEF IInv

LEMMA ListFailsStep == ASSUME IInv, ListFails PROVE IInv'
<1> USE DEF ListFails
<1>1. states \in StatesType /\ TypeOK
  BY DEF IInv, TypeOK, StatesType
<1>2. Pause(states) \in Nat
  BY <1>1, PauseBounded
<1>3. timer' \in Nat
  BY <1>2
<1>4. TypeOK'
  BY <1>1, <1>3 DEF TypeOK
<1>5. RoundOpen' /\ HoldCovered'
  BY DEF IInv, RoundOpen, HoldCovered, Cover
<1>6. NoOversleep'
  BY <1>1, PauseBounded DEF NoOversleep
<1>7. QED
  BY <1>4, <1>5, <1>6 DEF IInv

\* The steps of a task before its outcome keep what is due and leave nothing owed.
LEMMA SubmitStep == ASSUME IInv, NEW d \in Channels, Submit(d) \/ LockTaken(d) PROVE IInv'
<1> USE DEF Submit, LockTaken
<1>0. PICK st \in {"lock", "sync"} : tasks' = [tasks EXCEPT ![d].st = st]
  OBVIOUS
<1>1. \A c \in Channels : tasks[c] \in Task
  BY DEF IInv, TypeOK
<1>2. TypeOK'
  <2>1. [tasks[d] EXCEPT !.st = st] \in Task
    BY <1>1 DEF Task
  <2>2. tasks' \in [Channels -> Task]
    BY <1>0, <2>1 DEF IInv, TypeOK
  <2>3. QED
    BY <2>2 DEF IInv, TypeOK
<1>3. phase = "run"
  <2>1. tasks[d].st # "none"
    OBVIOUS
  <2>2. QED
    BY <2>1, FreshTypes DEF IInv, RoundOpen
<1>4. HoldCovered'
  <2>1. SUFFICES ASSUME NEW c \in Channels, NEW k \in Capabilities
                 PROVE  hold'[c][k] <= Cover(c, k)'
    BY DEF HoldCovered
  <2>2. CASE c = d
    <3>1. tasks'[c].due = tasks[c].due /\ tasks[c].st # "done" /\ tasks'[c].st # "done"
      BY <1>0, <1>1, <2>2 DEF Task, IInv, TypeOK
    <3>2. QED
      BY <3>1, Cell DEF Cover
  <2>3. CASE c # d
    <3>1. tasks'[c] = tasks[c]
      BY <1>0, <2>3 DEF IInv, TypeOK
    <3>2. QED
      BY <3>1, Cell DEF Cover
  <2>4. QED
    BY <2>2, <2>3
<1>5. QED
  BY <1>2, <1>3, <1>4, SamePause DEF IInv, RoundOpen

LEMMA BreakSubmitStep == ASSUME IInv, BreakSubmit PROVE IInv'
<1> USE DEF BreakSubmit
<1>1. \A c \in Channels : tasks[c] \in Task
  BY DEF IInv, TypeOK
<1>2. TypeOK'
  <2>1. tasks' \in [Channels -> Task]
    BY <1>1, FreshTypes
  <2>2. QED
    BY <2>1 DEF IInv, TypeOK
<1>3. RoundOpen'
  BY DEF IInv, RoundOpen
<1>4. HoldCovered'
  <2>1. SUFFICES ASSUME NEW c \in Channels, NEW k \in Capabilities
                 PROVE  hold'[c][k] <= Cover(c, k)'
    BY DEF HoldCovered
  <2>2. CASE tasks[c].st = "queued"
    <3>1. k \notin tasks'[c].due
      BY <2>2, FreshTypes
    <3>2. QED
      BY <2>2, <3>1, Cell DEF Cover
  <2>3. CASE tasks[c].st # "queued"
    <3>1. tasks'[c] = tasks[c]
      BY <2>3
    <3>2. QED
      BY <3>1, Cell DEF Cover
  <2>4. QED
    BY <2>2, <2>3
<1>5. QED
  BY <1>2, <1>3, <1>4, SamePause DEF IInv

LEMMA LockDeniedStep == ASSUME IInv, NEW d \in Channels, LockDenied(d) PROVE IInv'
<1> USE DEF LockDenied
<1>0. PICK r \in {Failure(0), Skipped} : tasks' = Outcome(d, [k \in Capabilities |-> r])
  OBVIOUS
<1>1. \A c \in Channels : tasks[c] \in Task
  BY DEF IInv, TypeOK
<1> DEFINE new == [[tasks[d] EXCEPT !.st = "done"] EXCEPT !.result = [k \in Capabilities |-> r]]
<1>2. tasks' = [tasks EXCEPT ![d] = new]
  BY <1>0, <1>1 DEF Outcome, IInv, TypeOK
<1>3. new \in Task
  <2>1. [k \in Capabilities |-> r] \in [Capabilities -> Result]
    BY FailureTypes
  <2>2. QED
    BY <1>1, <2>1 DEF Task
<1>4. new.due = tasks[d].due /\ new.st = "done" /\ new.age = tasks[d].age
      /\ new.result = [k \in Capabilities |-> r]
  BY <1>1 DEF Task
<1> HIDE DEF new
<1>5. tasks' \in [Channels -> Task]
  BY <1>2, <1>3 DEF IInv, TypeOK
<1>6. TypeOK'
  BY <1>5 DEF IInv, TypeOK
<1>7. phase = "run"
  <2>1. tasks[d].st # "none"
    OBVIOUS
  <2>2. QED
    BY <2>1, FreshTypes DEF IInv, RoundOpen
<1>8. HoldCovered'
  <2>1. SUFFICES ASSUME NEW c \in Channels, NEW k \in Capabilities
                 PROVE  hold'[c][k] <= Cover(c, k)'
    BY DEF HoldCovered
  <2>2. CASE c = d
    <3>1. tasks'[c] = new
      BY <1>2, <2>2 DEF IInv, TypeOK
    <3>2. tasks'[c].age \in Nat /\ tasks'[c].result[k] \in Result
      BY <1>3, <3>1 DEF Task
    <3>3. Left(Owed(k, tasks'[c].result[k]), tasks'[c].age) \in Nat
      BY <3>2, Constants DEF Owed, Result, Left
    <3>4. QED
      BY <1>4, <2>2, <3>1, <3>3, Cell DEF Cover
  <2>3. CASE c # d
    <3>1. tasks'[c] = tasks[c]
      BY <1>2, <2>3 DEF IInv, TypeOK
    <3>2. QED
      BY <3>1, Cell DEF Cover
  <2>4. QED
    BY <2>2, <2>3
<1>9. QED
  BY <1>6, <1>7, <1>8, SamePause DEF IInv, RoundOpen

\* SyncEnds makes the outcome cover exactly what it owes.
LEMMA SyncEndsStep == ASSUME IInv, NEW d \in Channels, SyncEnds(d) PROVE IInv'
<1>0. PICK result \in [Capabilities -> {Ok} \cup Failures] :
        /\ tasks' = [Outcome(d, result) EXCEPT ![d].age = 0]
        /\ hold' = [hold EXCEPT ![d] = [k \in Capabilities |->
             IF k \in tasks[d].due THEN Owed(k, result[k]) ELSE hold[d][k]]]
  BY DEF SyncEnds
<1>1. tasks[d].st = "sync" /\ UNCHANGED <<enabled, states, phase, timer, stopping, restarts>>
  BY DEF SyncEnds
<1>2. \A c \in Channels : tasks[c] \in Task
  BY DEF IInv, TypeOK
<1>3. \A k \in Capabilities : result[k] \in Result /\ Owed(k, result[k]) \in Nat
  <2>1. \A k \in Capabilities : result[k] \in Result
    BY FailureTypes
  <2>2. QED
    BY <2>1, Constants DEF Owed, Result
<1> DEFINE new == [[[tasks[d] EXCEPT !.st = "done"] EXCEPT !.result = result] EXCEPT !.age = 0]
<1>4. tasks' = [tasks EXCEPT ![d] = new]
  <2>1. Outcome(d, result) = [tasks EXCEPT ![d] = [[tasks[d] EXCEPT !.st = "done"] EXCEPT !.result = result]]
    BY <1>2 DEF Outcome, IInv, TypeOK
  <2>2. tasks \in [Channels -> Task]
    BY DEF IInv, TypeOK
  <2>3. QED
    BY <1>0, <2>1, <2>2
<1>5. new \in Task /\ new.due = tasks[d].due /\ new.st = "done" /\ new.age = 0 /\ new.result = result
  <2>1. result \in [Capabilities -> Result]
    BY <1>3
  <2>2. QED
    BY <1>2, <2>1 DEF Task
<1> HIDE DEF new
<1>6. TypeOK'
  <2>1. tasks' \in [Channels -> Task]
    BY <1>4, <1>5 DEF IInv, TypeOK
  <2>2. hold' \in [Channels -> [Capabilities -> Nat]]
    BY <1>0, <1>3 DEF IInv, TypeOK
  <2>3. QED
    BY <1>1, <2>1, <2>2 DEF IInv, TypeOK
<1>7. phase = "run"
  <2>1. tasks[d].st # "none"
    BY <1>1
  <2>2. QED
    BY <2>1, FreshTypes DEF IInv, RoundOpen
<1>8. HoldCovered'
  <2>1. SUFFICES ASSUME NEW c \in Channels, NEW k \in Capabilities
                 PROVE  hold'[c][k] <= Cover(c, k)'
    BY DEF HoldCovered
  <2>2. CASE c = d /\ k \in tasks[d].due
    <3>1. hold'[c][k] = Owed(k, result[k])
      BY <1>0, <2>2 DEF IInv, TypeOK
    <3>2. tasks'[c] = new
      BY <1>4, <2>2 DEF IInv, TypeOK
    <3>3. Left(Owed(k, result[k]), 0) = Owed(k, result[k])
      BY <1>3 DEF Left
    <3>4. Cover(c, k)' = Owed(k, result[k])
      BY <1>5, <2>2, <3>2, <3>3 DEF Cover
    <3>5. QED
      BY <1>3, <3>1, <3>4
  <2>3. CASE c = d /\ k \notin tasks[d].due
    <3>1. hold'[c][k] = hold[c][k]
      BY <1>0, <2>3 DEF IInv, TypeOK
    <3>2. tasks'[c].due = tasks[c].due
      BY <1>4, <1>5, <2>3 DEF IInv, TypeOK
    <3>3. QED
      BY <1>1, <2>3, <3>1, <3>2, Cell DEF Cover
  <2>4. CASE c # d
    <3>1. tasks'[c] = tasks[c] /\ hold'[c] = hold[c]
      BY <1>0, <1>4, <2>4 DEF IInv, TypeOK
    <3>2. QED
      BY <1>1, <3>1, Cell DEF Cover
  <2>5. QED
    BY <2>2, <2>3, <2>4
<1>9. QED
  BY <1>1, <1>6, <1>7, <1>8, SamePause DEF IInv, RoundOpen

\* RoundEnds turns what the outcomes cover into the entries' waits.
LEMMA RoundEndsStep == ASSUME IInv, RoundEnds PROVE IInv'
<1>0. PICK jitter \in [Channels -> [Capabilities -> Jitters]] :
        states' = [c \in Channels |-> [k \in Capabilities |->
          IF HasOutcome(c, k)
            THEN Marked(k, states[c][k], tasks[c].result[k], tasks[c].age, jitter[c][k])
            ELSE states[c][k]]]
  BY DEF RoundEnds
<1>1. /\ \A c \in Channels : tasks[c].st \in {"none", "done"}
      /\ tasks' = [c \in Channels |-> NoTask]
      /\ phase' = IF stopping THEN "stopped" ELSE "sleep"
      /\ timer' = IF stopping THEN 0 ELSE Pause(states')
      /\ UNCHANGED <<enabled, stopping, hold, restarts>>
  BY DEF RoundEnds
<1>2. ASSUME NEW c \in Channels, NEW k \in Capabilities
      PROVE  /\ Marked(k, states[c][k], tasks[c].result[k], tasks[c].age, jitter[c][k]) \in State
             /\ Left(Owed(k, tasks[c].result[k]), tasks[c].age)
                  <= Marked(k, states[c][k], tasks[c].result[k], tasks[c].age, jitter[c][k]).wait
  <2>1. jitter[c][k] \in Int
    BY DEF Jitters
  <2>2. states[c][k] \in State /\ tasks[c].result[k] \in Result /\ tasks[c].age \in Nat
    BY Cell
  <2>3. QED
    BY <2>1, <2>2, MarkedCovers
<1>3. states' \in StatesType
  BY <1>0, <1>2, Cell DEF StatesType
<1>4. \A c \in Channels, k \in Capabilities : states'[c][k] \in State /\ states'[c][k].wait \in Nat
  BY <1>3 DEF StatesType, State
<1>5. Pause(states') \in Nat
  BY <1>3, PauseBounded
<1>6. TypeOK'
  <2>1. tasks' \in [Channels -> Task] /\ timer' \in Nat
    BY <1>1, <1>5, FreshTypes
  <2>2. QED
    BY <1>1, <1>3, <2>1 DEF IInv, TypeOK, StatesType
<1>7. RoundOpen'
  BY <1>1 DEF RoundOpen
<1>8. HoldCovered'
  <2>1. SUFFICES ASSUME NEW c \in Channels, NEW k \in Capabilities
                 PROVE  hold'[c][k] <= Cover(c, k)'
    BY DEF HoldCovered
  <2>2. Cover(c, k)' = states'[c][k].wait
    BY <1>1, FreshTypes DEF Cover
  <2>3. CASE HasOutcome(c, k)
    <3> DEFINE new == Marked(k, states[c][k], tasks[c].result[k], tasks[c].age, jitter[c][k])
               owed == Left(Owed(k, tasks[c].result[k]), tasks[c].age)
    <3>1. states'[c][k] = new
      BY <1>0, <2>3
    <3>2. hold[c][k] <= owed /\ owed <= new.wait
      BY <1>2, <2>3, Cell DEF HasOutcome
    <3>3. owed \in Nat
      BY Cell DEF Left
    <3> HIDE DEF new, owed
    <3>4. hold'[c][k] = hold[c][k] /\ hold[c][k] \in Nat /\ new.wait \in Nat
      BY <1>1, <1>4, <3>1, Cell
    <3>5. QED
      BY <2>2, <3>1, <3>2, <3>3, <3>4
  <2>4. CASE ~HasOutcome(c, k)
    <3>1. states'[c][k] = states[c][k]
      BY <1>0, <2>4
    <3>2. hold[c][k] <= states[c][k].wait
      BY <1>1, <2>4, Cell DEF HasOutcome
    <3>3. QED
      BY <1>1, <2>2, <3>1, <3>2
  <2>5. QED
    BY <2>3, <2>4
<1>9. NoOversleep'
  <2>1. SUFFICES ASSUME phase' = "sleep"
                 PROVE  \A c \in Channels, k \in Capabilities : states'[c][k].known =>
                          states'[c][k].wait >= timer' \/ timer' <= IdleDelay
    BY DEF NoOversleep
  <2>2. timer' = Pause(states')
    BY <1>1, <2>1
  <2>3. QED
    BY <1>3, <2>2, PauseBounded
<1>10. QED
  BY <1>6, <1>7, <1>8, <1>9 DEF IInv

\* The steps that touch neither entries, tasks nor what is owed.
LEMMA QuietStep ==
  ASSUME IInv, Wake \/ Leave \/ Stop \/ (\E c \in Channels : Toggle(c)) \/ UNCHANGED vars
  PROVE  IInv'
<1>1. UNCHANGED <<states, tasks, hold, restarts>>
  BY DEF Wake, Leave, Stop, Toggle, vars
<1>2. TypeOK'
  <2>1. CASE \E c \in Channels : Toggle(c)
    <3>1. enabled' \in [Channels -> BOOLEAN]
      BY <2>1 DEF IInv, TypeOK, Toggle
    <3>2. UNCHANGED <<phase, timer, stopping>>
      BY <2>1 DEF Toggle
    <3>3. QED
      BY <1>1, <3>1, <3>2 DEF IInv, TypeOK
  <2>2. CASE Wake \/ Leave \/ Stop \/ UNCHANGED vars
    <3>1. UNCHANGED enabled
      BY <2>2 DEF Wake, Leave, Stop, vars
    <3>2. phase' \in {"list", "run", "sleep", "stopped"} /\ timer' \in Nat
      BY <2>2 DEF IInv, TypeOK, Wake, Leave, Stop, vars
    <3>3. stopping' = TRUE \/ stopping' = stopping
      BY <2>2 DEF Wake, Leave, Stop, vars
    <3>4. QED
      BY <1>1, <3>1, <3>2, <3>3 DEF IInv, TypeOK
  <2>3. QED
    BY <2>1, <2>2
<1>3. RoundOpen'
  BY <1>1 DEF IInv, RoundOpen, Wake, Leave, Stop, Toggle, vars
<1>4. HoldCovered'
  BY <1>1 DEF IInv, HoldCovered, Cover
<1>5. NoOversleep'
  BY <1>1 DEF IInv, NoOversleep, Wake, Leave, Stop, Toggle, vars
<1>6. QED
  BY <1>2, <1>3, <1>4, <1>5 DEF IInv

LEMMA RestartStep == ASSUME IInv, Restart PROVE IInv'
<1> USE DEF Restart
<1>1. TypeOK'
  <2>1. states' \in [Channels -> [Capabilities -> State]]
    BY FreshTypes
  <2>2. tasks' \in [Channels -> Task]
    BY FreshTypes
  <2>3. hold' \in [Channels -> [Capabilities -> Nat]]
    OBVIOUS
  <2>4. restarts' \in 0..MaxRestarts
    BY Constants DEF IInv, TypeOK
  <2>5. QED
    BY <2>1, <2>2, <2>3, <2>4 DEF IInv, TypeOK
<1>2. RoundOpen'
  BY DEF RoundOpen
<1>3. HoldCovered'
  <2>1. SUFFICES ASSUME NEW c \in Channels, NEW k \in Capabilities
                 PROVE  hold'[c][k] <= Cover(c, k)'
    BY DEF HoldCovered
  <2>2. hold'[c][k] = 0 /\ states'[c][k] = Unknown /\ tasks'[c] = NoTask
    OBVIOUS
  <2> HIDE DEF Restart
  <2>3. states'[c][k].wait = 0 /\ k \notin tasks'[c].due
    BY <2>2, FreshTypes
  <2>4. QED
    BY <2>2, <2>3 DEF Cover
<1>4. NoOversleep'
  BY DEF NoOversleep
<1>5. QED
  BY <1>1, <1>2, <1>3, <1>4 DEF IInv

\* Time takes as much from what is owed as from what covers it.
LEMMA TickStep == ASSUME IInv, Tick PROVE IInv'
<1>1. \A c \in Channels : tasks[c] \in Task /\ Aged(tasks[c]) \in Nat
  <2>1. ASSUME NEW c \in Channels PROVE tasks[c] \in Task /\ tasks[c].age \in Nat
    BY DEF IInv, TypeOK, Task
  <2>2. QED
    BY <2>1, Constants DEF Aged, Smaller
<1>2. ASSUME NEW c \in Channels, NEW k \in Capabilities
      PROVE  /\ states'[c][k] \in State
             /\ states'[c][k].wait = Before(states[c][k].wait)
             /\ states'[c][k].known = states[c][k].known
             /\ hold'[c][k] = Before(hold[c][k])
             /\ hold'[c][k] \in Nat
  <2>1. states[c][k] \in State /\ states[c][k].wait \in Nat /\ hold[c][k] \in Nat
    BY Cell
  <2>2. states'[c][k] = [states[c][k] EXCEPT !.wait = Before(@)] /\ hold'[c][k] = Before(hold[c][k])
    BY DEF Tick
  <2>3. Before(states[c][k].wait) \in Nat /\ Before(hold[c][k]) \in Nat
    BY <2>1 DEF Before
  <2>4. QED
    BY <2>1, <2>2, <2>3 DEF State
<1>3. ASSUME NEW c \in Channels
      PROVE  /\ tasks'[c] \in Task /\ tasks'[c].due = tasks[c].due /\ tasks'[c].st = tasks[c].st
             /\ tasks'[c].result = tasks[c].result /\ tasks'[c].age = Aged(tasks[c])
  <2>1. tasks'[c] = [tasks[c] EXCEPT !.age = Aged(tasks[c])]
    BY DEF Tick
  <2>2. QED
    BY <1>1, <2>1 DEF Task
<1>4. TypeOK'
  <2>1. states' \in [Channels -> [Capabilities -> State]]
    BY <1>2 DEF Tick
  <2>2. tasks' \in [Channels -> Task]
    BY <1>3 DEF Tick
  <2>3. hold' \in [Channels -> [Capabilities -> Nat]]
    BY <1>2 DEF Tick
  <2>4. timer' \in Nat
    BY DEF Tick, Before, IInv, TypeOK
  <2>5. QED
    BY <2>1, <2>2, <2>3, <2>4 DEF Tick, IInv, TypeOK
<1>5. RoundOpen'
  <2>1. SUFFICES ASSUME phase' # "run", NEW c \in Channels PROVE tasks'[c] = NoTask
    BY DEF RoundOpen
  <2>2. tasks[c] = NoTask
    BY <2>1 DEF Tick, IInv, RoundOpen
  <2>3. tasks'[c] = [tasks[c] EXCEPT !.age = Aged(tasks[c])]
    BY DEF Tick
  <2>4. Aged(tasks[c]) = 0
    BY <2>2 DEF Aged, NoTask
  <2>5. [NoTask EXCEPT !.age = 0] = NoTask
    BY DEF NoTask
  <2>6. QED
    BY <2>2, <2>3, <2>4, <2>5
<1>6. HoldCovered'
  <2>1. SUFFICES ASSUME NEW c \in Channels, NEW k \in Capabilities
                 PROVE  hold'[c][k] <= Cover(c, k)'
    BY DEF HoldCovered
  <2>2. hold[c][k] \in Nat /\ states[c][k].wait \in Nat /\ tasks[c].age \in Nat
        /\ Owed(k, tasks[c].result[k]) \in Nat
    BY Cell
  <2>3. CASE k \notin tasks[c].due
    <3>1. Cover(c, k)' = Before(states[c][k].wait)
      BY <1>2, <1>3, <2>3 DEF Cover
    <3>2. hold[c][k] <= states[c][k].wait
      BY <2>3, Cell
    <3>3. QED
      BY <1>2, <2>2, <3>1, <3>2 DEF Before
  <2>4. CASE k \in tasks[c].due /\ tasks[c].st = "done"
    <3> DEFINE owed == Owed(k, tasks[c].result[k])
    <3>1. Cover(c, k)' = Left(owed, Aged(tasks[c]))
      BY <1>3, <2>4 DEF Cover
    <3>2. hold[c][k] <= Left(owed, tasks[c].age)
      BY <2>4, Cell
    <3>3. Aged(tasks[c]) <= tasks[c].age + 1 /\ Aged(tasks[c]) \in Nat
      BY <1>1, <2>2, <2>4, Constants DEF Aged, Smaller
    <3> HIDE DEF owed
    <3>4. owed \in Nat
      BY <2>2 DEF owed
    <3>5. QED
      BY <1>2, <2>2, <3>1, <3>2, <3>3, <3>4 DEF Before, Left
  <2>5. CASE k \in tasks[c].due /\ tasks[c].st # "done"
    <3>1. hold[c][k] = 0 /\ Cover(c, k)' = 0
      BY <1>3, <2>5, Cell DEF Cover
    <3>2. QED
      BY <1>2, <3>1 DEF Before
  <2>6. QED
    BY <2>3, <2>4, <2>5
<1>7. NoOversleep'
  <2>1. SUFFICES ASSUME phase' = "sleep", NEW c \in Channels, NEW k \in Capabilities,
                        states'[c][k].known
                 PROVE  states'[c][k].wait >= timer' \/ timer' <= IdleDelay
    BY DEF NoOversleep
  <2>2. states[c][k].wait >= timer \/ timer <= IdleDelay
    BY <1>2, <2>1 DEF Tick, IInv, NoOversleep
  <2>3. timer \in Nat /\ states[c][k].wait \in Nat /\ timer' = Before(timer)
    BY Cell DEF Tick, IInv, TypeOK
  <2>4. QED
    BY <1>2, <2>2, <2>3, Constants DEF Before
<1>8. QED
  BY <1>4, <1>5, <1>6, <1>7 DEF IInv

LEMMA NextIInv == IInv /\ [Next]_vars => IInv'
<1>1. SUFFICES ASSUME IInv, [Next]_vars PROVE IInv'
  OBVIOUS
<1>2. CASE List \/ ListFails \/ BreakSubmit \/ RoundEnds
  BY <1>1, <1>2, ListStep, ListFailsStep, BreakSubmitStep, RoundEndsStep
<1>3. CASE \E c \in Channels : TaskStep(c)
  BY <1>1, <1>3, SubmitStep, LockDeniedStep, SyncEndsStep DEF TaskStep
<1>4. CASE Wake \/ Leave \/ Stop \/ (\E c \in Channels : Toggle(c)) \/ UNCHANGED vars
  BY <1>1, <1>4, QuietStep
<1>5. CASE Tick \/ Restart
  BY <1>1, <1>5, TickStep, RestartStep
<1>6. QED
  BY <1>1, <1>2, <1>3, <1>4, <1>5 DEF Next

-----------------------------------------------------------------------------
\* The invariant holds in every reachable state.
THEOREM Inductive == Spec => []IInv
<1>1. QED
  BY InitIInv, NextIInv, PTL DEF Spec

\* Every variable of the collector keeps its type.
THEOREM TypeCorrect == Spec => []TypeOK
<1>1. IInv => TypeOK
  BY DEF IInv
<1>2. QED
  BY Inductive, <1>1, PTL

\* Whatever the periods, the backoff and the answers of the upstreams, nothing is
\* asked for before its period or the wait its failure imposed is over: the delay
\* counted from completedAt survives the wait for the rest of the round.
THEOREM NeverEarly == Spec => []AskedOnlyWhenDue
<1>1. IInv => AskedOnlyWhenDue
  <2>1. SUFFICES ASSUME IInv, NEW c \in Channels, tasks[c].st \in {"lock", "sync"},
                        NEW k \in tasks[c].due
                 PROVE  hold[c][k] = 0
    BY DEF AskedOnlyWhenDue
  <2>2. k \in Capabilities
    BY <2>1 DEF IInv, TypeOK, Task
  <2>3. QED
    BY <2>1, <2>2, Cell
<1>2. QED
  BY Inductive, <1>1, PTL

\* The loop never sleeps past an entry that was ahead when it went to sleep.
THEOREM NeverLate == Spec => []NoOversleep
<1>1. IInv => NoOversleep
  BY DEF IInv
<1>2. QED
  BY Inductive, <1>1, PTL
=============================================================================
