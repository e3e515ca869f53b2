------------------------ MODULE KeyImportQueueProofs ------------------------
(***************************************************************************)
(* Theorems about KeyImportQueue, for every number of instances, accounts, *)
(* sites, batches and restarts.  The inductive invariant adds to TypeOK and *)
(* OneAutomation the shape of a goroutine's locals at each of its steps    *)
(* and the fact that a job number not yet given out has no goroutine.      *)
(***************************************************************************)
EXTENDS KeyImportQueue, FiniteSetTheorems, SequenceTheorems, TLAPS

\* What a goroutine's locals satisfy between two steps: it has a task in hand
\* from TakeTask until the task is settled, an outcome when it settles one, no
\* task once it is gone, and what remains of a site's budget is what was not spent.
WorkerInv(w) ==
  /\ w \in WorkerType
  /\ w.pc \in {"sleep", "wake", "run", "settle"} => w.hand # <<>>
  /\ w.pc = "settle" => w.outcome # <<>>
  /\ w.pc = "off" => w.queue = <<>>
  /\ \A c \in Channels : w.budget[c] >= 0 /\ w.spent[c] = ResolveLimit - w.budget[c]

WorkersOK == \A i \in Instances, j \in JobIds : WorkerInv(workers[i][j])

FreshJobs == \A i \in Instances, j \in JobIds : j > nextID[i] => workers[i][j].pc = "off"

IInv == TypeOK /\ WorkersOK /\ FreshJobs /\ OneAutomation

(***************************************************************************)
(* What a batch and its goroutine tell each other: its tasks in line (the  *)
(* one in hand first), the results it has recorded, and its counts.        *)
(***************************************************************************)
Live(w) == w.pc \notin {"off", "unlock"}
Line(w) == w.hand \o w.queue
AccountsOf(job) == {it.account : it \in job.items}
ResultsOf(job) == {<<it.account, it.status>> : it \in job.items}

\* There is a task in hand from the moment it is taken until it is settled.
HandShape(w) == Len(w.hand) = IF w.pc \in {"sleep", "wake", "run", "settle"} THEN 1 ELSE 0

\* Tasks are in the order of their tries, at most one apart, one per account.
InRounds(line) ==
  \A m, n \in 1..Len(line) : m < n =>
    /\ line[n].attempts - line[m].attempts \in {0, 1}
    /\ line[m].account # line[n].account

\* The tries an account had are those its task tells, and one more once it ran.
TriesTold(line, tries, ran) ==
  \A n \in 1..Len(line) :
    tries[line[n].account] = line[n].attempts + (IF n = 1 /\ ran THEN 1 ELSE 0)

\* Each result is of an account of its own that is no longer in line.
ResultsTold(items, line, tries) ==
  \A it \in items :
    /\ it.attempts = tries[it.account]
    /\ \A n \in 1..Len(line) : line[n].account # it.account
    /\ \A other \in items : other.account = it.account => other = it

\* The counts of a batch that runs.
Progress(job, w) ==
  /\ job.deferred = Cardinality(DeferredItems(job))
  /\ job.pending = Len(w.queue) + (IF w.pc \in {"sleep", "wake"} THEN 1 ELSE 0)
  /\ job.done + Len(Line(w)) = job.total

\* The counts of any batch.
Counts(job) ==
  /\ IsFiniteSet(job.items)
  /\ Cardinality(AccountsOf(job)) = job.done /\ Cardinality(ResultsOf(job)) = job.done
  /\ job.status = "absent" => job = Absent
  /\ job.status \in {"done", "canceled"} =>
       LET unreached == job.deferred - Cardinality(DeferredItems(job)) IN
       /\ job.pending = 0 /\ ~job.retryAt /\ unreached >= 0 /\ job.done + unreached = job.total
       /\ job.error = "none" => unreached = 0

InStep(job, w) ==
  /\ HandShape(w) /\ InRounds(Line(w)) /\ TriesTold(Line(w), w.tries, w.pc = "settle")
  /\ ResultsTold(job.items, Line(w), w.tries)
  /\ \A a \in Accounts : w.tries[a] <= MaxAttempts
  /\ Progress(job, w)

Pair(job, w) == Counts(job) /\ (Live(w) <=> job.status = "running") /\ (Live(w) => InStep(job, w))

Pairs == \A i \in Instances, j \in JobIds : Pair(jobs[i][j], workers[i][j])

\* The batch that runs is the one the queue says, and a number that was not
\* given out has no batch.
Slots ==
  \A i \in Instances, j \in JobIds :
    /\ jobs[i][j].status = "running" => running[i] = j
    /\ j > nextID[i] => jobs[i][j].status = "absent"

BatchInv == Pairs /\ Slots

-----------------------------------------------------------------------------
LEMMA Params == /\ ResolveLimit \in Nat /\ MaxAttempts \in Nat /\ MaxAttempts >= 1
                /\ MaxJobs \in Nat /\ MaxRestarts \in Nat
  BY QueueAssumption

LEMMA OffInv == WorkerInv(Off) /\ WorkerInv(Unlocking)
<1>1. /\ [c \in Channels |-> ResolveLimit] \in [Channels -> Int]
      /\ [a \in Accounts |-> 0] \in [Accounts -> Nat]
      /\ [c \in Channels |-> 0] \in [Channels -> Nat]
  BY QueueAssumption
<1>2. <<>> \in Seq(Task) /\ <<>> \in Seq(OutcomeType)
  OBVIOUS
<1>3. Off \in WorkerType /\ Unlocking \in WorkerType
  BY <1>1, <1>2 DEF WorkerType, Off, Unlocking
<1>4. \A c \in Channels : ResolveLimit >= 0 /\ 0 = ResolveLimit - ResolveLimit
  BY QueueAssumption
<1> QED
  BY <1>3, <1>4 DEF WorkerInv, Off, Unlocking

\* The locals of a batch that has just begun.
LEMMA NewWorkerInv ==
  ASSUME NEW ts \in Seq(Accounts) PROVE WorkerInv(NewWorker(ts)) /\ NewWorker(ts).pc = "lock"
<1> DEFINE q == [n \in 1..Len(ts) |-> [account |-> ts[n], attempts |-> 0, backoff |-> "none"]]
<1>1. q \in Seq(Task)
  BY QueueAssumption DEF Task
<1>2. NewWorker(ts) = [Off EXCEPT !.pc = "lock", !.queue = q]
  BY DEF NewWorker
<1> HIDE DEF q
<1>3. Off \in WorkerType
  BY OffInv DEF WorkerInv
<1>4. NewWorker(ts) \in WorkerType
  BY <1>1, <1>2, <1>3 DEF WorkerType
<1>5. /\ NewWorker(ts).pc = "lock"
      /\ NewWorker(ts).budget = Off.budget /\ NewWorker(ts).spent = Off.spent
  BY <1>2, <1>3 DEF WorkerType
<1> QED
  BY <1>4, <1>5, OffInv DEF WorkerInv

LEMMA OutcomeFacts ==
  ASSUME NEW a \in Accounts, NEW left \in 0..ResolveLimit, NEW o \in Outcomes(a, left)
  PROVE  /\ o \in OutcomeType
         /\ o.resolves \in 0..left
<1>1. CASE a \in Inactive
  <2>1. o = [status |-> "skipped", retry |-> FALSE, resolves |-> 0]
    BY <1>1 DEF Outcomes
  <2> QED
    BY <2>1, Params DEF OutcomeType, Statuses
<1>2. CASE a \notin Inactive /\ left <= 0
  <2>1. o = [status |-> "deferred", retry |-> FALSE, resolves |-> 0]
    BY <1>2 DEF Outcomes
  <2> QED
    BY <2>1, Params DEF OutcomeType, Statuses
<1>3. CASE a \notin Inactive /\ ~(left <= 0)
  <2>1. \/ o \in [status : {"failed"}, retry : BOOLEAN, resolves : {0}]
        \/ o \in [status : {"ok"}, retry : {FALSE}, resolves : 0..left]
        \/ o \in [status : {"deferred"}, retry : {FALSE}, resolves : 1..left]
    BY <1>3 DEF Outcomes
  <2>2. CASE o \in [status : {"failed"}, retry : BOOLEAN, resolves : {0}]
    BY <2>2, Params DEF OutcomeType, Statuses
  <2>3. CASE o \in [status : {"ok"}, retry : {FALSE}, resolves : 0..left]
    <3>1. o.resolves \in 0..left /\ o.resolves \in 0..left /\ o.resolves \in 0..ResolveLimit
      BY <2>3, Params
    <3>2. o \in [status : {"ok"}, retry : {FALSE}, resolves : 0..ResolveLimit]
      BY <2>3, <3>1
    <3> QED
      BY <3>1, <3>2 DEF OutcomeType, Statuses
  <2>4. CASE o \in [status : {"deferred"}, retry : {FALSE}, resolves : 1..left]
    <3>1. o.resolves \in 1..left /\ o.resolves \in 0..left /\ o.resolves \in 0..ResolveLimit
      BY <2>4, Params
    <3>2. o \in [status : {"deferred"}, retry : {FALSE}, resolves : 0..ResolveLimit]
      BY <2>4, <3>1
    <3> QED
      BY <3>1, <3>2 DEF OutcomeType, Statuses
  <2> QED
    BY <2>1, <2>2, <2>3, <2>4
<1> QED
  BY <1>1, <1>2, <1>3

\* The operations on a job record preserve its type.
LEMMA JobOps ==
  ASSUME NEW job \in JobType
  PROVE  /\ \A n \in Nat, r \in BOOLEAN : Progressed(job, n, r) \in JobType
         /\ \A s \in {"done", "canceled"}, f \in {"none", "locked", "lock_error", "canceled"} :
              FinishedJob(job, s, f) \in JobType
         /\ \A it \in Item : Recorded(job, it) \in JobType
<1>0. /\ job.deferred \in Nat /\ job.pending \in Nat /\ job.done \in Nat
      /\ job.items \in SUBSET Item
  BY DEF JobType
<1>1. ASSUME NEW n \in Nat, NEW r \in BOOLEAN PROVE Progressed(job, n, r) \in JobType
  BY DEF JobType, Progressed
<1>2. ASSUME NEW s \in {"done", "canceled"}, NEW f \in {"none", "locked", "lock_error", "canceled"}
      PROVE  FinishedJob(job, s, f) \in JobType
  <2> DEFINE d == job.deferred + job.pending
  <2>1. d \in Nat
    BY <1>0
  <2> QED
    BY <2>1 DEF JobType, FinishedJob
<1>3. ASSUME NEW it \in Item PROVE Recorded(job, it) \in JobType
  <2> DEFINE d == IF it.status = "deferred" THEN job.deferred + 1 ELSE job.deferred
             n == job.done + 1
             its == job.items \cup {it}
  <2>1. d \in Nat /\ n \in Nat /\ its \in SUBSET Item
    BY <1>0
  <2> QED
    BY <2>1 DEF JobType, Recorded
<1> QED
  BY <1>1, <1>2, <1>3

LEMMA FreshJob == Absent \in JobType /\ \A n \in Nat : NewJob(n) \in JobType
  BY DEF JobType, NewJob, Absent

-----------------------------------------------------------------------------
(***************************************************************************)
(* A step of one goroutine that gives and takes no lock: it is enough to   *)
(* look at the locals and the job record it leaves behind.                 *)
(***************************************************************************)
LEMMA LocalStep ==
  ASSUME IInv, NEW i \in Instances, NEW j \in JobIds,
         NEW w, NEW job \in JobType,
         WorkerInv(w),
         workers[i][j].pc # "off",
         w.pc \in Critical <=> workers[i][j].pc \in Critical,
         workers' = [workers EXCEPT ![i][j] = w],
         jobs' = [jobs EXCEPT ![i][j] = job],
         running' \in [Instances -> JobIds \cup {NoJob}],
         UNCHANGED <<order, nextID, stopping, provisioning, holders, restarts>>
  PROVE  IInv'
<1> USE DEF IInv
<1>1. w \in WorkerType
  BY DEF WorkerInv
<1>2. TypeOK'
  BY <1>1 DEF TypeOK
<1>3. \A k \in Instances, l \in JobIds :
        workers'[k][l] = IF k = i /\ l = j THEN w ELSE workers[k][l]
  BY DEF TypeOK
<1>4. WorkersOK'
  BY <1>3 DEF WorkersOK
<1>5. FreshJobs'
  <2> SUFFICES ASSUME NEW k \in Instances, NEW l \in JobIds, l > nextID'[k]
               PROVE  workers'[k][l].pc = "off"
    BY DEF FreshJobs
  <2>1. workers[k][l].pc = "off"
    BY DEF FreshJobs
  <2> QED
    BY <1>3, <2>1
<1>6. OneAutomation'
  BY <1>3 DEF OneAutomation, Spending
<1> QED
  BY <1>2, <1>4, <1>5, <1>6

LEMMA JobTyped ==
  ASSUME IInv, NEW i \in Instances, NEW j \in JobIds
  PROVE  /\ jobs[i][j] \in JobType
         /\ WorkerInv(workers[i][j]) /\ workers[i][j] \in WorkerType
         /\ workers \in [Instances -> [JobIds -> WorkerType]]
         /\ running \in [Instances -> JobIds \cup {NoJob}]
         /\ [running EXCEPT ![i] = IF @ = j THEN NoJob ELSE @]
              \in [Instances -> JobIds \cup {NoJob}]
         /\ jobs = [jobs EXCEPT ![i][j] = jobs[i][j]]
  BY DEF IInv, TypeOK, WorkersOK

\* What finish does to the variables it writes.
LEMMA FinishFacts ==
  ASSUME IInv, NEW i \in Instances, NEW j \in JobIds, NEW job \in JobType,
         NEW s \in {"done", "canceled"},
         NEW f \in {"none", "locked", "lock_error", "canceled"},
         Finish(i, j, job, s, f)
  PROVE  /\ FinishedJob(job, s, f) \in JobType
         /\ jobs' = [jobs EXCEPT ![i][j] = FinishedJob(job, s, f)]
         /\ running' \in [Instances -> JobIds \cup {NoJob}]
<1>1. FinishedJob(job, s, f) \in JobType
  BY JobOps
<1>2. running' \in [Instances -> JobIds \cup {NoJob}]
  BY JobTyped DEF Finish
<1> QED
  BY <1>1, <1>2 DEF Finish

\* The ways the goroutine updates its locals keep WorkerInv.
LEMMA WorkerOps ==
  ASSUME NEW w, WorkerInv(w)
  PROVE  /\ \A pc \in {"lock", "loop"} : WorkerInv([w EXCEPT !.pc = pc])
         /\ w.hand # <<>> =>
              \A pc \in {"sleep", "wake", "run"} : WorkerInv([w EXCEPT !.pc = pc])
         /\ \A task \in Task, q \in Seq(Task), pc \in {"sleep", "wake"} :
              WorkerInv([w EXCEPT !.hand = <<task>>, !.queue = q, !.pc = pc])
         /\ \A q \in Seq(Task) :
              WorkerInv([w EXCEPT !.pc = "loop", !.queue = q, !.hand = <<>>, !.outcome = <<>>])
<1>1. /\ w \in WorkerType
      /\ w.pc \in {"sleep", "wake", "run", "settle"} => w.hand # <<>>
      /\ w.pc = "settle" => w.outcome # <<>>
      /\ \A c \in Channels : w.budget[c] >= 0 /\ w.spent[c] = ResolveLimit - w.budget[c]
  BY DEF WorkerInv
<1>2. ASSUME NEW pc \in {"lock", "loop"} PROVE WorkerInv([w EXCEPT !.pc = pc])
  BY <1>1 DEF WorkerInv, WorkerType
<1>3. ASSUME w.hand # <<>>, NEW pc \in {"sleep", "wake", "run"}
      PROVE  WorkerInv([w EXCEPT !.pc = pc])
  BY <1>1, <1>3 DEF WorkerInv, WorkerType
<1>4. ASSUME NEW task \in Task, NEW q \in Seq(Task), NEW pc \in {"sleep", "wake"}
      PROVE  WorkerInv([w EXCEPT !.hand = <<task>>, !.queue = q, !.pc = pc])
  <2>1. <<task>> \in Seq(Task) /\ <<task>> # <<>>
    OBVIOUS
  <2> QED
    BY <1>1, <2>1 DEF WorkerInv, WorkerType
<1>5. ASSUME NEW q \in Seq(Task)
      PROVE  WorkerInv([w EXCEPT !.pc = "loop", !.queue = q, !.hand = <<>>, !.outcome = <<>>])
  <2>1. <<>> \in Seq(Task) /\ <<>> \in Seq(OutcomeType)
    OBVIOUS
  <2> QED
    BY <1>1, <2>1 DEF WorkerInv, WorkerType
<1> QED
  BY <1>2, <1>3, <1>4, <1>5

LEMMA RunWorker ==
  ASSUME NEW w, WorkerInv(w), w.hand # <<>>, NEW a \in Accounts, NEW c \in Channels,
         NEW o \in Outcomes(a, w.budget[c])
  PROVE  WorkerInv([w EXCEPT !.pc = "settle", !.outcome = <<o>>,
                             !.budget = BudgetAfter(@, c, o),
                             !.tries[a] = @ + 1, !.spent[c] = @ + o.resolves])
<1>1. w \in WorkerType /\ \A d \in Channels : w.budget[d] >= 0 /\ w.spent[d] = ResolveLimit - w.budget[d]
  BY DEF WorkerInv
<1>2. w.budget[c] \in 0..ResolveLimit
  BY <1>1, Params DEF WorkerType
<1>3. o \in OutcomeType /\ o.resolves \in 0..w.budget[c]
  BY <1>2, OutcomeFacts
<1> DEFINE b == BudgetAfter(w.budget, c, o)
           t == [w.tries EXCEPT ![a] = @ + 1]
           s == [w.spent EXCEPT ![c] = @ + o.resolves]
<1>4. /\ b \in [Channels -> Int] /\ t \in [Accounts -> Nat] /\ s \in [Channels -> Nat]
      /\ \A d \in Channels : b[d] >= 0 /\ s[d] = ResolveLimit - b[d]
  BY <1>1, <1>2, <1>3, Params, SMTT(40) DEF WorkerType, BudgetAfter
<1>5. <<o>> \in Seq(OutcomeType) /\ <<o>> # <<>>
  BY <1>3
<1> HIDE DEF b, t, s
<1>6. WorkerInv([w EXCEPT !.pc = "settle", !.outcome = <<o>>, !.budget = b, !.tries = t, !.spent = s])
  BY <1>1, <1>4, <1>5 DEF WorkerInv, WorkerType
<1> QED
  BY <1>6 DEF b, t, s

-----------------------------------------------------------------------------
(***************************************************************************)
(* Every step of a goroutine preserves IInv.                               *)
(***************************************************************************)
LEMMA GiveUpStep ==
  ASSUME IInv, NEW i \in Instances, NEW j \in JobIds, LockBusy(i, j) \/ LockError(i, j)
  PROVE  IInv'
<1>1. PICK f \in {"locked", "lock_error"} : Finish(i, j, jobs[i][j], "done", f)
  BY DEF LockBusy, LockError
<1>2. /\ workers[i][j].pc = "lock"
      /\ workers' = [workers EXCEPT ![i][j] = Off]
      /\ UNCHANGED <<order, nextID, stopping, provisioning, holders, restarts>>
  BY DEF LockBusy, LockError, At
<1>3. /\ FinishedJob(jobs[i][j], "done", f) \in JobType
      /\ jobs' = [jobs EXCEPT ![i][j] = FinishedJob(jobs[i][j], "done", f)]
      /\ running' \in [Instances -> JobIds \cup {NoJob}]
  BY <1>1, JobTyped, FinishFacts
<1>4. Off.pc \notin Critical /\ "lock" \notin Critical
  BY DEF Off, Critical
<1> QED
  BY <1>2, <1>3, <1>4, OffInv, LocalStep

LEMMA EndStep ==
  ASSUME IInv, NEW i \in Instances, NEW j \in JobIds,
         SleepCanceled(i, j) \/ SettleCanceled(i, j) \/ QueueEmpty(i, j)
  PROVE  IInv'
<1> DEFINE w == workers[i][j]
<1>1. /\ jobs[i][j] \in JobType
      /\ Interrupted(jobs[i][j], w) \in JobType
  <2>1. jobs[i][j] \in JobType /\ Len(w.queue) + 1 \in Nat
    BY JobTyped DEF WorkerType
  <2> QED
    BY <2>1, JobOps DEF Interrupted
<1>2. PICK job \in JobType, s \in {"done", "canceled"}, f \in {"none", "canceled"} :
        Finish(i, j, job, s, f)
  BY <1>1 DEF SleepCanceled, SettleCanceled, QueueEmpty
<1>3. /\ w.pc \in {"sleep", "settle", "loop"}
      /\ workers' = [workers EXCEPT ![i][j] = Unlocking]
      /\ UNCHANGED <<order, nextID, stopping, provisioning, holders, restarts>>
  BY DEF SleepCanceled, SettleCanceled, QueueEmpty, At
<1>4. /\ FinishedJob(job, s, f) \in JobType
      /\ jobs' = [jobs EXCEPT ![i][j] = FinishedJob(job, s, f)]
      /\ running' \in [Instances -> JobIds \cup {NoJob}]
  BY <1>2, FinishFacts
<1>5. Unlocking.pc = "unlock"
  BY DEF Unlocking, Off
<1>6. w.pc # "off" /\ (Unlocking.pc \in Critical <=> w.pc \in Critical)
  BY <1>3, <1>5 DEF Critical
<1> QED
  BY <1>3, <1>4, <1>6, OffInv, LocalStep

LEMMA TakeTaskStep ==
  ASSUME IInv, NEW i \in Instances, NEW j \in JobIds, TakeTask(i, j)
  PROVE  IInv'
<1> DEFINE w == workers[i][j]
           task == Head(w.queue)
           q == Tail(w.queue)
           pc == IF task.backoff = "waiting" THEN "sleep" ELSE "wake"
           v == [w EXCEPT !.hand = <<task>>, !.queue = q, !.pc = pc]
           job == Progressed(jobs[i][j], Len(w.queue), task.backoff # "none")
<1>1. WorkerInv(w) /\ w \in WorkerType /\ jobs[i][j] \in JobType
  BY JobTyped
<1>2. w.queue \in Seq(Task) /\ w.queue # <<>>
  BY <1>1 DEF TakeTask, WorkerType
<1>3. task \in Task /\ q \in Seq(Task) /\ Len(w.queue) \in Nat
  BY <1>2
<1>4. pc \in {"sleep", "wake"}
  OBVIOUS
<1>5. WorkerInv(v)
  BY <1>1, <1>3, <1>4, WorkerOps
<1>6. job \in JobType
  BY <1>1, <1>3, JobOps
<1>7. v.pc = pc
  BY <1>1 DEF WorkerType
<1>8. /\ w.pc = "loop"
      /\ workers' = [workers EXCEPT ![i][j] = v]
      /\ jobs' = [jobs EXCEPT ![i][j] = job]
      /\ UNCHANGED <<order, nextID, running, stopping, provisioning, holders, restarts>>
  BY DEF TakeTask, At
<1>9. w.pc # "off" /\ (v.pc \in Critical <=> w.pc \in Critical)
  BY <1>4, <1>7, <1>8 DEF Critical
<1> HIDE DEF w, v, job
<1> QED
  BY <1>5, <1>6, <1>8, <1>9, JobTyped, LocalStep DEF w

LEMMA WakeSteps ==
  ASSUME IInv, NEW i \in Instances, NEW j \in JobIds, SleepOver(i, j) \/ Wake(i, j)
  PROVE  IInv'
<1> DEFINE w == workers[i][j]
<1>1. WorkerInv(w) /\ w \in WorkerType /\ jobs[i][j] \in JobType
  BY JobTyped
<1>2. w.pc \in {"sleep", "wake"} /\ w.hand # <<>>
  BY <1>1 DEF SleepOver, Wake, At, WorkerInv
<1>3. PICK pc \in {"wake", "run"} : workers' = [workers EXCEPT ![i][j] = [w EXCEPT !.pc = pc]]
  BY JobTyped DEF SleepOver, Wake
<1>4. WorkerInv([w EXCEPT !.pc = pc]) /\ [w EXCEPT !.pc = pc].pc = pc
  BY <1>1, <1>2, WorkerOps DEF WorkerType
<1>5. PICK job \in JobType : jobs' = [jobs EXCEPT ![i][j] = job]
  <2>1. CASE SleepOver(i, j)
    BY <2>1, <1>1 DEF SleepOver, IInv, TypeOK
  <2>2. CASE Wake(i, j)
    <3>1. Len(w.queue) \in Nat
      BY <1>1 DEF WorkerType
    <3>2. Progressed(jobs[i][j], Len(w.queue), FALSE) \in JobType
      BY <1>1, <3>1, JobOps
    <3> QED
      BY <2>2, <3>2 DEF Wake
  <2> QED
    BY <2>1, <2>2
<1>6. UNCHANGED <<order, nextID, running, stopping, provisioning, holders, restarts>>
  BY DEF SleepOver, Wake
<1>7. w.pc # "off" /\ ([w EXCEPT !.pc = pc].pc \in Critical <=> w.pc \in Critical)
  BY <1>2, <1>4 DEF Critical
<1> DEFINE v == [w EXCEPT !.pc = pc]
<1> HIDE DEF v
<1> QED
  BY <1>3, <1>4, <1>5, <1>6, <1>7, JobTyped, LocalStep DEF v

LEMMA RunStep ==
  ASSUME IInv, NEW i \in Instances, NEW j \in JobIds, RunTask(i, j)
  PROVE  IInv'
<1> DEFINE w == workers[i][j]
           a == w.hand[1].account
           c == ChannelOf[a]
           After(o) == [w EXCEPT !.pc = "settle", !.outcome = <<o>>,
                                 !.budget = BudgetAfter(@, c, o),
                                 !.tries[a] = @ + 1, !.spent[c] = @ + o.resolves]
<1>0. w.pc = "run"
  BY DEF RunTask, At
<1>1. /\ WorkerInv(w) /\ w \in WorkerType /\ jobs[i][j] \in JobType
      /\ w.pc = "run" /\ w.hand # <<>>
  BY <1>0, JobTyped DEF WorkerInv
<1>2. a \in Accounts /\ c \in Channels
  <2>1. w.hand[1] \in Task
    BY <1>1 DEF WorkerType
  <2> QED
    BY <2>1, QueueAssumption DEF Task
<1>3. PICK o \in Outcomes(a, w.budget[c]) : workers' = [workers EXCEPT ![i][j] = After(o)]
  BY DEF RunTask
<1>4. WorkerInv(After(o))
  BY <1>1, <1>2, RunWorker
<1>5. After(o).pc = "settle"
  BY <1>1 DEF WorkerType
<1>6. /\ jobs' = [jobs EXCEPT ![i][j] = jobs[i][j]]
      /\ UNCHANGED <<order, nextID, running, stopping, provisioning, holders, restarts>>
  BY JobTyped DEF RunTask
<1>7. w.pc # "off" /\ (After(o).pc \in Critical <=> w.pc \in Critical)
  BY <1>1, <1>5 DEF Critical
<1> HIDE DEF After
<1> QED
  BY <1>1, <1>3, <1>4, <1>6, <1>7, JobTyped, LocalStep

LEMMA RetryStep ==
  ASSUME IInv, NEW i \in Instances, NEW j \in JobIds, SettleRetry(i, j)
  PROVE  IInv'
<1> DEFINE w == workers[i][j]
           task == w.hand[1]
           next == [task EXCEPT !.attempts = @ + 1, !.backoff = "waiting"]
           queue == Requeued(w.queue, task)
           v == [w EXCEPT !.pc = "loop", !.queue = queue, !.hand = <<>>, !.outcome = <<>>]
           job == Progressed(jobs[i][j], Len(queue), Head(queue).backoff # "none")
<1>1. /\ WorkerInv(w) /\ w \in WorkerType /\ jobs[i][j] \in JobType
      /\ w.pc = "settle" /\ w.hand # <<>>
  BY JobTyped, ZenonT(60) DEF SettleRetry, At, WorkerInv
<1>2. task \in Task /\ w.queue \in Seq(Task)
  BY <1>1 DEF WorkerType
<1>3. next \in Task
  <2>1. task.attempts + 1 < MaxAttempts /\ task.attempts \in Nat
    BY <1>2, Params, SMTT(90) DEF SettleRetry, MayRetry, Task
  <2>2. task.attempts + 1 \in 0..MaxAttempts - 1
    BY <2>1, Params
  <2> QED
    BY <1>2, <2>2 DEF Task
<1>4. queue \in Seq(Task) /\ Len(queue) \in Nat
  BY <1>2, <1>3 DEF Requeued
<1>5. WorkerInv(v)
  BY <1>1, <1>4, WorkerOps
<1>6. v.pc = "loop"
  BY <1>1 DEF WorkerType
<1>7. job \in JobType
  BY <1>1, <1>4, JobOps
<1>8. /\ workers' = [workers EXCEPT ![i][j] = v]
      /\ jobs' = [jobs EXCEPT ![i][j] = job]
      /\ UNCHANGED <<order, nextID, running, stopping, provisioning, holders, restarts>>
  BY DEF SettleRetry
<1>9. w.pc # "off" /\ (v.pc \in Critical <=> w.pc \in Critical)
  BY <1>1, <1>6 DEF Critical
<1> HIDE DEF v, job
<1> QED
  BY <1>5, <1>7, <1>8, <1>9, JobTyped, LocalStep

LEMMA RecordStep ==
  ASSUME IInv, NEW i \in Instances, NEW j \in JobIds, SettleRecord(i, j)
  PROVE  IInv'
<1> DEFINE w == workers[i][j]
           task == w.hand[1]
           o == w.outcome[1]
           item == [account |-> task.account, status |-> o.status, attempts |-> task.attempts + 1]
           v == [w EXCEPT !.pc = "loop", !.hand = <<>>, !.outcome = <<>>]
           job == Recorded(jobs[i][j], item)
<1>1. /\ WorkerInv(w) /\ w \in WorkerType /\ jobs[i][j] \in JobType
      /\ w.pc = "settle" /\ w.hand # <<>> /\ w.outcome # <<>>
  BY JobTyped DEF SettleRecord, At, WorkerInv
<1>2. task \in Task /\ o \in OutcomeType /\ w.queue \in Seq(Task)
  BY <1>1 DEF WorkerType
<1>3. item \in Item
  <2>1. task.attempts + 1 \in 1..MaxAttempts
    BY <1>2, Params, SMTT(90) DEF Task
  <2> QED
    BY <1>2, <2>1 DEF Item, Task, OutcomeType
<1>4. job \in JobType
  BY <1>1, <1>3, JobOps
<1>5. WorkerInv(v) /\ v.pc = "loop"
  <2>1. <<>> \in Seq(Task) /\ <<>> \in Seq(OutcomeType)
    OBVIOUS
  <2> QED
    BY <1>1, <2>1 DEF WorkerInv, WorkerType
<1>6. /\ workers' = [workers EXCEPT ![i][j] = v]
      /\ jobs' = [jobs EXCEPT ![i][j] = job]
      /\ UNCHANGED <<order, nextID, running, stopping, provisioning, holders, restarts>>
  BY DEF SettleRecord
<1>7. w.pc # "off" /\ (v.pc \in Critical <=> w.pc \in Critical)
  BY <1>1, <1>5 DEF Critical
<1> HIDE DEF v, job
<1> QED
  BY <1>4, <1>5, <1>6, <1>7, JobTyped, LocalStep

LEMMA ElapseStep ==
  ASSUME IInv, NEW i \in Instances, NEW j \in JobIds, Elapse(i, j)
  PROVE  IInv'
<1> DEFINE w == workers[i][j]
<1>1. WorkerInv(w) /\ w \in WorkerType /\ jobs[i][j] \in JobType
  BY JobTyped
<1>2. \A task \in Task : Over(task) \in Task
  BY DEF Over, Task
<1>3. \E v : /\ workers' = [workers EXCEPT ![i][j] = v]
             /\ WorkerInv(v) /\ v.pc = w.pc /\ w.pc # "off"
  <2>1. CASE /\ At(i, j, "sleep") /\ w.hand[1].backoff = "waiting"
             /\ workers' = [workers EXCEPT ![i][j].hand = <<Over(w.hand[1])>>]
    <3> DEFINE h == <<Over(w.hand[1])>>
    <3>1. w.hand \in Seq(Task) /\ w.hand # <<>>
      BY <1>1, <2>1 DEF WorkerInv, WorkerType, At
    <3>2. h \in Seq(Task) /\ h # <<>>
      BY <1>2, <3>1
    <3> HIDE DEF h
    <3>3. WorkerInv([w EXCEPT !.hand = h]) /\ [w EXCEPT !.hand = h].pc = w.pc
      BY <1>1, <3>2 DEF WorkerInv, WorkerType
    <3>4. workers' = [workers EXCEPT ![i][j] = [w EXCEPT !.hand = h]]
      BY <2>1, JobTyped DEF h
    <3> QED
      BY <2>1, <3>3, <3>4 DEF At
  <2>2. CASE \E n \in 1..Len(w.queue) :
               /\ w.queue[n].backoff = "waiting"
               /\ workers' = [workers EXCEPT ![i][j].queue[n] = Over(@)]
    <3>1. PICK n \in 1..Len(w.queue) : workers' = [workers EXCEPT ![i][j].queue[n] = Over(@)]
      BY <2>2
    <3> DEFINE q == [w.queue EXCEPT ![n] = Over(@)]
    <3>2. w.queue \in Seq(Task) /\ w.queue[n] \in Task /\ w.queue # <<>>
      BY <1>1 DEF WorkerType
    <3>3. q \in Seq(Task)
      BY <1>2, <3>2
    <3> HIDE DEF q
    <3>4. w.pc # "off"
      BY <1>1, <3>2 DEF WorkerInv
    <3>5. WorkerInv([w EXCEPT !.queue = q]) /\ [w EXCEPT !.queue = q].pc = w.pc
      BY <1>1, <3>3, <3>4 DEF WorkerInv, WorkerType
    <3>6. workers' = [workers EXCEPT ![i][j] = [w EXCEPT !.queue = q]]
      BY <3>1, JobTyped DEF q
    <3> QED
      BY <3>4, <3>5, <3>6
  <2> QED
    BY <2>1, <2>2 DEF Elapse
<1>4. /\ jobs' = [jobs EXCEPT ![i][j] = jobs[i][j]]
      /\ UNCHANGED <<order, nextID, running, stopping, provisioning, holders, restarts>>
  BY JobTyped DEF Elapse
<1>5. PICK v : /\ workers' = [workers EXCEPT ![i][j] = v]
               /\ WorkerInv(v) /\ v.pc = w.pc /\ w.pc # "off"
  BY <1>3
<1> QED
  BY <1>1, <1>4, <1>5, JobTyped, LocalStep

-----------------------------------------------------------------------------
(***************************************************************************)
(* The steps that take or give back the lock, begin a batch, or end a      *)
(* process.                                                                *)
(***************************************************************************)
\* A session is told apart by its process and its batch.
LEMMA Sessions ==
  ASSUME NEW i, NEW j, NEW k, NEW l
  PROVE  /\ [inst |-> k, job |-> l] \in Held(i, j) <=> k = i /\ l = j
         /\ Held(i, j) = {[inst |-> i, job |-> j]}
  BY DEF Held

LEMMA JobIdFacts == JobIds \subseteq Nat /\ NoJob \notin JobIds
  BY Params DEF JobIds, NoJob

LEMMA TakeLockStep ==
  ASSUME IInv, NEW i \in Instances, NEW j \in JobIds, TakeLock(i, j)
  PROVE  IInv'
<1> DEFINE v == [workers[i][j] EXCEPT !.pc = "loop"]
<1>1. /\ workers[i][j].pc = "lock" /\ holders = {}
      /\ workers' = [workers EXCEPT ![i][j] = v]
      /\ holders' = Held(i, j)
      /\ UNCHANGED <<jobs, order, nextID, running, stopping, provisioning, restarts>>
  BY JobTyped DEF TakeLock, At
<1>2. WorkerInv(v) /\ v \in WorkerType /\ v.pc = "loop"
  <2>1. WorkerInv(workers[i][j]) /\ workers[i][j] \in WorkerType
    BY JobTyped
  <2>2. WorkerInv(v)
    BY <2>1, WorkerOps
  <2> QED
    BY <2>1, <2>2 DEF WorkerInv, WorkerType
<1> HIDE DEF v
<1>3. \A k \in Instances, l \in JobIds :
        workers'[k][l] = IF k = i /\ l = j THEN v ELSE workers[k][l]
  BY <1>1, JobTyped
<1>4. TypeOK'
  <2>1. holders' \subseteq Holder
    BY <1>1 DEF Held, Holder
  <2>2. workers' \in [Instances -> [JobIds -> WorkerType]]
    BY <1>1, <1>2, JobTyped
  <2> QED
    BY <1>1, <2>1, <2>2 DEF IInv, TypeOK
<1>5. WorkersOK'
  BY <1>2, <1>3 DEF IInv, WorkersOK
<1>6. FreshJobs'
  BY <1>1, <1>3 DEF IInv, FreshJobs
<1>7. OneAutomation'
  <2>1. \A h, k \in holders' : h = k
    BY <1>1 DEF Held
  <2>2. ASSUME NEW k \in Instances, NEW l \in JobIds
        PROVE  Spending(k, l)' <=> [inst |-> k, job |-> l] \in holders'
    <3>1. Spending(k, l)' <=> (k = i /\ l = j) \/ Spending(k, l)
      BY <1>1, <1>2, <1>3 DEF Spending, Critical
    <3>2. ~Spending(k, l)
      BY <1>1 DEF IInv, OneAutomation
    <3> QED
      BY <1>1, <3>1, <3>2, Sessions
  <2>3. ASSUME NEW k \in Instances
        PROVE  provisioning'[k] <=> [inst |-> k, job |-> NoJob] \in holders'
    <3>1. ~provisioning'[k]
      BY <1>1 DEF IInv, OneAutomation
    <3> QED
      BY <1>1, <3>1, Sessions, JobIdFacts
  <2> QED
    BY <2>1, <2>2, <2>3 DEF OneAutomation
<1> QED
  BY <1>4, <1>5, <1>6, <1>7 DEF IInv

LEMMA UnlockStep ==
  ASSUME IInv, NEW i \in Instances, NEW j \in JobIds, Unlock(i, j)
  PROVE  IInv'
<1>1. /\ workers[i][j].pc = "unlock"
      /\ workers' = [workers EXCEPT ![i][j] = Off]
      /\ holders' = holders \ Held(i, j)
      /\ UNCHANGED <<jobs, order, nextID, running, stopping, provisioning, restarts>>
  BY DEF Unlock, At
<1>2. WorkerInv(Off) /\ Off \in WorkerType /\ Off.pc = "off"
  BY OffInv DEF WorkerInv, Off
<1>3. \A k \in Instances, l \in JobIds :
        workers'[k][l] = IF k = i /\ l = j THEN Off ELSE workers[k][l]
  BY <1>1, JobTyped
<1>4. TypeOK'
  <2>1. holders' \subseteq Holder
    BY <1>1 DEF IInv, TypeOK
  <2>2. workers' \in [Instances -> [JobIds -> WorkerType]]
    BY <1>1, <1>2, JobTyped
  <2> QED
    BY <1>1, <2>1, <2>2 DEF IInv, TypeOK
<1>5. WorkersOK'
  BY <1>2, <1>3 DEF IInv, WorkersOK
<1>6. FreshJobs'
  BY <1>1, <1>2, <1>3 DEF IInv, FreshJobs
<1>7. OneAutomation'
  <2>1. \A h, k \in holders' : h = k
    BY <1>1 DEF IInv, OneAutomation
  <2>2. ASSUME NEW k \in Instances, NEW l \in JobIds
        PROVE  Spending(k, l)' <=> [inst |-> k, job |-> l] \in holders'
    <3>1. Spending(k, l)' <=> ~(k = i /\ l = j) /\ Spending(k, l)
      BY <1>2, <1>3 DEF Spending, Critical
    <3>2. Spending(k, l) <=> [inst |-> k, job |-> l] \in holders
      BY DEF IInv, OneAutomation
    <3> QED
      BY <1>1, <3>1, <3>2, Sessions
  <2>3. ASSUME NEW k \in Instances
        PROVE  provisioning'[k] <=> [inst |-> k, job |-> NoJob] \in holders'
    <3>1. provisioning[k] <=> [inst |-> k, job |-> NoJob] \in holders
      BY DEF IInv, OneAutomation
    <3> QED
      BY <1>1, <3>1, Sessions, JobIdFacts
  <2> QED
    BY <2>1, <2>2, <2>3 DEF OneAutomation
<1> QED
  BY <1>4, <1>5, <1>6, <1>7 DEF IInv

LEMMA BeginStep ==
  ASSUME IInv, NEW i \in Instances, Begin(i)
  PROVE  IInv'
<1> DEFINE id == nextID[i] + 1
           ids == Append(order[i], id)
<1>1. /\ nextID \in [Instances -> JobIds \cup {NoJob}] /\ nextID[i] \in Nat
      /\ id \in JobIds /\ id > nextID[i]
  <2>0. nextID \in [Instances -> JobIds \cup {NoJob}]
    BY DEF IInv, TypeOK
  <2>1. nextID \in [Instances -> JobIds \cup {NoJob}] /\ nextID[i] \in Nat
    BY <2>0, Params DEF JobIds, NoJob
  <2>2. nextID[i] < MaxJobs
    <3>1. nextID[i] < JobBound[i] /\ JobBound[i] \in 0..MaxJobs
      BY QueueAssumption DEF Begin
    <3> QED
      BY <2>1, <3>1, Params
  <2> QED
    BY <2>1, <2>2, Params DEF JobIds
<1>2. PICK ts \in TargetLists[i], d \in 0..Len(order[i]) :
        /\ order' = [order EXCEPT ![i] = SubSeq(ids, d + 1, Len(ids))]
        /\ jobs' = [jobs EXCEPT ![i] =
             [k \in JobIds |-> IF \E n \in 1..d : ids[n] = k
                               THEN Absent
                               ELSE [jobs[i] EXCEPT ![id] = NewJob(Len(ts))][k]]]
        /\ nextID' = [nextID EXCEPT ![i] = id]
        /\ running' = [running EXCEPT ![i] = id]
        /\ workers' = [workers EXCEPT ![i][id] = NewWorker(ts)]
  BY DEF Begin
<1>3. UNCHANGED <<stopping, provisioning, holders, restarts>>
  BY DEF Begin
<1>4. ts \in Seq(Accounts) /\ Len(ts) \in Nat
  BY QueueAssumption
<1>5. WorkerInv(NewWorker(ts)) /\ NewWorker(ts) \in WorkerType /\ NewWorker(ts).pc = "lock"
  BY <1>4, NewWorkerInv DEF WorkerInv
<1>6. \A k \in Instances, l \in JobIds :
        workers'[k][l] = IF k = i /\ l = id THEN NewWorker(ts) ELSE workers[k][l]
  BY <1>1, <1>2, JobTyped
<1>7. workers[i][id].pc = "off"
  BY <1>1 DEF IInv, FreshJobs
<1>8. TypeOK'
  <2>1. order' \in [Instances -> Seq(JobIds)]
    <3>1. order[i] \in Seq(JobIds) /\ order \in [Instances -> Seq(JobIds)]
      BY DEF IInv, TypeOK
    <3>2. ids \in Seq(JobIds) /\ d + 1 \in Nat /\ d + 1 >= 1
      BY <1>1, <3>1
    <3>3. SubSeq(ids, d + 1, Len(ids)) \in Seq(JobIds)
      BY <3>2, SMTT(40)
    <3> QED
      BY <1>2, <3>1, <3>3
  <2>2. jobs' \in [Instances -> [JobIds -> JobType]]
    <3>1. NewJob(Len(ts)) \in JobType /\ Absent \in JobType
      BY <1>4, FreshJob
    <3>2. jobs \in [Instances -> [JobIds -> JobType]]
      BY DEF IInv, TypeOK
    <3>3. [jobs[i] EXCEPT ![id] = NewJob(Len(ts))] \in [JobIds -> JobType]
      BY <3>1, <3>2
    <3> DEFINE all == [jobs[i] EXCEPT ![id] = NewJob(Len(ts))]
               new == [k \in JobIds |-> IF \E n \in 1..d : ids[n] = k THEN Absent ELSE all[k]]
    <3> HIDE DEF all
    <3>4. new \in [JobIds -> JobType]
      BY <3>1, <3>3 DEF all
    <3>5. jobs' = [jobs EXCEPT ![i] = new]
      BY <1>2 DEF all
    <3> HIDE DEF new
    <3> QED
      BY <3>2, <3>4, <3>5
  <2>3. workers' \in [Instances -> [JobIds -> WorkerType]]
    BY <1>1, <1>2, <1>5, JobTyped
  <2>4. nextID' \in [Instances -> JobIds \cup {NoJob}]
    BY <1>1, <1>2
  <2>5. running' \in [Instances -> JobIds \cup {NoJob}]
    BY <1>1, <1>2, JobTyped
  <2> QED
    BY <1>3, <2>1, <2>2, <2>3, <2>4, <2>5 DEF IInv, TypeOK
<1> HIDE DEF id
<1>9. WorkersOK'
  BY <1>5, <1>6 DEF IInv, WorkersOK
<1>10. FreshJobs'
  <2> SUFFICES ASSUME NEW k \in Instances, NEW l \in JobIds, l > nextID'[k]
               PROVE  workers'[k][l].pc = "off"
    BY DEF FreshJobs
  <2>1. l > nextID[k] /\ ~(k = i /\ l = id)
    <3>1. CASE k = i
      BY <1>1, <1>2, <3>1, JobIdFacts
    <3>2. CASE k # i
      BY <1>1, <1>2, <3>2
    <3> QED
      BY <3>1, <3>2
  <2> QED
    BY <1>6, <2>1 DEF IInv, FreshJobs
<1>11. OneAutomation'
  <2>1. ASSUME NEW k \in Instances, NEW l \in JobIds PROVE Spending(k, l)' <=> Spending(k, l)
    BY <1>1, <1>5, <1>6, <1>7 DEF Spending, Critical
  <2> QED
    BY <1>3, <2>1 DEF IInv, OneAutomation
<1> QED
  BY <1>8, <1>9, <1>10, <1>11 DEF IInv

LEMMA ProvisionStep ==
  ASSUME IInv, NEW i \in Instances, ProvisionStart(i) \/ ProvisionEnd(i)
  PROVE  IInv'
<1>1. /\ UNCHANGED <<jobs, order, nextID, running, workers, stopping, restarts>>
      /\ provisioning' \in [Instances -> BOOLEAN]
      /\ \A k \in Instances : k # i => provisioning'[k] = provisioning[k]
  BY DEF ProvisionStart, ProvisionEnd, IInv, TypeOK
<1>2. holders' \subseteq Holder
  <2>1. Held(i, NoJob) \subseteq Holder
    BY DEF Held, Holder
  <2> QED
    BY <2>1 DEF ProvisionStart, ProvisionEnd, IInv, TypeOK
<1>3. TypeOK'
  BY <1>1, <1>2 DEF IInv, TypeOK
<1>4. WorkersOK' /\ FreshJobs'
  BY <1>1 DEF IInv, WorkersOK, FreshJobs
<1>5. \A k \in Instances, l \in JobIds : Spending(k, l)' <=> Spending(k, l)
  BY <1>1 DEF Spending
<1>6. \A k \in Instances, l \in JobIds :
        [inst |-> k, job |-> l] \in holders' <=> [inst |-> k, job |-> l] \in holders
  <2> SUFFICES ASSUME NEW k \in Instances, NEW l \in JobIds
               PROVE  [inst |-> k, job |-> l] \in holders' <=> [inst |-> k, job |-> l] \in holders
    OBVIOUS
  <2>1. [inst |-> k, job |-> l] \notin Held(i, NoJob)
    BY Sessions, JobIdFacts
  <2> QED
    BY <2>1 DEF ProvisionStart, ProvisionEnd
<1>7. \A k \in Instances : provisioning'[k] <=> [inst |-> k, job |-> NoJob] \in holders'
  <2> SUFFICES ASSUME NEW k \in Instances
               PROVE  provisioning'[k] <=> [inst |-> k, job |-> NoJob] \in holders'
    OBVIOUS
  <2>1. /\ provisioning[k] <=> [inst |-> k, job |-> NoJob] \in holders
        /\ provisioning \in [Instances -> BOOLEAN]
    BY DEF IInv, OneAutomation, TypeOK
  <2>2. [inst |-> k, job |-> NoJob] \in Held(i, NoJob) <=> k = i
    BY Sessions
  <2>3. CASE ProvisionStart(i)
    <3>1. holders = {} /\ holders' = Held(i, NoJob)
      BY <2>3 DEF ProvisionStart
    <3>2. provisioning' = [provisioning EXCEPT ![i] = TRUE]
      BY <2>3 DEF ProvisionStart
    <3> QED
      BY <2>1, <2>2, <3>1, <3>2
  <2>4. CASE ProvisionEnd(i)
    <3>1. holders' = holders \ Held(i, NoJob)
      BY <2>4 DEF ProvisionEnd
    <3>2. provisioning' = [provisioning EXCEPT ![i] = FALSE]
      BY <2>4 DEF ProvisionEnd
    <3> QED
      BY <2>1, <2>2, <3>1, <3>2
  <2> QED
    BY <2>3, <2>4
<1>8. \A h, k \in holders' : h = k
  BY DEF ProvisionStart, ProvisionEnd, Held, IInv, OneAutomation
<1> QED
  BY <1>3, <1>4, <1>5, <1>6, <1>7, <1>8 DEF IInv, OneAutomation

LEMMA RestartStep ==
  ASSUME IInv, NEW i \in Instances, Restart(i)
  PROVE  IInv'
<1>1. /\ nextID' = [nextID EXCEPT ![i] = 0]
      /\ workers' = [workers EXCEPT ![i] = [j \in JobIds |-> Off]]
      /\ provisioning' = [provisioning EXCEPT ![i] = FALSE]
      /\ holders' = {h \in holders : h.inst # i}
  BY DEF Restart
<1>2. WorkerInv(Off) /\ Off \in WorkerType /\ Off.pc = "off"
  BY OffInv DEF WorkerInv, Off
<1>3. \A k \in Instances, l \in JobIds :
        workers'[k][l] = IF k = i THEN Off ELSE workers[k][l]
  BY <1>1, JobTyped
<1>4. TypeOK'
  <2>1. Absent \in JobType /\ restarts \in 0..MaxRestarts /\ restarts < MaxRestarts
    BY FreshJob DEF IInv, TypeOK, Restart
  <2>2. restarts' \in 0..MaxRestarts
    BY <2>1, Params DEF Restart
  <2>3. jobs' \in [Instances -> [JobIds -> JobType]]
    BY <2>1 DEF Restart, IInv, TypeOK
  <2>4. workers' \in [Instances -> [JobIds -> WorkerType]]
    BY <1>1, <1>2 DEF IInv, TypeOK
  <2>5. /\ nextID' \in [Instances -> JobIds \cup {NoJob}]
        /\ running' \in [Instances -> JobIds \cup {NoJob}]
    BY DEF Restart, IInv, TypeOK, NoJob
  <2>6. order' \in [Instances -> Seq(JobIds)]
    BY DEF Restart, IInv, TypeOK
  <2>7. stopping' \in [Instances -> BOOLEAN] /\ provisioning' \in [Instances -> BOOLEAN]
    BY DEF Restart, IInv, TypeOK
  <2>8. holders' \subseteq Holder
    BY <1>1 DEF IInv, TypeOK
  <2> QED
    BY <2>2, <2>3, <2>4, <2>5, <2>6, <2>7, <2>8 DEF TypeOK
<1>5. WorkersOK'
  BY <1>2, <1>3 DEF IInv, WorkersOK
<1>6. FreshJobs'
  <2> SUFFICES ASSUME NEW k \in Instances, NEW l \in JobIds, l > nextID'[k]
               PROVE  workers'[k][l].pc = "off"
    BY DEF FreshJobs
  <2>1. k # i => l > nextID[k]
    BY <1>1 DEF IInv, TypeOK
  <2> QED
    BY <1>2, <1>3, <2>1 DEF IInv, FreshJobs
<1>7. OneAutomation'
  <2>1. \A h, k \in holders' : h = k
    BY <1>1 DEF IInv, OneAutomation
  <2>2. ASSUME NEW k \in Instances, NEW l
        PROVE  [inst |-> k, job |-> l] \in holders' <=> k # i /\ [inst |-> k, job |-> l] \in holders
    BY <1>1
  <2>3. ASSUME NEW k \in Instances, NEW l \in JobIds
        PROVE  Spending(k, l)' <=> k # i /\ Spending(k, l)
    BY <1>2, <1>3 DEF Spending, Critical
  <2>4. ASSUME NEW k \in Instances PROVE provisioning'[k] <=> k # i /\ provisioning[k]
    BY <1>1 DEF IInv, TypeOK
  <2> QED
    BY <2>1, <2>2, <2>3, <2>4 DEF IInv, OneAutomation
<1> QED
  BY <1>4, <1>5, <1>6, <1>7 DEF IInv

-----------------------------------------------------------------------------
LEMMA InitInv == Init => IInv
<1> SUFFICES ASSUME Init PROVE IInv
  OBVIOUS
<1>1. WorkerInv(Off) /\ Off \in WorkerType /\ Off.pc = "off"
  BY OffInv DEF WorkerInv, Off
<1>2. jobs \in [Instances -> [JobIds -> JobType]]
  BY FreshJob DEF Init
<1>3. workers \in [Instances -> [JobIds -> WorkerType]]
  BY <1>1 DEF Init
<1>4. order \in [Instances -> Seq(JobIds)]
  BY DEF Init
<1>5. /\ nextID \in [Instances -> JobIds \cup {NoJob}]
      /\ running \in [Instances -> JobIds \cup {NoJob}]
      /\ stopping \in [Instances -> BOOLEAN] /\ provisioning \in [Instances -> BOOLEAN]
      /\ holders \subseteq Holder /\ restarts \in 0..MaxRestarts
  BY Params DEF Init, NoJob
<1>6. \A i \in Instances, j \in JobIds : workers[i][j] = Off
  BY DEF Init
<1>7. WorkersOK /\ FreshJobs
  BY <1>1, <1>6 DEF WorkersOK, FreshJobs
<1>8. OneAutomation
  BY <1>1, <1>6 DEF OneAutomation, Spending, Critical, Init
<1> QED
  BY <1>2, <1>3, <1>4, <1>5, <1>7, <1>8 DEF IInv, TypeOK

LEMMA StepInv == IInv /\ [Next]_vars => IInv'
<1> SUFFICES ASSUME IInv, [Next]_vars PROVE IInv'
  OBVIOUS
<1>1. ASSUME NEW i \in Instances, Begin(i) PROVE IInv'
  BY <1>1, BeginStep
<1>2. ASSUME NEW i \in Instances, ProvisionStart(i) \/ ProvisionEnd(i) PROVE IInv'
  BY <1>2, ProvisionStep
<1>3. ASSUME NEW i \in Instances, Shutdown(i) PROVE IInv'
  <2>1. UNCHANGED <<jobs, order, nextID, running, workers, provisioning, holders, restarts>>
    BY <1>3 DEF Shutdown
  <2>2. stopping' \in [Instances -> BOOLEAN]
    BY <1>3 DEF Shutdown, IInv, TypeOK
  <2>3. TypeOK' /\ WorkersOK' /\ FreshJobs'
    BY <2>1, <2>2 DEF IInv, TypeOK, WorkersOK, FreshJobs
  <2>4. OneAutomation'
    BY <2>1 DEF IInv, OneAutomation, Spending
  <2> QED
    BY <2>3, <2>4 DEF IInv
<1>4. ASSUME NEW i \in Instances, Restart(i) PROVE IInv'
  BY <1>4, RestartStep
<1>5. ASSUME NEW i \in Instances, NEW j \in JobIds, WorkerStep(i, j) PROVE IInv'
  BY <1>5, TakeLockStep, GiveUpStep, TakeTaskStep, WakeSteps, EndStep, RunStep, RetryStep,
     RecordStep, UnlockStep
     DEF WorkerStep
<1>6. ASSUME NEW i \in Instances, NEW j \in JobIds, Elapse(i, j) PROVE IInv'
  BY <1>6, ElapseStep
<1>7. CASE UNCHANGED vars
  BY <1>7 DEF vars, IInv, TypeOK, WorkersOK, FreshJobs, OneAutomation, Spending
<1> QED
  BY <1>1, <1>2, <1>3, <1>4, <1>5, <1>6, <1>7 DEF Next

THEOREM Inductive == Spec => []IInv
  BY InitInv, StepInv, PTL DEF Spec

\* Every variable keeps its type, for all numbers of instances, accounts, sites,
\* batches and restarts; with WorkerInv, a goroutine never settles or sleeps on a
\* task it does not have (the nil dereferences the loop of runKeyImportJob avoids).
THEOREM TypeCorrect == Spec => []TypeOK
<1>1. IInv => TypeOK
  BY DEF IInv
<1> QED
  BY <1>1, Inductive, PTL

\* Mutual exclusion of the batches and provisioning requests of all instances,
\* restarts included, and the advisory lock is held by exactly the one that runs.
THEOREM MutualExclusion == Spec => []OneAutomation
<1>1. IInv => OneAutomation
  BY DEF IInv
<1> QED
  BY <1>1, Inductive, PTL

\* No batch asks a site for more secrets than its budget, whatever the accounts,
\* the order they are tried in, and the retries.
THEOREM BudgetKeptPerSite == Spec => []SiteBudget
<1>1. IInv => SiteBudget
  BY Params DEF IInv, TypeOK, WorkersOK, WorkerInv, WorkerType, SiteBudget
<1> QED
  BY <1>1, Inductive, PTL
-----------------------------------------------------------------------------
(***************************************************************************)
(* The line of tasks.                                                      *)
(***************************************************************************)
LEMMA TaskFacts ==
  ASSUME NEW line \in Seq(Task), NEW n \in 1..Len(line)
  PROVE  /\ line[n] \in Task /\ line[n].account \in Accounts
         /\ line[n].attempts \in 0..MaxAttempts - 1 /\ line[n].attempts \in Int
<1>1. line[n] \in Task
  OBVIOUS
<1>2. 0..MaxAttempts - 1 \subseteq Int
  BY Params
<1> QED
  BY <1>1, <1>2 DEF Task

LEMMA LineFacts ==
  ASSUME NEW w \in WorkerType
  PROVE  /\ Line(w) \in Seq(Task) /\ w.hand \in Seq(Task) /\ w.queue \in Seq(Task)
         /\ Len(Line(w)) = Len(w.hand) + Len(w.queue)
         /\ Len(w.hand) \in Nat /\ Len(w.queue) \in Nat /\ Len(Line(w)) \in Nat
         /\ Len(w.hand) = 0 => \A n \in 1..Len(w.queue) : Line(w)[n] = w.queue[n]
         /\ Len(w.hand) = 1 =>
              /\ w.hand = <<w.hand[1]>> /\ w.hand[1] \in Task /\ Line(w)[1] = w.hand[1]
              /\ \A n \in 1..Len(w.queue) : Line(w)[n + 1] = w.queue[n]
<1>1. w.hand \in Seq(Task) /\ w.queue \in Seq(Task)
  BY DEF WorkerType
<1>2. /\ Line(w) \in Seq(Task) /\ Len(Line(w)) = Len(w.hand) + Len(w.queue)
      /\ \A n \in 1..Len(w.hand) + Len(w.queue) :
           Line(w)[n] = IF n <= Len(w.hand) THEN w.hand[n] ELSE w.queue[n - Len(w.hand)]
  BY <1>1, ConcatProperties DEF Line
<1>3. Len(w.hand) \in Nat /\ Len(w.queue) \in Nat /\ Len(Line(w)) \in Nat
  <2>1. \A s \in Seq(Task) : Len(s) \in Nat
    OBVIOUS
  <2> QED
    BY <1>1, <1>2, <2>1
<1>4. ASSUME Len(w.hand) = 0, NEW n \in 1..Len(w.queue) PROVE Line(w)[n] = w.queue[n]
  BY <1>2, <1>3, <1>4
<1>5. ASSUME Len(w.hand) = 1
      PROVE  /\ w.hand = <<w.hand[1]>> /\ w.hand[1] \in Task /\ Line(w)[1] = w.hand[1]
             /\ \A n \in 1..Len(w.queue) : Line(w)[n + 1] = w.queue[n]
  <2>1. w.hand = <<w.hand[1]>> /\ w.hand[1] \in Task
    BY <1>1, <1>5
  <2>2. Line(w)[1] = w.hand[1]
    BY <1>2, <1>3, <1>5
  <2>3. \A n \in 1..Len(w.queue) : Line(w)[n + 1] = w.queue[n]
    BY <1>2, <1>3, <1>5
  <2> QED
    BY <2>1, <2>2, <2>3
<1>6. Len(w.hand) = 0 => \A n \in 1..Len(w.queue) : Line(w)[n] = w.queue[n]
  BY <1>4
<1> HIDE DEF Line
<1> QED
  BY <1>1, <1>2, <1>3, <1>5, <1>6

\* Two lines with the same tasks but for their backoffs.
SameTasks(line, other) ==
  /\ Len(other) = Len(line)
  /\ \A n \in 1..Len(line) : other[n].account = line[n].account /\ other[n].attempts = line[n].attempts

LEMMA SameTasksKeep ==
  ASSUME NEW line, NEW other, SameTasks(line, other), NEW tries, NEW ran, NEW items
  PROVE  /\ InRounds(line) => InRounds(other)
         /\ TriesTold(line, tries, ran) => TriesTold(other, tries, ran)
         /\ ResultsTold(items, line, tries) => ResultsTold(items, other, tries)
  BY DEF SameTasks, InRounds, TriesTold, ResultsTold

\* other is line without its first task.
Shifted(line, other) ==
  /\ Len(line) \in Nat /\ Len(other) \in Nat
  /\ \A n \in 1..Len(line) - 1 : n \in 1..Len(other) /\ other[n] = line[n + 1]

\* The first task has run and is recorded.
LEMMA RecordKeeps ==
  ASSUME NEW line \in Seq(Task), NEW other, Shifted(line, other), Len(other) + 1 = Len(line),
         NEW tries, NEW items,
         InRounds(line), TriesTold(line, tries, TRUE), ResultsTold(items, line, tries),
         NEW item, item.account = line[1].account, item.attempts = line[1].attempts + 1
  PROVE  /\ InRounds(other) /\ TriesTold(other, tries, FALSE)
         /\ ResultsTold(items \cup {item}, other, tries)
         /\ \A it \in items : it.account # item.account
<1>0. /\ Len(line) \in Nat /\ Len(other) \in Nat /\ Len(line) >= 1
      /\ \A n \in 1..Len(other) : n + 1 \in 1..Len(line) /\ n + 1 # 1 /\ other[n] = line[n + 1]
  BY DEF Shifted
<1>t. \A n \in 1..Len(line) : line[n].attempts \in Int
  BY TaskFacts
<1>1. InRounds(other)
  <2> SUFFICES ASSUME NEW m \in 1..Len(other), NEW n \in 1..Len(other), m < n
               PROVE  /\ other[n].attempts - other[m].attempts \in {0, 1}
                      /\ other[m].account # other[n].account
    BY DEF InRounds
  <2>1. m + 1 < n + 1 /\ m + 1 \in 1..Len(line) /\ n + 1 \in 1..Len(line)
    BY <1>0
  <2> QED
    BY <1>0, <2>1, SMTT(90) DEF InRounds
<1>2. TriesTold(other, tries, FALSE)
  <2> SUFFICES ASSUME NEW n \in 1..Len(other)
               PROVE  tries[other[n].account] = other[n].attempts + 0
    BY DEF TriesTold
  <2>1. n + 1 \in 1..Len(line) /\ n + 1 # 1 /\ other[n] = line[n + 1]
    BY <1>0
  <2> QED
    BY <2>1 DEF TriesTold
<1>3. \A it \in items : it.account # item.account
  BY <1>0 DEF ResultsTold
<1>4. ResultsTold(items \cup {item}, other, tries)
  <2>1. item.attempts = tries[item.account]
    <3>1. 1 \in 1..Len(line)
      BY <1>0
    <3> QED
      BY <3>1 DEF TriesTold
  <2>2. \A n \in 1..Len(other) : other[n].account # item.account
    <3> SUFFICES ASSUME NEW n \in 1..Len(other) PROVE other[n].account # item.account
      OBVIOUS
    <3>1. n + 1 \in 1..Len(line) /\ 1 \in 1..Len(line) /\ 1 < n + 1 /\ other[n] = line[n + 1]
      BY <1>0
    <3> QED
      BY <3>1 DEF InRounds
  <2>3. \A it \in items : it.attempts = tries[it.account] /\ \A n \in 1..Len(other) : other[n].account # it.account
    BY <1>0 DEF ResultsTold
  <2> QED
    BY <1>3, <2>1, <2>2, <2>3 DEF ResultsTold
<1> QED
  BY <1>1, <1>2, <1>3, <1>4

\* The first task has run and goes to the end of the line for another try.
LEMMA RetryKeeps ==
  ASSUME NEW line \in Seq(Task), NEW other, Shifted(line, other), Len(other) = Len(line), Len(line) >= 1,
         NEW tries, NEW items,
         InRounds(line), TriesTold(line, tries, TRUE), ResultsTold(items, line, tries),
         other[Len(line)].account = line[1].account, other[Len(line)].attempts = line[1].attempts + 1
  PROVE  InRounds(other) /\ TriesTold(other, tries, FALSE) /\ ResultsTold(items, other, tries)
<1> DEFINE last == Len(line)
<1>0. /\ last \in Nat /\ last >= 1 /\ 1 \in 1..last
      /\ \A n \in 1..last : n # last => n + 1 \in 1..last /\ n + 1 # 1 /\ other[n] = line[n + 1]
  BY DEF Shifted
<1>t. \A n \in 1..last : line[n].attempts \in Int
  BY TaskFacts
<1>1. InRounds(other)
  <2> SUFFICES ASSUME NEW m \in 1..last, NEW n \in 1..last, m < n
               PROVE  /\ other[n].attempts - other[m].attempts \in {0, 1}
                      /\ other[m].account # other[n].account
    BY DEF InRounds
  <2>1. m # last /\ m + 1 \in 1..last /\ other[m] = line[m + 1]
    BY <1>0
  <2>2. CASE n # last
    <3>1. n + 1 \in 1..last /\ other[n] = line[n + 1] /\ m + 1 < n + 1
      BY <1>0, <2>2
    <3> QED
      BY <2>1, <3>1 DEF InRounds
  <2>3. CASE n = last
    <3>1. /\ line[m + 1].attempts - line[1].attempts \in {0, 1}
          /\ line[1].account # line[m + 1].account
      <4>1. 1 < m + 1
        OBVIOUS
      <4> QED
        BY <1>0, <2>1, <4>1 DEF InRounds
    <3>2. line[m + 1].attempts \in Int /\ line[1].attempts \in Int
      BY <1>0, <1>t, <2>1
    <3> QED
      BY <2>1, <2>3, <3>1, <3>2
  <2> QED
    BY <2>2, <2>3
<1>2. TriesTold(other, tries, FALSE)
  <2> SUFFICES ASSUME NEW n \in 1..last
               PROVE  tries[other[n].account] = other[n].attempts + 0
    BY DEF TriesTold
  <2>1. CASE n # last
    <3>1. n + 1 \in 1..last /\ n + 1 # 1 /\ other[n] = line[n + 1]
      BY <1>0, <2>1
    <3> QED
      BY <3>1 DEF TriesTold
  <2>2. CASE n = last
    <3>1. tries[line[1].account] = line[1].attempts + 1
      BY <1>0 DEF TriesTold
    <3> QED
      BY <1>0, <1>t, <2>2, <3>1
  <2> QED
    BY <2>1, <2>2
<1>3. ResultsTold(items, other, tries)
  <2>1. \A n \in 1..last : \E m \in 1..last : other[n].account = line[m].account
    BY <1>0
  <2> QED
    BY <2>1, SMTT(40) DEF ResultsTold
<1> QED
  BY <1>1, <1>2, <1>3

\* The first task runs.
LEMMA RunKeeps ==
  ASSUME NEW line \in Seq(Task), Len(line) >= 1, NEW tries \in [Accounts -> Nat], NEW items \in SUBSET Item,
         InRounds(line), TriesTold(line, tries, FALSE), ResultsTold(items, line, tries),
         \A a \in Accounts : tries[a] <= MaxAttempts,
         NEW more, more = [tries EXCEPT ![line[1].account] = @ + 1]
  PROVE  /\ TriesTold(line, more, TRUE) /\ ResultsTold(items, line, more)
         /\ \A a \in Accounts : more[a] <= MaxAttempts
<1> DEFINE first == line[1].account
<1>0. 1 \in 1..Len(line) /\ Len(line) \in Nat
  OBVIOUS
<1>1. \A n \in 1..Len(line) : line[n] \in Task /\ line[n].account \in Accounts
                              /\ line[n].attempts \in 0..MaxAttempts - 1
  BY TaskFacts
<1>2. more[first] = line[1].attempts + 1 /\ \A a \in Accounts : a # first => more[a] = tries[a]
  BY <1>0, <1>1 DEF TriesTold
<1>3. TriesTold(line, more, TRUE)
  <2> SUFFICES ASSUME NEW n \in 1..Len(line)
               PROVE  more[line[n].account] = line[n].attempts + (IF n = 1 THEN 1 ELSE 0)
    BY DEF TriesTold
  <2>1. CASE n = 1
    BY <1>2, <2>1
  <2>2. CASE n # 1
    <3>1. line[n].account # first
      <4>1. 1 < n
        BY <1>0, <2>2
      <4> QED
        BY <1>0, <4>1 DEF InRounds
    <3> QED
      BY <1>1, <1>2, <2>2, <3>1 DEF TriesTold
  <2> QED
    BY <2>1, <2>2
<1>4. ResultsTold(items, line, more)
  <2>1. \A it \in items : it.account # first /\ it.account \in Accounts
    BY <1>0 DEF ResultsTold, Item
  <2> QED
    BY <1>2, <2>1 DEF ResultsTold
<1>5. \A a \in Accounts : more[a] <= MaxAttempts
  BY <1>0, <1>1, <1>2, Params
<1> QED
  BY <1>3, <1>4, <1>5

-----------------------------------------------------------------------------
(***************************************************************************)
(* The counts.                                                             *)
(***************************************************************************)
\* One more element.
LEMMA OneMore ==
  ASSUME NEW S, NEW x, IsFiniteSet(S), x \notin S
  PROVE  IsFiniteSet(S \cup {x}) /\ Cardinality(S \cup {x}) = Cardinality(S) + 1
  BY FS_AddElement

LEMMA DeferredFinite ==
  ASSUME NEW job, IsFiniteSet(job.items)
  PROVE  IsFiniteSet(DeferredItems(job)) /\ Cardinality(DeferredItems(job)) \in Nat
<1>1. DeferredItems(job) \in SUBSET job.items
  BY DEF DeferredItems
<1> QED
  BY <1>1, FS_Subset, FS_CardinalityType

\* A result of an account that had none counts once, and once among the
\* deferred if it is deferred.
LEMMA RecordedCounts ==
  ASSUME NEW job \in JobType, Counts(job), NEW item \in Item,
         \A it \in job.items : it.account # item.account
  PROVE  LET new == Recorded(job, item) IN
         /\ new.status = job.status /\ new.total = job.total /\ new.pending = job.pending
         /\ new.items = job.items \cup {item} /\ new.done = job.done + 1
         /\ IsFiniteSet(new.items)
         /\ Cardinality(AccountsOf(new)) = new.done /\ Cardinality(ResultsOf(new)) = new.done
         /\ ResultsOf(new) = ResultsOf(job) \cup {<<item.account, item.status>>}
         /\ new.deferred - Cardinality(DeferredItems(new)) = job.deferred - Cardinality(DeferredItems(job))
<1> DEFINE new == Recorded(job, item)
<1>1. /\ new.status = job.status /\ new.total = job.total /\ new.pending = job.pending
      /\ new.items = job.items \cup {item} /\ new.done = job.done + 1
      /\ new.deferred = IF item.status = "deferred" THEN job.deferred + 1 ELSE job.deferred
  BY DEF Recorded, JobType
<1> HIDE DEF new
<1>2. /\ IsFiniteSet(job.items) /\ job.deferred \in Nat /\ job.done \in Nat
      /\ Cardinality(AccountsOf(job)) = job.done /\ Cardinality(ResultsOf(job)) = job.done
  BY DEF Counts, JobType
<1>3. IsFiniteSet(new.items)
  BY <1>1, <1>2, FS_AddElement
<1>4. IsFiniteSet(AccountsOf(job)) /\ IsFiniteSet(ResultsOf(job))
  <2> DEFINE f == [it \in job.items |-> it.account]
             g == [it \in job.items |-> <<it.account, it.status>>]
  <2>1. f \in Surjection(job.items, AccountsOf(job))
    BY DEF AccountsOf, Surjection
  <2>2. g \in Surjection(job.items, ResultsOf(job))
    BY DEF ResultsOf, Surjection
  <2> HIDE DEF f, g
  <2> QED
    BY <1>2, <2>1, <2>2, FS_Surjection
<1>5. Cardinality(AccountsOf(new)) = new.done
  <2>1. AccountsOf(new) = AccountsOf(job) \cup {item.account} /\ item.account \notin AccountsOf(job)
    BY <1>1 DEF AccountsOf
  <2>2. Cardinality(AccountsOf(job) \cup {item.account}) = Cardinality(AccountsOf(job)) + 1
    BY <1>4, <2>1, OneMore
  <2> QED
    BY <1>1, <1>2, <2>1, <2>2
<1>6. ResultsOf(new) = ResultsOf(job) \cup {<<item.account, item.status>>}
  BY <1>1 DEF ResultsOf
<1>7. Cardinality(ResultsOf(new)) = new.done
  <2>1. <<item.account, item.status>> \notin ResultsOf(job)
    BY DEF ResultsOf
  <2> QED
    BY <1>1, <1>2, <1>4, <1>6, <2>1, OneMore, ZenonT(60)
<1>8. new.deferred - Cardinality(DeferredItems(new)) = job.deferred - Cardinality(DeferredItems(job))
  <2>0. IsFiniteSet(DeferredItems(job)) /\ Cardinality(DeferredItems(job)) \in Nat
    BY <1>2, DeferredFinite
  <2>1. CASE item.status = "deferred"
    <3>1. DeferredItems(new) = DeferredItems(job) \cup {item} /\ item \notin DeferredItems(job)
      BY <1>1, <2>1 DEF DeferredItems
    <3>2. Cardinality(DeferredItems(new)) = Cardinality(DeferredItems(job)) + 1
      BY <2>0, <3>1, OneMore
    <3> QED
      BY <1>1, <1>2, <2>0, <2>1, <3>2
  <2>2. CASE item.status # "deferred"
    <3>1. DeferredItems(new) = DeferredItems(job)
      BY <1>1, <2>2 DEF DeferredItems
    <3> QED
      BY <1>1, <2>2, <3>1
  <2> QED
    BY <2>1, <2>2
<1> QED
  BY <1>1, <1>3, <1>5, <1>6, <1>7, <1>8 DEF new

\* The queue's operations leave the results alone.
LEMMA ProgressedKeeps ==
  ASSUME NEW job \in JobType, Counts(job), job.status = "running", NEW n \in Nat, NEW r \in BOOLEAN
  PROVE  LET new == Progressed(job, n, r) IN
         /\ new \in JobType /\ Counts(new) /\ new.status = "running"
         /\ new.items = job.items /\ DeferredItems(new) = DeferredItems(job)
         /\ new.done = job.done /\ new.total = job.total /\ new.deferred = job.deferred /\ new.pending = n
<1> DEFINE new == Progressed(job, n, r)
<1>1. /\ new.status = "running" /\ new.items = job.items
      /\ new.done = job.done /\ new.total = job.total /\ new.deferred = job.deferred /\ new.pending = n
  BY DEF Progressed, JobType
<1>2. new \in JobType
  BY JobOps
<1> HIDE DEF new
<1>3. DeferredItems(new) = DeferredItems(job) /\ AccountsOf(new) = AccountsOf(job) /\ ResultsOf(new) = ResultsOf(job)
  BY <1>1 DEF DeferredItems, AccountsOf, ResultsOf
<1>4. Counts(new)
  BY <1>1, <1>3 DEF Counts
<1> QED
  BY <1>1, <1>2, <1>3, <1>4 DEF new

\* A batch that ends counts what it did not reach.
LEMMA FinishedPair ==
  ASSUME NEW job \in JobType, Counts(job), job.status = "running",
         job.deferred = Cardinality(DeferredItems(job)), job.done + job.pending = job.total,
         NEW s \in {"done", "canceled"}, NEW f, f = "none" => job.pending = 0,
         NEW w, ~Live(w)
  PROVE  LET new == FinishedJob(job, s, f) IN
         /\ Pair(new, w) /\ new.status = s /\ new.items = job.items /\ new.total = job.total
         /\ new.deferred - Cardinality(DeferredItems(new)) = job.total - Cardinality(ResultsOf(job))
<1> DEFINE new == FinishedJob(job, s, f)
<1>1. /\ new.status = s /\ new.items = job.items /\ new.done = job.done /\ new.total = job.total
      /\ new.deferred = job.deferred + job.pending /\ new.pending = 0 /\ new.retryAt = FALSE
      /\ new.error = f
  BY DEF FinishedJob, JobType
<1>2. job.deferred \in Nat /\ job.pending \in Nat /\ job.done \in Nat /\ job.total \in Nat
  BY DEF JobType
<1> HIDE DEF new
<1>3. DeferredItems(new) = DeferredItems(job) /\ AccountsOf(new) = AccountsOf(job) /\ ResultsOf(new) = ResultsOf(job)
  BY <1>1 DEF DeferredItems, AccountsOf, ResultsOf
<1>4. new.deferred - Cardinality(DeferredItems(new)) = job.pending
  BY <1>1, <1>2, <1>3
<1>5. Counts(new)
  BY <1>1, <1>2, <1>3, <1>4 DEF Counts
<1>6. job.pending = job.total - Cardinality(ResultsOf(job))
  BY <1>2 DEF Counts
<1> QED
  BY <1>1, <1>4, <1>5, <1>6 DEF Pair, new

\* A step that leaves the line and the results as they are.
LEMMA SameLineStep ==
  ASSUME NEW w \in WorkerType, NEW v \in WorkerType, NEW job, NEW new,
         Live(w), Live(v), InStep(job, w), new.items = job.items, v.tries = w.tries,
         (v.pc = "settle") <=> (w.pc = "settle"), SameTasks(Line(w), Line(v)),
         HandShape(v), Progress(new, v), Counts(new), new.status = "running"
  PROVE  Pair(new, v)
<1>1. InRounds(Line(v)) /\ ResultsTold(new.items, Line(v), v.tries)
  BY SameTasksKeep DEF InStep
<1>2. TriesTold(Line(v), v.tries, v.pc = "settle")
  BY SameTasksKeep DEF InStep
<1>3. \A a \in Accounts : v.tries[a] <= MaxAttempts
  BY DEF InStep
<1> QED
  BY <1>1, <1>2, <1>3 DEF InStep, Pair

\* A step of one goroutine that keeps its batch in step keeps BatchInv.
LEMMA LocalBatch ==
  ASSUME IInv, BatchInv, NEW i \in Instances, NEW j \in JobIds, NEW w, NEW job, Pair(job, w),
         workers' = [workers EXCEPT ![i][j] = w], jobs' = [jobs EXCEPT ![i][j] = job],
         jobs[i][j].status # "absent", UNCHANGED nextID,
         \/ running' = running /\ (job.status = "running" => jobs[i][j].status = "running")
         \/ running' = [running EXCEPT ![i] = IF @ = j THEN NoJob ELSE @] /\ job.status # "running"
  PROVE  BatchInv'
<1>1. \A k \in Instances, l \in JobIds :
        /\ workers'[k][l] = IF k = i /\ l = j THEN w ELSE workers[k][l]
        /\ jobs'[k][l] = IF k = i /\ l = j THEN job ELSE jobs[k][l]
  BY DEF IInv, TypeOK
<1>2. Pairs'
  BY <1>1 DEF BatchInv, Pairs
<1>3. running \in [Instances -> JobIds \cup {NoJob}]
  BY DEF IInv, TypeOK
<1>4. ASSUME NEW k \in Instances, NEW l \in JobIds, jobs'[k][l].status = "running"
      PROVE  running'[k] = l
  <2>1. jobs[k][l].status = "running" => running[k] = l
    BY DEF BatchInv, Slots
  <2>2. CASE running' = running /\ (job.status = "running" => jobs[i][j].status = "running")
    BY <1>1, <1>4, <2>1, <2>2
  <2>3. CASE running' = [running EXCEPT ![i] = IF @ = j THEN NoJob ELSE @] /\ job.status # "running"
    BY <1>1, <1>3, <1>4, <2>1, <2>3
  <2> QED
    BY <2>2, <2>3
<1>5. ASSUME NEW k \in Instances, NEW l \in JobIds, l > nextID'[k]
      PROVE  jobs'[k][l].status = "absent"
  BY <1>1, <1>5 DEF BatchInv, Slots
<1> QED
  BY <1>2, <1>4, <1>5 DEF BatchInv, Slots

\* What a goroutine and its batch have before a step.
LEMMA Before ==
  ASSUME IInv, BatchInv, NEW i \in Instances, NEW j \in JobIds
  PROVE  /\ workers[i][j] \in WorkerType /\ jobs[i][j] \in JobType /\ Counts(jobs[i][j])
         /\ Pair(jobs[i][j], workers[i][j])
         /\ Live(workers[i][j]) =>
              /\ jobs[i][j].status = "running" /\ InStep(jobs[i][j], workers[i][j])
              /\ HandShape(workers[i][j]) /\ Progress(jobs[i][j], workers[i][j])
         /\ jobs = [jobs EXCEPT ![i][j] = jobs[i][j]]
<1>1. Pair(jobs[i][j], workers[i][j])
  BY DEF BatchInv, Pairs
<1> QED
  BY <1>1, JobTyped DEF Pair, InStep

LEMMA EndBatch ==
  ASSUME IInv, BatchInv, NEW i \in Instances, NEW j \in JobIds,
         \/ LockBusy(i, j) \/ LockError(i, j) \/ SleepCanceled(i, j)
         \/ SettleCanceled(i, j) \/ QueueEmpty(i, j)
  PROVE  \E v : \E job \in JobType, s \in {"done", "canceled"}, f \in {"none", "locked", "lock_error", "canceled"} :
           /\ Finish(i, j, job, s, f) /\ ~Live(v)
           /\ workers' = [workers EXCEPT ![i][j] = v] /\ UNCHANGED nextID
           /\ Counts(job) /\ job.status = "running" /\ jobs[i][j].status = "running"
           /\ job.items = jobs[i][j].items /\ job.total = jobs[i][j].total
           /\ job.deferred = Cardinality(DeferredItems(job)) /\ job.done + job.pending = job.total
           /\ f = "none" => job.pending = 0
<1> DEFINE w == workers[i][j]
           old == jobs[i][j]
<1>1. /\ w.pc \in {"lock", "sleep", "settle", "loop"} /\ UNCHANGED nextID
      /\ \E v \in {Off, Unlocking} : workers' = [workers EXCEPT ![i][j] = v]
  BY DEF LockBusy, LockError, SleepCanceled, SettleCanceled, QueueEmpty, At
<1>2. Live(w)
  BY <1>1 DEF Live
<1>3. ~Live(Off) /\ ~Live(Unlocking)
  BY DEF Live, Unlocking, Off
<1>4. PICK v : ~Live(v) /\ workers' = [workers EXCEPT ![i][j] = v]
  BY <1>1, <1>3
<1>5. /\ w \in WorkerType /\ old \in JobType /\ Counts(old) /\ old.status = "running"
      /\ HandShape(w) /\ Progress(old, w)
  BY <1>2, Before
<1>6. /\ Len(Line(w)) = Len(w.hand) + Len(w.queue) /\ Len(w.queue) \in Nat
      /\ old.done \in Nat /\ old.total \in Nat /\ old.pending \in Nat
  BY <1>5, LineFacts DEF JobType
<1>7. CASE LockBusy(i, j) \/ LockError(i, j) \/ SleepCanceled(i, j) \/ QueueEmpty(i, j)
  <2>1. /\ w.pc \in {"lock", "sleep", "loop"}
        /\ \E s \in {"done", "canceled"}, f \in {"none", "locked", "lock_error", "canceled"} :
             Finish(i, j, old, s, f) /\ (f = "none" => w.queue = <<>> /\ w.pc = "loop")
    BY <1>7 DEF LockBusy, LockError, SleepCanceled, QueueEmpty, At
  <2>2. old.deferred = Cardinality(DeferredItems(old)) /\ old.done + old.pending = old.total
    <3>1. Len(Line(w)) = old.pending
      <4>1. CASE w.pc = "sleep"
        <5>1. Len(w.hand) = 1 /\ old.pending = Len(w.queue) + 1
          BY <1>5, <4>1 DEF Progress, HandShape
        <5> QED
          BY <1>6, <5>1
      <4>2. CASE w.pc \in {"lock", "loop"}
        <5>1. Len(w.hand) = 0 /\ old.pending = Len(w.queue) + 0
          BY <1>5, <4>2 DEF Progress, HandShape
        <5> QED
          BY <1>6, <5>1
      <4> QED
        BY <2>1, <4>1, <4>2
    <3> QED
      BY <1>5, <3>1 DEF Progress
  <2>3. w.queue = <<>> /\ w.pc = "loop" => old.pending = 0
    BY <1>5 DEF Progress
  <2> QED
    BY <1>1, <1>4, <1>5, <2>1, <2>2, <2>3
<1>8. CASE SettleCanceled(i, j)
  <2> DEFINE job == Interrupted(old, w)
  <2>0. Len(w.queue) + 1 \in Nat
    BY <1>6
  <2>1. /\ job \in JobType /\ Counts(job) /\ job.status = "running" /\ job.items = old.items
        /\ DeferredItems(job) = DeferredItems(old) /\ job.done = old.done /\ job.total = old.total
        /\ job.deferred = old.deferred /\ job.pending = Len(w.queue) + 1
    BY <1>5, <2>0, ProgressedKeeps DEF Interrupted
  <2> HIDE DEF job
  <2>2. w.pc = "settle" /\ Finish(i, j, job, "canceled", "canceled")
    BY <1>8 DEF SettleCanceled, At, job
  <2>3. job.deferred = Cardinality(DeferredItems(job)) /\ job.done + job.pending = job.total
    BY <1>5, <1>6, <2>1, <2>2 DEF Progress, HandShape
  <2> QED
    BY <1>1, <1>4, <1>5, <2>1, <2>2, <2>3
<1> QED
  BY <1>7, <1>8

LEMMA EndPairs ==
  ASSUME IInv, BatchInv, NEW i \in Instances, NEW j \in JobIds,
         \/ LockBusy(i, j) \/ LockError(i, j) \/ SleepCanceled(i, j)
         \/ SettleCanceled(i, j) \/ QueueEmpty(i, j)
  PROVE  BatchInv'
<1>0. PICK v : \E job \in JobType, s \in {"done", "canceled"}, f \in {"none", "locked", "lock_error", "canceled"} :
           /\ Finish(i, j, job, s, f) /\ ~Live(v)
           /\ workers' = [workers EXCEPT ![i][j] = v] /\ UNCHANGED nextID
           /\ Counts(job) /\ job.status = "running" /\ jobs[i][j].status = "running"
           /\ job.deferred = Cardinality(DeferredItems(job)) /\ job.done + job.pending = job.total
           /\ f = "none" => job.pending = 0
  BY EndBatch
<1>1. PICK job \in JobType, s \in {"done", "canceled"}, f \in {"none", "locked", "lock_error", "canceled"} :
           /\ Finish(i, j, job, s, f) /\ ~Live(v)
           /\ workers' = [workers EXCEPT ![i][j] = v] /\ UNCHANGED nextID
           /\ Counts(job) /\ job.status = "running" /\ jobs[i][j].status = "running"
           /\ job.deferred = Cardinality(DeferredItems(job)) /\ job.done + job.pending = job.total
           /\ f = "none" => job.pending = 0
  BY <1>0
<1> DEFINE new == FinishedJob(job, s, f)
<1>2. Pair(new, v) /\ new.status = s
  BY <1>1, FinishedPair
<1>3. jobs' = [jobs EXCEPT ![i][j] = new] /\ running' = [running EXCEPT ![i] = IF @ = j THEN NoJob ELSE @]
  BY <1>1 DEF Finish
<1> HIDE DEF new
<1> QED
  BY <1>1, <1>2, <1>3, LocalBatch

\* The steps that take a task, wait, and wake.
LEMMA WaitPairs ==
  ASSUME IInv, BatchInv, NEW i \in Instances, NEW j \in JobIds,
         TakeLock(i, j) \/ SleepOver(i, j) \/ Wake(i, j)
  PROVE  BatchInv'
<1> DEFINE w == workers[i][j]
           old == jobs[i][j]
<1>1. PICK pc \in {"loop", "wake", "run"} :
        /\ workers' = [workers EXCEPT ![i][j] = [w EXCEPT !.pc = pc]]
        /\ UNCHANGED <<nextID, running>>
        /\ \/ w.pc = "lock" /\ pc = "loop" /\ jobs' = jobs
           \/ w.pc = "sleep" /\ pc = "wake" /\ jobs' = jobs
           \/ w.pc = "wake" /\ pc = "run" /\ jobs' = [jobs EXCEPT ![i][j] = Progressed(old, Len(w.queue), FALSE)]
  BY JobTyped DEF TakeLock, SleepOver, Wake, At
<1>2. Live(w)
  BY <1>1 DEF Live
<1>3. /\ w \in WorkerType /\ old \in JobType /\ Counts(old) /\ old.status = "running"
      /\ InStep(old, w) /\ HandShape(w) /\ Progress(old, w) /\ jobs = [jobs EXCEPT ![i][j] = old]
  BY <1>2, Before
<1> DEFINE v == [w EXCEPT !.pc = pc]
<1>4. /\ v \in WorkerType /\ v.pc = pc /\ v.hand = w.hand /\ v.queue = w.queue /\ v.tries = w.tries
  BY <1>3 DEF WorkerType
<1> HIDE DEF v
<1>5. Live(v) /\ HandShape(v) /\ ((v.pc = "settle") <=> (w.pc = "settle"))
  BY <1>1, <1>3, <1>4 DEF Live, HandShape
<1>6. Line(v) = Line(w) /\ SameTasks(Line(w), Line(v))
  BY <1>4 DEF Line, SameTasks
<1>7. Len(w.queue) \in Nat
  BY <1>3, LineFacts
<1>8. PICK new : /\ jobs' = [jobs EXCEPT ![i][j] = new] /\ Counts(new) /\ new.status = "running"
                 /\ new.items = old.items /\ Progress(new, v)
  <2>1. CASE jobs' = jobs /\ ((w.pc = "lock" /\ pc = "loop") \/ (w.pc = "sleep" /\ pc = "wake"))
    <3>1. Progress(old, v)
      BY <1>3, <1>4, <1>6, <2>1 DEF Progress
    <3> QED
      BY <1>3, <2>1, <3>1
  <2>2. CASE w.pc = "wake" /\ pc = "run" /\ jobs' = [jobs EXCEPT ![i][j] = Progressed(old, Len(w.queue), FALSE)]
    <3> DEFINE new == Progressed(old, Len(w.queue), FALSE)
    <3>1. /\ Counts(new) /\ new.status = "running" /\ new.items = old.items
          /\ DeferredItems(new) = DeferredItems(old) /\ new.done = old.done /\ new.total = old.total
          /\ new.deferred = old.deferred /\ new.pending = Len(w.queue)
      BY <1>3, <1>7, ProgressedKeeps
    <3> HIDE DEF new
    <3>2. Progress(new, v)
      BY <1>3, <1>4, <1>6, <1>7, <2>2, <3>1 DEF Progress
    <3> QED
      BY <2>2, <3>1, <3>2 DEF new
  <2>3. \/ jobs' = jobs /\ ((w.pc = "lock" /\ pc = "loop") \/ (w.pc = "sleep" /\ pc = "wake"))
        \/ w.pc = "wake" /\ pc = "run" /\ jobs' = [jobs EXCEPT ![i][j] = Progressed(old, Len(w.queue), FALSE)]
    BY <1>1
  <2> QED
    BY <2>1, <2>2, <2>3
<1>9. Pair(new, v)
  BY <1>2, <1>3, <1>4, <1>5, <1>6, <1>8, SameLineStep
<1> QED
  BY <1>1, <1>3, <1>8, <1>9, LocalBatch DEF v

LEMMA TakePairs ==
  ASSUME IInv, BatchInv, NEW i \in Instances, NEW j \in JobIds, TakeTask(i, j)
  PROVE  BatchInv'
<1> DEFINE w == workers[i][j]
           old == jobs[i][j]
           task == Head(w.queue)
           pc == IF task.backoff = "waiting" THEN "sleep" ELSE "wake"
           v == [w EXCEPT !.hand = <<task>>, !.queue = Tail(w.queue), !.pc = pc]
           new == Progressed(old, Len(w.queue), task.backoff # "none")
<1>1. /\ w.pc = "loop" /\ w.queue # <<>> /\ UNCHANGED <<nextID, running>>
      /\ workers' = [workers EXCEPT ![i][j] = v] /\ jobs' = [jobs EXCEPT ![i][j] = new]
  BY DEF TakeTask, At
<1>2. Live(w)
  BY <1>1 DEF Live
<1>3. /\ w \in WorkerType /\ old \in JobType /\ Counts(old) /\ old.status = "running"
      /\ InStep(old, w) /\ HandShape(w) /\ Progress(old, w)
  BY <1>2, Before
<1>4. /\ w.queue \in Seq(Task) /\ Len(w.queue) \in Nat /\ Len(w.hand) = 0
      /\ Len(Line(w)) = Len(w.queue) /\ \A n \in 1..Len(w.queue) : Line(w)[n] = w.queue[n]
  <2>1. Len(w.hand) = 0
    BY <1>1, <1>3 DEF HandShape
  <2>2. /\ w.queue \in Seq(Task) /\ Len(w.queue) \in Nat /\ Len(Line(w)) = Len(w.hand) + Len(w.queue)
        /\ Len(w.hand) = 0 => \A n \in 1..Len(w.queue) : Line(w)[n] = w.queue[n]
    BY <1>3, LineFacts
  <2>3. Len(Line(w)) = Len(w.queue)
    BY <2>1, <2>2
  <2> QED
    BY <2>1, <2>2, <2>3
<1>5. /\ task \in Task /\ Tail(w.queue) \in Seq(Task) /\ Len(Tail(w.queue)) = Len(w.queue) - 1
      /\ task = w.queue[1] /\ \A n \in 1..Len(Tail(w.queue)) : Tail(w.queue)[n] = w.queue[n + 1]
  BY <1>1, <1>4, HeadTailProperties
<1>6. /\ v \in WorkerType /\ v.pc \in {"sleep", "wake"} /\ v.hand = <<task>> /\ v.queue = Tail(w.queue)
      /\ v.tries = w.tries
  <2>1. <<task>> \in Seq(Task)
    BY <1>5
  <2> QED
    BY <1>3, <1>5, <2>1 DEF WorkerType
<1>7. /\ Counts(new) /\ new.status = "running" /\ new.items = old.items
      /\ DeferredItems(new) = DeferredItems(old) /\ new.done = old.done /\ new.total = old.total
      /\ new.deferred = old.deferred /\ new.pending = Len(w.queue)
  BY <1>3, <1>4, ProgressedKeeps, ZenonT(60)
<1> HIDE DEF v, new
<1>8. Len(v.hand) = 1 /\ v.hand[1] = task
  BY <1>6
<1>9. Live(v) /\ HandShape(v) /\ ((v.pc = "settle") <=> (w.pc = "settle"))
  BY <1>1, <1>6, <1>8 DEF Live, HandShape
<1>10. /\ Len(Line(v)) = 1 + Len(v.queue) /\ Line(v)[1] = task
       /\ \A n \in 1..Len(v.queue) : Line(v)[n + 1] = v.queue[n]
  BY <1>6, <1>8, LineFacts
<1>11. SameTasks(Line(w), Line(v))
  <2>1. Len(Line(v)) = Len(Line(w))
    BY <1>4, <1>5, <1>6, <1>10
  <2>2. \A n \in 1..Len(Line(w)) : Line(v)[n] = Line(w)[n]
    <3> SUFFICES ASSUME NEW n \in 1..Len(Line(w)) PROVE Line(v)[n] = Line(w)[n]
      OBVIOUS
    <3>1. CASE n = 1
      BY <1>4, <1>5, <1>10, <3>1
    <3>2. CASE n # 1
      <4>1. n - 1 \in 1..Len(v.queue) /\ (n - 1) + 1 = n
        BY <1>4, <1>5, <1>6, <3>2
      <4>2. Line(v)[n] = v.queue[n - 1] /\ v.queue[n - 1] = w.queue[n]
        BY <1>5, <1>6, <1>10, <4>1
      <4> QED
        BY <1>4, <4>2
    <3> QED
      BY <3>1, <3>2
  <2> QED
    BY <2>1, <2>2 DEF SameTasks
<1>12. Progress(new, v)
  BY <1>1, <1>3, <1>4, <1>5, <1>6, <1>7, <1>10, SMTT(90) DEF Progress
<1>13. Pair(new, v)
  BY <1>2, <1>3, <1>6, <1>7, <1>9, <1>11, <1>12, SameLineStep
<1> QED
  BY <1>1, <1>3, <1>13, LocalBatch

\* The task in hand runs, or its outcome is settled.
LEMMA RunPairs ==
  ASSUME IInv, BatchInv, NEW i \in Instances, NEW j \in JobIds, RunTask(i, j)
  PROVE  BatchInv'
<1> DEFINE w == workers[i][j]
           old == jobs[i][j]
           a == w.hand[1].account
           c == ChannelOf[a]
           After(o) == [w EXCEPT !.pc = "settle", !.outcome = <<o>>,
                                 !.budget = BudgetAfter(@, c, o),
                                 !.tries[a] = @ + 1, !.spent[c] = @ + o.resolves]
<1>1. /\ w.pc = "run" /\ UNCHANGED <<nextID, running, jobs>>
      /\ \E o \in Outcomes(a, w.budget[c]) : workers' = [workers EXCEPT ![i][j] = After(o)]
  BY DEF RunTask, At
<1>2. Live(w)
  BY <1>1 DEF Live
<1>3. /\ w \in WorkerType /\ old \in JobType /\ Counts(old) /\ old.status = "running"
      /\ InStep(old, w) /\ HandShape(w) /\ Progress(old, w) /\ jobs = [jobs EXCEPT ![i][j] = old]
  BY <1>2, Before
<1>4. PICK o : workers' = [workers EXCEPT ![i][j] = After(o)]
  BY <1>1
<1> DEFINE v == After(o)
<1>5. /\ v.pc = "settle" /\ v.hand = w.hand /\ v.queue = w.queue
      /\ v.tries = [w.tries EXCEPT ![a] = @ + 1]
  BY <1>3 DEF WorkerType
<1> HIDE DEF v
<1>6. Line(v) = Line(w)
  BY <1>5 DEF Line
<1>7. Len(w.hand) = 1
  BY <1>1, <1>3 DEF HandShape
<1>8. Line(w) \in Seq(Task) /\ Line(w)[1] = w.hand[1] /\ Len(Line(w)) >= 1
  <2>1. /\ Line(w) \in Seq(Task) /\ Line(w)[1] = w.hand[1]
        /\ Len(Line(w)) = Len(w.hand) + Len(w.queue) /\ Len(w.queue) \in Nat
    BY <1>3, <1>7, LineFacts
  <2> QED
    BY <1>7, <2>1
<1>9. /\ TriesTold(Line(w), v.tries, TRUE) /\ ResultsTold(old.items, Line(w), v.tries)
      /\ \A b \in Accounts : v.tries[b] <= MaxAttempts
  <2>1. /\ w.tries \in [Accounts -> Nat] /\ old.items \in SUBSET Item
        /\ InRounds(Line(w)) /\ TriesTold(Line(w), w.tries, FALSE) /\ ResultsTold(old.items, Line(w), w.tries)
        /\ \A b \in Accounts : w.tries[b] <= MaxAttempts
    BY <1>1, <1>3 DEF InStep, WorkerType, JobType
  <2>2. v.tries = [w.tries EXCEPT ![Line(w)[1].account] = @ + 1]
    BY <1>5, <1>8
  <2> DEFINE line == Line(w)
             tries == w.tries
             more == v.tries
             items == old.items
  <2>3. /\ line \in Seq(Task) /\ Len(line) >= 1 /\ tries \in [Accounts -> Nat] /\ items \in SUBSET Item
        /\ InRounds(line) /\ TriesTold(line, tries, FALSE) /\ ResultsTold(items, line, tries)
        /\ \A b \in Accounts : tries[b] <= MaxAttempts
        /\ more = [tries EXCEPT ![line[1].account] = @ + 1]
    BY <1>8, <2>1, <2>2
  <2> HIDE DEF line, tries, more, items
  <2>4. /\ TriesTold(line, more, TRUE) /\ ResultsTold(items, line, more)
        /\ \A b \in Accounts : more[b] <= MaxAttempts
    BY <2>3, RunKeeps
  <2> QED
    BY <2>4 DEF line, tries, more, items
<1>10. HandShape(v) /\ Progress(old, v)
  BY <1>1, <1>3, <1>5, <1>6, <1>7 DEF HandShape, Progress
<1>11. Pair(old, v)
  BY <1>3, <1>5, <1>6, <1>9, <1>10 DEF Pair, InStep, Live
<1>12. workers' = [workers EXCEPT ![i][j] = v]
  BY <1>4 DEF v
<1> QED
  BY <1>1, <1>3, <1>11, <1>12, LocalBatch

\* The line, the hand and the counts when a task is settled.
Settles(job, w) ==
  /\ w \in WorkerType /\ job \in JobType /\ Counts(job) /\ job.status = "running" /\ Live(w)
  /\ Len(w.hand) = 1 /\ w.hand[1] \in Task /\ w.queue \in Seq(Task) /\ Len(w.queue) \in Nat
  /\ Line(w) \in Seq(Task) /\ Len(Line(w)) = Len(w.queue) + 1 /\ Line(w)[1] = w.hand[1]
  /\ \A n \in 1..Len(w.queue) : Line(w)[n + 1] = w.queue[n]
  /\ InRounds(Line(w)) /\ TriesTold(Line(w), w.tries, TRUE)
  /\ ResultsTold(job.items, Line(w), w.tries)
  /\ \A a \in Accounts : w.tries[a] <= MaxAttempts
  /\ job.deferred = Cardinality(DeferredItems(job)) /\ job.pending = Len(w.queue)
  /\ job.done + Len(Line(w)) = job.total

LEMMA Settling ==
  ASSUME IInv, BatchInv, NEW i \in Instances, NEW j \in JobIds, At(i, j, "settle")
  PROVE  Settles(jobs[i][j], workers[i][j])
<1> DEFINE w == workers[i][j]
           old == jobs[i][j]
<1>1. w.pc = "settle" /\ Live(w)
  BY DEF At, Live
<1>2. /\ w \in WorkerType /\ old \in JobType /\ Counts(old) /\ old.status = "running"
      /\ InStep(old, w) /\ HandShape(w) /\ Progress(old, w)
  BY <1>1, Before
<1> HIDE DEF w, old
<1>3. Len(w.hand) = 1
  BY <1>1, <1>2 DEF HandShape
<1>4. /\ w.hand[1] \in Task /\ w.queue \in Seq(Task) /\ Len(w.queue) \in Nat
      /\ Line(w) \in Seq(Task) /\ Len(Line(w)) = Len(w.hand) + Len(w.queue) /\ Line(w)[1] = w.hand[1]
      /\ \A n \in 1..Len(w.queue) : Line(w)[n + 1] = w.queue[n]
  BY <1>2, <1>3, LineFacts
<1>5. Len(Line(w)) = Len(w.queue) + 1
  BY <1>3, <1>4
<1>6. /\ InRounds(Line(w)) /\ TriesTold(Line(w), w.tries, TRUE)
      /\ ResultsTold(old.items, Line(w), w.tries) /\ \A a \in Accounts : w.tries[a] <= MaxAttempts
  BY <1>1, <1>2 DEF InStep
<1>7. old.pending = Len(w.queue)
  <2>1. old.pending = Len(w.queue) + 0
    BY <1>1, <1>2 DEF Progress
  <2> QED
    BY <1>4, <2>1
<1>8. old.deferred = Cardinality(DeferredItems(old)) /\ old.done + Len(Line(w)) = old.total
  BY <1>2 DEF Progress
<1>9. Settles(old, w)
  BY <1>1, <1>2, <1>3, <1>4, <1>5, <1>6, <1>7, <1>8 DEF Settles
<1> QED
  BY <1>9 DEF w, old

LEMMA RetryPairs ==
  ASSUME IInv, BatchInv, NEW i \in Instances, NEW j \in JobIds, SettleRetry(i, j)
  PROVE  BatchInv'
<1> DEFINE w == workers[i][j]
           old == jobs[i][j]
           task == w.hand[1]
           again == [task EXCEPT !.attempts = @ + 1, !.backoff = "waiting"]
           queue == Requeued(w.queue, task)
           v == [w EXCEPT !.pc = "loop", !.queue = queue, !.hand = <<>>, !.outcome = <<>>]
           new == Progressed(old, Len(queue), Head(queue).backoff # "none")
           size == Len(Line(w))
<1>1. /\ At(i, j, "settle") /\ UNCHANGED <<nextID, running>> /\ MayRetry(task, w.outcome[1])
      /\ workers' = [workers EXCEPT ![i][j] = v] /\ jobs' = [jobs EXCEPT ![i][j] = new]
  BY DEF SettleRetry
<1>2. /\ w \in WorkerType /\ old \in JobType /\ Counts(old) /\ old.status = "running" /\ Live(w)
      /\ Len(w.hand) = 1 /\ task \in Task /\ w.queue \in Seq(Task) /\ Len(w.queue) \in Nat
      /\ Line(w) \in Seq(Task) /\ size = Len(w.queue) + 1 /\ Line(w)[1] = task
      /\ \A n \in 1..Len(w.queue) : Line(w)[n + 1] = w.queue[n]
      /\ InRounds(Line(w)) /\ TriesTold(Line(w), w.tries, TRUE)
      /\ ResultsTold(old.items, Line(w), w.tries)
      /\ (\A a \in Accounts : w.tries[a] <= MaxAttempts)
      /\ old.deferred = Cardinality(DeferredItems(old)) /\ old.pending = Len(w.queue)
      /\ old.done + size = old.total
  BY <1>1, Settling DEF Settles
<1>3. again \in Task /\ again.account = task.account /\ again.attempts = task.attempts + 1
  <2>0. \A t \in Task : t.attempts \in 0..MaxAttempts - 1
    BY DEF Task
  <2>1. task.attempts \in 0..MaxAttempts - 1 /\ task.attempts + 1 < MaxAttempts
    BY <1>1, <1>2, <2>0 DEF MayRetry
  <2>2. task.attempts + 1 \in 0..MaxAttempts - 1
    BY <2>1, Params
  <2> HIDE DEF task
  <2> QED
    BY <1>2, <2>2 DEF Task
<1> HIDE DEF again, task
<1>4. /\ queue \in Seq(Task) /\ Len(queue) = Len(w.queue) + 1 /\ queue[Len(w.queue) + 1] = again
      /\ \A n \in 1..Len(w.queue) : queue[n] = w.queue[n]
  <2>1. queue = Append(w.queue, again)
    BY DEF Requeued, again
  <2> HIDE DEF queue
  <2> QED
    BY <1>2, <1>3, <2>1, AppendProperties, SMTT(90)
<1> HIDE DEF queue
<1>5. /\ v \in WorkerType /\ v.pc = "loop" /\ v.queue = queue /\ v.hand = <<>> /\ v.tries = w.tries
  <2>1. <<>> \in Seq(Task) /\ <<>> \in Seq(OutcomeType)
    OBVIOUS
  <2> QED
    BY <1>2, <1>4, <2>1 DEF WorkerType
<1>6. /\ Counts(new) /\ new.status = "running" /\ new.items = old.items
      /\ DeferredItems(new) = DeferredItems(old) /\ new.done = old.done /\ new.total = old.total
      /\ new.deferred = old.deferred /\ new.pending = Len(queue)
  <2>1. Len(queue) \in Nat
    BY <1>2, <1>4
  <2> QED
    BY <1>2, <2>1, ProgressedKeeps, ZenonT(60)
<1> HIDE DEF v, new
<1>7. Len(Line(v)) = size /\ \A n \in 1..size : Line(v)[n] = queue[n]
  <2>1. Len(v.hand) = 0
    BY <1>5
  <2>2. /\ Len(Line(v)) = Len(v.hand) + Len(v.queue) /\ Len(v.queue) \in Nat
        /\ Len(v.hand) = 0 => \A n \in 1..Len(v.queue) : Line(v)[n] = v.queue[n]
    BY <1>5, LineFacts
  <2>3. Len(Line(v)) = size
    BY <1>2, <1>4, <1>5, <2>1, <2>2
  <2> QED
    BY <1>2, <1>4, <1>5, <2>1, <2>2, <2>3
<1>8. Shifted(Line(w), Line(v))
  <2>1. ASSUME NEW n \in 1..size - 1 PROVE n \in 1..Len(Line(v)) /\ Line(v)[n] = Line(w)[n + 1]
    BY <1>2, <1>4, <1>7, <2>1
  <2> QED
    BY <1>2, <1>7, <2>1 DEF Shifted
<1>9. Line(v)[size].account = Line(w)[1].account /\ Line(v)[size].attempts = Line(w)[1].attempts + 1
  BY <1>2, <1>3, <1>4, <1>7
<1>10. InRounds(Line(v)) /\ TriesTold(Line(v), v.tries, FALSE) /\ ResultsTold(new.items, Line(v), v.tries)
  <2>1. Len(Line(v)) = Len(Line(w)) /\ Len(Line(w)) >= 1
    BY <1>2, <1>7
  <2> HIDE DEF w
  <2> QED
    BY <1>2, <1>5, <1>6, <1>8, <1>9, <2>1, RetryKeeps
<1>11. HandShape(v) /\ Progress(new, v)
  <2>1. HandShape(v)
    BY <1>5 DEF HandShape
  <2>2. new.pending = Len(v.queue) + 0
    BY <1>2, <1>4, <1>5, <1>6
  <2>3. new.deferred = Cardinality(DeferredItems(new)) /\ new.done + Len(Line(v)) = new.total
    BY <1>2, <1>6, <1>7
  <2> QED
    BY <1>5, <2>1, <2>2, <2>3 DEF Progress
<1>12. Pair(new, v)
  BY <1>2, <1>5, <1>6, <1>10, <1>11 DEF Pair, InStep, Live
<1> QED
  BY <1>1, <1>2, <1>12, LocalBatch

LEMMA RecordPairs ==
  ASSUME IInv, BatchInv, NEW i \in Instances, NEW j \in JobIds, SettleRecord(i, j)
  PROVE  /\ BatchInv'
         /\ \E it \in Item : LET old == jobs[i][j]
                                 new == Recorded(old, it) IN
              /\ jobs' = [jobs EXCEPT ![i][j] = new]
              /\ old.status = "running" /\ new.status = "running" /\ new.total = old.total
              /\ \A other \in old.items : other.account # it.account
              /\ old.done < old.total /\ Cardinality(ResultsOf(old)) = old.done
              /\ ResultsOf(new) = ResultsOf(old) \cup {<<it.account, it.status>>}
              /\ new.deferred - Cardinality(DeferredItems(new)) = old.deferred - Cardinality(DeferredItems(old))
<1> DEFINE w == workers[i][j]
           old == jobs[i][j]
           task == w.hand[1]
           o == w.outcome[1]
           item == [account |-> task.account, status |-> o.status, attempts |-> task.attempts + 1]
           v == [w EXCEPT !.pc = "loop", !.hand = <<>>, !.outcome = <<>>]
           new == Recorded(old, item)
           size == Len(Line(w))
<1>1. /\ At(i, j, "settle") /\ UNCHANGED <<nextID, running>>
      /\ workers' = [workers EXCEPT ![i][j] = v] /\ jobs' = [jobs EXCEPT ![i][j] = new]
  BY DEF SettleRecord
<1>2. /\ w \in WorkerType /\ old \in JobType /\ Counts(old) /\ old.status = "running" /\ Live(w)
      /\ Len(w.hand) = 1 /\ task \in Task /\ w.queue \in Seq(Task) /\ Len(w.queue) \in Nat
      /\ Line(w) \in Seq(Task) /\ size = Len(w.queue) + 1 /\ Line(w)[1] = task
      /\ \A n \in 1..Len(w.queue) : Line(w)[n + 1] = w.queue[n]
      /\ InRounds(Line(w)) /\ TriesTold(Line(w), w.tries, TRUE)
      /\ ResultsTold(old.items, Line(w), w.tries)
      /\ (\A a \in Accounts : w.tries[a] <= MaxAttempts)
      /\ old.deferred = Cardinality(DeferredItems(old)) /\ old.pending = Len(w.queue)
      /\ old.done + size = old.total
  BY <1>1, Settling DEF Settles
<1>3. item \in Item
  <2>0. \A t \in Task : t.attempts \in 0..MaxAttempts - 1
    BY DEF Task
  <2>1. task.attempts + 1 \in 1..MaxAttempts
    <3>1. task.attempts \in 0..MaxAttempts - 1
      BY <1>2, <2>0
    <3> QED
      BY <3>1, Params
  <2>2. o \in OutcomeType
    <3>1. w.outcome # <<>>
      BY <1>1, JobTyped DEF At, WorkerInv
    <3> QED
      BY <1>2, <3>1 DEF WorkerType
  <2> HIDE DEF task, o
  <2> QED
    BY <1>2, <2>1, <2>2 DEF Item, Task, OutcomeType
<1>4. item.account = Line(w)[1].account /\ item.attempts = Line(w)[1].attempts + 1
  BY <1>2
<1>5. /\ v \in WorkerType /\ v.pc = "loop" /\ v.queue = w.queue /\ v.hand = <<>> /\ v.tries = w.tries
  <2>1. <<>> \in Seq(Task) /\ <<>> \in Seq(OutcomeType)
    OBVIOUS
  <2> QED
    BY <1>2, <2>1 DEF WorkerType
<1> HIDE DEF v, item
<1>6. Len(Line(v)) + 1 = size /\ \A n \in 1..Len(w.queue) : Line(v)[n] = w.queue[n]
  <2>1. Len(v.hand) = 0
    BY <1>5
  <2>2. /\ Len(Line(v)) = Len(v.hand) + Len(v.queue) /\ Len(v.queue) \in Nat
        /\ Len(v.hand) = 0 => \A n \in 1..Len(v.queue) : Line(v)[n] = v.queue[n]
    BY <1>5, LineFacts
  <2>3. Len(Line(v)) + 1 = size
    BY <1>2, <1>5, <2>1, <2>2
  <2> QED
    BY <1>5, <2>1, <2>2, <2>3
<1>7. Shifted(Line(w), Line(v))
  <2>0. Len(Line(v)) = Len(w.queue)
    <3>1. Len(Line(v)) \in Nat
      BY <1>5, LineFacts
    <3> QED
      BY <1>2, <1>6, <3>1
  <2>1. ASSUME NEW n \in 1..size - 1 PROVE n \in 1..Len(Line(v)) /\ Line(v)[n] = Line(w)[n + 1]
    <3>1. size - 1 = Len(w.queue) /\ n \in 1..Len(w.queue)
      BY <1>2, <2>1
    <3> QED
      BY <1>2, <1>6, <2>0, <3>1
  <2> QED
    BY <1>2, <2>0, <2>1 DEF Shifted
<1>8. /\ InRounds(Line(v)) /\ TriesTold(Line(v), v.tries, FALSE)
      /\ ResultsTold(old.items \cup {item}, Line(v), v.tries)
      /\ \A it \in old.items : it.account # item.account
  <2>1. Len(Line(v)) + 1 = Len(Line(w))
    BY <1>6
  <2> DEFINE line == Line(w)
             other == Line(v)
             tries == v.tries
             items == old.items
  <2>2. /\ line \in Seq(Task) /\ Shifted(line, other) /\ Len(other) + 1 = Len(line)
        /\ InRounds(line) /\ TriesTold(line, tries, TRUE) /\ ResultsTold(items, line, tries)
        /\ item.account = line[1].account /\ item.attempts = line[1].attempts + 1
    BY <1>2, <1>4, <1>5, <1>7, <2>1
  <2> HIDE DEF line, other, tries, items
  <2>3. /\ InRounds(other) /\ TriesTold(other, tries, FALSE)
        /\ ResultsTold(items \cup {item}, other, tries)
        /\ \A it \in items : it.account # item.account
    BY <2>2, RecordKeeps
  <2> QED
    BY <2>3 DEF line, other, tries, items
<1>9. /\ new.status = "running" /\ new.total = old.total /\ new.pending = old.pending
      /\ new.items = old.items \cup {item} /\ new.done = old.done + 1
      /\ IsFiniteSet(new.items)
      /\ Cardinality(AccountsOf(new)) = new.done /\ Cardinality(ResultsOf(new)) = new.done
      /\ ResultsOf(new) = ResultsOf(old) \cup {<<item.account, item.status>>}
      /\ new.deferred - Cardinality(DeferredItems(new)) = old.deferred - Cardinality(DeferredItems(old))
  BY <1>2, <1>3, <1>8, RecordedCounts
<1>10. old.done \in Nat /\ old.total \in Nat /\ new.deferred \in Nat /\ new \in JobType
  <2>1. new \in JobType
    BY <1>2, <1>3, JobOps
  <2> QED
    BY <1>2, <2>1 DEF JobType
<1>11. old.done < old.total /\ Cardinality(ResultsOf(old)) = old.done
  <2>1. old.done + (Len(w.queue) + 1) = old.total /\ Len(w.queue) \in Nat
    BY <1>2
  <2> HIDE DEF w, old
  <2> QED
    BY <1>2, <1>10, <2>1 DEF Counts
<1> HIDE DEF new
<1>12. Counts(new)
  BY <1>9 DEF Counts
<1>13. HandShape(v) /\ Progress(new, v)
  <2>1. HandShape(v)
    BY <1>5 DEF HandShape
  <2>2. new.pending = Len(v.queue) + 0
    BY <1>2, <1>5, <1>9
  <2>3. IsFiniteSet(DeferredItems(new)) /\ Cardinality(DeferredItems(new)) \in Nat
        /\ Cardinality(DeferredItems(old)) \in Nat
    BY <1>2, <1>9, DeferredFinite DEF Counts
  <2>4. new.deferred = Cardinality(DeferredItems(new))
    BY <1>2, <1>9, <1>10, <2>3
  <2>5. new.done + Len(Line(v)) = new.total
    <3>1. Len(Line(v)) \in Nat
      BY <1>5, LineFacts
    <3> QED
      BY <1>2, <1>6, <1>9, <1>10, <3>1
  <2> QED
    BY <1>5, <2>1, <2>2, <2>4, <2>5 DEF Progress
<1>14. Pair(new, v)
  BY <1>2, <1>5, <1>8, <1>9, <1>12, <1>13 DEF Pair, InStep, Live
<1>15. BatchInv'
  BY <1>1, <1>2, <1>14, LocalBatch
<1> QED
  BY <1>1, <1>2, <1>3, <1>8, <1>9, <1>11, <1>15 DEF new

\* A backoff that runs out changes no account and no number of tries.
LEMMA ElapsePairs ==
  ASSUME IInv, BatchInv, NEW i \in Instances, NEW j \in JobIds, Elapse(i, j)
  PROVE  BatchInv'
<1> DEFINE w == workers[i][j]
           old == jobs[i][j]
<1>1. w \in WorkerType /\ Pair(old, w)
  BY Before
<1>2. \A task \in Task : /\ Over(task) \in Task /\ Over(task).account = task.account
                         /\ Over(task).attempts = task.attempts
  BY DEF Over, Task
<1>3. \E v \in WorkerType :
        /\ workers' = [workers EXCEPT ![i][j] = v] /\ v.pc = w.pc /\ v.tries = w.tries
        /\ Len(v.hand) = Len(w.hand) /\ Len(v.queue) = Len(w.queue)
        /\ Live(w) => SameTasks(Line(w), Line(v))
  <2>1. CASE /\ At(i, j, "sleep") /\ w.hand[1].backoff = "waiting"
             /\ workers' = [workers EXCEPT ![i][j].hand = <<Over(w.hand[1])>>]
    <3> DEFINE h == <<Over(w.hand[1])>>
               v == [w EXCEPT !.hand = h]
    <3>1. Live(w) /\ w.pc = "sleep"
      BY <2>1 DEF Live, At
    <3>2. Len(w.hand) = 1
      BY <3>1, Before DEF HandShape
    <3>3. /\ w.hand[1] \in Task /\ w.queue \in Seq(Task) /\ Len(w.queue) \in Nat
          /\ Len(Line(w)) = Len(w.hand) + Len(w.queue) /\ Line(w)[1] = w.hand[1]
          /\ \A n \in 1..Len(w.queue) : Line(w)[n + 1] = w.queue[n]
      BY <1>1, <3>2, LineFacts
    <3>4. h \in Seq(Task) /\ Len(h) = 1 /\ h[1] = Over(w.hand[1])
      BY <1>2, <3>3
    <3>5. workers' = [workers EXCEPT ![i][j] = v]
      BY <2>1, JobTyped
    <3> HIDE DEF h
    <3>6. v \in WorkerType /\ v.pc = w.pc /\ v.tries = w.tries /\ v.hand = h /\ v.queue = w.queue
      BY <1>1, <3>4 DEF WorkerType
    <3> HIDE DEF v
    <3>7. /\ Len(Line(v)) = Len(v.hand) + Len(v.queue) /\ Line(v)[1] = h[1]
          /\ \A n \in 1..Len(v.queue) : Line(v)[n + 1] = v.queue[n]
      BY <3>4, <3>6, LineFacts
    <3>8. SameTasks(Line(w), Line(v))
      <4>1. Len(Line(v)) = Len(Line(w)) /\ Len(Line(w)) = 1 + Len(w.queue)
        BY <3>2, <3>3, <3>4, <3>6, <3>7
      <4>2. \A n \in 1..Len(Line(w)) : n # 1 => Line(v)[n] = Line(w)[n]
        <5> SUFFICES ASSUME NEW n \in 1..Len(Line(w)), n # 1 PROVE Line(v)[n] = Line(w)[n]
          OBVIOUS
        <5>1. n - 1 \in 1..Len(w.queue) /\ (n - 1) + 1 = n
          <6>1. Len(w.queue) \in Nat /\ Len(Line(w)) = 1 + Len(w.queue)
            BY <3>3, <4>1
          <6>2. \A m \in Nat : \A k \in 1..(1 + m) : k # 1 => k - 1 \in 1..m /\ (k - 1) + 1 = k
            OBVIOUS
          <6>3. n \in 1..(1 + Len(w.queue))
            BY <6>1
          <6> HIDE DEF w
          <6> QED
            BY <6>1, <6>2, <6>3
        <5> QED
          BY <3>3, <3>6, <3>7, <5>1
      <4>3. Line(v)[1].account = Line(w)[1].account /\ Line(v)[1].attempts = Line(w)[1].attempts
        BY <1>2, <3>3, <3>4, <3>7
      <4> QED
        BY <4>1, <4>2, <4>3 DEF SameTasks
    <3> QED
      BY <3>2, <3>4, <3>5, <3>6, <3>8
  <2>2. CASE \E n \in 1..Len(w.queue) :
               /\ w.queue[n].backoff = "waiting"
               /\ workers' = [workers EXCEPT ![i][j].queue[n] = Over(@)]
    <3>1. PICK k \in 1..Len(w.queue) : workers' = [workers EXCEPT ![i][j].queue[k] = Over(@)]
      BY <2>2
    <3> DEFINE q == [w.queue EXCEPT ![k] = Over(@)]
               v == [w EXCEPT !.queue = q]
    <3>2. w.queue \in Seq(Task) /\ w.hand \in Seq(Task) /\ w.queue[k] \in Task
      BY <1>1 DEF WorkerType
    <3>3. /\ q \in Seq(Task) /\ Len(q) = Len(w.queue) /\ Len(w.queue) \in Nat
          /\ \A n \in 1..Len(w.queue) : q[n].account = w.queue[n].account /\ q[n].attempts = w.queue[n].attempts
      <4>1. q \in Seq(Task) /\ Len(q) = Len(w.queue) /\ Len(w.queue) \in Nat
        BY <1>2, <3>2
      <4>2. \A n \in 1..Len(w.queue) : q[n] = IF n = k THEN Over(w.queue[k]) ELSE w.queue[n]
        BY <3>2
      <4>3. Over(w.queue[k]).account = w.queue[k].account /\ Over(w.queue[k]).attempts = w.queue[k].attempts
        BY <1>2, <3>2
      <4> HIDE DEF q
      <4> QED
        BY <4>1, <4>2, <4>3
    <3>4. workers' = [workers EXCEPT ![i][j] = v]
      BY <3>1, JobTyped
    <3> HIDE DEF q
    <3>5. v \in WorkerType /\ v.pc = w.pc /\ v.tries = w.tries /\ v.hand = w.hand /\ v.queue = q
      BY <1>1, <3>3 DEF WorkerType
    <3> HIDE DEF v
    <3>6. Live(w) => SameTasks(Line(w), Line(v))
      <4> SUFFICES ASSUME Live(w) PROVE SameTasks(Line(w), Line(v))
        OBVIOUS
      <4>1. Len(w.hand) \in {0, 1}
        BY Before DEF HandShape
      <4>2. /\ Len(Line(w)) = Len(w.hand) + Len(w.queue)
            /\ Len(w.hand) = 0 => \A n \in 1..Len(w.queue) : Line(w)[n] = w.queue[n]
            /\ Len(w.hand) = 1 => /\ Line(w)[1] = w.hand[1]
                                  /\ \A n \in 1..Len(w.queue) : Line(w)[n + 1] = w.queue[n]
        BY <1>1, LineFacts
      <4>3. /\ Len(Line(v)) = Len(v.hand) + Len(v.queue)
            /\ Len(v.hand) = 0 => \A n \in 1..Len(v.queue) : Line(v)[n] = v.queue[n]
            /\ Len(v.hand) = 1 => /\ Line(v)[1] = v.hand[1]
                                  /\ \A n \in 1..Len(v.queue) : Line(v)[n + 1] = v.queue[n]
        BY <3>5, LineFacts
      <4>4. Len(Line(v)) = Len(Line(w))
        BY <3>3, <3>5, <4>2, <4>3
      <4>5. CASE Len(w.hand) = 0
        <5>1. Len(Line(w)) = Len(w.queue)
          BY <3>3, <4>2, <4>5
        <5> QED
          BY <3>3, <3>5, <4>2, <4>3, <4>4, <4>5, <5>1 DEF SameTasks
      <4>6. CASE Len(w.hand) = 1
        <5>1. ASSUME NEW n \in 1..Len(Line(w)), n # 1
              PROVE  Line(v)[n].account = Line(w)[n].account /\ Line(v)[n].attempts = Line(w)[n].attempts
          <6>1. n - 1 \in 1..Len(w.queue) /\ (n - 1) + 1 = n
            BY <3>3, <4>2, <4>6, <5>1
          <6>2. Line(v)[n] = q[n - 1] /\ Line(w)[n] = w.queue[n - 1]
            BY <3>3, <3>5, <4>2, <4>3, <4>6, <6>1
          <6> QED
            BY <3>3, <6>1, <6>2
        <5>2. Line(v)[1] = Line(w)[1]
          BY <3>5, <4>2, <4>3, <4>6
        <5> QED
          BY <4>4, <5>1, <5>2 DEF SameTasks
      <4> QED
        BY <4>1, <4>5, <4>6
    <3> QED
      BY <3>3, <3>4, <3>5, <3>6
  <2> QED
    BY <2>1, <2>2 DEF Elapse
<1>4. PICK v \in WorkerType :
        /\ workers' = [workers EXCEPT ![i][j] = v] /\ v.pc = w.pc /\ v.tries = w.tries
        /\ Len(v.hand) = Len(w.hand) /\ Len(v.queue) = Len(w.queue)
        /\ Live(w) => SameTasks(Line(w), Line(v))
  BY <1>3
<1>5. UNCHANGED <<jobs, nextID, running>>
  BY DEF Elapse
<1>6. Pair(old, v)
  <2>1. CASE Live(w)
    <3>1. /\ Counts(old) /\ old.status = "running" /\ InStep(old, w) /\ HandShape(w) /\ Progress(old, w)
      BY <2>1, Before
    <3>2. Live(v) /\ HandShape(v)
      BY <1>4, <2>1, <3>1 DEF Live, HandShape
    <3>3. Len(Line(v)) = Len(Line(w))
      BY <1>4, <2>1 DEF SameTasks
    <3>4. Progress(old, v)
      BY <1>4, <3>1, <3>3 DEF Progress
    <3> HIDE DEF old, w
    <3> QED
      BY <1>1, <1>4, <2>1, <3>1, <3>2, <3>4, SameLineStep
  <2>2. CASE ~Live(w)
    BY <1>1, <1>4, <2>2 DEF Pair, Live
  <2> QED
    BY <2>1, <2>2
<1>7. jobs' = [jobs EXCEPT ![i][j] = old]
  BY <1>5, Before
<1>8. \A k \in Instances, l \in JobIds : workers'[k][l] = IF k = i /\ l = j THEN v ELSE workers[k][l]
  BY <1>4, JobTyped
<1>9. Pairs'
  BY <1>5, <1>6, <1>8 DEF BatchInv, Pairs
<1> QED
  BY <1>5, <1>9 DEF BatchInv, Slots

LEMMA UnlockPairs ==
  ASSUME IInv, BatchInv, NEW i \in Instances, NEW j \in JobIds, Unlock(i, j)
  PROVE  BatchInv'
<1>1. /\ workers[i][j].pc = "unlock" /\ workers' = [workers EXCEPT ![i][j] = Off]
      /\ UNCHANGED <<jobs, nextID, running>>
  BY DEF Unlock, At
<1>2. ~Live(workers[i][j]) /\ ~Live(Off)
  BY <1>1 DEF Live, Off
<1>3. \A k \in Instances, l \in JobIds : workers'[k][l] = IF k = i /\ l = j THEN Off ELSE workers[k][l]
  BY <1>1, JobTyped
<1>4. Pair(jobs[i][j], Off)
  BY <1>2 DEF BatchInv, Pairs, Pair
<1>5. Pairs'
  BY <1>1, <1>3, <1>4 DEF BatchInv, Pairs
<1> QED
  BY <1>1, <1>5 DEF BatchInv, Slots

-----------------------------------------------------------------------------
\* No batch, and a batch that has just begun.
LEMMA AbsentPair ==
  ASSUME NEW w, ~Live(w)
  PROVE  Pair(Absent, w)
<1>1. /\ Absent.status = "absent" /\ Absent.items = {} /\ Absent.done = 0
  BY DEF Absent
<1>2. AccountsOf(Absent) = {} /\ ResultsOf(Absent) = {}
  BY <1>1 DEF AccountsOf, ResultsOf
<1>3. IsFiniteSet({}) /\ Cardinality({}) = 0
  BY FS_EmptySet
<1>4. Counts(Absent)
  BY <1>1, <1>2, <1>3 DEF Counts
<1> QED
  BY <1>1, <1>4 DEF Pair

LEMMA NewPair ==
  ASSUME NEW ts \in Seq(Accounts), \A m, n \in 1..Len(ts) : ts[m] = ts[n] => m = n
  PROVE  Pair(NewJob(Len(ts)), NewWorker(ts))
<1> DEFINE job == NewJob(Len(ts))
           w == NewWorker(ts)
           q == [n \in 1..Len(ts) |-> [account |-> ts[n], attempts |-> 0, backoff |-> "none"]]
<1>1. /\ job.status = "running" /\ job.items = {} /\ job.done = 0 /\ job.deferred = 0
      /\ job.total = Len(ts) /\ job.pending = Len(ts)
  BY DEF NewJob, Absent
<1>2. w \in WorkerType /\ w.pc = "lock"
  BY NewWorkerInv DEF WorkerInv
<1>3. w.queue = q /\ w.hand = <<>> /\ w.tries = [a \in Accounts |-> 0]
  BY DEF NewWorker, Off
<1>4. Len(ts) \in Nat /\ Len(w.queue) = Len(ts) /\ Len(w.hand) = 0
  BY <1>3
<1> HIDE DEF job, w
<1>5. Len(Line(w)) = Len(ts) /\ \A n \in 1..Len(ts) : Line(w)[n] = q[n]
  <2>1. /\ Len(Line(w)) = Len(w.hand) + Len(w.queue)
        /\ Len(w.hand) = 0 => \A n \in 1..Len(w.queue) : Line(w)[n] = w.queue[n]
    BY <1>2, LineFacts
  <2>2. Len(Line(w)) = Len(ts)
    BY <1>4, <2>1
  <2>3. \A n \in 1..Len(w.queue) : Line(w)[n] = w.queue[n]
    BY <1>4, <2>1
  <2> HIDE DEF q
  <2> QED
    BY <1>3, <1>4, <2>2, <2>3
<1>6. \A n \in 1..Len(ts) : /\ Line(w)[n].account = ts[n] /\ Line(w)[n].attempts = 0 /\ ts[n] \in Accounts
  <2>1. \A n \in 1..Len(ts) : /\ q[n].account = ts[n] /\ q[n].attempts = 0 /\ ts[n] \in Accounts
    OBVIOUS
  <2> HIDE DEF q
  <2> QED
    BY <1>5, <2>1
<1>7. /\ AccountsOf(job) = {} /\ ResultsOf(job) = {} /\ DeferredItems(job) = {}
      /\ IsFiniteSet({}) /\ Cardinality({}) = 0
  BY <1>1, FS_EmptySet DEF AccountsOf, ResultsOf, DeferredItems
<1>8. Counts(job)
  BY <1>1, <1>7 DEF Counts
<1>9. InRounds(Line(w))
  BY <1>4, <1>5, <1>6 DEF InRounds
<1>10. TriesTold(Line(w), w.tries, w.pc = "settle")
  BY <1>2, <1>3, <1>5, <1>6 DEF TriesTold
<1>11. ResultsTold(job.items, Line(w), w.tries)
  BY <1>1 DEF ResultsTold
<1>12. HandShape(w) /\ Progress(job, w)
  BY <1>1, <1>2, <1>4, <1>5, <1>7 DEF HandShape, Progress
<1>13. \A a \in Accounts : w.tries[a] <= MaxAttempts
  BY <1>3, Params
<1>14. Live(w)
  BY <1>2 DEF Live
<1> QED
  BY <1>1, <1>8, <1>9, <1>10, <1>11, <1>12, <1>13, <1>14 DEF Pair, InStep, job, w

\* What begin does to the batches: one new, some that are not running dropped.
LEMMA BeginMoves ==
  ASSUME IInv, NEW i \in Instances, Begin(i)
  PROVE  \E ts \in TargetLists[i], dropped \in SUBSET JobIds :
           LET id == nextID[i] + 1 IN
           /\ id \in JobIds /\ nextID[i] \in Nat /\ id \notin dropped
           /\ Len(ts) >= 1 /\ ts \in Seq(Accounts) /\ (\A m, n \in 1..Len(ts) : ts[m] = ts[n] => m = n)
           /\ \A k \in dropped : jobs[i][k].status # "running"
           /\ running[i] = NoJob /\ running' = [running EXCEPT ![i] = id]
           /\ nextID' = [nextID EXCEPT ![i] = id]
           /\ workers' = [workers EXCEPT ![i][id] = NewWorker(ts)]
           /\ jobs' = [jobs EXCEPT ![i] =
                [k \in JobIds |-> IF k \in dropped THEN Absent
                                  ELSE IF k = id THEN NewJob(Len(ts)) ELSE jobs[i][k]]]
<1> DEFINE id == nextID[i] + 1
           ids == Append(order[i], id)
           all(ts) == [jobs[i] EXCEPT ![id] = NewJob(Len(ts))]
<1>1. id \in JobIds /\ nextID[i] \in Nat
  <2>1. nextID[i] \in JobIds \cup {NoJob}
    BY DEF IInv, TypeOK
  <2>2. nextID[i] \in Nat
    BY <2>1, Params DEF JobIds, NoJob
  <2>3. nextID[i] < JobBound[i] /\ JobBound[i] \in 0..MaxJobs
    BY QueueAssumption DEF Begin
  <2> QED
    BY <2>2, <2>3, Params DEF JobIds
<1>2. PICK ts \in TargetLists[i], d \in 0..Len(order[i]) :
        /\ Len(ts) \in 1..MaxTargets /\ Trims(ids, all(ts), d)
        /\ jobs' = [jobs EXCEPT ![i] =
             [k \in JobIds |-> IF \E n \in 1..d : ids[n] = k THEN Absent ELSE all(ts)[k]]]
        /\ nextID' = [nextID EXCEPT ![i] = id]
        /\ running' = [running EXCEPT ![i] = id]
        /\ workers' = [workers EXCEPT ![i][id] = NewWorker(ts)]
  BY DEF Begin
<1> DEFINE dropped == {k \in JobIds : \E n \in 1..d : ids[n] = k}
<1>3. jobs[i] \in [JobIds -> JobType]
  BY DEF IInv, TypeOK
<1>4. \A k \in JobIds : all(ts)[k] = IF k = id THEN NewJob(Len(ts)) ELSE jobs[i][k]
  BY <1>1, <1>3
<1>5. \A k \in dropped : all(ts)[k].status # "running"
  BY <1>2 DEF Trims
<1>6. NewJob(Len(ts)).status = "running"
  BY DEF NewJob, Absent
<1> HIDE DEF all, ids
<1>7. id \notin dropped /\ \A k \in dropped : jobs[i][k].status # "running"
  BY <1>1, <1>4, <1>5, <1>6
<1>8. [k \in JobIds |-> IF \E n \in 1..d : ids[n] = k THEN Absent ELSE all(ts)[k]]
        = [k \in JobIds |-> IF k \in dropped THEN Absent ELSE IF k = id THEN NewJob(Len(ts)) ELSE jobs[i][k]]
  BY <1>4
<1>9. ts \in Seq(Accounts) /\ (\A m, n \in 1..Len(ts) : ts[m] = ts[n] => m = n) /\ Len(ts) >= 1
  BY <1>2, QueueAssumption
<1>10. running[i] = NoJob
  BY DEF Begin
<1>11. dropped \in SUBSET JobIds
  OBVIOUS
<1> HIDE DEF dropped
<1> QED
  BY <1>1, <1>2, <1>7, <1>8, <1>9, <1>10, <1>11

LEMMA BeginPairs ==
  ASSUME IInv, BatchInv, NEW i \in Instances, Begin(i)
  PROVE  BatchInv'
<1> DEFINE id == nextID[i] + 1
<1>1. PICK ts \in TargetLists[i], dropped \in SUBSET JobIds :
           /\ id \in JobIds /\ nextID[i] \in Nat /\ id \notin dropped
           /\ Len(ts) >= 1 /\ ts \in Seq(Accounts) /\ (\A m, n \in 1..Len(ts) : ts[m] = ts[n] => m = n)
           /\ \A k \in dropped : jobs[i][k].status # "running"
           /\ running[i] = NoJob /\ running' = [running EXCEPT ![i] = id]
           /\ nextID' = [nextID EXCEPT ![i] = id]
           /\ workers' = [workers EXCEPT ![i][id] = NewWorker(ts)]
           /\ jobs' = [jobs EXCEPT ![i] =
                [k \in JobIds |-> IF k \in dropped THEN Absent
                                  ELSE IF k = id THEN NewJob(Len(ts)) ELSE jobs[i][k]]]
  BY BeginMoves
<1>2. /\ jobs \in [Instances -> [JobIds -> JobType]] /\ running \in [Instances -> JobIds \cup {NoJob}]
      /\ nextID \in [Instances -> JobIds \cup {NoJob}]
  BY DEF IInv, TypeOK
<1>3. \A k \in Instances, l \in JobIds :
        /\ workers'[k][l] = IF k = i /\ l = id THEN NewWorker(ts) ELSE workers[k][l]
        /\ jobs'[k][l] = IF k = i /\ l \in dropped THEN Absent
                         ELSE IF k = i /\ l = id THEN NewJob(Len(ts)) ELSE jobs[k][l]
  BY <1>1, <1>2, JobTyped
<1>4. Pair(NewJob(Len(ts)), NewWorker(ts))
  BY <1>1, NewPair
<1>5. \A l \in dropped : Pair(Absent, workers[i][l])
  BY <1>1, AbsentPair DEF BatchInv, Pairs, Pair
<1> HIDE DEF id
<1>6. Pairs'
  <2> SUFFICES ASSUME NEW k \in Instances, NEW l \in JobIds PROVE Pair(jobs'[k][l], workers'[k][l])
    BY DEF Pairs
  <2> QED
    BY <1>1, <1>3, <1>4, <1>5 DEF BatchInv, Pairs
<1>7. \A l \in JobIds : jobs[i][l].status # "running"
  BY <1>1, JobIdFacts DEF BatchInv, Slots
<1>8. Absent.status = "absent"
  BY DEF Absent
<1>9. ASSUME NEW k \in Instances, NEW l \in JobIds, jobs'[k][l].status = "running"
      PROVE  running'[k] = l
  <2>1. CASE k = i
    BY <1>1, <1>2, <1>3, <1>7, <1>8, <1>9, <2>1
  <2>2. CASE k # i
    BY <1>1, <1>2, <1>3, <1>9, <2>2 DEF BatchInv, Slots
  <2> QED
    BY <2>1, <2>2
<1>10. ASSUME NEW k \in Instances, NEW l \in JobIds, l > nextID'[k]
       PROVE  jobs'[k][l].status = "absent"
  <2>1. CASE k = i
    <3>1. l > id /\ l \in Nat
      BY <1>1, <1>2, <1>10, <2>1, JobIdFacts
    <3>2. l # id /\ l > nextID[i]
      BY <1>1, <3>1, JobIdFacts DEF id
    <3> QED
      BY <1>3, <1>8, <2>1, <3>2 DEF BatchInv, Slots
  <2>2. CASE k # i
    BY <1>1, <1>2, <1>3, <1>10, <2>2 DEF BatchInv, Slots
  <2> QED
    BY <2>1, <2>2
<1> QED
  BY <1>6, <1>9, <1>10 DEF BatchInv, Slots

LEMMA RestartPairs ==
  ASSUME IInv, BatchInv, NEW i \in Instances, Restart(i)
  PROVE  BatchInv'
<1>1. /\ jobs' = [jobs EXCEPT ![i] = [j \in JobIds |-> Absent]]
      /\ nextID' = [nextID EXCEPT ![i] = 0] /\ running' = [running EXCEPT ![i] = NoJob]
      /\ workers' = [workers EXCEPT ![i] = [j \in JobIds |-> Off]]
  BY DEF Restart
<1>2. /\ jobs \in [Instances -> [JobIds -> JobType]] /\ running \in [Instances -> JobIds \cup {NoJob}]
      /\ nextID \in [Instances -> JobIds \cup {NoJob}] /\ workers \in [Instances -> [JobIds -> WorkerType]]
  BY DEF IInv, TypeOK
<1>3. Pair(Absent, Off) /\ Absent.status = "absent"
  <2>1. ~Live(Off)
    BY DEF Live, Off
  <2> QED
    BY <2>1, AbsentPair DEF Absent
<1>4. \A k \in Instances, l \in JobIds :
        /\ workers'[k][l] = IF k = i THEN Off ELSE workers[k][l]
        /\ jobs'[k][l] = IF k = i THEN Absent ELSE jobs[k][l]
        /\ k # i => nextID'[k] = nextID[k] /\ running'[k] = running[k]
  BY <1>1, <1>2
<1>5. Pairs'
  BY <1>3, <1>4 DEF BatchInv, Pairs
<1>6. Slots'
  BY <1>3, <1>4 DEF BatchInv, Slots
<1> QED
  BY <1>5, <1>6 DEF BatchInv

LEMMA InitBatch == Init => BatchInv
<1> SUFFICES ASSUME Init PROVE BatchInv
  OBVIOUS
<1>1. \A i \in Instances, j \in JobIds : jobs[i][j] = Absent /\ workers[i][j] = Off
  BY DEF Init
<1>2. Pair(Absent, Off) /\ Absent.status = "absent"
  <2>1. ~Live(Off)
    BY DEF Live, Off
  <2> QED
    BY <2>1, AbsentPair DEF Absent
<1> QED
  BY <1>1, <1>2 DEF BatchInv, Pairs, Slots

LEMMA StepBatch == IInv /\ BatchInv /\ [Next]_vars => BatchInv'
<1> SUFFICES ASSUME IInv, BatchInv, [Next]_vars PROVE BatchInv'
  OBVIOUS
<1>1. CASE UNCHANGED <<jobs, workers, nextID, running>>
  BY <1>1 DEF BatchInv, Pairs, Slots
<1>2. ASSUME NEW i \in Instances, Begin(i) PROVE BatchInv'
  BY <1>2, BeginPairs
<1>3. ASSUME NEW i \in Instances, ProvisionStart(i) \/ ProvisionEnd(i) \/ Shutdown(i)
      PROVE  UNCHANGED <<jobs, workers, nextID, running>>
  BY <1>3 DEF ProvisionStart, ProvisionEnd, Shutdown
<1>4. ASSUME NEW i \in Instances, Restart(i) PROVE BatchInv'
  BY <1>4, RestartPairs
<1>5. ASSUME NEW i \in Instances, NEW j \in JobIds, WorkerStep(i, j) PROVE BatchInv'
  BY <1>5, EndPairs, WaitPairs, TakePairs, RunPairs, RetryPairs, RecordPairs, UnlockPairs DEF WorkerStep
<1>6. ASSUME NEW i \in Instances, NEW j \in JobIds, Elapse(i, j) PROVE BatchInv'
  BY <1>6, ElapsePairs
<1>7. CASE UNCHANGED vars
  BY <1>1, <1>7 DEF vars
<1> QED
  BY <1>1, <1>2, <1>3, <1>4, <1>5, <1>6, <1>7 DEF Next

LEMMA AlwaysBatchInv == Spec => [](IInv /\ BatchInv)
  BY InitInv, StepInv, InitBatch, StepBatch, PTL DEF Spec

\* No account is lost or counted twice, for any mix of retries, cancellation,
\* lock failures, trimming and restarts (finish, key_import_queue.go:130-135).
THEOREM EveryAccountCounted == Spec => []BatchAccounted
<1>1. IInv /\ BatchInv => BatchAccounted
  <2> SUFFICES ASSUME IInv, BatchInv, NEW i \in Instances, NEW j \in JobIds
               PROVE  LET job == jobs[i][j]
                          unreached == job.deferred - Cardinality(DeferredItems(job))
                      IN /\ job.done = Cardinality({it.account : it \in job.items})
                         /\ job.status = "running" =>
                              /\ running[i] = j
                              /\ unreached = 0
                              /\ job.done + job.pending + InHand(i, j) = job.total
                         /\ job.status \in {"done", "canceled"} =>
                              /\ job.pending = 0 /\ ~job.retryAt
                              /\ unreached >= 0
                              /\ job.done + unreached = job.total
                              /\ job.error = "none" => unreached = 0
    BY DEF BatchAccounted
  <2> DEFINE job == jobs[i][j]
             w == workers[i][j]
             unreached == job.deferred - Cardinality(DeferredItems(job))
  <2>1. w \in WorkerType /\ job \in JobType /\ Counts(job) /\ Pair(job, w)
    BY Before
  <2>2. job.done = Cardinality({it.account : it \in job.items})
    BY <2>1 DEF Counts, AccountsOf
  <2>3. ASSUME job.status = "running"
        PROVE  running[i] = j /\ unreached = 0 /\ job.done + job.pending + InHand(i, j) = job.total
    <3>1. Live(w)
      BY <2>1, <2>3 DEF Pair
    <3>2. HandShape(w) /\ Progress(job, w) /\ running[i] = j
      BY <2>3, <3>1, Before DEF BatchInv, Slots
    <3>3. /\ Len(Line(w)) = Len(w.hand) + Len(w.queue) /\ Len(w.queue) \in Nat
          /\ job.done \in Nat /\ job.total \in Nat /\ job.pending \in Nat /\ job.deferred \in Nat
      BY <2>1, LineFacts DEF JobType
    <3>4. unreached = 0
      BY <3>2, <3>3 DEF Progress
    <3>5. Len(Line(w)) = job.pending + InHand(i, j)
      <4>1. CASE w.pc \in {"sleep", "wake"}
        <5>1. Len(w.hand) = 1 /\ job.pending = Len(w.queue) + 1 /\ InHand(i, j) = 0
          BY <3>2, <4>1 DEF HandShape, Progress, InHand
        <5> QED
          BY <3>3, <5>1
      <4>2. CASE w.pc \in {"run", "settle"}
        <5>1. Len(w.hand) = 1 /\ job.pending = Len(w.queue) + 0 /\ InHand(i, j) = 1
          BY <3>2, <4>2 DEF HandShape, Progress, InHand
        <5> QED
          BY <3>3, <5>1
      <4>3. CASE w.pc \in {"lock", "loop"}
        <5>1. Len(w.hand) = 0 /\ job.pending = Len(w.queue) + 0 /\ InHand(i, j) = 0
          BY <3>2, <4>3 DEF HandShape, Progress, InHand
        <5> QED
          BY <3>3, <5>1
      <4>4. w.pc \in {"lock", "loop", "sleep", "wake", "run", "settle"}
        BY <2>1, <3>1 DEF WorkerType, Live
      <4> QED
        BY <4>1, <4>2, <4>3, <4>4
    <3>6. InHand(i, j) \in Nat
      BY DEF InHand
    <3>7. job.done + job.pending + InHand(i, j) = job.total
      <4>1. job.done + Len(Line(w)) = job.total
        BY <3>2 DEF Progress
      <4>2. \A d, p, h, l, t \in Nat : l = p + h /\ d + l = t => d + p + h = t
        OBVIOUS
      <4>3. /\ job.done \in Nat /\ job.pending \in Nat /\ job.total \in Nat
            /\ InHand(i, j) \in Nat /\ Len(Line(w)) \in Nat
        BY <2>1, <3>3, <3>6, LineFacts
      <4>4. Len(Line(w)) = job.pending + InHand(i, j) /\ job.done + Len(Line(w)) = job.total
        BY <3>5, <4>1
      <4> QED
        BY <4>2, <4>3, <4>4, SMTT(40)
    <3> QED
      BY <3>2, <3>4, <3>7
  <2>4. ASSUME job.status \in {"done", "canceled"}
        PROVE  /\ job.pending = 0 /\ ~job.retryAt /\ unreached >= 0 /\ job.done + unreached = job.total
               /\ job.error = "none" => unreached = 0
    BY <2>1, <2>4 DEF Counts
  <2> QED
    BY <2>2, <2>3, <2>4
<1> QED
  BY <1>1, AlwaysBatchInv, PTL

\* Retries go in rounds, for any number of accounts and tries: nobody is tried
\* again before every other account of the batch had as many tries, nobody more
\* than MaxAttempts times, and an item tells the tries its account really had
\* (key_import_queue.go:309-310).
THEOREM RetriesInRounds == Spec => []RetryRounds
<1>1. IInv /\ BatchInv => RetryRounds
  <2> SUFFICES ASSUME IInv, BatchInv, NEW i \in Instances, NEW j \in JobIds,
                      workers[i][j].pc \notin {"off", "unlock"}
               PROVE  LET w == workers[i][j]
                          line == w.hand \o w.queue
                      IN /\ \A m, n \in 1..Len(line) : m < n =>
                              line[n].attempts - line[m].attempts \in {0, 1}
                         /\ \A n \in 1..Len(line) :
                              w.tries[line[n].account]
                                = line[n].attempts + (IF n = 1 /\ w.pc = "settle" THEN 1 ELSE 0)
                         /\ \A it \in jobs[i][j].items : it.attempts = w.tries[it.account]
                         /\ \A a \in Accounts : w.tries[a] <= MaxAttempts
    BY DEF RetryRounds
  <2>1. InStep(jobs[i][j], workers[i][j])
    BY Before DEF Live
  <2> QED
    BY <2>1 DEF InStep, InRounds, TriesTold, ResultsTold, Line
<1> QED
  BY <1>1, AlwaysBatchInv, PTL

-----------------------------------------------------------------------------
(***************************************************************************)
(* The queue implements KeyImportLedger: every step of it is one step of   *)
(* the ledger, or leaves the ledger as it is.                              *)
(***************************************************************************)
\* The ledger counts as the queue does.
LEMMA SameCount == \A S : Ledger!Cardinality(S) = Cardinality(S)
  BY DEF Ledger!Cardinality, Cardinality

LEMMA PolledFacts ==
  /\ \A i \in Instances, j \in JobIds : Polled[i][j] = EntryOf(jobs[i][j])
  /\ \A i \in Instances, j \in JobIds : Polled'[i][j] = EntryOf(jobs'[i][j])
  /\ Polled = [i \in Instances |-> [j \in JobIds |-> Polled[i][j]]]
  /\ Polled' = [i \in Instances |-> [j \in JobIds |-> Polled'[i][j]]]
  BY DEF Polled

LEMMA EntryFacts ==
  ASSUME NEW job, job.status \in {"absent", "running", "done", "canceled"}
  PROVE  /\ EntryOf(job).state = "open" <=> job.status = "running"
         /\ EntryOf(job).state = "closed" <=> job.status \in {"done", "canceled"}
         /\ EntryOf(job).size = job.total /\ EntryOf(job).results = ResultsOf(job)
         /\ EntryOf(job).unreached = job.deferred - Cardinality(DeferredItems(job))
  BY DEF EntryOf, StateOf, ResultsOf

LEMMA EntryOfAbsent == EntryOf(Absent) = Ledger!Unseen
<1>1. /\ Absent.status = "absent" /\ Absent.items = {} /\ Absent.deferred = 0 /\ Absent.total = 0
  BY DEF Absent
<1>2. DeferredItems(Absent) = {} /\ Cardinality({}) = 0
  BY <1>1, FS_EmptySet DEF DeferredItems
<1>3. {<<it.account, it.status>> : it \in {}} = {}
  OBVIOUS
<1> QED
  BY <1>1, <1>2, <1>3 DEF EntryOf, StateOf, Ledger!Unseen

LEMMA EntryOfNew ==
  ASSUME NEW n \in Nat
  PROVE  EntryOf(NewJob(n)) = Ledger!Opened(n)
<1> DEFINE job == NewJob(n)
<1>1. job.status = "running" /\ job.items = {} /\ job.deferred = 0 /\ job.total = n
  BY DEF NewJob, Absent
<1> HIDE DEF job
<1>2. DeferredItems(job) = {} /\ Cardinality({}) = 0
  BY <1>1, FS_EmptySet DEF DeferredItems
<1>3. {<<it.account, it.status>> : it \in {}} = {}
  OBVIOUS
<1>4. EntryOf(job) = Ledger!Opened(n)
  BY <1>1, <1>2, <1>3 DEF EntryOf, StateOf, Ledger!Opened
<1> QED
  BY <1>4 DEF job

\* A step that writes one batch writes one entry.
LEMMA OneEntry ==
  ASSUME IInv, NEW i \in Instances, NEW j \in JobIds, NEW new,
         jobs' = [jobs EXCEPT ![i][j] = new]
  PROVE  Polled' = [Polled EXCEPT ![i][j] = EntryOf(new)]
<1>1. jobs \in [Instances -> [JobIds -> JobType]]
  BY DEF IInv, TypeOK
<1>2. \A k \in Instances, l \in JobIds : jobs'[k][l] = IF k = i /\ l = j THEN new ELSE jobs[k][l]
  BY <1>1
<1>3. \A k \in Instances, l \in JobIds : Polled'[k][l] = IF k = i /\ l = j THEN EntryOf(new) ELSE Polled[k][l]
  BY <1>2, PolledFacts
<1>4. Polled' = [k \in Instances |-> [l \in JobIds |-> IF k = i /\ l = j THEN EntryOf(new) ELSE Polled[k][l]]]
  BY <1>3, PolledFacts
<1> QED
  BY <1>4 DEF Polled

LEMMA SameEntry ==
  ASSUME IInv, NEW i \in Instances, NEW j \in JobIds, NEW n, NEW r,
         jobs' = [jobs EXCEPT ![i][j] = Progressed(jobs[i][j], n, r)]
  PROVE  Polled' = Polled
<1> DEFINE old == jobs[i][j]
           new == Progressed(old, n, r)
<1>1. old \in JobType
  BY JobTyped
<1>2. new.status = old.status /\ new.total = old.total /\ new.items = old.items /\ new.deferred = old.deferred
  BY <1>1 DEF Progressed, JobType
<1> HIDE DEF new
<1>3. DeferredItems(new) = DeferredItems(old)
  BY <1>2 DEF DeferredItems
<1>4. EntryOf(new) = EntryOf(old)
  BY <1>2, <1>3 DEF EntryOf
<1>5. Polled' = [Polled EXCEPT ![i][j] = EntryOf(new)]
  BY OneEntry, ZenonT(60) DEF new
<1> QED
  BY <1>4, <1>5 DEF Polled

\* The accounts of a batch are different ones, so there are no more of them
\* than accounts.
LEMMA ListBounded ==
  ASSUME NEW ts \in Seq(Accounts), \A m, n \in 1..Len(ts) : ts[m] = ts[n] => m = n
  PROVE  Len(ts) <= Cardinality(Accounts)
<1>1. IsFiniteSet(Accounts) /\ Len(ts) \in Nat
  BY QueueAssumption
<1>2. ts \in Injection(1..Len(ts), Accounts)
  BY DEF Injection, IsInjective
<1>3. Cardinality(1..Len(ts)) <= Cardinality(Accounts)
  BY <1>1, <1>2, FS_Injection
<1>4. Cardinality(1..Len(ts)) = Len(ts)
  <2>1. 1 \in Int /\ Len(ts) \in Int
    BY <1>1
  <2>2. Cardinality(1..Len(ts)) = IF 1 > Len(ts) THEN 0 ELSE Len(ts) - 1 + 1
    BY <2>1, FS_Interval
  <2> QED
    BY <1>1, <2>2
<1> QED
  BY <1>3, <1>4

\* begin opens a batch: none of the process is open, and its number is unseen.
LEMMA BeginOpens ==
  ASSUME IInv, BatchInv, NEW i \in Instances, Begin(i)
  PROVE  Ledger!LedgerNext
<1> DEFINE id == nextID[i] + 1
<1>1. PICK ts \in TargetLists[i], dropped \in SUBSET JobIds :
           /\ id \in JobIds /\ nextID[i] \in Nat /\ id \notin dropped
           /\ Len(ts) >= 1 /\ ts \in Seq(Accounts) /\ (\A m, n \in 1..Len(ts) : ts[m] = ts[n] => m = n)
           /\ running[i] = NoJob
           /\ jobs' = [jobs EXCEPT ![i] =
                [k \in JobIds |-> IF k \in dropped THEN Absent
                                  ELSE IF k = id THEN NewJob(Len(ts)) ELSE jobs[i][k]]]
  BY BeginMoves
<1>2. Len(ts) \in Nat /\ Len(ts) \in 1..Cardinality(Accounts)
  <2>1. Len(ts) \in Nat /\ Len(ts) <= Cardinality(Accounts) /\ Cardinality(Accounts) \in Nat
    BY <1>1, ListBounded, QueueAssumption, FS_CardinalityType
  <2> QED
    BY <1>1, <2>1
<1>3. id > nextID[i]
  BY <1>1
<1>4. jobs \in [Instances -> [JobIds -> JobType]]
  BY DEF IInv, TypeOK
<1> HIDE DEF id
<1>5. jobs[i][id] = Absent
  BY <1>1, <1>3, <1>4 DEF BatchInv, Slots, Pairs, Pair, Counts
<1>6. \A k \in JobIds : Polled[i][k].state # "open"
  <2>1. \A k \in JobIds : jobs[i][k].status # "running"
    BY <1>1, JobIdFacts DEF BatchInv, Slots
  <2>2. \A k \in JobIds : jobs[i][k].status \in {"absent", "running", "done", "canceled"}
    BY <1>4 DEF JobType
  <2> QED
    BY <2>1, <2>2, EntryFacts, PolledFacts
<1>7. Polled[i][id] = Ledger!Unseen
  BY <1>1, <1>5, EntryOfAbsent, PolledFacts
<1>8. \A k \in Instances, l \in JobIds :
        jobs'[k][l] = IF k = i /\ l \in dropped THEN Absent
                      ELSE IF k = i /\ l = id THEN NewJob(Len(ts)) ELSE jobs[k][l]
  BY <1>1, <1>4
<1> DEFINE row == [k \in JobIds |-> IF k = id THEN Ledger!Opened(Len(ts))
                                    ELSE IF k \in dropped THEN Ledger!Unseen ELSE Polled[i][k]]
<1>9. \A k \in Instances, l \in JobIds : Polled'[k][l] = IF k = i THEN row[l] ELSE Polled[k][l]
  <2> SUFFICES ASSUME NEW k \in Instances, NEW l \in JobIds
               PROVE  Polled'[k][l] = IF k = i THEN row[l] ELSE Polled[k][l]
    OBVIOUS
  <2>1. CASE k # i
    BY <1>8, <2>1, PolledFacts
  <2>2. CASE k = i /\ l = id
    BY <1>1, <1>2, <1>8, <2>2, EntryOfNew, PolledFacts
  <2>3. CASE k = i /\ l # id /\ l \in dropped
    BY <1>8, <2>3, EntryOfAbsent, PolledFacts
  <2>4. CASE k = i /\ l # id /\ l \notin dropped
    BY <1>8, <2>4, PolledFacts
  <2> QED
    BY <2>1, <2>2, <2>3, <2>4
<1>10. Polled' = [Polled EXCEPT ![i] = row]
  <2>1. DOMAIN row = JobIds /\ row = [l \in JobIds |-> row[l]]
    OBVIOUS
  <2> HIDE DEF row
  <2>2. Polled' = [k \in Instances |-> [l \in JobIds |-> IF k = i THEN row[l] ELSE Polled[k][l]]]
    BY <1>9, PolledFacts
  <2>3. \A k \in Instances : [l \in JobIds |-> IF k = i THEN row[l] ELSE Polled[k][l]]
                               = IF k = i THEN row ELSE Polled[k]
    BY <2>1 DEF Polled
  <2>4. Polled' = [k \in Instances |-> IF k = i THEN row ELSE Polled[k]]
    BY <2>2, <2>3
  <2> QED
    BY <2>4 DEF Polled
<1>11. Ledger!OpenBatch(i, id, Len(ts), dropped)
  BY <1>6, <1>7, <1>10 DEF Ledger!OpenBatch
<1> QED
  BY <1>1, <1>2, <1>11, SameCount DEF Ledger!LedgerNext

\* A result is recorded once per account, in an open batch.
LEMMA RecordResults ==
  ASSUME IInv, BatchInv, NEW i \in Instances, NEW j \in JobIds, SettleRecord(i, j)
  PROVE  Ledger!LedgerNext
<1> DEFINE old == jobs[i][j]
<1>1. PICK it \in Item : LET new == Recorded(old, it) IN
              /\ jobs' = [jobs EXCEPT ![i][j] = new]
              /\ old.status = "running" /\ new.status = "running" /\ new.total = old.total
              /\ \A other \in old.items : other.account # it.account
              /\ old.done < old.total /\ Cardinality(ResultsOf(old)) = old.done
              /\ ResultsOf(new) = ResultsOf(old) \cup {<<it.account, it.status>>}
              /\ new.deferred - Cardinality(DeferredItems(new)) = old.deferred - Cardinality(DeferredItems(old))
  BY RecordPairs
<1> DEFINE new == Recorded(old, it)
           a == it.account
           s == it.status
<1>2. a \in Accounts /\ s \in Statuses
  BY DEF Item
<1>3. Polled' = [Polled EXCEPT ![i][j] = EntryOf(new)]
  BY <1>1, OneEntry
<1>4. Polled[i][j] = EntryOf(old)
  BY PolledFacts
<1> HIDE DEF new, a, s
<1>5. /\ old.status = "running" /\ new.status = "running" /\ new.total = old.total
      /\ ResultsOf(new) = ResultsOf(old) \cup {<<a, s>>}
      /\ new.deferred - Cardinality(DeferredItems(new)) = old.deferred - Cardinality(DeferredItems(old))
  BY <1>1 DEF new, a, s
<1>6. EntryOf(new) = [EntryOf(old) EXCEPT !.results = @ \cup {<<a, s>>}]
  <2>1. \A job : EntryOf(job) = [state |-> StateOf[job.status], size |-> job.total, results |-> ResultsOf(job),
                               unreached |-> job.deferred - Cardinality(DeferredItems(job))]
    BY DEF EntryOf, ResultsOf
  <2> HIDE DEF old
  <2> QED
    BY <1>5, <2>1
<1>7. Polled[i][j].state = "open" /\ Polled[i][j].results = ResultsOf(old) /\ Polled[i][j].size = old.total
  BY <1>4, <1>5, EntryFacts
<1>8. \A r \in ResultsOf(old) : r[1] # a
  BY <1>1 DEF ResultsOf, a
<1>9. Polled' = [Polled EXCEPT ![i][j].results = @ \cup {<<a, s>>}]
  BY <1>3, <1>4, <1>6 DEF Polled
<1>10. Cardinality(Polled[i][j].results) < Polled[i][j].size
  BY <1>1, <1>7
<1> HIDE DEF old
<1>11. /\ Polled[i][j].state = "open" /\ \A r \in Polled[i][j].results : r[1] # a
  BY <1>7, <1>8
<1>12. Ledger!Result(i, j, a, s)
  BY <1>9, <1>10, <1>11, SameCount DEF Ledger!Result
<1> QED
  BY <1>2, <1>12 DEF Ledger!LedgerNext

\* Every way a batch ends closes it, with what it did not reach counted.
LEMMA EndCloses ==
  ASSUME IInv, BatchInv, NEW i \in Instances, NEW j \in JobIds,
         \/ LockBusy(i, j) \/ LockError(i, j) \/ SleepCanceled(i, j)
         \/ SettleCanceled(i, j) \/ QueueEmpty(i, j)
  PROVE  Ledger!LedgerNext
<1> DEFINE old == jobs[i][j]
<1>0. PICK v : \E job \in JobType, s \in {"done", "canceled"}, f \in {"none", "locked", "lock_error", "canceled"} :
           /\ Finish(i, j, job, s, f) /\ ~Live(v)
           /\ Counts(job) /\ job.status = "running" /\ old.status = "running"
           /\ job.items = old.items /\ job.total = old.total
           /\ job.deferred = Cardinality(DeferredItems(job)) /\ job.done + job.pending = job.total
           /\ f = "none" => job.pending = 0
  BY EndBatch
<1>1. PICK job \in JobType, s \in {"done", "canceled"}, f \in {"none", "locked", "lock_error", "canceled"} :
           /\ Finish(i, j, job, s, f) /\ ~Live(v)
           /\ Counts(job) /\ job.status = "running" /\ old.status = "running"
           /\ job.items = old.items /\ job.total = old.total
           /\ job.deferred = Cardinality(DeferredItems(job)) /\ job.done + job.pending = job.total
           /\ f = "none" => job.pending = 0
  BY <1>0
<1> DEFINE new == FinishedJob(job, s, f)
<1>2. /\ new.status = s /\ new.items = job.items /\ new.total = job.total
      /\ new.deferred - Cardinality(DeferredItems(new)) = job.total - Cardinality(ResultsOf(job))
  BY <1>1, FinishedPair
<1>3. jobs' = [jobs EXCEPT ![i][j] = new]
  BY <1>1 DEF Finish
<1> HIDE DEF new
<1>4. Polled' = [Polled EXCEPT ![i][j] = EntryOf(new)] /\ Polled[i][j] = EntryOf(old)
  <2>1. Polled' = [Polled EXCEPT ![i][j] = EntryOf(new)]
    BY <1>3, OneEntry
  <2>2. Polled[i][j] = EntryOf(old)
    BY PolledFacts
  <2> QED
    BY <2>1, <2>2
<1>5. ResultsOf(new) = ResultsOf(old) /\ ResultsOf(job) = ResultsOf(old)
  BY <1>1, <1>2 DEF ResultsOf
<1>6. EntryOf(old).state = "open" /\ EntryOf(old).size = old.total /\ EntryOf(old).results = ResultsOf(old)
  BY <1>1, EntryFacts
<1>7. /\ EntryOf(new).state = "closed" /\ EntryOf(new).size = old.total
      /\ EntryOf(new).results = ResultsOf(old)
      /\ EntryOf(new).unreached = old.total - Cardinality(ResultsOf(old))
  BY <1>1, <1>2, <1>5, EntryFacts
<1>8. EntryOf(new) = [EntryOf(old) EXCEPT !.state = "closed",
                                          !.unreached = EntryOf(old).size - Cardinality(EntryOf(old).results)]
  BY <1>6, <1>7, ZenonT(60) DEF EntryOf
<1>9. Polled' = [Polled EXCEPT ![i][j].state = "closed",
                             ![i][j].unreached = Polled[i][j].size - Cardinality(Polled[i][j].results)]
  BY <1>4, <1>8, ZenonT(60) DEF Polled
<1>10. Polled[i][j].state = "open"
  BY <1>4, <1>6
<1>11. Ledger!CloseBatch(i, j)
  BY <1>9, <1>10, SameCount DEF Ledger!CloseBatch
<1> QED
  BY <1>11 DEF Ledger!LedgerNext

LEMMA RestartForgets ==
  ASSUME IInv, NEW i \in Instances, Restart(i)
  PROVE  Ledger!LedgerNext
<1>1. jobs' = [jobs EXCEPT ![i] = [j \in JobIds |-> Absent]] /\ jobs \in [Instances -> [JobIds -> JobType]]
  BY DEF Restart, IInv, TypeOK
<1>2. \A k \in Instances, l \in JobIds : jobs'[k][l] = IF k = i THEN Absent ELSE jobs[k][l]
  BY <1>1
<1>3. \A k \in Instances, l \in JobIds : Polled'[k][l] = IF k = i THEN Ledger!Unseen ELSE Polled[k][l]
  BY <1>2, EntryOfAbsent, PolledFacts
<1>4. Polled' = [k \in Instances |-> [l \in JobIds |-> IF k = i THEN Ledger!Unseen ELSE Polled[k][l]]]
  BY <1>3, PolledFacts
<1>5. Polled' = [Polled EXCEPT ![i] = [j \in JobIds |-> Ledger!Unseen]]
  BY <1>4 DEF Polled
<1>6. Ledger!ForgetAll(i)
  BY <1>5 DEF Ledger!ForgetAll
<1> QED
  BY <1>6 DEF Ledger!LedgerNext

LEMMA StepLedger ==
  IInv /\ BatchInv /\ [Next]_vars => Ledger!LedgerNext \/ UNCHANGED Polled
<1> SUFFICES ASSUME IInv, BatchInv, [Next]_vars PROVE Ledger!LedgerNext \/ UNCHANGED Polled
  OBVIOUS
<1>1. jobs' = jobs => UNCHANGED Polled
  BY DEF Polled
<1>2. ASSUME NEW i \in Instances, Begin(i) PROVE Ledger!LedgerNext
  BY <1>2, BeginOpens
<1>3. ASSUME NEW i \in Instances, ProvisionStart(i) \/ ProvisionEnd(i) \/ Shutdown(i) PROVE UNCHANGED Polled
  BY <1>1, <1>3 DEF ProvisionStart, ProvisionEnd, Shutdown
<1>4. ASSUME NEW i \in Instances, Restart(i) PROVE Ledger!LedgerNext
  BY <1>4, RestartForgets
<1>5. ASSUME NEW i \in Instances, NEW j \in JobIds,
             TakeLock(i, j) \/ SleepOver(i, j) \/ RunTask(i, j) \/ Unlock(i, j) \/ Elapse(i, j)
      PROVE  UNCHANGED Polled
  BY <1>1, <1>5 DEF TakeLock, SleepOver, RunTask, Unlock, Elapse
<1>6. ASSUME NEW i \in Instances, NEW j \in JobIds, TakeTask(i, j) \/ Wake(i, j) \/ SettleRetry(i, j)
      PROVE  UNCHANGED Polled
  <2>1. \E n, r : jobs' = [jobs EXCEPT ![i][j] = Progressed(jobs[i][j], n, r)]
    BY <1>6 DEF TakeTask, Wake, SettleRetry
  <2> QED
    BY <2>1, SameEntry
<1>7. ASSUME NEW i \in Instances, NEW j \in JobIds, WorkerStep(i, j)
      PROVE  Ledger!LedgerNext \/ UNCHANGED Polled
  BY <1>5, <1>6, <1>7, RecordResults, EndCloses DEF WorkerStep
<1>8. CASE UNCHANGED vars
  BY <1>1, <1>8 DEF vars
<1> QED
  BY <1>2, <1>3, <1>4, <1>5, <1>7, <1>8 DEF Next

\* A poller never sees more or less than KeyImportLedger promises, for any
\* number of processes, accounts, batches, retries and restarts.
THEOREM LedgerImplemented == Spec => ImplementsLedger
<1>1. Init => Ledger!LedgerInit
  <2> SUFFICES ASSUME Init PROVE Ledger!LedgerInit
    OBVIOUS
  <2>1. \A i \in Instances, j \in JobIds : Polled[i][j] = Ledger!Unseen
    BY EntryOfAbsent, PolledFacts DEF Init
  <2>2. Polled = [i \in Instances |-> [j \in JobIds |-> Ledger!Unseen]]
    BY <2>1, PolledFacts
  <2> QED
    BY <2>2 DEF Ledger!LedgerInit
<1>2. IInv /\ BatchInv /\ [Next]_vars => [Ledger!LedgerNext]_Polled
  BY StepLedger
<1> QED
  BY <1>1, <1>2, AlwaysBatchInv, PTL DEF Spec, ImplementsLedger, Ledger!LedgerSpec

=============================================================================
