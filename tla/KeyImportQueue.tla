--------------------------- MODULE KeyImportQueue ---------------------------
(***************************************************************************)
(* The background queue of "import the Keys the upstream already has"      *)
(* (internal/admin/key_import_queue.go and importKeys in                   *)
(* internal/admin/key_automation.go).                                      *)
(*                                                                         *)
(* Several instances of the server share one database.  Each keeps its     *)
(* batches in memory, lets at most one run, and runs it in a goroutine     *)
(* that holds the database-wide "key-automation" advisory lock from before *)
(* the first account until after the batch is marked finished.  A request  *)
(* that provisions Keys takes the same lock.  Batches die with the         *)
(* process; the lock, bound to a database session, is released with it.    *)
(*                                                                         *)
(* Data: an account, a channel and an instance are model values; what an   *)
(* import of one account did is a member of Outcomes.  Instants are        *)
(* abstracted to whether a task's notBefore is unset, ahead, or past.      *)
(***************************************************************************)
EXTENDS Integers, Sequences, FiniteSets

CONSTANTS
  Instances,      \* server processes sharing the database
  Accounts,       \* upstream accounts
  Channels,       \* upstream sites
  ChannelOf,      \* the site of each account
  Inactive,       \* accounts whose status is not "active"
  TargetLists,    \* the account lists a request to each instance expands to
  MaxTargets,     \* maxKeyImportAccounts
  ResolveLimit,   \* DefaultKeySecretResolveLimit
  MaxAttempts,    \* keyImportMaxAttempts
  History,        \* keyImportJobHistory
  MaxJobs,        \* bound: batches any process starts before it is restarted
  JobBound,       \* bound: the same for each process, at most MaxJobs
  MaxRestarts     \* bound: process restarts in a behaviour

ASSUME QueueAssumption ==
  /\ IsFiniteSet(Accounts)
  /\ ChannelOf \in [Accounts -> Channels]
  /\ Inactive \subseteq Accounts
  /\ \A i \in Instances : \A ts \in TargetLists[i] :
       /\ ts \in Seq(Accounts)
       /\ \A m, n \in 1..Len(ts) : ts[m] = ts[n] => m = n
  /\ MaxTargets \in Nat /\ ResolveLimit \in Nat /\ MaxAttempts \in Nat \ {0}
  /\ History \in Nat /\ MaxJobs \in Nat /\ MaxRestarts \in Nat
  /\ JobBound \in [Instances -> 0..MaxJobs]

VARIABLES
  jobs,          \* keyImportQueue.jobs: what a client can poll
  order,         \* keyImportQueue.order
  nextID,        \* keyImportQueue.nextID
  running,       \* keyImportQueue.running, NoJob for nil
  workers,       \* the goroutine of each batch: its local variables
  stopping,      \* backgroundCtx of the process is canceled
  provisioning,  \* a Key provisioning request is in progress
  holders,       \* sessions holding the advisory lock: {} when it is free
  restarts

vars == <<jobs, order, nextID, running, workers, stopping, provisioning,
          holders, restarts>>

JobIds == 1..MaxJobs
NoJob == 0

Task == [account : Accounts, attempts : 0..MaxAttempts - 1,
         backoff : {"none", "waiting", "over"}]
Statuses == {"ok", "deferred", "skipped", "failed"}
Item == [account : Accounts, status : Statuses, attempts : 1..MaxAttempts]

\* What a run of runKeyImportTask on account a tells the queue when its site
\* has `left` reads of the budget: the item's status ("ok" stands for ok and
\* partial, which the queue treats alike), whether there is an error that
\* keyImportRetryDelay retries, and how many secrets were read.  An error comes
\* before the first read; a "deferred" import stopped at the budget or at a 429.
Outcomes(a, left) ==
  CASE a \in Inactive ->
         {[status |-> "skipped", retry |-> FALSE, resolves |-> 0]}
    [] a \notin Inactive /\ left <= 0 ->
         {[status |-> "deferred", retry |-> FALSE, resolves |-> 0]}
    [] OTHER ->
         [status : {"failed"}, retry : BOOLEAN, resolves : {0}]
           \cup [status : {"ok"}, retry : {FALSE}, resolves : 0..left]
           \cup [status : {"deferred"}, retry : {FALSE}, resolves : 1..left]

\* keyImportJob.  "absent": no entry in the map.  Its counts of failed and of
\* skipped accounts are those of items; deferred also counts accounts without one.
Absent == [status |-> "absent", total |-> 0, done |-> 0, pending |-> 0, retryAt |-> FALSE,
           items |-> {}, deferred |-> 0, error |-> "none"]
NewJob(n) == [Absent EXCEPT !.status = "running", !.total = n, !.pending = n]

\* The goroutine started by importKeys.  budget is the map of remaining reads
\* (an unseen channel has ResolveLimit); tries and spent are history: how often
\* an account was run and how many reads a site was asked for in this batch.
Off == [pc |-> "off", queue |-> <<>>, hand |-> <<>>, outcome |-> <<>>,
        budget |-> [c \in Channels |-> ResolveLimit],
        tries |-> [a \in Accounts |-> 0], spent |-> [c \in Channels |-> 0]]
NewWorker(ts) ==
  [Off EXCEPT !.pc = "lock",
              !.queue = [n \in 1..Len(ts) |->
                           [account |-> ts[n], attempts |-> 0, backoff |-> "none"]]]

\* Mutant: the deferred unlock is missing.
NoUnlock == Off

\* The loop has returned; the deferred unlock is still to run.
Unlocking == [Off EXCEPT !.pc = "unlock"]

-----------------------------------------------------------------------------
Init ==
  /\ jobs = [i \in Instances |-> [j \in JobIds |-> Absent]]
  /\ order = [i \in Instances |-> <<>>]
  /\ nextID = [i \in Instances |-> 0]
  /\ running = [i \in Instances |-> NoJob]
  /\ workers = [i \in Instances |-> [j \in JobIds |-> Off]]
  /\ stopping = [i \in Instances |-> FALSE]
  /\ provisioning = [i \in Instances |-> FALSE]
  /\ holders = {}
  /\ restarts = 0

(***************************************************************************)
(* The queue's operations on one job record.                               *)
(***************************************************************************)
Progressed(job, pending, retryAt) == [job EXCEPT !.pending = pending, !.retryAt = retryAt]

\* Mutant: what is still pending is just dropped.
FinishedJobForgets(job, status, failure) ==
  [job EXCEPT !.status = status, !.pending = 0, !.retryAt = FALSE, !.error = failure]

FinishedJob(job, status, failure) ==
  [job EXCEPT !.status = status, !.deferred = @ + job.pending, !.pending = 0,
              !.retryAt = FALSE, !.error = failure]

Recorded(job, item) ==
  [job EXCEPT !.deferred = IF item.status = "deferred" THEN @ + 1 ELSE @,
              !.items = @ \cup {item},
              !.done = @ + 1]

\* finish(job, status, failure): marks the job and frees the running slot.
Finish(i, j, job, status, failure) ==
  /\ jobs' = [jobs EXCEPT ![i][j] = FinishedJob(job, status, failure)]
  /\ running' = [running EXCEPT ![i] = IF @ = j THEN NoJob ELSE @]

\* The trim loop of begin drops the d oldest of ids: those beyond History,
\* stopping at one that is running.
Trims(ids, all, d) ==
  LET excess == Len(ids) - History IN
  /\ d = 0 \/ d <= excess
  /\ \A n \in 1..d : all[ids[n]].status # "running"
  /\ d >= excess \/ all[ids[d + 1]].status = "running"

-----------------------------------------------------------------------------
(***************************************************************************)
(* The request: begin a batch, or answer 409 (no change) while one runs.   *)
(***************************************************************************)
Begin(i) ==
  /\ running[i] = NoJob
  /\ nextID[i] < JobBound[i]                                           \* bound
  /\ \E ts \in TargetLists[i] :
       /\ Len(ts) \in 1..MaxTargets
       /\ LET id  == nextID[i] + 1
              ids == Append(order[i], id)
              all == [jobs[i] EXCEPT ![id] = NewJob(Len(ts))]
          IN \E d \in 0..Len(order[i]) :
               /\ Trims(ids, all, d)
               /\ order' = [order EXCEPT ![i] = SubSeq(ids, d + 1, Len(ids))]
               /\ jobs' = [jobs EXCEPT ![i] =
                    [k \in JobIds |-> IF \E n \in 1..d : ids[n] = k THEN Absent ELSE all[k]]]
               /\ nextID' = [nextID EXCEPT ![i] = id]
               /\ running' = [running EXCEPT ![i] = id]
               /\ workers' = [workers EXCEPT ![i][id] = NewWorker(ts)]
  /\ UNCHANGED <<stopping, provisioning, holders, restarts>>

(***************************************************************************)
(* The goroutine of job j: the lock, then the loop of runKeyImportJob.     *)
(***************************************************************************)
\* Mutant: the lock is given back at once, as a request does.
HeldBriefly(i, j) == {}

\* The session of batch j of instance i (NoJob: of its provisioning request).
Held(i, j) == {[inst |-> i, job |-> j]}

At(i, j, pc) == workers[i][j].pc = pc

TakeLock(i, j) ==
  /\ At(i, j, "lock") /\ ~stopping[i]
  /\ holders = {}
  /\ holders' = Held(i, j)
  /\ workers' = [workers EXCEPT ![i][j].pc = "loop"]
  /\ UNCHANGED <<jobs, order, nextID, running, stopping, provisioning, restarts>>

\* Mutant: the goroutine returns without finishing the job.
LockBusySilent(i, j) ==
  /\ At(i, j, "lock") /\ ~stopping[i]
  /\ holders # {}
  /\ workers' = [workers EXCEPT ![i][j] = Off]
  /\ UNCHANGED <<jobs, order, nextID, running, stopping, provisioning, holders, restarts>>

LockBusy(i, j) ==
  /\ At(i, j, "lock") /\ ~stopping[i]
  /\ holders # {}
  /\ Finish(i, j, jobs[i][j], "done", "locked")
  /\ workers' = [workers EXCEPT ![i][j] = Off]
  /\ UNCHANGED <<order, nextID, stopping, provisioning, holders, restarts>>

\* No connection, or the query for the lock failed.
LockError(i, j) ==
  /\ At(i, j, "lock")
  /\ Finish(i, j, jobs[i][j], "done", "lock_error")
  /\ workers' = [workers EXCEPT ![i][j] = Off]
  /\ UNCHANGED <<order, nextID, stopping, provisioning, holders, restarts>>

TakeTask(i, j) ==
  LET w == workers[i][j]
      task == Head(w.queue)
  IN /\ At(i, j, "loop") /\ w.queue # <<>>
     /\ workers' = [workers EXCEPT ![i][j] =
          [w EXCEPT !.hand = <<task>>, !.queue = Tail(w.queue),
                    !.pc = IF task.backoff = "waiting" THEN "sleep" ELSE "wake"]]
     /\ jobs' = [jobs EXCEPT ![i][j] =
          Progressed(@, Len(w.queue), task.backoff # "none")]
     /\ UNCHANGED <<order, nextID, running, stopping, provisioning, holders, restarts>>

SleepOver(i, j) ==
  /\ At(i, j, "sleep")
  /\ workers[i][j].hand[1].backoff = "over"
  /\ workers' = [workers EXCEPT ![i][j].pc = "wake"]
  /\ UNCHANGED <<jobs, order, nextID, running, stopping, provisioning, holders, restarts>>

SleepCanceled(i, j) ==
  /\ At(i, j, "sleep")
  /\ stopping[i]
  /\ Finish(i, j, jobs[i][j], "canceled", "canceled")
  /\ workers' = [workers EXCEPT ![i][j] = Unlocking]
  /\ UNCHANGED <<order, nextID, stopping, provisioning, holders, restarts>>

Wake(i, j) ==
  /\ At(i, j, "wake")
  /\ workers' = [workers EXCEPT ![i][j].pc = "run"]
  /\ jobs' = [jobs EXCEPT ![i][j] = Progressed(@, Len(workers[i][j].queue), FALSE)]
  /\ UNCHANGED <<order, nextID, running, stopping, provisioning, holders, restarts>>

\* Mutant: the budget is not written back, so every account has all of it.
BudgetKept(budget, c, o) == budget

BudgetAfter(budget, c, o) == [budget EXCEPT ![c] = @ - o.resolves]

RunTask(i, j) ==
  LET w == workers[i][j]
      a == w.hand[1].account
      c == ChannelOf[a]
  IN /\ At(i, j, "run")
     /\ \E o \in Outcomes(a, w.budget[c]) :
          workers' = [workers EXCEPT ![i][j] =
            [w EXCEPT !.pc = "settle", !.outcome = <<o>>,
                      !.budget = BudgetAfter(@, c, o),
                      !.tries[a] = @ + 1, !.spent[c] = @ + o.resolves]]
     /\ UNCHANGED <<jobs, order, nextID, running, stopping, provisioning, holders, restarts>>

\* Mutant: the account in hand is not counted back into pending.
InterruptedDrops(job, w) == job

\* The shutdown interrupted the account in hand: its result is discarded and
\* it counts as not reached.
Interrupted(job, w) == Progressed(job, Len(w.queue) + 1, FALSE)

SettleCanceled(i, j) ==
  LET w == workers[i][j] IN
  /\ At(i, j, "settle")
  /\ stopping[i]
  /\ Finish(i, j, Interrupted(jobs[i][j], w), "canceled", "canceled")
  /\ workers' = [workers EXCEPT ![i][j] = Unlocking]
  /\ UNCHANGED <<order, nextID, stopping, provisioning, holders, restarts>>

MayRetry(task, outcome) == outcome.retry /\ task.attempts + 1 < MaxAttempts

\* Mutant: the task goes back to the head of the queue.
RequeuedFirst(queue, task) ==
  <<[task EXCEPT !.attempts = @ + 1, !.backoff = "waiting"]>> \o queue

Requeued(queue, task) ==
  Append(queue, [task EXCEPT !.attempts = @ + 1, !.backoff = "waiting"])

SettleRetry(i, j) ==
  LET w == workers[i][j]
      task == w.hand[1]
      queue == Requeued(w.queue, task)
  IN /\ At(i, j, "settle") /\ ~stopping[i]
     /\ MayRetry(task, w.outcome[1])
     /\ workers' = [workers EXCEPT ![i][j] =
          [w EXCEPT !.pc = "loop", !.queue = queue, !.hand = <<>>, !.outcome = <<>>]]
     /\ jobs' = [jobs EXCEPT ![i][j] =
          Progressed(@, Len(queue), Head(queue).backoff # "none")]
     /\ UNCHANGED <<order, nextID, running, stopping, provisioning, holders, restarts>>

SettleRecord(i, j) ==
  LET w == workers[i][j]
      task == w.hand[1]
      o == w.outcome[1]
  IN /\ At(i, j, "settle") /\ ~stopping[i]
     /\ ~MayRetry(task, o)
     /\ workers' = [workers EXCEPT ![i][j] =
          [w EXCEPT !.pc = "loop", !.hand = <<>>, !.outcome = <<>>]]
     /\ jobs' = [jobs EXCEPT ![i][j] =
          Recorded(@, [account |-> task.account, status |-> o.status,
                       attempts |-> task.attempts + 1])]
     /\ UNCHANGED <<order, nextID, running, stopping, provisioning, holders, restarts>>

QueueEmpty(i, j) ==
  /\ At(i, j, "loop") /\ workers[i][j].queue = <<>>
  /\ Finish(i, j, jobs[i][j], "done", "none")
  /\ workers' = [workers EXCEPT ![i][j] = Unlocking]
  /\ UNCHANGED <<order, nextID, stopping, provisioning, holders, restarts>>

\* The deferred unlock runs after finish, so another batch may begin before it.
Unlock(i, j) ==
  /\ At(i, j, "unlock")
  /\ holders' = holders \ Held(i, j)
  /\ workers' = [workers EXCEPT ![i][j] = Off]
  /\ UNCHANGED <<jobs, order, nextID, running, stopping, provisioning, restarts>>

WorkerStep(i, j) ==
  \/ TakeLock(i, j) \/ LockBusy(i, j) \/ LockError(i, j)
  \/ TakeTask(i, j) \/ SleepOver(i, j) \/ SleepCanceled(i, j) \/ Wake(i, j)
  \/ RunTask(i, j) \/ SettleCanceled(i, j) \/ SettleRetry(i, j) \/ SettleRecord(i, j)
  \/ QueueEmpty(i, j) \/ Unlock(i, j)

-----------------------------------------------------------------------------
(***************************************************************************)
(* Time, the other user of the lock, shutdown and restart.                 *)
(***************************************************************************)
Over(task) == [task EXCEPT !.backoff = "over"]

\* The backoff of a task of job j runs out; Retry-After makes any order possible.
Elapse(i, j) ==
  LET w == workers[i][j] IN
  /\ \/ /\ At(i, j, "sleep") /\ w.hand[1].backoff = "waiting"
        /\ workers' = [workers EXCEPT ![i][j].hand = <<Over(w.hand[1])>>]
     \/ \E n \in 1..Len(w.queue) :
          /\ w.queue[n].backoff = "waiting"
          /\ workers' = [workers EXCEPT ![i][j].queue[n] = Over(@)]
  /\ UNCHANGED <<jobs, order, nextID, running, stopping, provisioning, holders, restarts>>

\* provisionKeys: its guard admits one request per process; a lock it cannot
\* take is answered 409.
ProvisionStart(i) ==
  /\ ~provisioning[i]
  /\ holders = {}
  /\ provisioning' = [provisioning EXCEPT ![i] = TRUE]
  /\ holders' = Held(i, NoJob)
  /\ UNCHANGED <<jobs, order, nextID, running, workers, stopping, restarts>>

ProvisionEnd(i) ==
  /\ provisioning[i]
  /\ provisioning' = [provisioning EXCEPT ![i] = FALSE]
  /\ holders' = holders \ Held(i, NoJob)
  /\ UNCHANGED <<jobs, order, nextID, running, workers, stopping, restarts>>

\* SIGTERM: main cancels the context every background goroutine runs under.
Shutdown(i) ==
  /\ ~stopping[i]
  /\ stopping' = [stopping EXCEPT ![i] = TRUE]
  /\ UNCHANGED <<jobs, order, nextID, running, workers, provisioning, holders, restarts>>

\* The process ends, at any point, and comes back with empty memory; its
\* database sessions end with it.
Restart(i) ==
  /\ restarts < MaxRestarts                                           \* bound
  /\ restarts' = restarts + 1
  /\ jobs' = [jobs EXCEPT ![i] = [j \in JobIds |-> Absent]]
  /\ order' = [order EXCEPT ![i] = <<>>]
  /\ nextID' = [nextID EXCEPT ![i] = 0]
  /\ running' = [running EXCEPT ![i] = NoJob]
  /\ workers' = [workers EXCEPT ![i] = [j \in JobIds |-> Off]]
  /\ stopping' = [stopping EXCEPT ![i] = FALSE]
  /\ provisioning' = [provisioning EXCEPT ![i] = FALSE]
  /\ holders' = {h \in holders : h.inst # i}

Next ==
  \/ \E i \in Instances : Begin(i) \/ ProvisionStart(i) \/ ProvisionEnd(i)
                            \/ Shutdown(i) \/ Restart(i)
  \/ \E i \in Instances, j \in JobIds : WorkerStep(i, j) \/ Elapse(i, j)

Spec == Init /\ [][Next]_vars

\* A goroutine that can run does; a backoff runs out (every delay is finite);
\* a provisioning request ends (its upstream calls have timeouts).
Fairness ==
  /\ \A i \in Instances, j \in JobIds : WF_vars(WorkerStep(i, j)) /\ WF_vars(Elapse(i, j))
  /\ \A i \in Instances : WF_vars(ProvisionEnd(i))

FairSpec == Spec /\ Fairness

-----------------------------------------------------------------------------
(***************************************************************************)
(* Properties                                                              *)
(***************************************************************************)
\* Every variable has its type: what a client can poll, and what a goroutine
\* keeps between two steps.
JobType == [status : {"absent", "running", "done", "canceled"}, total : Nat, done : Nat,
            pending : Nat, retryAt : BOOLEAN, items : SUBSET Item,
            deferred : Nat, error : {"none", "locked", "lock_error", "canceled"}]
OutcomeType == [status : Statuses, retry : BOOLEAN, resolves : 0..ResolveLimit]
WorkerType == [pc : {"off", "lock", "loop", "sleep", "wake", "run", "settle", "unlock"},
               queue : Seq(Task), hand : Seq(Task), outcome : Seq(OutcomeType),
               budget : [Channels -> Int], tries : [Accounts -> Nat], spent : [Channels -> Nat]]
Holder == [inst : Instances, job : JobIds \cup {NoJob}]

TypeOK ==
  /\ jobs \in [Instances -> [JobIds -> JobType]]
  /\ order \in [Instances -> Seq(JobIds)]
  /\ nextID \in [Instances -> JobIds \cup {NoJob}]
  /\ running \in [Instances -> JobIds \cup {NoJob}]
  /\ workers \in [Instances -> [JobIds -> WorkerType]]
  /\ stopping \in [Instances -> BOOLEAN]
  /\ provisioning \in [Instances -> BOOLEAN]
  /\ holders \subseteq Holder
  /\ restarts \in 0..MaxRestarts

Critical == {"loop", "sleep", "wake", "run", "settle", "unlock"}
Spending(i, j) == workers[i][j].pc \in Critical

\* Of all the batches and provisioning requests of all the instances, at most
\* one is past its lock at any time, restarts included, and the advisory lock
\* is held by exactly that one: two never spend a site's rate window together
\* (key_import_queue.go:28-29, 417-420).
OneAutomation ==
  /\ \A h, k \in holders : h = k
  /\ \A i \in Instances, j \in JobIds : Spending(i, j) <=> [inst |-> i, job |-> j] \in holders
  /\ \A i \in Instances : provisioning[i] <=> [inst |-> i, job |-> NoJob] \in holders

InHand(i, j) == IF workers[i][j].pc \in {"run", "settle"} THEN 1 ELSE 0
DeferredItems(job) == {it \in job.items : it.status = "deferred"}

\* No account is lost or counted twice.  While a batch runs, the results, the
\* accounts still pending and the one in hand make up the total; a finished
\* one has no pending account and has put every account it never reached
\* among the deferred (finish, key_import_queue.go:130-135), whatever mix of
\* retries, cancellation and lock failures ended it.
BatchAccounted ==
  \A i \in Instances, j \in JobIds :
    LET job == jobs[i][j]
        unreached == job.deferred - Cardinality(DeferredItems(job))
    IN /\ job.done = Cardinality({it.account : it \in job.items})
       /\ job.status = "running" =>
            /\ running[i] = j
            /\ unreached = 0
            /\ job.done + job.pending + InHand(i, j) = job.total
       /\ job.status \in {"done", "canceled"} =>
            /\ job.pending = 0 /\ ~job.retryAt
            /\ unreached >= 0
            /\ job.done + unreached = job.total
            /\ job.error = "none" => unreached = 0

\* Over all the accounts and all the attempts of a batch, a site is asked for
\* at most ResolveLimit secrets (key_import_queue.go:275-277).
SiteBudget ==
  \A i \in Instances, j \in JobIds, c \in Channels : workers[i][j].spent[c] <= ResolveLimit

\* Retries go in rounds.  An account is tried again only after every other
\* account of the batch had as many tries ("let the other sites run first",
\* key_import_queue.go:309-310), no account is tried more than MaxAttempts
\* times, and an item tells the number of tries its account really had.
RetryRounds ==
  \A i \in Instances, j \in JobIds :
    LET w == workers[i][j]
        line == w.hand \o w.queue
    IN w.pc \notin {"off", "unlock"} =>
         /\ \A m, n \in 1..Len(line) : m < n =>
              line[n].attempts - line[m].attempts \in {0, 1}
         /\ \A n \in 1..Len(line) :
              w.tries[line[n].account]
                = line[n].attempts + (IF n = 1 /\ w.pc = "settle" THEN 1 ELSE 0)
         /\ \A it \in jobs[i][j].items : it.attempts = w.tries[it.account]
         /\ \A a \in Accounts : w.tries[a] <= MaxAttempts

\* A poller sees exactly what KeyImportLedger promises: see there.
StateOf == [absent |-> "unseen", running |-> "open", done |-> "closed", canceled |-> "closed"]
EntryOf(job) ==
  [state |-> StateOf[job.status], size |-> job.total,
   results |-> {<<it.account, it.status>> : it \in job.items},
   unreached |-> job.deferred - Cardinality(DeferredItems(job))]
Polled == [i \in Instances |-> [j \in JobIds |-> EntryOf(jobs[i][j])]]

Ledger == INSTANCE KeyImportLedger WITH ledger <- Polled

ImplementsLedger == Ledger!LedgerSpec

\* A batch that started does not stay "running" forever: every retry is
\* bounded, every backoff finite, and nothing waits for the lock.
BatchEnds ==
  \A i \in Instances, j \in JobIds :
    (jobs[i][j].status = "running") ~> (jobs[i][j].status # "running")

\* And the advisory lock always becomes free again.
LockFreed == (holders # {}) ~> (holders = {})
=============================================================================
