------------------------ MODULE ChannelSessionsProofs ------------------------
(***************************************************************************)
(* Proofs about ChannelSessions, for all sessions, channels, pool sizes    *)
(* and intervals.                                                          *)
(*                                                                         *)
(* Most steps of a session move only its step counter, from a place where  *)
(* it owns the lock to another one: they are treated together.             *)
(***************************************************************************)
EXTENDS ChannelSessions, FiniteSetTheorems, TLAPS

\* A session that has started has a channel.
Placed == \A s \in Sessions : pc[s] # "idle" => chan[s] \in Channels

\* syncGuard.running: one manual sync per channel.
OneManual ==
  \A r, q \in Requests :
    pc[r] # "idle" /\ pc[q] # "idle" /\ chan[r] = chan[q] => r = q

IInv == TypeOK /\ Placed /\ OneManual /\ ChannelExclusive /\ IntervalKept

-----------------------------------------------------------------------------
(***************************************************************************)
(* The places of a session                                                 *)
(***************************************************************************)
LEMMA StepNames ==
  Steps = {"idle", "conn", "lock", "creds", "load", "probe", "probing", "probed", "renew",
           "renewing", "slot", "reserving", "renewed", "fetch", "fetching", "read", "save",
           "saving", "unlock", "release"}
BY DEF Steps, Held

LEMMA OwningNames ==
  Owning = {"creds", "load", "probe", "probing", "probed", "renew", "renewing", "slot",
            "reserving", "renewed", "fetch", "fetching", "read", "save", "saving", "unlock"}
BY StepNames DEF Owning, Working

LEMMA WaitingNames ==
  Waiting = {"conn", "creds", "probe", "renew", "slot", "fetch", "save"}
BY DEF Waiting, Granted

\* A connection keeps a session on its side of the lock.
LEMMA GrantedSteps ==
  ASSUME NEW x \in Waiting
  PROVE  /\ Granted[x] \in Steps \ {"idle"}
         /\ Granted[x] \in Owning => x \in Owning
BY WaitingNames, StepNames, OwningNames DEF Granted

LEMMA Owners ==
  /\ Free \notin Sessions /\ Others \notin Sessions
  /\ Requests \subseteq Sessions /\ Workers \subseteq Sessions /\ Imports \subseteq Sessions
  /\ MinInterval \in Nat /\ MaxCrashes \in Nat
BY SessionsAssumption DEF Sessions

-----------------------------------------------------------------------------
(***************************************************************************)
(* Steps that move one session and leave locks, channels and windows alone *)
(***************************************************************************)
Moves(s) ==
  \E x \in Steps \ {"idle"} :
    /\ pc[s] # "idle"
    /\ x \in Owning => pc[s] \in Owning
    /\ pc' = [pc EXCEPT ![s] = x]

Untouched == UNCHANGED <<chan, lock, window, crashes>>

\* The steps of a session other than taking the lock and giving things back.
Work(s) ==
  \/ Connect(s) \/ Turned(s) \/ Load(s) \/ Send(s) \/ Probed(s) \/ Renewing(s)
  \/ Renewed(s) \/ Read(s) \/ Saving(s) \/ Timeout(s)
  \/ (s \in Requests /\ Dropped(s))

LEMMA AnswerTypes ==
  ASSUME TypeOK, NEW s \in Sessions, NEW up \in BOOLEAN, Answer(s, up)
  PROVE  reached' \in [Requests -> BOOLEAN] /\ pc' = [pc EXCEPT ![s] = "unlock"]
BY DEF Answer, Go, TypeOK

LEMMA AccountsMoves ==
  ASSUME TypeOK, NEW s \in Sessions, Accounts(s), pc[s] \in Owning
  PROVE  Moves(s) /\ reached' \in [Requests -> BOOLEAN]
<1>1. pc[s] # "idle" /\ "renew" \in Steps \ {"idle"} /\ "fetch" \in Steps \ {"idle"}
  BY OwningNames, StepNames
<1>2. reached' \in [Requests -> BOOLEAN]
  BY DEF Accounts, TypeOK
<1>3. PICK x \in {"renew", "fetch"} : pc' = [pc EXCEPT ![s] = x]
  BY DEF Accounts, Go
<1>4. QED
  BY <1>1, <1>2, <1>3 DEF Moves

LEMMA AnswerMoves ==
  ASSUME TypeOK, NEW s \in Sessions, NEW up \in BOOLEAN, Answer(s, up), pc[s] \in Owning
  PROVE  Moves(s) /\ reached' \in [Requests -> BOOLEAN]
<1>1. pc[s] # "idle" /\ "unlock" \in Steps \ {"idle"}
  BY OwningNames, StepNames
<1>2. reached' \in [Requests -> BOOLEAN] /\ pc' = [pc EXCEPT ![s] = "unlock"]
  BY AnswerTypes
<1>3. QED
  BY <1>1, <1>2 DEF Moves

LEMMA GoMoves ==
  ASSUME TypeOK, NEW s \in Sessions, NEW x \in Steps \ {"idle"}, Go(s, x), UNCHANGED reached,
         pc[s] # "idle", x \in Owning => pc[s] \in Owning
  PROVE  Moves(s) /\ reached' \in [Requests -> BOOLEAN]
BY DEF Moves, Go, TypeOK

LEMMA WorkMoves ==
  ASSUME TypeOK, NEW s \in Sessions, Work(s), Placed
  PROVE  /\ Moves(s) /\ Untouched
         /\ reached' \in [Requests -> BOOLEAN]
         /\ quota' \in SUBSET Channels
         /\ sent' \in SUBSET Requests
<1>t. /\ reached \in [Requests -> BOOLEAN] /\ quota \in SUBSET Channels
      /\ sent \in SUBSET Requests /\ pc[s] \in Steps
  BY DEF TypeOK
<1>n. {"release", "probe", "probed", "renewed", "read", "fetch", "slot", "save"} \subseteq Steps \ {"idle"}
  BY StepNames
<1>o. /\ {"probe", "probed", "renewed", "read", "fetch", "slot", "save", "load", "probing", "reserving",
          "fetching", "renewing", "saving"} \subseteq Owning
      /\ "release" \notin Owning
  BY OwningNames
<1>1. CASE Connect(s)
  <2>1. pc[s] \in Waiting /\ pc[s] # "idle"
    BY <1>1, WaitingNames DEF Connect
  <2>2. /\ Granted[pc[s]] \in Steps \ {"idle"}
        /\ Granted[pc[s]] \in Owning => pc[s] \in Owning
    BY <2>1, GrantedSteps
  <2>3. Go(s, Granted[pc[s]]) /\ UNCHANGED <<reached, quota, sent>> /\ Untouched
    BY <1>1 DEF Connect, Untouched
  <2>4. QED
    BY <1>t, <2>1, <2>2, <2>3, GoMoves
<1>2. CASE Turned(s)
  <2>1. Go(s, "release") /\ UNCHANGED <<reached, quota, sent>> /\ Untouched /\ pc[s] = "lock"
    BY <1>2 DEF Turned, Untouched
  <2>2. QED
    BY <1>t, <1>n, <1>o, <2>1, GoMoves
<1>3. CASE Load(s)
  <2>1. UNCHANGED <<quota, sent>> /\ Untouched /\ pc[s] = "load"
    BY <1>3 DEF Load, Untouched
  <2>2. Accounts(s) \/ (Go(s, "probe") /\ UNCHANGED reached) \/ Answer(s, FALSE)
    BY <1>3 DEF Load
  <2>3. QED
    BY <1>t, <1>n, <1>o, <2>1, <2>2, GoMoves, AccountsMoves, AnswerMoves
<1>4. CASE Send(s)
  <2>1. UNCHANGED <<quota, reached>> /\ Untouched /\ sent' \in SUBSET Requests
    BY <1>4, <1>t DEF Send, Untouched, NoteSent
  <2>2. PICK x \in {"probed", "renewed", "read"} : Go(s, x)
    BY <1>4 DEF Send
  <2>3. pc[s] \in {"probing", "reserving", "fetching"}
    BY <1>4 DEF Send
  <2>4. QED
    BY <1>t, <1>n, <1>o, <2>1, <2>2, <2>3, GoMoves
<1>5. CASE Probed(s)
  <2>1. UNCHANGED sent /\ Untouched /\ pc[s] = "probed"
    BY <1>5 DEF Probed, Untouched
  <2>2. chan[s] \in Channels
    BY <2>1 DEF Placed
  <2>3. quota' \in SUBSET Channels
    BY <1>5, <1>t, <2>2 DEF Probed
  <2>4. Accounts(s) \/ Answer(s, FALSE)
    BY <1>5 DEF Probed
  <2>5. QED
    BY <1>t, <1>o, <2>1, <2>3, <2>4, AccountsMoves, AnswerMoves
<1>6. CASE Renewing(s)
  <2>1. UNCHANGED <<quota, sent>> /\ Untouched /\ pc[s] = "renewing"
    BY <1>6 DEF Renewing, Untouched
  <2>2. \/ Go(s, "fetch") /\ UNCHANGED reached
        \/ Go(s, "slot") /\ UNCHANGED reached
        \/ Answer(s, FALSE)
    BY <1>6 DEF Renewing
  <2>3. QED
    BY <1>t, <1>n, <1>o, <2>1, <2>2, GoMoves, AnswerMoves
<1>7. CASE Renewed(s)
  <2>1. UNCHANGED <<quota, sent>> /\ Untouched /\ pc[s] = "renewed"
    BY <1>7 DEF Renewed, Untouched
  <2>2. Accounts(s) \/ Answer(s, TRUE)
    BY <1>7 DEF Renewed
  <2>3. QED
    BY <1>t, <1>o, <2>1, <2>2, AccountsMoves, AnswerMoves
<1>8. CASE Read(s)
  <2>1. UNCHANGED <<quota, sent>> /\ Untouched /\ pc[s] = "read"
    BY <1>8 DEF Read, Untouched
  <2>2. Accounts(s) \/ (Go(s, "save") /\ UNCHANGED reached) \/ Answer(s, TRUE)
    BY <1>8 DEF Read
  <2>3. QED
    BY <1>t, <1>n, <1>o, <2>1, <2>2, GoMoves, AccountsMoves, AnswerMoves
<1>9. CASE Saving(s)
  <2>1. UNCHANGED <<quota, sent>> /\ Untouched /\ pc[s] = "saving"
    BY <1>9 DEF Saving, Untouched
  <2>2. (Go(s, "fetch") /\ UNCHANGED reached) \/ Answer(s, TRUE)
    BY <1>9 DEF Saving
  <2>3. QED
    BY <1>t, <1>n, <1>o, <2>1, <2>2, GoMoves, AnswerMoves
<1>10. CASE Timeout(s)
  <2>1. UNCHANGED <<quota, sent>> /\ Untouched /\ pc[s] \in Owning
    BY <1>10 DEF Timeout, Untouched, Owning
  <2>2. Answer(s, pc[s] \notin Loading) /\ (pc[s] \notin Loading) \in BOOLEAN
    BY <1>10 DEF Timeout
  <2>3. QED
    BY <1>t, <2>1, <2>2, AnswerMoves
<1>11. CASE s \in Requests /\ Dropped(s)
  <2>1. Go(s, "release") /\ UNCHANGED <<reached, quota, sent>> /\ Untouched /\ pc[s] = "conn"
    BY <1>11 DEF Dropped, Untouched
  <2>2. QED
    BY <1>t, <1>n, <1>o, <2>1, GoMoves
<1>12. QED
  BY <1>1, <1>2, <1>3, <1>4, <1>5, <1>6, <1>7, <1>8, <1>9, <1>10, <1>11 DEF Work

\* None of them disturbs the invariant.
LEMMA WorkKeeps ==
  ASSUME IInv, NEW s \in Sessions, Work(s)
  PROVE  IInv'
<1>1. TypeOK /\ Placed /\ OneManual /\ ChannelExclusive /\ IntervalKept
  BY DEF IInv
<1>2. /\ Moves(s) /\ Untouched /\ reached' \in [Requests -> BOOLEAN]
      /\ quota' \in SUBSET Channels /\ sent' \in SUBSET Requests
  BY <1>1, WorkMoves
<1>3. PICK x \in Steps \ {"idle"} :
        /\ pc[s] # "idle"
        /\ x \in Owning => pc[s] \in Owning
        /\ pc' = [pc EXCEPT ![s] = x]
  BY <1>2 DEF Moves
<1>4. \A t \in Sessions : /\ pc'[t] # "idle" <=> pc[t] # "idle"
                          /\ pc'[t] \in Owning => pc[t] \in Owning
  BY <1>1, <1>3 DEF TypeOK
<1>5. chan' = chan /\ lock' = lock /\ window' = window /\ crashes' = crashes
  BY <1>2 DEF Untouched
<1>6. TypeOK'
  BY <1>1, <1>2, <1>3, <1>5 DEF TypeOK
<1>7. Placed' /\ ChannelExclusive'
  BY <1>1, <1>4, <1>5 DEF Placed, ChannelExclusive
<1>8. OneManual' /\ IntervalKept'
  BY <1>1, <1>4, <1>5, Owners DEF OneManual, IntervalKept
<1>9. QED
  BY <1>6, <1>7, <1>8 DEF IInv

-----------------------------------------------------------------------------
(***************************************************************************)
(* The other steps                                                         *)
(***************************************************************************)
\* What every start has in common: the session leaves idle with a channel.
LEMMA StartKeeps ==
  ASSUME IInv, NEW s \in Sessions, NEW c \in Channels, pc[s] = "idle",
         Go(s, "conn"), chan' = [chan EXCEPT ![s] = c],
         UNCHANGED <<reached, lock, window, quota, sent, crashes>>,
         s \in Requests => ~Running(c) /\ window[c] = 0
  PROVE  IInv'
<1>1. TypeOK /\ Placed /\ OneManual /\ ChannelExclusive /\ IntervalKept
  BY DEF IInv
<1>2. /\ pc \in [Sessions -> Steps] /\ chan \in [Sessions -> Channels \cup {None}]
      /\ "conn" \in Steps /\ "conn" \notin Owning
  BY <1>1, StepNames, OwningNames DEF TypeOK
<1>3. /\ pc' = [pc EXCEPT ![s] = "conn"]
      /\ \A t \in Sessions : t # s => pc'[t] = pc[t] /\ chan'[t] = chan[t]
      /\ pc'[s] = "conn" /\ chan'[s] = c
  BY <1>2 DEF Go
<1>4. TypeOK'
  BY <1>1, <1>2, <1>3 DEF TypeOK
<1>5. Placed' /\ ChannelExclusive'
  BY <1>1, <1>2, <1>3 DEF Placed, ChannelExclusive
<1>6. IntervalKept'
  BY <1>1, <1>3, Owners DEF IntervalKept
<1>7. OneManual'
  BY <1>1, <1>3, Owners DEF OneManual, Running
<1>8. QED
  BY <1>4, <1>5, <1>6, <1>7 DEF IInv

\* The lock goes to the session that found it free.
LEMMA LockedKeeps ==
  ASSUME IInv, NEW s \in Sessions, Locked(s)
  PROVE  IInv'
<1>1. TypeOK /\ Placed /\ OneManual /\ ChannelExclusive /\ IntervalKept
  BY DEF IInv
<1>2. /\ pc \in [Sessions -> Steps] /\ pc[s] = "lock" /\ chan[s] \in Channels
      /\ lock \in [Channels -> Sessions \cup {Free, Others}]
      /\ lock[chan[s]] = Free /\ lock' = [lock EXCEPT ![chan[s]] = s]
      /\ UNCHANGED <<chan, reached, window, quota, sent, crashes>>
  BY <1>1 DEF Locked, TypeOK, Placed
<1>3. PICK x \in {"renew", "fetch", "creds"} : pc' = [pc EXCEPT ![s] = x]
  BY DEF Locked, Go
<1>4. x \in Steps /\ x # "idle"
  BY <1>3, StepNames
<1>5. \A t \in Sessions : /\ pc'[t] # "idle" <=> pc[t] # "idle"
                          /\ t # s => pc'[t] = pc[t]
  BY <1>2, <1>3, <1>4
<1>6. TypeOK'
  BY <1>1, <1>2, <1>3, <1>4 DEF TypeOK
<1>7. Placed' /\ OneManual' /\ IntervalKept'
  BY <1>1, <1>2, <1>5, Owners DEF Placed, OneManual, IntervalKept
<1>8. ChannelExclusive'
  <2> SUFFICES ASSUME NEW t \in Sessions, pc'[t] \in Owning
               PROVE  lock'[chan'[t]] = t
    BY DEF ChannelExclusive
  <2>1. CASE t = s
    BY <2>1, <1>2
  <2>2. CASE t # s
    <3>1. pc[t] \in Owning /\ pc[t] # "idle"
      BY <2>2, <1>5, OwningNames
    <3>2. lock[chan[t]] = t /\ chan[t] \in Channels
      BY <3>1, <1>1 DEF ChannelExclusive, Placed
    <3>3. chan[t] # chan[s]
      BY <3>2, <1>2, Owners
    <3>4. QED
      BY <3>2, <3>3, <1>2
  <2>3. QED
    BY <2>1, <2>2
<1>9. QED
  BY <1>6, <1>7, <1>8 DEF IInv

\* No other session owns the lock that is given back.
LEMMA UnlockKeeps ==
  ASSUME IInv, NEW s \in Sessions, Unlock(s)
  PROVE  IInv'
<1>1. TypeOK /\ Placed /\ OneManual /\ ChannelExclusive /\ IntervalKept
  BY DEF IInv
<1>2. /\ pc \in [Sessions -> Steps] /\ pc[s] = "unlock" /\ chan[s] \in Channels
      /\ pc' = [pc EXCEPT ![s] = "release"]
      /\ lock \in [Channels -> Sessions \cup {Free, Others}]
      /\ lock' = [lock EXCEPT ![chan[s]] = Free]
      /\ UNCHANGED <<chan, reached, window, quota, sent, crashes>>
  BY <1>1 DEF Unlock, Go, TypeOK, Placed
<1>3. "release" \in Steps /\ "release" \notin Owning /\ "unlock" \in Owning /\ "idle" \notin Owning
  BY StepNames, OwningNames
<1>4. \A t \in Sessions : /\ pc'[t] # "idle" <=> pc[t] # "idle"
                          /\ t # s => pc'[t] = pc[t]
  BY <1>2
<1>5. TypeOK'
  BY <1>1, <1>2, <1>3 DEF TypeOK
<1>6. Placed' /\ OneManual' /\ IntervalKept'
  BY <1>1, <1>2, <1>4, Owners DEF Placed, OneManual, IntervalKept
<1>7. ChannelExclusive'
  <2> SUFFICES ASSUME NEW t \in Sessions, pc'[t] \in Owning
               PROVE  lock'[chan'[t]] = t
    BY DEF ChannelExclusive
  <2>1. t # s
    BY <1>2, <1>3
  <2>2. lock[chan[t]] = t /\ lock[chan[s]] = s /\ chan[t] \in Channels
    BY <2>1, <1>1, <1>2, <1>3, <1>4 DEF ChannelExclusive, Placed
  <2>3. QED
    BY <2>1, <2>2, <1>2
<1>8. QED
  BY <1>5, <1>6, <1>7 DEF IInv

\* The interval starts when no other manual sync is in flight on the channel.
LEMMA ReleaseKeeps ==
  ASSUME IInv, NEW s \in Sessions, Release(s)
  PROVE  IInv'
<1>1. TypeOK /\ Placed /\ OneManual /\ ChannelExclusive /\ IntervalKept
  BY DEF IInv
<1>2. /\ pc \in [Sessions -> Steps] /\ chan \in [Sessions -> Channels \cup {None}]
      /\ pc[s] = "release" /\ pc' = [pc EXCEPT ![s] = "idle"]
      /\ chan' = [chan EXCEPT ![s] = None]
      /\ UNCHANGED <<lock, quota, crashes>>
  BY <1>1 DEF Release, Go, TypeOK
<1>3. /\ window \in [Channels -> 0..MinInterval]
      /\ window' = IF s \in Requests /\ reached[s]
                   THEN [window EXCEPT ![chan[s]] = MinInterval] ELSE window
  BY <1>1 DEF Release, TypeOK
<1>4. chan[s] \in Channels /\ "idle" \in Steps /\ "idle" \notin Owning
  BY <1>1, <1>2, StepNames, OwningNames DEF Placed
<1>5. \A t \in Sessions : t # s => pc'[t] = pc[t] /\ chan'[t] = chan[t]
  BY <1>2
<1>6. pc'[s] = "idle"
  BY <1>2
<1>7. MinInterval \in 0..MinInterval
  BY Owners
<1>8. window' \in [Channels -> 0..MinInterval]
  BY <1>3, <1>4, <1>7
<1>9. /\ reached' \in [Requests -> BOOLEAN]
      /\ sent' \in SUBSET Requests
  BY <1>1 DEF Release, TypeOK
<1>10. TypeOK'
  BY <1>1, <1>2, <1>4, <1>8, <1>9 DEF TypeOK
<1>11. Placed' /\ OneManual'
  BY <1>1, <1>5, <1>6, Owners DEF Placed, OneManual
<1>12. ChannelExclusive'
  BY <1>1, <1>2, <1>4, <1>5, <1>6 DEF ChannelExclusive
<1>13. IntervalKept'
  <2> SUFFICES ASSUME NEW r \in Requests, pc'[r] # "idle"
               PROVE  window'[chan'[r]] = 0
    BY DEF IntervalKept
  <2>1. r # s /\ pc[r] # "idle" /\ chan'[r] = chan[r]
    BY <1>5, <1>6, Owners
  <2>2. window[chan[r]] = 0 /\ chan[r] \in Channels
    BY <2>1, <1>1, Owners DEF IntervalKept, Placed
  <2>3. s \in Requests => chan[r] # chan[s]
    BY <2>1, <1>1, <1>2 DEF OneManual
  <2>4. QED
    BY <2>1, <2>2, <2>3, <1>3, <1>4
<1>14. QED
  BY <1>10, <1>11, <1>12, <1>13 DEF IInv

\* The other processes take a free lock and give back their own; windows shrink.
LEMMA OutsideKeeps ==
  ASSUME IInv, NEW c \in Channels, OthersTake(c) \/ OthersRelease(c) \/ Tick(c)
  PROVE  IInv'
<1>1. TypeOK /\ Placed /\ OneManual /\ ChannelExclusive /\ IntervalKept
  BY DEF IInv
<1>2. CASE OthersTake(c) \/ OthersRelease(c)
  <2>1. /\ lock \in [Channels -> Sessions \cup {Free, Others}] /\ lock[c] \in {Free, Others}
        /\ \E o \in {Free, Others} : lock' = [lock EXCEPT ![c] = o]
        /\ UNCHANGED <<pc, chan, reached, window, quota, sent, crashes>>
    BY <1>1, <1>2 DEF OthersTake, OthersRelease, TypeOK
  <2>2. TypeOK' /\ Placed' /\ OneManual' /\ IntervalKept'
    BY <1>1, <2>1 DEF TypeOK, Placed, OneManual, IntervalKept
  <2>3. ChannelExclusive'
    <3> SUFFICES ASSUME NEW t \in Sessions, pc[t] \in Owning
                 PROVE  lock'[chan[t]] = t
      BY <2>1 DEF ChannelExclusive
    <3>1. lock[chan[t]] = t /\ chan[t] \in Channels
      BY <1>1, OwningNames DEF ChannelExclusive, Placed
    <3>2. chan[t] # c
      BY <3>1, <2>1, Owners
    <3>3. QED
      BY <3>1, <3>2, <2>1
  <2>4. QED
    BY <2>2, <2>3 DEF IInv
<1>3. CASE Tick(c)
  <2>1. /\ window \in [Channels -> 0..MinInterval] /\ window[c] > 0
        /\ window' = [window EXCEPT ![c] = window[c] - 1]
        /\ UNCHANGED <<pc, chan, reached, lock, quota, sent, crashes>>
    BY <1>1, <1>3 DEF Tick, TypeOK
  <2>2. window[c] - 1 \in 0..MinInterval
    BY <2>1, Owners
  <2>3. window' \in [Channels -> 0..MinInterval]
    BY <2>1, <2>2
  <2>4. TypeOK' /\ Placed' /\ OneManual' /\ ChannelExclusive'
    BY <1>1, <2>1, <2>3 DEF TypeOK, Placed, OneManual, ChannelExclusive
  <2>5. IntervalKept'
    <3> SUFFICES ASSUME NEW r \in Requests, pc[r] # "idle"
                 PROVE  window'[chan[r]] = 0
      BY <2>1 DEF IntervalKept
    <3>1. window[chan[r]] = 0 /\ chan[r] \in Channels
      BY <1>1, Owners DEF IntervalKept, Placed
    <3>2. chan[r] # c
      BY <3>1, <2>1
    <3>3. QED
      BY <3>1, <3>2, <2>1
  <2>6. QED
    BY <2>4, <2>5 DEF IInv
<1>4. QED
  BY <1>2, <1>3

LEMMA CrashKeeps ==
  ASSUME IInv, Crash
  PROVE  IInv'
<1>1. TypeOK
  BY DEF IInv
<1>2. /\ lock \in [Channels -> Sessions \cup {Free, Others}]
      /\ lock' = [c \in Channels |-> IF lock[c] \in Sessions THEN Free ELSE lock[c]]
      /\ pc' = [s \in Sessions |-> "idle"] /\ chan' = [s \in Sessions |-> None]
      /\ window' = [c \in Channels |-> 0] /\ reached' = [r \in Requests |-> FALSE]
      /\ sent' = {} /\ quota' = quota
  BY <1>1 DEF Crash, TypeOK
<1>3. crashes' \in 0..MaxCrashes
  BY <1>1, Owners DEF Crash, TypeOK
<1>4. lock' \in [Channels -> Sessions \cup {Free, Others}]
  BY <1>2
<1>5. "idle" \in Steps /\ "idle" \notin Owning /\ 0 \in 0..MinInterval
  BY StepNames, OwningNames, Owners
<1>6. TypeOK'
  BY <1>1, <1>2, <1>3, <1>4, <1>5 DEF TypeOK
<1>7. Placed' /\ OneManual' /\ ChannelExclusive' /\ IntervalKept'
  BY <1>2, <1>5, Owners DEF Placed, OneManual, ChannelExclusive, IntervalKept
<1>8. QED
  BY <1>6, <1>7 DEF IInv

-----------------------------------------------------------------------------
(***************************************************************************)
(* The invariant and what follows from it                                  *)
(***************************************************************************)
LEMMA InitIInv == Init => IInv
<1> SUFFICES ASSUME Init PROVE IInv
  OBVIOUS
<1>1. "idle" \in Steps /\ "idle" \notin Owning /\ 0 \in 0..MinInterval /\ 0 \in 0..MaxCrashes
  BY StepNames, OwningNames, Owners
<1>2. TypeOK
  BY <1>1 DEF Init, TypeOK
<1>3. Placed /\ OneManual /\ ChannelExclusive /\ IntervalKept
  BY <1>1, Owners DEF Init, Placed, OneManual, ChannelExclusive, IntervalKept
<1>4. QED
  BY <1>2, <1>3 DEF IInv

LEMMA NextIInv == IInv /\ [Next]_vars => IInv'
<1> SUFFICES ASSUME IInv, [Next]_vars PROVE IInv'
  OBVIOUS
<1>1. ASSUME NEW w \in Workers, NEW c \in Channels, WorkerTakes(w, c) PROVE IInv'
  <2>1. w \in Sessions /\ w \notin Requests
    BY SessionsAssumption DEF Sessions
  <2>2. QED
    BY <1>1, <2>1, StartKeeps DEF WorkerTakes
<1>2. ASSUME NEW r \in Requests, NEW c \in Channels, ManualStart(r, c) PROVE IInv'
  BY <1>2, StartKeeps, Owners DEF ManualStart
<1>3. ASSUME NEW i \in Imports, NEW c \in Channels, ImportStart(i, c) PROVE IInv'
  <2>1. i \in Sessions /\ i \notin Requests
    BY SessionsAssumption DEF Sessions
  <2>2. QED
    BY <1>3, <2>1, StartKeeps DEF ImportStart
<1>4. ASSUME NEW r \in Requests, Dropped(r) PROVE IInv'
  BY <1>4, WorkKeeps, Owners DEF Work
<1>5. ASSUME NEW s \in Sessions, Step(s) PROVE IInv'
  <2>1. CASE Locked(s)
    BY <2>1, LockedKeeps
  <2>2. CASE Unlock(s)
    BY <2>2, UnlockKeeps
  <2>3. CASE Release(s)
    BY <2>3, ReleaseKeeps
  <2>4. CASE Work(s)
    BY <2>4, WorkKeeps
  <2>5. QED
    BY <1>5, <2>1, <2>2, <2>3, <2>4 DEF Step, Work
<1>6. CASE Environment
  BY <1>6, OutsideKeeps, CrashKeeps DEF Environment
<1>7. CASE UNCHANGED vars
  BY <1>7 DEF vars, IInv, TypeOK, Placed, OneManual, ChannelExclusive, IntervalKept
<1>8. QED
  BY <1>1, <1>2, <1>3, <1>4, <1>5, <1>6, <1>7 DEF Next

\* The invariant holds of every behaviour.
THEOREM Inductive == Spec => []IInv
BY InitIInv, NextIInv, PTL DEF Spec

\* Every variable keeps its type, whatever times out, is dropped or crashes.
THEOREM TypeCorrect == Spec => []TypeOK
<1>1. IInv => TypeOK
  BY DEF IInv
<1>2. QED
  BY <1>1, Inductive, PTL

\* Whoever works on a channel owns its advisory lock (service.go:251,
\* upstream_api.go:455, cookie_access.go:402), for any number of sessions.
THEOREM OneSessionPerChannel == Spec => []ChannelExclusive
<1>1. IInv => ChannelExclusive
  BY DEF IInv
<1>2. QED
  BY <1>1, Inductive, PTL

\* No manual sync is in flight inside the minimum interval of its channel
\* (upstream_api.go:337), for any interval and any number of requests.
THEOREM IntervalsKept == Spec => []IntervalKept
<1>1. IInv => IntervalKept
  BY DEF IInv
<1>2. QED
  BY <1>1, Inductive, PTL

-----------------------------------------------------------------------------
(***************************************************************************)
(* The connections of the pool                                             *)
(***************************************************************************)
\* A session holds three connections at most, and two while it waits for one more.
LEMMA HeldFacts ==
  /\ \A x \in Steps : Held[x] \in 0..3
  /\ \A x \in Waiting : x \in Steps /\ Held[x] \in 0..2 /\ Held[Granted[x]] = Held[x] + 1
  /\ \A x \in Working : Held[x] \in 1..3
  /\ Held["idle"] = 0 /\ Held["conn"] = 0 /\ Held["release"] = 0 /\ Held["unlock"] = 1
  /\ Held["lock"] = 1 /\ Held["creds"] = 1 /\ Held["renew"] = 1 /\ Held["fetch"] = 1
  /\ Held["load"] = 2 /\ Held["probe"] = 2 /\ Held["probing"] = 3 /\ Held["probed"] = 2
  /\ Held["renewing"] = 2 /\ Held["slot"] = 2 /\ Held["reserving"] = 3 /\ Held["renewed"] = 2
  /\ Held["fetching"] = 2 /\ Held["read"] = 1 /\ Held["save"] = 1 /\ Held["saving"] = 2
<1>1. \A x \in Steps : Held[x] \in 0..3
  BY StepNames DEF Held
<1>2. \A x \in Waiting : x \in Steps /\ Held[x] \in 0..2 /\ Held[Granted[x]] = Held[x] + 1
  BY StepNames, WaitingNames DEF Held, Granted
<1>3. \A x \in Working : Held[x] \in 1..3
  BY StepNames DEF Working, Held
<1> QED
  BY <1>1, <1>2, <1>3 DEF Held

LEMMA UpTo == \A n \in Nat : IsFiniteSet(1..n) /\ Cardinality(1..n) = n
<1> SUFFICES ASSUME NEW n \in Nat PROVE IsFiniteSet(1..n) /\ Cardinality(1..n) = n
  OBVIOUS
<1>1. IsFiniteSet(1..n) /\ Cardinality(1..n) = IF 1 > n THEN 0 ELSE n - 1 + 1
  <2>1. 1 \in Int /\ n \in Int
    OBVIOUS
  <2> QED
    BY <2>1, FS_Interval
<1> QED
  BY <1>1

LEMMA ConnectionFacts ==
  ASSUME TypeOK
  PROVE  /\ \A x : x \in Connections <=> \E s \in Sessions : \E n \in 1..Held[pc[s]] : x = <<s, n>>
         /\ IsFiniteSet(Connections) /\ InUse \in Nat
<1>1. \A x : x \in Connections <=> \E s \in Sessions : \E n \in 1..Held[pc[s]] : x = <<s, n>>
  BY DEF Connections
<1>2. \A s \in Sessions : Held[pc[s]] \in 0..3
  BY HeldFacts DEF TypeOK
<1>3. Connections \subseteq Sessions \X (1..3)
  BY <1>1, <1>2
<1>4. IsFiniteSet(Sessions \X (1..3))
  <2>1. IsFiniteSet(1..3)
    BY UpTo
  <2> QED
    BY <2>1, SessionsAssumption, FS_Product
<1>5. IsFiniteSet(Connections)
  BY <1>3, <1>4, FS_Subset
<1>6. InUse \in Nat
  BY <1>5, FS_CardinalityType DEF InUse
<1> QED
  BY <1>1, <1>5, <1>6

Counted == InUse \in Nat

LEMMA Countable == TypeOK => Counted
  BY ConnectionFacts DEF Counted

LEMMA CountedNext == TypeOK' => InUse' \in Nat
<1>1. TypeOK' => Counted'
  BY Countable, PTL
<1> QED
  BY <1>1 DEF Counted

\* Nobody takes a connection: no more are in use.
LEMMA NoneTaken ==
  ASSUME TypeOK, TypeOK', \A s \in Sessions : Held[pc'[s]] <= Held[pc[s]]
  PROVE  InUse' <= InUse
<1>1. \A s \in Sessions : Held[pc[s]] \in 0..3 /\ Held[pc'[s]] \in 0..3
  BY HeldFacts DEF TypeOK
<1>2. Connections' \subseteq Connections
  <2> SUFFICES ASSUME NEW s \in Sessions, NEW n \in 1..Held[pc'[s]] PROVE n \in 1..Held[pc[s]]
    BY DEF Connections
  <2> QED
    BY <1>1
<1>3. IsFiniteSet(Connections)
  BY ConnectionFacts
<1> QED
  BY <1>2, <1>3, FS_Subset DEF InUse

\* A session takes one: there is one more.
LEMMA OneTaken ==
  ASSUME TypeOK, TypeOK', NEW s \in Sessions, Connect(s)
  PROVE  InUse' <= InUse + 1
<1>1. pc[s] \in Waiting /\ pc' = [pc EXCEPT ![s] = Granted[pc[s]]] /\ pc \in [Sessions -> Steps]
  BY DEF Connect, Go, TypeOK
<1> DEFINE k == Held[pc[s]] + 1
<1>2. Held[pc'[s]] = k /\ k \in Nat /\ \A t \in Sessions : t # s => pc'[t] = pc[t]
  BY <1>1, HeldFacts
<1>3. \A t \in Sessions : Held[pc[t]] \in Nat
  BY <1>1, HeldFacts
<1>4. Connections' \subseteq Connections \cup {<<s, k>>}
  <2> SUFFICES ASSUME NEW t \in Sessions, NEW n \in 1..Held[pc'[t]]
               PROVE  <<t, n>> \in Connections \cup {<<s, k>>}
    BY DEF Connections
  <2>1. CASE t # s
    BY <1>2, <2>1 DEF Connections
  <2>2. CASE t = s
    <3>1. n = k \/ n \in 1..Held[pc[s]]
      BY <1>2, <1>3, <2>2
    <3> QED
      BY <2>2, <3>1 DEF Connections
  <2> QED
    BY <2>1, <2>2
<1> HIDE DEF k
<1>5. IsFiniteSet(Connections) /\ InUse \in Nat
  BY ConnectionFacts
<1>6. /\ IsFiniteSet(Connections \cup {<<s, k>>})
      /\ Cardinality(Connections \cup {<<s, k>>}) <= InUse + 1
  <2>1. /\ IsFiniteSet(Connections \cup {<<s, k>>})
        /\ Cardinality(Connections \cup {<<s, k>>})
             = IF <<s, k>> \in Connections THEN Cardinality(Connections) ELSE Cardinality(Connections) + 1
    BY <1>5, FS_AddElement
  <2> QED
    BY <1>5, <2>1 DEF InUse
<1>7. Cardinality(Connections') <= Cardinality(Connections \cup {<<s, k>>})
  BY <1>4, <1>6, FS_Subset
<1>8. InUse' \in Nat /\ Cardinality(Connections \cup {<<s, k>>}) \in Nat
  BY <1>6, CountedNext, FS_CardinalityType
<1> QED
  BY <1>5, <1>6, <1>7, <1>8 DEF InUse

\* Where a session goes in any other step, it holds no more than before.
Yields(s) == \E x \in Steps : pc' = [pc EXCEPT ![s] = x] /\ Held[x] <= Held[pc[s]]

LEMMA WorkYields ==
  ASSUME TypeOK, NEW s \in Sessions, Work(s) \/ Locked(s) \/ Unlock(s) \/ Release(s), ~Connect(s)
  PROVE  Yields(s)
<1>0. /\ \A x \in {"idle", "release", "creds", "renew", "fetch", "save", "unlock", "read"} : x \in Steps /\ Held[x] <= 1
      /\ \A x \in {"renew", "fetch", "probe", "slot", "unlock", "probed", "renewed"} : x \in Steps /\ Held[x] <= 2
      /\ Held["idle"] = 0 /\ Held["release"] = 0
  BY StepNames, HeldFacts
<1>1. CASE Turned(s) \/ Unlock(s) \/ Release(s) \/ Dropped(s)
  <2>1. \/ pc[s] = "lock" /\ pc' = [pc EXCEPT ![s] = "release"]
        \/ pc[s] = "unlock" /\ pc' = [pc EXCEPT ![s] = "release"]
        \/ pc[s] = "release" /\ pc' = [pc EXCEPT ![s] = "idle"]
        \/ pc[s] = "conn" /\ pc' = [pc EXCEPT ![s] = "release"]
    BY <1>1 DEF Turned, Unlock, Release, Dropped, Go
  <2> QED
    BY <1>0, <2>1, HeldFacts DEF Yields
<1>2. CASE Locked(s)
  <2>1. pc[s] = "lock" /\ \E x \in {"renew", "fetch", "creds"} : pc' = [pc EXCEPT ![s] = x]
    BY <1>2 DEF Locked, Go
  <2>2. Held[pc[s]] = 1
    BY <2>1, HeldFacts
  <2> QED
    BY <1>0, <2>1, <2>2 DEF Yields
<1>3. CASE Load(s) \/ Probed(s) \/ Renewed(s) \/ Renewing(s)
  <2>1. pc[s] \in {"load", "probed", "renewed", "renewing"}
    BY <1>3 DEF Load, Probed, Renewed, Renewing
  <2>2. \E x \in {"renew", "fetch", "probe", "slot", "unlock"} : pc' = [pc EXCEPT ![s] = x]
    BY <1>3 DEF Load, Probed, Renewed, Renewing, Accounts, Answer, Go
  <2>3. Held[pc[s]] = 2
    BY <2>1, HeldFacts
  <2> QED
    BY <1>0, <2>2, <2>3 DEF Yields
<1>4. CASE Read(s) \/ Saving(s)
  <2>1. pc[s] \in {"read", "saving"}
    BY <1>4 DEF Read, Saving
  <2>2. \E x \in {"renew", "fetch", "save", "unlock"} : pc' = [pc EXCEPT ![s] = x]
    BY <1>4 DEF Read, Saving, Accounts, Answer, Go
  <2>3. Held[pc[s]] \in 1..2
    BY <2>1, HeldFacts
  <2>4. PICK x \in {"renew", "fetch", "save", "unlock"} : pc' = [pc EXCEPT ![s] = x]
    BY <2>2
  <2>5. x \in Steps /\ Held[x] = 1
    BY <2>4, StepNames, HeldFacts
  <2>6. Held[x] <= Held[pc[s]]
    BY <2>3, <2>5
  <2> QED
    BY <2>4, <2>5, <2>6 DEF Yields
<1>5. CASE Send(s)
  <2>1. \/ pc[s] = "probing" /\ pc' = [pc EXCEPT ![s] = "probed"]
        \/ pc[s] = "reserving" /\ pc' = [pc EXCEPT ![s] = "renewed"]
        \/ pc[s] = "fetching" /\ pc' = [pc EXCEPT ![s] = "read"]
    BY <1>5 DEF Send, Go
  <2> QED
    BY <1>0, <2>1, HeldFacts DEF Yields
<1>6. CASE Timeout(s)
  <2>1. pc[s] \in Working /\ pc' = [pc EXCEPT ![s] = "unlock"]
    BY <1>6 DEF Timeout, Answer, Go
  <2>2. Held[pc[s]] \in 1..3 /\ "unlock" \in Steps /\ Held["unlock"] = 1
    BY <2>1, HeldFacts, StepNames
  <2>3. Held["unlock"] <= Held[pc[s]]
    BY <2>2
  <2> QED
    BY <2>1, <2>2, <2>3 DEF Yields
<1> QED
  BY <1>1, <1>2, <1>3, <1>4, <1>5, <1>6 DEF Work

LEMMA YieldKeeps ==
  ASSUME TypeOK, TypeOK', NEW s \in Sessions, Yields(s)
  PROVE  InUse' <= InUse
<1>1. \A t \in Sessions : Held[pc[t]] \in Nat /\ pc \in [Sessions -> Steps]
  BY HeldFacts DEF TypeOK
<1>2. \A t \in Sessions : Held[pc'[t]] <= Held[pc[t]]
  BY <1>1 DEF Yields
<1> QED
  BY <1>2, NoneTaken

\* The pool never lends more connections than it has.
PoolKept == InUse <= PoolSize

LEMMA NextPool == IInv /\ PoolKept /\ [Next]_vars => PoolKept'
<1> SUFFICES ASSUME IInv, PoolKept, [Next]_vars PROVE PoolKept'
  OBVIOUS
<1>1. TypeOK /\ TypeOK'
  BY NextIInv DEF IInv
<1>2. InUse \in Nat /\ InUse' \in Nat /\ PoolSize \in Nat
  BY <1>1, Countable, CountedNext, SessionsAssumption DEF Counted
<1>3. InUse' <= InUse => PoolKept'
  BY <1>2 DEF PoolKept
<1>4. ASSUME NEW s \in Sessions, Yields(s) PROVE PoolKept'
  BY <1>1, <1>3, <1>4, YieldKeeps
<1>5. ASSUME NEW s \in Sessions, Connect(s) PROVE PoolKept'
  <2>1. InUse' <= InUse + 1 /\ InUse < PoolSize
    BY <1>1, <1>5, OneTaken DEF Connect
  <2> QED
    BY <1>2, <2>1 DEF PoolKept
<1>6. ASSUME NEW s \in Sessions, pc[s] = "idle", Go(s, "conn") PROVE Yields(s)
  <2>1. "conn" \in Steps /\ Held["conn"] <= Held["idle"]
    BY StepNames, HeldFacts
  <2> QED
    BY <1>6, <2>1 DEF Yields, Go
<1>7. ASSUME NEW s \in Sessions, NEW c \in Channels, WorkerTakes(s, c) \/ ManualStart(s, c) \/ ImportStart(s, c)
      PROVE  PoolKept'
  BY <1>4, <1>6, <1>7 DEF WorkerTakes, ManualStart, ImportStart
<1>8. ASSUME NEW r \in Requests, Dropped(r) PROVE PoolKept'
  <2>1. r \in Sessions /\ pc[r] = "conn" /\ pc' = [pc EXCEPT ![r] = "release"]
    BY <1>8, Owners DEF Dropped, Go
  <2>2. "release" \in Steps /\ Held["release"] <= Held["conn"]
    BY StepNames, HeldFacts
  <2> QED
    BY <1>4, <2>1, <2>2 DEF Yields
<1>9. ASSUME NEW s \in Sessions, Step(s) PROVE PoolKept'
  BY <1>1, <1>4, <1>5, <1>9, WorkYields DEF Step, Work
<1>10. CASE pc' = pc
  BY <1>3, <1>10, <1>2 DEF InUse, Connections
<1>11. CASE Crash
  <2>1. \A s \in Sessions : pc'[s] = "idle" /\ Held[pc[s]] \in Nat
    <3>1. \A s \in Sessions : pc[s] \in Steps
      BY <1>1 DEF TypeOK
    <3> QED
      BY <1>11, <3>1, HeldFacts DEF Crash
  <2>2. \A s \in Sessions : Held[pc'[s]] <= Held[pc[s]]
    BY <2>1, HeldFacts
  <2> QED
    BY <1>1, <1>3, <2>2, NoneTaken
<1>12. CASE Environment
  BY <1>10, <1>11, <1>12 DEF Environment, OthersTake, OthersRelease, Tick
<1>13. CASE UNCHANGED vars
  BY <1>10, <1>13 DEF vars
<1> QED
  BY <1>7, <1>8, <1>9, <1>12, <1>13, Owners DEF Next

\* The pool of a process never lends more connections than it has, although a
\* session asks for a second and a third while it keeps the first.
THEOREM PoolNeverOverdrawn == Spec => []PoolKept
<1>1. Init => PoolKept
  <2> SUFFICES ASSUME Init PROVE PoolKept
    OBVIOUS
  <2>1. Connections = {}
    <3>1. \A s \in Sessions : Held[pc[s]] = 0
      BY HeldFacts DEF Init
    <3> QED
      BY <3>1 DEF Connections
  <2> QED
    BY <2>1, FS_EmptySet, SessionsAssumption DEF PoolKept, InUse
<1> QED
  BY <1>1, NextPool, Inductive, PTL DEF Spec

\* Everyone who holds a connection waits for one more: then each holds two at most.
LEMMA StallHalves ==
  ASSUME TypeOK, Stalled
  PROVE  PoolSize <= 2 * Cardinality({s \in Sessions : Held[pc[s]] > 0})
<1> DEFINE crowd == {s \in Sessions : Held[pc[s]] > 0}
<1>1. \A s \in crowd : Held[pc[s]] \in 0..2
  BY HeldFacts DEF Stalled
<1>2. \A s \in Sessions : Held[pc[s]] \in 0..3
  BY HeldFacts DEF TypeOK
<1>3. Connections \subseteq crowd \X (1..2)
  <2> SUFFICES ASSUME NEW s \in Sessions, NEW n \in 1..Held[pc[s]] PROVE s \in crowd /\ n \in 1..2
    BY DEF Connections
  <2>1. Held[pc[s]] > 0
    BY <1>2
  <2> QED
    BY <1>1, <2>1
<1>4. IsFiniteSet(crowd)
  <2>1. crowd \in SUBSET Sessions
    OBVIOUS
  <2> QED
    BY <2>1, SessionsAssumption, FS_Subset
<1>5. IsFiniteSet(1..2) /\ Cardinality(1..2) = 2
  BY UpTo
<1> HIDE DEF crowd
<1>6. IsFiniteSet(crowd \X (1..2)) /\ Cardinality(crowd \X (1..2)) = Cardinality(crowd) * 2
  BY <1>4, <1>5, FS_Product
<1>7. Cardinality(Connections) <= Cardinality(crowd \X (1..2))
  BY <1>3, <1>6, FS_Subset
<1>8. Cardinality(crowd) \in Nat
  BY <1>4, FS_CardinalityType
<1>9. PoolSize <= 2 * Cardinality(crowd)
  BY <1>6, <1>7, <1>8 DEF Stalled, InUse
<1> QED
  BY <1>9 DEF crowd

\* Fewer sessions than half the connections never bring a pool to a halt
\* (pool.go:73), for any pool size and any number of sessions.
THEOREM StallsNeedCrowds == Spec => []StallNeedsCrowd
<1>1. TypeOK => StallNeedsCrowd
  <2> SUFFICES ASSUME TypeOK, Stalled PROVE 2 * Cardinality({s \in Sessions : Held[pc[s]] > 0}) >= PoolSize
    BY DEF StallNeedsCrowd
  <2> DEFINE crowd == {s \in Sessions : Held[pc[s]] > 0}
  <2>1. PoolSize <= 2 * Cardinality(crowd) /\ crowd \in SUBSET Sessions
    BY StallHalves
  <2> HIDE DEF crowd
  <2>2. Cardinality(crowd) \in Nat
    BY <2>1, SessionsAssumption, FS_Subset, FS_CardinalityType
  <2>3. 2 * Cardinality(crowd) >= PoolSize
    BY <2>1, <2>2, SessionsAssumption
  <2> QED
    BY <2>3 DEF crowd
<1> QED
  BY <1>1, TypeCorrect, PTL

\* A pool with more than two connections for each session is never brought to
\* a halt, although a session holds three at its peak: the twelve of pool.go:73
\* are enough for the four workers of a round and one more session.
THEOREM RoomyPoolNeverStalls ==
  ASSUME PoolSize > 2 * Cardinality(Sessions)
  PROVE  Spec => []~Stalled
<1>1. TypeOK => ~Stalled
  <2> SUFFICES ASSUME TypeOK, Stalled PROVE FALSE
    OBVIOUS
  <2> DEFINE crowd == {s \in Sessions : Held[pc[s]] > 0}
  <2>1. PoolSize <= 2 * Cardinality(crowd) /\ crowd \in SUBSET Sessions /\ IsFiniteSet(Sessions)
    BY StallHalves, SessionsAssumption
  <2> HIDE DEF crowd
  <2>2. Cardinality(crowd) <= Cardinality(Sessions) /\ IsFiniteSet(crowd)
    BY <2>1, FS_Subset
  <2>3. Cardinality(crowd) \in Nat /\ Cardinality(Sessions) \in Nat /\ PoolSize \in Nat
    BY <2>1, <2>2, FS_CardinalityType, SessionsAssumption
  <2> QED
    BY <2>1, <2>2, <2>3
<1> QED
  BY <1>1, TypeCorrect, PTL
=============================================================================
