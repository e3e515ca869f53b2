-------------------------- MODULE ConfigVersionsProofs --------------------------
(***************************************************************************)
(* Proofs about ConfigVersions: what the advisory lock of the migrations,  *)
(* the two UNIQUE constraints and the one-time tokens give.                *)
(***************************************************************************)
EXTENDS ConfigVersions, FiniteSetTheorems, TLAPS

IDiff == [key : Keys, value : Values, version : Nat]
IRequest == [pc : {"check", "select", "locked", "load", "store"}, proc : Procs,
             key : Keys, value : Values, expected : Nat, idem : Idems \cup {None},
             token : Tokens \cup {None}, cur : Nat, values : [Keys -> Nat] \cup {None}]

\* TypeOK without the bound on the number of versions, which takes counting.
Typed ==
  /\ MigrationTypeOK /\ critical \subseteq Keys
  /\ params \in [Keys -> Seq(Row)]
  /\ previews \in Seq(IDiff) /\ Len(previews) <= MaxPreviews
  /\ tokens \in [Procs -> SUBSET (1..Len(previews))]
  /\ req \in [Requests -> IRequest \cup {None}]

\* Where a process is says what it has of the lock and the ledger.
Phases ==
  \A p \in Procs :
    /\ At(p, "down") => proc[p] = Down
    /\ At(p, "lock") => ~ReadOnly(p)
    /\ At(p, "migrate") => ~ReadOnly(p) /\ lock = p /\ proc[p].known = ledger
    /\ At(p, "seed") \/ At(p, "load") \/ At(p, "up") =>
         ReadOnly(p) \/ \A f \in Files : ledger[f] = OwnSum(p, f)
    /\ At(p, "load") \/ At(p, "up") => ReadOnly(p) \/ \A k \in Keys : params[k] # <<>>

\* A request that waits for its row picked one that exists.
PickedRow ==
  \A r \in Requests : Is(r, "locked") => req[r].cur \in 1..Len(params[req[r].key])

Used(t) == \E k \in critical : \E i \in 2..Len(params[k]) : params[k][i].token = t
Held(t) == \E p \in Procs : t \in tokens[p]
Critical(r) == req[r] # None /\ req[r].key \in critical

\* A token is held by one process, by one request or by one version.
TokensOnce ==
  /\ \A p, q \in Procs : p # q => tokens[p] \cap tokens[q] = {}
  /\ \A i \in 1..Len(previews) : previews[i].version >= 1
  /\ \A r \in Requests : Critical(r) =>
       /\ req[r].token \in 1..Len(previews) /\ ~Held(req[r].token)
       /\ previews[req[r].token] = [key |-> req[r].key, value |-> req[r].value, version |-> req[r].expected]
       /\ req[r].pc \in {"check", "select", "locked"} => ~Used(req[r].token)
  /\ \A r, s \in Requests : r # s /\ Critical(r) /\ Critical(s) => req[r].token # req[s].token
  /\ \A k \in critical : \A i \in 2..Len(params[k]) :
       params[k][i].token \in 1..Len(previews) /\ ~Held(params[k][i].token)

\* The requests for a key that have not written yet.
Waiting(k) ==
  {r \in Requests : req[r] # None /\ req[r].key = k /\ req[r].pc \in {"check", "select", "locked"}}

\* Each version but the first took an apply, and each request still has its own.
Counted ==
  /\ applies \in 0..MaxApplies /\ stops \in 0..MaxStops
  /\ \A k \in Keys : /\ IsFiniteSet(Waiting(k)) /\ Cardinality(Waiting(k)) <= applies
                     /\ Len(params[k]) + Cardinality(Waiting(k)) <= applies + 1

\* Nobody has seen a version that is not there: f is what was seen of each key.
Written(f) == \A k \in Keys : f[k] <= Len(params[k])

SeenIsWritten ==
  /\ snap \in [Procs -> [Keys -> Nat] \cup {None}]
  /\ \A p \in Procs : snap[p] # None => Written(snap[p])
  /\ \A i \in 1..Len(previews) : previews[i].version <= Len(params[previews[i].key])
  /\ \A r \in Requests : req[r] # None =>
       /\ req[r].expected <= Len(params[req[r].key]) /\ req[r].cur <= Len(params[req[r].key])
       /\ req[r].values # None => Written(req[r].values)

-----------------------------------------------------------------------------
(* Lemmas about the operators. *)

LEMMA OwnSumInSums ==
  ASSUME NEW p \in Procs, MigrationTypeOK, ~ReadOnly(p), NEW f \in Files
  PROVE  OwnSum(p, f) \in Sums /\ OwnSum(p, f) # None
<1>1. proc[p].build \in Builds
  BY DEF MigrationTypeOK, Proc, ReadOnly
<1> QED
  BY <1>1, MigrationAssumption DEF OwnSum, Sums

LEMMA SeededRow ==
  ASSUME NEW k \in Keys
  PROVE  Seeded(k) \in Seq(Row) /\ Len(Seeded(k)) = 1 /\ Seeded(k) # <<>>
<1> DEFINE row == [value |-> Default, prev |-> None, confirmed |-> k \in critical, idem |-> None, token |-> None]
<1>1. row \in Row
  BY ConfigAssumption DEF Row
<1> HIDE DEF row
<1>2. <<row>> \in Seq(Row) /\ Len(<<row>>) = 1 /\ <<row>> # <<>>
  BY <1>1
<1> QED
  BY <1>2 DEF Seeded, row

LEMMA EffectiveNat ==
  ASSUME Typed
  PROVE  LoadConfigValues \in [Keys -> Nat]
<1>1. \A k \in Keys : Len(params[k]) \in Nat
  BY DEF Typed
<1>2. \A k \in Keys : Effective(k) \in Nat
  BY <1>1 DEF Effective
<1> QED
  BY <1>2 DEF LoadConfigValues

-----------------------------------------------------------------------------
(* Types. *)

LEMMA InitTyped == Init => Typed
<1> SUFFICES ASSUME Init PROVE Typed
  OBVIOUS
<1>1. Down \in Proc
  BY DEF Down, Proc
<1>2. ledger \in [Files -> Sums \cup {None}]
  BY MigrationAssumption DEF Init, MigrationInit, Sums
<1>3. MigrationTypeOK
  BY <1>1, <1>2 DEF Init, MigrationInit, MigrationTypeOK
<1>4. params \in [Keys -> Seq(Row)]
  BY DEF Init
<1>5. previews \in Seq(IDiff) /\ Len(previews) <= MaxPreviews
  BY ConfigAssumption DEF Init
<1>6. tokens \in [Procs -> SUBSET (1..Len(previews))]
  BY DEF Init
<1> QED
  BY <1>3, <1>4, <1>5, <1>6 DEF Init, Typed

\* The database and the processes: what bootstrap.Run and Stop do to them.
LEMMA MigrationStep ==
  ASSUME MigrationTypeOK, Phases, NEW p \in Procs,
         \/ Start(p) \/ Lock(p) \/ (\E f \in Files : Migrate(p, f)) \/ Migrated(p) \/ Stop(p)
  PROVE  MigrationTypeOK'
<1> USE DEF MigrationTypeOK
<1>1. CASE Start(p)
  <2>1. ASSUME NEW b \in Builds, proc' = [proc EXCEPT ![p].phase = "lock", ![p].build = b]
        PROVE  proc' \in [Procs -> Proc]
    BY <2>1, ZenonT(60) DEF Proc
  <2>2. ASSUME Goto(p, "load") PROVE proc' \in [Procs -> Proc]
    BY <2>2 DEF Goto, Proc
  <2> QED
    BY <1>1, <2>1, <2>2 DEF Start, database
<1>2. CASE Lock(p)
  <2>1. proc' \in [Procs -> Proc]
    BY <1>2, ZenonT(60) DEF Lock, Locked, Proc
  <2> QED
    BY <1>2, <2>1 DEF Lock, Locked, database
<1>3. ASSUME NEW f \in Files, Migrate(p, f) PROVE MigrationTypeOK'
  <2>1. OwnSum(p, f) \in Sums
    BY <1>3, OwnSumInSums DEF Migrate, Phases
  <2>2. proc' \in [Procs -> Proc] /\ ledger' \in [Files -> Sums \cup {None}]
    BY <1>3, <2>1 DEF Migrate, Proc
  <2>3. plain' \subseteq Secrets /\ cipher' \subseteq Secrets
    BY <1>3 DEF Migrate, Encrypted, Files, Tables, DropPlaintext
  <2>4. lock' = lock /\ emptyKey' = emptyKey /\ held' = held
    BY <1>3 DEF Migrate
  <2> QED
    BY <2>2, <2>3, <2>4
<1>4. CASE Migrated(p)
  <2>1. proc' \in [Procs -> Proc]
    BY <1>4, ZenonT(60) DEF Migrated, Down, Proc
  <2> QED
    BY <1>4, <2>1 DEF Migrated, database
<1>5. CASE Stop(p)
  <2>1. proc' \in [Procs -> Proc]
    BY <1>5 DEF Stop, Down, Proc
  <2> QED
    BY <1>5, <2>1 DEF Stop, database
<1> QED
  BY <1>1, <1>2, <1>3, <1>4, <1>5

\* The other actions leave the database and the processes' builds alone.
LEMMA MigrationSame ==
  ASSUME MigrationTypeOK, NEW p \in Procs, UNCHANGED <<lock, database>>,
         UNCHANGED proc \/ Goto(p, "load") \/ Goto(p, "up")
  PROVE  MigrationTypeOK'
<1>1. proc' \in [Procs -> Proc]
  BY DEF MigrationTypeOK, Goto, Proc
<1> QED
  BY <1>1 DEF MigrationTypeOK, database

\* A request moves on, or ends.
LEMMA RequestMoves ==
  ASSUME NEW r \in Requests, req \in [Requests -> IRequest \cup {None}], req[r] # None
  PROVE  /\ End(r) => req' \in [Requests -> IRequest \cup {None}]
         /\ \A pc \in {"load", "select", "store"} : Step(r, pc) => req' \in [Requests -> IRequest \cup {None}]
BY DEF End, Step, IRequest

LEMMA ApplyTyped ==
  ASSUME Typed, PickedRow, NEW r \in Requests, Apply(r)
  PROVE  Typed'
<1>0. UNCHANGED <<others, previews>> /\ (UNCHANGED tokens)
  BY DEF Apply, CheckIdempotency, SelectCurrent, Insert, LoadAgain, StoreSnapshot, Refused, Fails
<1>1. params' \in [Keys -> Seq(Row)] /\ req' \in [Requests -> IRequest \cup {None}]
  <2>1. CASE CheckIdempotency(r)
    BY <2>1, RequestMoves DEF Typed, CheckIdempotency, Is
  <2>2. CASE SelectCurrent(r)
    <3>1. req[r] \in IRequest /\ Len(params[req[r].key]) \in Nat
      BY <2>2 DEF Typed, SelectCurrent, Is, IRequest
    <3> QED
      BY <2>2, <3>1 DEF Typed, SelectCurrent, IRequest
  <2>3. CASE Insert(r)
    <3> DEFINE k == req[r].key
               row == [value |-> req[r].value, prev |-> params[k][req[r].cur].value, confirmed |-> k \in critical,
                       idem |-> req[r].idem, token |-> req[r].token]
    <3>1. req[r] \in IRequest /\ k \in Keys
      BY <2>3 DEF Typed, Insert, Is, IRequest
    <3>2. params[k] \in Seq(Row) /\ req[r].cur \in 1..Len(params[k])
      BY <2>3, <3>1 DEF Typed, Insert, PickedRow
    <3>3. params[k][req[r].cur].value \in Values
      <4>1. params[k][req[r].cur] \in Row
        BY <3>2
      <4> QED
        BY <4>1 DEF Row
    <3>4. row \in Row
      BY <3>1, <3>3 DEF Row, IRequest
    <3>5. params' = [params EXCEPT ![k] = Append(@, row)]
      BY <2>3 DEF Insert
    <3> HIDE DEF row, k
    <3>6. params' \in [Keys -> Seq(Row)]
      BY <3>1, <3>2, <3>4, <3>5 DEF Typed
    <3> QED
      BY <2>3, <3>6, RequestMoves DEF Typed, Insert, Is
  <2>4. CASE LoadAgain(r)
    <3>1. req[r] \in IRequest
      BY <2>4 DEF Typed, LoadAgain, Is
    <3>2. [req[r] EXCEPT !.pc = "store", !.values = LoadConfigValues] \in IRequest
      BY <3>1, EffectiveNat DEF IRequest
    <3>3. req' = [req EXCEPT ![r] = [req[r] EXCEPT !.pc = "store", !.values = LoadConfigValues]]
      BY <2>4, <3>1 DEF LoadAgain, Typed
    <3>4. req' \in [Requests -> IRequest \cup {None}]
      BY <3>2, <3>3 DEF Typed
    <3> QED
      BY <2>4, <3>4 DEF LoadAgain, Typed
  <2>5. CASE StoreSnapshot(r) \/ Refused(r) \/ Fails(r)
    BY <2>5, RequestMoves DEF Typed, StoreSnapshot, Refused, Fails, Is
  <2> QED
    BY <2>1, <2>2, <2>3, <2>4, <2>5 DEF Apply
<1>2. MigrationTypeOK'
  BY <1>0 DEF Typed, others, migrationVars, database, MigrationTypeOK
<1> QED
  BY <1>0, <1>1, <1>2 DEF Typed, others

LEMMA BeginTyped ==
  ASSUME Typed, NEW r \in Requests, NEW p \in Procs, NEW k \in Keys, NEW v \in Values,
         NEW i \in Idems \cup {None}, NEW n \in 0..Len(params[k]), Begin(r, p, k, v, n, i)
  PROVE  Typed'
<1>1. n \in Nat
  BY DEF Typed
<1>2. 1..Len(previews) \subseteq Tokens
  BY ConfigAssumption DEF Typed, Tokens
<1>3. req' \in [Requests -> IRequest \cup {None}]
  <2> DEFINE new(t) == [pc |-> "check", proc |-> p, key |-> k, value |-> v, expected |-> n,
                        idem |-> i, token |-> t, cur |-> 0, values |-> None]
  <2>1. \A t \in Tokens \cup {None} : new(t) \in IRequest
    BY <1>1 DEF IRequest
  <2>2. \E t \in Tokens \cup {None} : req' = req \/ req' = [req EXCEPT ![r] = new(t)]
    BY <1>2 DEF Begin
  <2> HIDE DEF new
  <2> QED
    BY <2>1, <2>2 DEF Typed
<1>4. tokens' \in [Procs -> SUBSET (1..Len(previews))] /\ UNCHANGED <<others, params, previews>>
  BY DEF Begin, Consumed, Typed
<1>5. MigrationTypeOK'
  BY <1>4 DEF Typed, others, migrationVars, database, MigrationTypeOK
<1> QED
  BY <1>3, <1>4, <1>5 DEF Typed, others

LEMMA StartTyped ==
  ASSUME Typed, Phases, NEW p \in Procs, Run(p) \/ Seed(p) \/ FirstSnapshot(p) \/ Exit(p)
  PROVE  Typed'
<1>1. CASE Run(p)
  <2>1. UNCHANGED configVars
    BY <1>1 DEF Run
  <2>2. MigrationTypeOK'
    BY <1>1, MigrationStep DEF Run, Typed
  <2> QED
    BY <2>1, <2>2 DEF Typed, configVars
<1>2. CASE Seed(p)
  <2>1. MigrationTypeOK'
    BY <1>2, MigrationSame DEF Seed, Typed
  <2>2. params' \in [Keys -> Seq(Row)]
    BY <1>2, SeededRow DEF Seed, Typed
  <2> QED
    BY <1>2, <2>1, <2>2 DEF Typed, Seed
<1>3. CASE FirstSnapshot(p)
  <2>1. MigrationTypeOK'
    BY <1>3, MigrationSame DEF FirstSnapshot, Typed
  <2> QED
    BY <1>3, <2>1 DEF Typed, FirstSnapshot
<1>4. CASE Exit(p)
  <2>1. MigrationTypeOK'
    BY <1>4, MigrationStep DEF Exit, Typed
  <2>2. req' \in [Requests -> IRequest \cup {None}]
    BY <1>4 DEF Exit, Typed
  <2>3. tokens' \in [Procs -> SUBSET (1..Len(previews))]
    BY <1>4 DEF Exit, Typed
  <2> QED
    BY <1>4, <2>1, <2>2, <2>3 DEF Typed, Exit
<1> QED
  BY <1>1, <1>2, <1>3, <1>4

LEMMA TokenTyped ==
  ASSUME Typed, NEW p \in Procs,
         \/ \E k \in Keys, v \in Values : Preview(p, k, v)
         \/ \E t \in Tokens : Expire(p, t)
  PROVE  Typed'
<1>0. UNCHANGED <<others, params, req>>
  BY DEF Preview, Expire
<1>1. MigrationTypeOK'
  BY <1>0 DEF Typed, others, migrationVars, database, MigrationTypeOK
<1>2. ASSUME NEW k \in Keys, NEW v \in Values, Preview(p, k, v) PROVE Typed'
  <2> DEFINE diff == [key |-> k, value |-> v, version |-> Len(params[k])]
  <2>1. diff \in IDiff
    BY DEF Typed, IDiff
  <2>2. previews' = Append(previews, diff) /\ Len(previews) < MaxPreviews
    BY <1>2 DEF Preview
  <2> HIDE DEF diff
  <2>3. previews' \in Seq(IDiff) /\ Len(previews') = Len(previews) + 1 /\ Len(previews') <= MaxPreviews
    BY <2>1, <2>2, ConfigAssumption DEF Typed
  <2>4. tokens' \in [Procs -> SUBSET (1..Len(previews'))]
    <3>1. tokens' = [tokens EXCEPT ![p] = @ \cup {Len(previews')}]
      BY <1>2 DEF Preview
    <3>2. Len(previews) \in Nat
      BY DEF Typed
    <3>3. 1..Len(previews) \subseteq 1..Len(previews') /\ Len(previews') \in 1..Len(previews')
      BY <2>3, <3>2
    <3> HIDE DEF diff
    <3>4. tokens \in [Procs -> SUBSET (1..Len(previews'))]
      BY <3>3 DEF Typed
    <3> QED
      BY <3>1, <3>3, <3>4
  <2> QED
    BY <1>0, <1>1, <2>3, <2>4 DEF Typed, others
<1>3. ASSUME NEW t \in Tokens, Expire(p, t) PROVE Typed'
  <2>1. tokens' \in [Procs -> SUBSET (1..Len(previews))] /\ UNCHANGED previews
    BY <1>3 DEF Expire, Typed
  <2> QED
    BY <1>0, <1>1, <2>1 DEF Typed, others
<1> QED
  BY <1>2, <1>3

LEMMA NextTyped ==
  ASSUME Typed, Phases, PickedRow, [Next]_vars
  PROVE  Typed'
<1>1. CASE UNCHANGED vars
  BY <1>1 DEF vars, migrationVars, configVars, database, Typed, MigrationTypeOK
<1>2. CASE Next
  BY <1>2, StartTyped, TokenTyped, BeginTyped, ApplyTyped DEF Next
<1> QED
  BY <1>1, <1>2

-----------------------------------------------------------------------------
(* The lock, the ledger and the credentials. *)

\* A key that has a version keeps having one.
LEMMA KeysKept ==
  ASSUME Typed, PickedRow, [Next]_vars, NEW k \in Keys, params[k] # <<>>
  PROVE  params'[k] # <<>>
<1>1. CASE UNCHANGED params
  BY <1>1
<1>2. ASSUME NEW p \in Procs, Seed(p) PROVE params'[k] # <<>>
  BY <1>2 DEF Seed, Typed
<1>3. ASSUME NEW r \in Requests, Insert(r) PROVE params'[k] # <<>>
  <2> DEFINE c == req[r].key
             row == [value |-> req[r].value, prev |-> params[c][req[r].cur].value, confirmed |-> c \in critical,
                     idem |-> req[r].idem, token |-> req[r].token]
  <2>1. params' = [params EXCEPT ![c] = Append(@, row)]
    BY <1>3 DEF Insert
  <2> HIDE DEF c, row
  <2>2. CASE k = c
    BY <2>1, <2>2 DEF Typed
  <2>3. CASE k # c
    BY <2>1, <2>3 DEF Typed
  <2> QED
    BY <2>2, <2>3
<1>4. \/ UNCHANGED params
      \/ \E p \in Procs : Seed(p)
      \/ \E r \in Requests : Insert(r)
  <2>1. ASSUME NEW p \in Procs, Run(p) \/ Seed(p) \/ FirstSnapshot(p) \/ Exit(p)
        PROVE  UNCHANGED params \/ Seed(p)
    BY <2>1 DEF Run, configVars, FirstSnapshot, Exit
  <2>2. ASSUME NEW r \in Requests, Apply(r) PROVE UNCHANGED params \/ Insert(r)
    BY <2>2 DEF Apply, CheckIdempotency, SelectCurrent, LoadAgain, StoreSnapshot, Refused, Fails
  <2>3. ASSUME NEW p \in Procs,
               \/ \E c \in Keys, v \in Values : Preview(p, c, v)
               \/ \E t \in Tokens : Expire(p, t)
               \/ \E r \in Requests, c \in Keys, v \in Values, i \in Idems \cup {None} :
                    \E n \in 0..Len(params[c]) : Begin(r, p, c, v, n, i)
        PROVE  UNCHANGED params
    BY <2>3, ZenonT(60) DEF Preview, Expire, Begin
  <2>4. CASE UNCHANGED vars
    BY <2>4 DEF vars, configVars
  <2> QED
    BY <2>1, <2>2, <2>3, <2>4 DEF Next
<1> QED
  BY <1>1, <1>2, <1>3, <1>4

\* Every other step leaves the processes alone.
LEMMA ProcsKept ==
  ASSUME [Next]_vars
  PROVE  \/ UNCHANGED migrationVars
         \/ \E p \in Procs : Run(p) \/ Seed(p) \/ FirstSnapshot(p) \/ Exit(p)
<1>1. ASSUME NEW r \in Requests, Apply(r) PROVE UNCHANGED migrationVars
  BY <1>1 DEF Apply, CheckIdempotency, SelectCurrent, Insert, LoadAgain, StoreSnapshot, Refused, Fails, others
<1>2. ASSUME NEW p \in Procs,
             \/ \E c \in Keys, v \in Values : Preview(p, c, v)
             \/ \E t \in Tokens : Expire(p, t)
             \/ \E r \in Requests, c \in Keys, v \in Values, i \in Idems \cup {None} :
                  \E n \in 0..Len(params[c]) : Begin(r, p, c, v, n, i)
      PROVE  UNCHANGED migrationVars
  BY <1>2, ZenonT(60) DEF Preview, Expire, Begin, others
<1> QED
  BY <1>1, <1>2 DEF Next, vars

LEMMA PhasesStep ==
  ASSUME Typed, Phases, PickedRow, [Next]_vars
  PROVE  Phases'
<1>0. \A k \in Keys : params[k] # <<>> => params'[k] # <<>>
  BY KeysKept
<1>1. CASE UNCHANGED migrationVars
  BY <1>0, <1>1 DEF Phases, migrationVars, database, At, ReadOnly, OwnSum
<1>2. ASSUME NEW p \in Procs, Run(p) \/ Seed(p) \/ FirstSnapshot(p) \/ Exit(p) PROVE Phases'
  <2> USE DEF At, ReadOnly
  <2>0. proc \in [Procs -> Proc] /\ proc[p] \in Proc
    BY DEF Typed, MigrationTypeOK
  <2>a. CASE Start(p) /\ UNCHANGED configVars
    <3>1. proc[p] = Down /\ UNCHANGED <<lock, database, params>>
      BY <2>a DEF Start, Phases, configVars
    <3>2. ASSUME NEW b \in Builds, proc' = [proc EXCEPT ![p].phase = "lock", ![p].build = b]
          PROVE  Phases'
      <4>1. b # None
        BY MigrationAssumption
      <4> QED
        BY <2>0, <3>1, <3>2, <4>1 DEF Phases, Proc, database, OwnSum
    <3>3. CASE Goto(p, "load")
      BY <2>0, <3>1, <3>3 DEF Phases, Proc, database, Down, Goto, OwnSum
    <3> QED
      BY <2>a, <3>2, <3>3 DEF Start
  <2>b. CASE Lock(p) /\ UNCHANGED configVars
    <3>1. UNCHANGED <<database, params>> /\ lock = None /\ lock' = p
      BY <2>b DEF Lock, Locked, configVars
    <3>2. proc' = [proc EXCEPT ![p].phase = "migrate", ![p].known = ledger] /\ proc[p].phase = "lock"
      BY <2>b DEF Lock, Locked
    <3>3. None \notin Procs
      BY MigrationAssumption
    <3> QED
      BY <2>0, <3>1, <3>2, <3>3 DEF Phases, Proc, database, OwnSum
  <2>c. ASSUME NEW f \in Files, Migrate(p, f), UNCHANGED configVars PROVE Phases'
    <3>1. lock' = lock /\ UNCHANGED params /\ ledger[f] = None /\ proc[p].phase = "migrate"
      BY <2>c DEF Migrate, configVars, Exists
    <3>2. ledger' = [ledger EXCEPT ![f] = OwnSum(p, f)] /\ proc' = [proc EXCEPT ![p].known[f] = OwnSum(p, f)]
      BY <2>c DEF Migrate
    <3>3. proc[p].known = ledger /\ lock = p /\ proc[p].build # None
      BY <3>1 DEF Phases
    <3>4. \A q \in Procs : q # p => proc'[q] = proc[q] /\ proc[q].phase # "migrate"
      BY <2>0, <3>2, <3>3 DEF Phases
    <3>5. proc'[p].phase = "migrate" /\ proc'[p].known = ledger' /\ proc'[p].build = proc[p].build
      BY <2>0, <3>1, <3>2, <3>3 DEF Proc
    <3>6. ASSUME NEW q \in Procs, q # p, proc[q].build # None, \A g \in Files : ledger[g] = OwnSum(q, g)
          PROVE  FALSE
      BY <3>1, <3>6, OwnSumInSums DEF Typed
    <3>7. ASSUME NEW q \in Procs, q # p, proc'[q].phase \in {"seed", "load", "up"}
          PROVE  proc'[q].build = None
      BY <3>4, <3>6, <3>7 DEF Phases
    <3> QED
      BY <3>1, <3>3, <3>4, <3>5, <3>7 DEF Phases
  <2>d. CASE Migrated(p) /\ UNCHANGED configVars
    <3>1. UNCHANGED <<database, params>> /\ lock' = None /\ proc[p].phase = "migrate"
      BY <2>d DEF Migrated, configVars
    <3>2. proc' = [proc EXCEPT ![p].phase = "seed", ![p].known = Down.known]
      BY <2>d DEF Migrated
    <3>3. lock = p /\ proc[p].known = ledger /\ proc[p].build # None
      BY <3>1 DEF Phases
    <3>4. \A f \in Files : ledger[f] = OwnSum(p, f)
      BY <2>d, <3>3 DEF Migrated, Pending, Changed
    <3>5. \A q \in Procs : q # p => proc[q].phase # "migrate"
      BY <3>3 DEF Phases
    <3>6. proc'[p].phase = "seed" /\ proc'[p].build = proc[p].build /\ \A q \in Procs : q # p => proc'[q] = proc[q]
      BY <2>0, <3>2 DEF Proc
    <3> QED
      BY <3>1, <3>4, <3>5, <3>6 DEF Phases, database, OwnSum
  <2>e. CASE Seed(p)
    <3>1. UNCHANGED <<lock, ledger>> /\ proc[p].phase = "seed" /\ proc' = [proc EXCEPT ![p].phase = "load"]
      BY <2>e DEF Seed, Goto, database
    <3>2. \A k \in Keys : params'[k] # <<>>
      BY <2>e, SeededRow DEF Seed
    <3> QED
      BY <2>0, <3>1, <3>2 DEF Phases, Proc, OwnSum
  <2>f. CASE FirstSnapshot(p)
    <3>1. UNCHANGED <<lock, ledger, params>> /\ proc[p].phase = "load" /\ proc' = [proc EXCEPT ![p].phase = "up"]
      BY <2>f DEF FirstSnapshot, Goto, database
    <3> QED
      BY <2>0, <3>1 DEF Phases, Proc, OwnSum
  <2>g. CASE Exit(p)
    <3>1. UNCHANGED <<ledger, params>> /\ proc' = [proc EXCEPT ![p] = Down] /\ lock' = IF lock = p THEN None ELSE lock
      BY <2>g DEF Exit, Stop, database
    <3>2. Down.phase = "down"
      BY DEF Down
    <3> QED
      BY <2>0, <3>1, <3>2 DEF Phases, OwnSum
  <2> QED
    BY <1>2, <2>a, <2>b, <2>c, <2>d, <2>e, <2>f, <2>g DEF Run
<1> QED
  BY <1>1, <1>2, ProcsKept

LEMMA SecretsStep ==
  ASSUME Typed, SecretsSurvive, [Next]_vars
  PROVE  SecretsSurvive'
<1>1. CASE UNCHANGED database
  BY <1>1 DEF SecretsSurvive, database, Exists
<1>2. ASSUME NEW p \in Procs, NEW f \in Files, Migrate(p, f) PROVE SecretsSurvive'
  <2>1. ledger' = [ledger EXCEPT ![f] = OwnSum(p, f)] /\ held' = held /\ DropPlaintext \in Files
    BY <1>2 DEF Migrate, Files
  <2>2. CASE f = Tables
    <3>1. UNCHANGED <<plain, cipher>>
      BY <1>2, <2>2 DEF Migrate, Tables, DropPlaintext
    <3>2. ledger'[DropPlaintext] = ledger[DropPlaintext]
      BY <2>1, <2>2 DEF Typed, MigrationTypeOK, Tables, DropPlaintext
    <3> QED
      BY <2>1, <3>1, <3>2 DEF SecretsSurvive, Exists
  <2>3. CASE f = DropPlaintext
    <3>1. cipher' = cipher \cup plain /\ plain' = {}
      BY <1>2, <2>3 DEF Migrate, Encrypted, Tables, DropPlaintext
    <3> QED
      BY <2>1, <3>1 DEF SecretsSurvive
  <2> QED
    BY <2>2, <2>3 DEF Files
<1>3. ASSUME NEW p \in Procs, Run(p) \/ Seed(p) \/ FirstSnapshot(p) \/ Exit(p)
      PROVE  UNCHANGED database \/ \E f \in Files : Migrate(p, f)
  BY <1>3 DEF Run, Start, Lock, Migrated, Seed, FirstSnapshot, Exit, Stop
<1> QED
  BY <1>1, <1>2, <1>3, ProcsKept DEF migrationVars

-----------------------------------------------------------------------------
(* The versions of a key. *)

\* What a step does to the versions: nothing, the seeds, or one insert.
VersionsKept == UNCHANGED <<params, critical>>

NewRow(r) ==
  LET k == req[r].key IN
  [value |-> req[r].value, prev |-> params[k][req[r].cur].value, confirmed |-> k \in critical,
   idem |-> req[r].idem, token |-> req[r].token]

Seeding == \E p \in Procs : Seed(p)

LEMMA VersionsMove ==
  ASSUME [Next]_vars
  PROVE  VersionsKept \/ Seeding \/ \E r \in Requests : Insert(r)
<1>1. ASSUME NEW p \in Procs, Run(p) \/ Seed(p) \/ FirstSnapshot(p) \/ Exit(p)
      PROVE  VersionsKept \/ Seed(p)
  BY <1>1 DEF Run, configVars, FirstSnapshot, Exit, VersionsKept
<1>2. ASSUME NEW r \in Requests, Apply(r) PROVE VersionsKept \/ Insert(r)
  BY <1>2 DEF Apply, CheckIdempotency, SelectCurrent, LoadAgain, StoreSnapshot, Refused, Fails, VersionsKept, others
<1>3. ASSUME NEW p \in Procs,
             \/ \E c \in Keys, v \in Values : Preview(p, c, v)
             \/ \E t \in Tokens : Expire(p, t)
             \/ \E r \in Requests, c \in Keys, v \in Values, i \in Idems \cup {None} :
                  \E n \in 0..Len(params[c]) : Begin(r, p, c, v, n, i)
      PROVE  VersionsKept
  BY <1>3, ZenonT(60) DEF Preview, Expire, Begin, VersionsKept, others
<1>4. CASE UNCHANGED vars
  BY <1>4 DEF vars, configVars, VersionsKept
<1> QED
  BY <1>1, <1>2, <1>3, <1>4 DEF Next, Seeding

\* The seeds add a first version where there is none, and nothing else.
LEMMA SeedingAdds ==
  ASSUME Typed, Seeding
  PROVE  /\ critical' = critical
         /\ \A k \in Keys : params'[k] = params[k] \/ (params[k] = <<>> /\ params'[k] = Seeded(k))
BY DEF Seeding, Seed, Typed

\* An insert adds the version after the one that was picked.
LEMMA InsertAdds ==
  ASSUME Typed, PickedRow, NEW r \in Requests, Insert(r)
  PROVE  LET k == req[r].key IN
         /\ k \in Keys /\ critical' = critical /\ NewRow(r) \in Row
         /\ req[r].cur = Len(params[k]) /\ Len(params[k]) \in Nat \ {0}
         /\ params' = [params EXCEPT ![k] = Append(@, NewRow(r))]
         /\ params'[k] = Append(params[k], NewRow(r))
         /\ \A c \in Keys : c # k => params'[c] = params[c]
<1> DEFINE k == req[r].key
<1>1. req[r] \in IRequest /\ k \in Keys
  BY DEF Typed, Insert, Is, IRequest
<1>2. params[k] \in Seq(Row) /\ req[r].cur \in 1..Len(params[k])
  BY <1>1 DEF Typed, Insert, PickedRow
<1>3. Len(params[k]) < req[r].cur + 1
  BY DEF Insert, VersionFree
<1>4. req[r].cur = Len(params[k]) /\ Len(params[k]) \in Nat \ {0}
  BY <1>2, <1>3
<1>5. params[k][req[r].cur] \in Row
  BY <1>2
<1>6. NewRow(r) \in Row
  BY <1>1, <1>5 DEF NewRow, Row, IRequest
<1>7. params' = [params EXCEPT ![k] = Append(@, NewRow(r))] /\ critical' = critical
  BY DEF Insert, NewRow, others
<1> HIDE DEF k
<1>8. params'[k] = Append(params[k], NewRow(r)) /\ \A c \in Keys : c # k => params'[c] = params[c]
  BY <1>1, <1>7 DEF Typed
<1> QED
  BY <1>1, <1>4, <1>6, <1>7, <1>8 DEF k

\* No version is changed or removed.
LEMMA VersionsStay ==
  ASSUME Typed, PickedRow, [Next]_vars, NEW k \in Keys
  PROVE  /\ Len(params[k]) \in Nat /\ Len(params'[k]) \in Nat /\ Len(params[k]) <= Len(params'[k])
         /\ \A i \in 1..Len(params[k]) : params'[k][i] = params[k][i]
<1>0. params[k] \in Seq(Row)
  BY DEF Typed
<1>1. CASE VersionsKept
  BY <1>0, <1>1 DEF VersionsKept
<1>2. CASE Seeding
  BY <1>0, <1>2, SeedingAdds, SeededRow
<1>3. ASSUME NEW r \in Requests, Insert(r) PROVE
         /\ Len(params'[k]) \in Nat /\ Len(params[k]) <= Len(params'[k])
         /\ \A i \in 1..Len(params[k]) : params'[k][i] = params[k][i]
  <2>1. CASE k = req[r].key
    <3>1. params'[k] = Append(params[k], NewRow(r)) /\ NewRow(r) \in Row
      BY <1>3, <2>1, InsertAdds
    <3> QED
      BY <1>0, <3>1
  <2>2. CASE k # req[r].key
    BY <1>0, <1>3, <2>2, InsertAdds
  <2> QED
    BY <2>1, <2>2
<1> QED
  BY <1>0, <1>1, <1>2, <1>3, VersionsMove

\* A request moves on, stays, ends, or begins.
LEMMA RequestsMove ==
  ASSUME Typed, [Next]_vars, NEW r \in Requests
  PROVE  \/ req'[r] = req[r] \/ req'[r] = None
         \/ /\ req[r] # None /\ req'[r] \in IRequest
            /\ req'[r] = [req[r] EXCEPT !.pc = req'[r].pc, !.cur = req'[r].cur, !.values = req'[r].values]
            /\ \/ req'[r].pc \notin {"check", "select", "locked"}
               \/ Is(r, "check") /\ req'[r].pc = "select"
               \/ SelectCurrent(r)
         \/ /\ req[r] = None
            /\ \E p \in Procs, k \in Keys, v \in Values, i \in Idems \cup {None} :
                 \E n \in 0..Len(params[k]) : Begin(r, p, k, v, n, i)
<1>0. req \in [Requests -> IRequest \cup {None}]
  BY DEF Typed
<1>1. CASE UNCHANGED req
  BY <1>1
<1>2. ASSUME NEW s \in Requests, Apply(s), r # s PROVE req'[r] = req[r]
  BY <1>0, <1>2 DEF Apply, CheckIdempotency, SelectCurrent, Insert, LoadAgain, StoreSnapshot, Refused, Fails, Step, End
<1>3. CASE Apply(r)
  <2>1. CASE CheckIdempotency(r)
    <3>1. PICK pc \in {"load", "select"} : req' = [req EXCEPT ![r].pc = pc] /\ Is(r, "check")
      BY <2>1 DEF CheckIdempotency, Step
    <3>2. req[r] \in IRequest /\ req[r] # None
      BY <1>0, <3>1 DEF Is
    <3> QED
      BY <1>0, <3>1, <3>2 DEF IRequest
  <2>2. CASE SelectCurrent(r)
    <3>1. req' = [req EXCEPT ![r].pc = "locked", ![r].cur = Len(params[req[r].key])] /\ req[r] # None
      BY <2>2 DEF SelectCurrent, Is
    <3>2. req[r] \in IRequest /\ Len(params[req[r].key]) \in Nat
      BY <1>0, <3>1 DEF Typed, IRequest
    <3> QED
      BY <1>0, <2>2, <3>1, <3>2 DEF IRequest
  <2>3. CASE Insert(r)
    <3>1. req' = [req EXCEPT ![r].pc = "load"] /\ req[r] # None
      BY <2>3 DEF Insert, Step, Is
    <3>2. req[r] \in IRequest
      BY <1>0, <3>1
    <3> QED
      BY <1>0, <3>1, <3>2 DEF IRequest
  <2>4. CASE LoadAgain(r)
    <3>1. req' = [req EXCEPT ![r].pc = "store", ![r].values = LoadConfigValues] /\ req[r] # None
      BY <2>4 DEF LoadAgain, Is
    <3>2. req[r] \in IRequest /\ LoadConfigValues \in [Keys -> Nat]
      BY <1>0, <3>1, EffectiveNat
    <3> QED
      BY <1>0, <3>1, <3>2 DEF IRequest
  <2>5. CASE StoreSnapshot(r) \/ Refused(r) \/ Fails(r)
    BY <1>0, <2>5 DEF StoreSnapshot, Refused, Fails, End
  <2> QED
    BY <1>3, <2>1, <2>2, <2>3, <2>4, <2>5 DEF Apply
<1>4. ASSUME NEW p \in Procs, Run(p) \/ Seed(p) \/ FirstSnapshot(p) \/ Exit(p)
      PROVE  req'[r] = req[r] \/ req'[r] = None
  BY <1>0, <1>4 DEF Run, configVars, Seed, FirstSnapshot, Exit
<1>5. ASSUME NEW p \in Procs,
             \/ \E c \in Keys, v \in Values : Preview(p, c, v)
             \/ \E t \in Tokens : Expire(p, t)
      PROVE  UNCHANGED req
  BY <1>5 DEF Preview, Expire
<1>6. ASSUME NEW s \in Requests, NEW p \in Procs, NEW k \in Keys, NEW v \in Values, NEW i \in Idems \cup {None},
             NEW n \in 0..Len(params[k]), Begin(s, p, k, v, n, i), r # s
      PROVE  req'[r] = req[r]
  BY <1>0, <1>6 DEF Begin
<1>7. \A p \in Procs, k \in Keys, v \in Values, i \in Idems \cup {None} : \A n \in 0..Len(params[k]) :
        Begin(r, p, k, v, n, i) => req[r] = None
  BY DEF Begin
<1>8. CASE UNCHANGED vars
  BY <1>8 DEF vars, configVars
<1> QED
  BY <1>1, <1>2, <1>3, <1>4, <1>5, <1>6, <1>7, <1>8 DEF Next

LEMMA PickedRowStep ==
  ASSUME Typed, PickedRow, [Next]_vars
  PROVE  PickedRow'
<1> SUFFICES ASSUME NEW r \in Requests, req'[r] # None, req'[r].pc = "locked"
             PROVE  req'[r].cur \in 1..Len(params'[req'[r].key])
  BY DEF PickedRow, Is
<1>1. CASE req'[r] = req[r]
  <2>1. req[r] \in IRequest /\ req[r].cur \in 1..Len(params[req[r].key]) /\ req[r].key \in Keys
    BY <1>1 DEF Typed, PickedRow, Is, IRequest
  <2> QED
    BY <1>1, <2>1, VersionsStay
<1>2. CASE SelectCurrent(r)
  <2>1. req[r] \in IRequest /\ params[req[r].key] # <<>> /\ req[r].key \in Keys
    BY <1>2 DEF Typed, SelectCurrent, Is, IRequest
  <2>2. Len(params[req[r].key]) \in Nat \ {0}
    BY <2>1 DEF Typed
  <2>3. req'[r].cur = Len(params[req[r].key]) /\ req'[r].key = req[r].key /\ params' = params
    BY <1>2, <2>1 DEF SelectCurrent, Typed, IRequest
  <2> QED
    BY <2>2, <2>3
<1>3. ASSUME req[r] = None, NEW p \in Procs, NEW k \in Keys, NEW v \in Values, NEW i \in Idems \cup {None},
             NEW n \in 0..Len(params[k]), Begin(r, p, k, v, n, i)
      PROVE  FALSE
  <2>1. req'[r] = None \/ req'[r].pc = "check"
    BY <1>3 DEF Begin, Typed
  <2> QED
    BY <2>1
<1> QED
  BY <1>1, <1>2, <1>3, RequestsMove

LEMMA ChainStep ==
  ASSUME Typed, PickedRow, VersionsChain, [Next]_vars
  PROVE  VersionsChain'
<1> SUFFICES ASSUME NEW k \in Keys, NEW i \in 2..Len(params'[k])
             PROVE  params'[k][i].prev = params'[k][i - 1].value
  BY DEF VersionsChain
<1>0. params[k] \in Seq(Row)
  BY DEF Typed
<1>1. CASE params'[k] = params[k]
  BY <1>1 DEF VersionsChain
<1>2. CASE Seeding
  BY <1>1, <1>2, SeedingAdds, SeededRow
<1>3. ASSUME NEW r \in Requests, Insert(r), k = req[r].key PROVE params'[k][i].prev = params'[k][i - 1].value
  <2>1. params'[k] = Append(params[k], NewRow(r)) /\ NewRow(r) \in Row /\ req[r].cur = Len(params[k])
    BY <1>3, InsertAdds
  <2>2. NewRow(r).prev = params[k][req[r].cur].value
    BY <1>3 DEF NewRow
  <2>3. CASE i \in 2..Len(params[k])
    <3>1. params'[k][i] = params[k][i] /\ params'[k][i - 1] = params[k][i - 1]
      BY <1>0, <2>1, <2>3
    <3> QED
      BY <2>3, <3>1 DEF VersionsChain
  <2>4. CASE i = Len(params[k]) + 1
    <3>1. params'[k][i] = NewRow(r) /\ params'[k][i - 1] = params[k][Len(params[k])]
      BY <1>0, <2>1, <2>4
    <3> QED
      BY <2>1, <2>2, <3>1
  <2> QED
    BY <1>0, <2>1, <2>3, <2>4
<1> QED
  BY <1>1, <1>2, <1>3, VersionsMove, InsertAdds DEF VersionsKept

LEMMA OnceStep ==
  ASSUME Typed, PickedRow, AppliedOnce, [Next]_vars
  PROVE  AppliedOnce'
<1> SUFFICES ASSUME NEW k \in Keys, NEW i \in 1..Len(params'[k]), NEW j \in 1..Len(params'[k]), i # j,
                    params'[k][i].idem # None
             PROVE  params'[k][i].idem # params'[k][j].idem
  BY DEF AppliedOnce
<1>0. params[k] \in Seq(Row)
  BY DEF Typed
<1>1. CASE params'[k] = params[k]
  BY <1>1 DEF AppliedOnce
<1>2. CASE Seeding
  BY <1>1, <1>2, SeedingAdds, SeededRow
<1>3. ASSUME NEW r \in Requests, Insert(r), k = req[r].key PROVE params'[k][i].idem # params'[k][j].idem
  <2> DEFINE n == Len(params[k])
  <2>1. params'[k] = Append(params[k], NewRow(r)) /\ NewRow(r) \in Row /\ NewRow(r).idem = req[r].idem
    BY <1>3, InsertAdds DEF NewRow
  <2>2. n \in Nat /\ params'[k][n + 1] = NewRow(r) /\ Len(params'[k]) = n + 1
    BY <1>0, <2>1
  <2>3. \A m \in 1..n : params'[k][m] = params[k][m] /\ params[k][m] \in Range(params[k])
    BY <1>0, <2>1 DEF Range
  <2>4. \A m \in 1..n : params[k][m].idem # None => params[k][m].idem # req[r].idem
    BY <1>3, <2>3 DEF Insert, IdemFree, Applied
  <2>5. CASE i \in 1..n /\ j \in 1..n
    BY <2>3, <2>5 DEF AppliedOnce
  <2>6. CASE i \in 1..n /\ j = n + 1
    BY <2>1, <2>2, <2>3, <2>4, <2>6
  <2>7. CASE i = n + 1 /\ j \in 1..n
    BY <2>1, <2>2, <2>3, <2>4, <2>7
  <2> QED
    BY <2>2, <2>5, <2>6, <2>7
<1> QED
  BY <1>1, <1>2, <1>3, VersionsMove, InsertAdds DEF VersionsKept

-----------------------------------------------------------------------------
(* The tokens. *)

\* A version after the first was there, or is the one an insert adds.
LEMMA RowOrigin ==
  ASSUME Typed, PickedRow, [Next]_vars, NEW k \in Keys, NEW i \in 2..Len(params'[k])
  PROVE  \/ i \in 2..Len(params[k]) /\ params'[k][i] = params[k][i]
         \/ \E r \in Requests : /\ Insert(r) /\ k = req[r].key /\ i = Len(params[k]) + 1
                                /\ params'[k][i] = NewRow(r)
<1>0. params[k] \in Seq(Row)
  BY DEF Typed
<1>1. CASE params'[k] = params[k]
  BY <1>1
<1>2. CASE Seeding
  BY <1>1, <1>2, SeedingAdds, SeededRow
<1>3. ASSUME NEW r \in Requests, Insert(r), k = req[r].key
      PROVE  \/ i \in 2..Len(params[k]) /\ params'[k][i] = params[k][i]
             \/ i = Len(params[k]) + 1 /\ params'[k][i] = NewRow(r)
  <2>1. params'[k] = Append(params[k], NewRow(r)) /\ NewRow(r) \in Row
    BY <1>3, InsertAdds
  <2> QED
    BY <1>0, <2>1
<1> QED
  BY <1>1, <1>2, <1>3, VersionsMove, InsertAdds DEF VersionsKept

LEMMA CriticalKept ==
  ASSUME Typed, [Next]_vars
  PROVE  critical' = critical
<1>1. ASSUME NEW p \in Procs, Run(p) \/ Seed(p) \/ FirstSnapshot(p) \/ Exit(p) PROVE critical' = critical
  BY <1>1 DEF Run, configVars, Seed, FirstSnapshot, Exit
<1>2. ASSUME NEW r \in Requests, Apply(r) PROVE critical' = critical
  BY <1>2 DEF Apply, CheckIdempotency, SelectCurrent, Insert, LoadAgain, StoreSnapshot, Refused, Fails, others
<1>3. ASSUME NEW p \in Procs,
             \/ \E c \in Keys, v \in Values : Preview(p, c, v)
             \/ \E t \in Tokens : Expire(p, t)
             \/ \E r \in Requests, c \in Keys, v \in Values, i \in Idems \cup {None} :
                  \E n \in 0..Len(params[c]) : Begin(r, p, c, v, n, i)
      PROVE  critical' = critical
  BY <1>3, ZenonT(60) DEF Preview, Expire, Begin, others
<1> QED
  BY <1>1, <1>2, <1>3 DEF Next, vars, configVars

\* Tokens are issued by Preview; every other step can only take them away.
Shrinks == UNCHANGED previews /\ \A p \in Procs : tokens'[p] \subseteq tokens[p]

Issue(p, k, v) ==
  /\ params[k] # <<>>
  /\ previews' = Append(previews, [key |-> k, value |-> v, version |-> Len(params[k])])
  /\ tokens' = [tokens EXCEPT ![p] = @ \cup {Len(previews')}]

LEMMA TokensMove ==
  ASSUME Typed, [Next]_vars
  PROVE  Shrinks \/ (UNCHANGED <<req, params>> /\ \E p \in Procs, k \in Keys, v \in Values : Issue(p, k, v))
<1> USE DEF Typed, Shrinks
<1>1. ASSUME NEW p \in Procs, Run(p) \/ Seed(p) \/ FirstSnapshot(p) \/ Exit(p) PROVE Shrinks
  <2>1. CASE Exit(p)
    BY <2>1 DEF Exit
  <2> QED
    BY <1>1, <2>1 DEF Run, configVars, Seed, FirstSnapshot
<1>2. ASSUME NEW r \in Requests, Apply(r) PROVE Shrinks
  BY <1>2 DEF Apply, CheckIdempotency, SelectCurrent, Insert, LoadAgain, StoreSnapshot, Refused, Fails, others
<1>3. ASSUME NEW p \in Procs, NEW k \in Keys, NEW v \in Values, Preview(p, k, v)
      PROVE  UNCHANGED <<req, params>> /\ Issue(p, k, v)
  BY <1>3 DEF Preview, Issue
<1>4. ASSUME NEW p \in Procs, NEW t \in Tokens, Expire(p, t) PROVE Shrinks
  BY <1>4 DEF Expire
<1>5. ASSUME NEW r \in Requests, NEW p \in Procs, NEW k \in Keys, NEW v \in Values, NEW i \in Idems \cup {None},
             NEW n \in 0..Len(params[k]), Begin(r, p, k, v, n, i)
      PROVE  Shrinks
  BY <1>5 DEF Begin, Consumed
<1>6. CASE UNCHANGED vars
  BY <1>6 DEF vars, configVars
<1> QED
  BY <1>1, <1>2, <1>3, <1>4, <1>5, <1>6 DEF Next

\* A token that is in nobody's store any more never returns.
LEMMA TokensGone ==
  ASSUME Typed, [Next]_vars, NEW t \in 1..Len(previews)
  PROVE  t \in 1..Len(previews') /\ previews'[t] = previews[t] /\ (~Held(t) => ~Held(t)')
<1>1. CASE Shrinks
  BY <1>1 DEF Shrinks, Held
<1>2. ASSUME NEW p \in Procs, NEW k \in Keys, NEW v \in Values, Issue(p, k, v)
      PROVE  t \in 1..Len(previews') /\ previews'[t] = previews[t] /\ (~Held(t) => ~Held(t)')
  <2> DEFINE diff == [key |-> k, value |-> v, version |-> Len(params[k])]
  <2>1. diff \in IDiff /\ previews \in Seq(IDiff)
    BY DEF Typed, IDiff
  <2>2. previews' = Append(previews, diff)
    BY <1>2 DEF Issue
  <2> HIDE DEF diff
  <2>3. Len(previews') = Len(previews) + 1 /\ Len(previews) \in Nat /\ previews'[t] = previews[t]
    BY <2>1, <2>2
  <2>4. t # Len(previews') /\ t \in 1..Len(previews')
    BY <2>3
  <2>5. \A q \in Procs : tokens'[q] \subseteq tokens[q] \cup {Len(previews')}
    BY <1>2 DEF Issue, Typed
  <2> QED
    BY <2>3, <2>4, <2>5 DEF Held
<1> QED
  BY <1>1, <1>2, TokensMove

\* What a request that begins on a critical key holds.
LEMMA BeginHolds ==
  ASSUME Typed, TokensOnce, NEW r \in Requests, NEW p \in Procs, NEW k \in Keys, NEW v \in Values,
         NEW i \in Idems \cup {None}, NEW n \in 0..Len(params[k]), Begin(r, p, k, v, n, i),
         req'[r] # None, req'[r].key \in critical
  PROVE  /\ \A s \in Requests : s # r => req'[s] = req[s]
         /\ req'[r].token \in 1..Len(previews) /\ Held(req'[r].token)
         /\ \A q \in Procs : req'[r].token \notin tokens'[q]
         /\ previews[req'[r].token] = [key |-> req'[r].key, value |-> req'[r].value, version |-> req'[r].expected]
<1>0. req[r] = None /\ req \in [Requests -> IRequest \cup {None}] /\ tokens \in [Procs -> SUBSET (1..Len(previews))]
  BY DEF Begin, Typed
<1>1. \A s \in Requests : s # r => req'[s] = req[s]
  BY <1>0 DEF Begin
<1>2. k \in critical
  BY <1>0 DEF Begin
<1>3. PICK t \in 1..Len(previews) :
        /\ Consumed(p, t) /\ Accepted(p, t, k, v, n)
        /\ req'[r] = [pc |-> "check", proc |-> p, key |-> k, value |-> v, expected |-> n,
                      idem |-> i, token |-> t, cur |-> 0, values |-> None]
  <2>1. PICK t \in 1..Len(previews) :
          /\ Consumed(p, t)
          /\ req' = IF Accepted(p, t, k, v, n)
                    THEN [req EXCEPT ![r] = [pc |-> "check", proc |-> p, key |-> k, value |-> v, expected |-> n,
                            idem |-> i, token |-> t, cur |-> 0, values |-> None]]
                    ELSE req
    BY <1>2 DEF Begin
  <2>2. Accepted(p, t, k, v, n)
    BY <1>0, <2>1
  <2> QED
    BY <1>0, <2>1, <2>2
<1>4. t \in tokens[p] /\ \A q \in Procs : q # p => t \notin tokens[q]
  BY <1>3 DEF Accepted, TokensOnce
<1>5. \A q \in Procs : t \notin tokens'[q]
  BY <1>0, <1>3, <1>4 DEF Consumed
<1>6. previews[t] \in IDiff /\ previews[t].key = k /\ previews[t].value = v /\ previews[t].version = n
  BY <1>3 DEF Accepted, Matches, diffHash, Typed
<1>7. previews[t] = [key |-> k, value |-> v, version |-> n]
  BY <1>6 DEF IDiff
<1> QED
  BY <1>1, <1>3, <1>4, <1>5, <1>7 DEF Held

\* A request that goes on keeps what it was given.
LEMMA RequestKeeps ==
  ASSUME Typed, NEW r \in Requests, req[r] # None, req'[r] \in IRequest,
         req'[r] = [req[r] EXCEPT !.pc = req'[r].pc, !.cur = req'[r].cur, !.values = req'[r].values]
  PROVE  /\ req'[r].key = req[r].key /\ req'[r].value = req[r].value
         /\ req'[r].expected = req[r].expected /\ req'[r].token = req[r].token
BY DEF Typed, IRequest

\* The token of a row that is added is the token of its request.
LEMMA UsedGrows ==
  ASSUME Typed, PickedRow, [Next]_vars, NEW t, Used(t)'
  PROVE  Used(t) \/ \E r \in Requests : Insert(r) /\ Critical(r) /\ req[r].token = t
<1>0. PICK k \in critical : \E i \in 2..Len(params'[k]) : params'[k][i].token = t
  BY CriticalKept DEF Used
<1>1. PICK i \in 2..Len(params'[k]) : params'[k][i].token = t
  BY <1>0
<1>2. k \in Keys
  BY DEF Typed
<1>3. CASE i \in 2..Len(params[k]) /\ params'[k][i] = params[k][i]
  BY <1>1, <1>3 DEF Used
<1>4. ASSUME NEW r \in Requests, Insert(r), k = req[r].key, params'[k][i] = NewRow(r)
      PROVE  Critical(r) /\ req[r].token = t
  BY <1>1, <1>4, SMTT(90) DEF Critical, Insert, Is, NewRow
<1> QED
  BY <1>1, <1>2, <1>3, <1>4, RowOrigin

LEMMA CriticalRequests ==
  ASSUME Typed, PickedRow, TokensOnce, [Next]_vars, NEW r \in Requests, Critical(r)'
  PROVE  /\ req'[r].token \in 1..Len(previews')
         /\ \A p \in Procs : req'[r].token \notin tokens'[p]
         /\ previews'[req'[r].token] = [key |-> req'[r].key, value |-> req'[r].value, version |-> req'[r].expected]
         /\ req'[r].pc \in {"check", "select", "locked"} =>
              \A k \in critical' : \A i \in 2..Len(params'[k]) : params'[k][i].token # req'[r].token
<1>0. critical' = critical /\ req'[r] # None /\ req'[r].key \in critical
  BY CriticalKept DEF Critical
<1>1. ASSUME req[r] # None, req'[r].key = req[r].key, req'[r].value = req[r].value,
             req'[r].expected = req[r].expected, req'[r].token = req[r].token,
             req'[r].pc \in {"check", "select", "locked"} => req[r].pc \in {"check", "select"} \/ req'[r] = req[r]
      PROVE  /\ req'[r].token \in 1..Len(previews')
             /\ \A p \in Procs : req'[r].token \notin tokens'[p]
             /\ previews'[req'[r].token] = [key |-> req'[r].key, value |-> req'[r].value, version |-> req'[r].expected]
             /\ req'[r].pc \in {"check", "select", "locked"} =>
                  \A k \in critical' : \A i \in 2..Len(params'[k]) : params'[k][i].token # req'[r].token
  <2>0. Critical(r) /\ req[r].token \in 1..Len(previews)
    BY <1>0, <1>1 DEF Critical, TokensOnce
  <2>t. PICK t \in 1..Len(previews) : t = req[r].token
    BY <2>0
  <2>1. Critical(r) /\ ~Held(t)
        /\ previews[t] = [key |-> req[r].key, value |-> req[r].value, version |-> req[r].expected]
    BY <2>0, <2>t DEF TokensOnce
  <2>2. t \in 1..Len(previews') /\ previews'[t] = previews[t] /\ ~Held(t)'
    BY <2>1, TokensGone
  <2>3. ASSUME req'[r].pc \in {"check", "select", "locked"} PROVE ~Used(t)'
    <3>1. ~Used(t)
      BY <1>1, <2>t, <2>1, <2>3 DEF TokensOnce
    <3>2. ASSUME NEW s \in Requests, Insert(s), Critical(s), req[s].token = t PROVE FALSE
      <4>1. s = r
        BY <2>t, <2>1, <3>2 DEF TokensOnce
      <4>2. req'[r].pc = "load" /\ req[r].pc = "locked"
        BY <3>2, <4>1 DEF Insert, Step, Is, Typed, IRequest
      <4> QED
        BY <1>1, <2>3, <4>2
    <3> QED
      BY <3>1, <3>2, UsedGrows
  <2> QED
    BY <1>1, <2>t, <2>1, <2>2, <2>3 DEF Held, Used
<1>2. CASE req'[r] = req[r]
  BY <1>0, <1>1, <1>2
<1>3. CASE /\ req[r] # None /\ req'[r] \in IRequest
           /\ req'[r] = [req[r] EXCEPT !.pc = req'[r].pc, !.cur = req'[r].cur, !.values = req'[r].values]
           /\ \/ req'[r].pc \notin {"check", "select", "locked"}
              \/ Is(r, "check") /\ req'[r].pc = "select"
              \/ SelectCurrent(r)
  BY <1>1, <1>3, RequestKeeps DEF SelectCurrent, Is
<1>4. ASSUME NEW p \in Procs, NEW k \in Keys, NEW v \in Values, NEW i \in Idems \cup {None},
             NEW n \in 0..Len(params[k]), Begin(r, p, k, v, n, i)
      PROVE  /\ req'[r].token \in 1..Len(previews')
             /\ \A q \in Procs : req'[r].token \notin tokens'[q]
             /\ previews'[req'[r].token] = [key |-> req'[r].key, value |-> req'[r].value, version |-> req'[r].expected]
             /\ \A c \in critical' : \A j \in 2..Len(params'[c]) : params'[c][j].token # req'[r].token
  <2>1. Held(req'[r].token) /\ req'[r].token \in 1..Len(previews)
        /\ previews[req'[r].token] = [key |-> req'[r].key, value |-> req'[r].value, version |-> req'[r].expected]
        /\ \A q \in Procs : req'[r].token \notin tokens'[q]
    BY <1>0, <1>4, BeginHolds
  <2>2. UNCHANGED <<previews, params>>
    BY <1>4 DEF Begin
  <2>3. \A c \in critical : \A j \in 2..Len(params[c]) : params[c][j].token # req'[r].token
    BY <2>1 DEF TokensOnce
  <2> QED
    BY <1>0, <2>1, <2>2, <2>3
<1> QED
  BY <1>0, <1>2, <1>3, <1>4, RequestsMove

LEMMA TokensOnceStep ==
  ASSUME Typed, PickedRow, TokensOnce, [Next]_vars
  PROVE  TokensOnce'
<1>1. \A p, q \in Procs : p # q => tokens'[p] \cap tokens'[q] = {}
  <2>1. CASE Shrinks
    BY <2>1 DEF Shrinks, TokensOnce
  <2>2. ASSUME NEW s \in Procs, NEW k \in Keys, NEW v \in Values, Issue(s, k, v)
        PROVE  \A p, q \in Procs : p # q => tokens'[p] \cap tokens'[q] = {}
    <3> DEFINE diff == [key |-> k, value |-> v, version |-> Len(params[k])]
               new == Len(previews')
    <3>1. diff \in IDiff /\ previews \in Seq(IDiff) /\ previews' = Append(previews, diff)
      BY <2>2 DEF Typed, IDiff, Issue
    <3> HIDE DEF diff
    <3>2. new = Len(previews) + 1 /\ Len(previews) \in Nat
      BY <3>1
    <3>3. tokens' = [tokens EXCEPT ![s] = @ \cup {new}]
      BY <2>2 DEF Issue
    <3> HIDE DEF new
    <3>4. \A p \in Procs : new \notin tokens[p]
      BY <3>2 DEF Typed
    <3> QED
      BY <3>3, <3>4 DEF Typed, TokensOnce
  <2> QED
    BY <2>1, <2>2, TokensMove
<1>2. \A i \in 1..Len(previews') : previews'[i].version >= 1
  <2>1. CASE Shrinks
    BY <2>1 DEF Shrinks, TokensOnce
  <2>2. ASSUME NEW s \in Procs, NEW k \in Keys, NEW v \in Values, Issue(s, k, v), NEW i \in 1..Len(previews')
        PROVE  previews'[i].version >= 1
    <3> DEFINE diff == [key |-> k, value |-> v, version |-> Len(params[k])]
    <3>1. diff \in IDiff /\ previews \in Seq(IDiff) /\ previews' = Append(previews, diff)
      BY <2>2 DEF Typed, IDiff, Issue
    <3>2. params[k] \in Seq(Row) /\ params[k] # <<>>
      BY <2>2 DEF Typed, Issue
    <3>3. diff.version >= 1
      BY <3>2
    <3> HIDE DEF diff
    <3>4. CASE i \in 1..Len(previews)
      BY <3>1, <3>4 DEF TokensOnce
    <3>5. CASE i = Len(previews) + 1
      BY <3>1, <3>3, <3>5
    <3> QED
      BY <3>1, <3>4, <3>5
  <2> QED
    BY <2>1, <2>2, TokensMove
<1>3. \A r \in Requests : Critical(r)' =>
        /\ req'[r].token \in 1..Len(previews') /\ \A p \in Procs : req'[r].token \notin tokens'[p]
        /\ previews'[req'[r].token] = [key |-> req'[r].key, value |-> req'[r].value, version |-> req'[r].expected]
        /\ req'[r].pc \in {"check", "select", "locked"} =>
             \A k \in critical' : \A i \in 2..Len(params'[k]) : params'[k][i].token # req'[r].token
  BY CriticalRequests
<1>4. ASSUME NEW r \in Requests, NEW s \in Requests, r # s, Critical(r)', Critical(s)'
      PROVE  req'[r].token # req'[s].token
  <2>0. \A u \in Requests : Critical(u)' => req'[u] # None /\ req'[u].key \in critical
    BY CriticalKept DEF Critical
  <2>1. ASSUME NEW u \in Requests, Critical(u)'
        PROVE  \/ Critical(u) /\ req'[u].token = req[u].token
               \/ /\ \A w \in Requests : w # u => req'[w] = req[w]
                  /\ Held(req'[u].token)
    <3>1. CASE req'[u] = req[u]
      BY <2>0, <2>1, <3>1 DEF Critical
    <3>2. CASE /\ req[u] # None /\ req'[u] \in IRequest
               /\ req'[u] = [req[u] EXCEPT !.pc = req'[u].pc, !.cur = req'[u].cur, !.values = req'[u].values]
      BY <2>0, <2>1, <3>2, RequestKeeps DEF Critical
    <3>3. ASSUME NEW p \in Procs, NEW k \in Keys, NEW v \in Values, NEW i \in Idems \cup {None},
                 NEW n \in 0..Len(params[k]), Begin(u, p, k, v, n, i)
          PROVE  (\A w \in Requests : w # u => req'[w] = req[w]) /\ Held(req'[u].token)
      BY <2>0, <2>1, <3>3, BeginHolds
    <3> QED
      BY <2>0, <2>1, <3>1, <3>2, <3>3, RequestsMove
  <2>2. \A u \in Requests : Critical(u) => ~Held(req[u].token)
    BY DEF TokensOnce
  <2>3. \A u, w \in Requests : u # w /\ Critical(u) /\ Critical(w) => req[u].token # req[w].token
    BY DEF TokensOnce
  <2>4. \A u, w \in Requests : Critical(w)' /\ req'[w] = req[w] => Critical(w)
    BY <2>0 DEF Critical
  <2> QED
    BY <1>4, <2>1, <2>2, <2>3, <2>4
<1>5. ASSUME NEW k \in critical, NEW i \in 2..Len(params'[k])
      PROVE  params'[k][i].token \in 1..Len(previews') /\ \A p \in Procs : params'[k][i].token \notin tokens'[p]
  <2>1. k \in Keys
    BY DEF Typed
  <2>2. params'[k][i].token \in 1..Len(previews) /\ ~Held(params'[k][i].token)
    <3>1. CASE i \in 2..Len(params[k]) /\ params'[k][i] = params[k][i]
      BY <3>1 DEF TokensOnce
    <3>2. ASSUME NEW r \in Requests, Insert(r), k = req[r].key, params'[k][i] = NewRow(r)
          PROVE  params'[k][i].token \in 1..Len(previews) /\ ~Held(params'[k][i].token)
      <4>1. Critical(r) /\ params'[k][i].token = req[r].token
        BY <3>2 DEF Critical, Insert, Is, NewRow
      <4> QED
        BY <4>1 DEF TokensOnce
    <3> QED
      BY <2>1, <3>1, <3>2, RowOrigin
  <2>3. PICK t \in 1..Len(previews) : t = params'[k][i].token
    BY <2>2
  <2>4. t \in 1..Len(previews') /\ ~Held(t)'
    BY <2>2, <2>3, TokensGone
  <2> QED
    BY <2>3, <2>4 DEF Held
<1> QED
  BY <1>1, <1>2, <1>3, <1>4, <1>5, CriticalKept DEF TokensOnce, Held, Used

LEMMA ConfirmedStep ==
  ASSUME Typed, PickedRow, TokensOnce, CriticalIsConfirmed, [Next]_vars
  PROVE  CriticalIsConfirmed'
<1>0. critical' = critical /\ critical \subseteq Keys
  BY CriticalKept DEF Typed
<1>1. ASSUME NEW k \in critical, NEW i \in 2..Len(params'[k]), NEW r \in Requests,
             Insert(r), k = req[r].key, i = Len(params[k]) + 1, params'[k][i] = NewRow(r)
      PROVE  /\ params'[k][i].token = req[r].token /\ ~Used(req[r].token)
             /\ previews[req[r].token] = [key |-> k, value |-> params'[k][i].value, version |-> i - 1]
  <2>1. Critical(r) /\ req[r].pc = "locked"
    BY <1>1 DEF Critical, Insert, Is
  <2>2. req[r].token \in 1..Len(previews) /\ ~Used(req[r].token)
        /\ previews[req[r].token] = [key |-> k, value |-> req[r].value, version |-> req[r].expected]
    BY <1>1, <2>1 DEF TokensOnce
  <2>3. req[r].expected = previews[req[r].token].version
    BY <2>2
  <2>4. req[r].expected >= 1 /\ req[r].expected \in Nat
    BY <2>1, <2>2, <2>3 DEF TokensOnce, Typed, IRequest, Critical
  <2>5. req[r].expected = req[r].cur
    BY <1>1, <2>4 DEF Insert, Expected
  <2>6. req[r].cur = Len(params[k]) /\ Len(params[k]) \in Nat
    BY <1>1, InsertAdds
  <2>7. params'[k][i].token = req[r].token /\ params'[k][i].value = req[r].value
    BY <1>1 DEF NewRow
  <2> QED
    BY <1>1, <2>2, <2>5, <2>6, <2>7
<1>2. ASSUME NEW k \in critical, NEW i \in 2..Len(params'[k])
      PROVE  previews'[params'[k][i].token] = [key |-> k, value |-> params'[k][i].value, version |-> i - 1]
  <2>1. /\ params'[k][i].token \in 1..Len(previews)
        /\ previews[params'[k][i].token] = [key |-> k, value |-> params'[k][i].value, version |-> i - 1]
    <3>1. CASE i \in 2..Len(params[k]) /\ params'[k][i] = params[k][i]
      BY <3>1 DEF CriticalIsConfirmed, Previewed, TokensOnce
    <3>2. ASSUME NEW r \in Requests, Insert(r), k = req[r].key, i = Len(params[k]) + 1, params'[k][i] = NewRow(r)
          PROVE  req[r].token \in 1..Len(previews)
      BY <3>2 DEF TokensOnce, Critical, Insert, Is
    <3> QED
      BY <1>0, <1>1, <3>1, <3>2, RowOrigin
  <2>2. PICK t \in 1..Len(previews) : t = params'[k][i].token
    BY <2>1
  <2>3. previews'[t] = previews[t]
    BY TokensGone
  <2> QED
    BY <2>1, <2>2, <2>3
<1>3. ASSUME NEW k \in critical, NEW i \in 2..Len(params'[k]), NEW c \in critical, NEW j \in 2..Len(params'[c]),
             params'[c][j].token = params'[k][i].token
      PROVE  c = k /\ j = i
  <2>1. CASE /\ i \in 2..Len(params[k]) /\ params'[k][i] = params[k][i]
             /\ j \in 2..Len(params[c]) /\ params'[c][j] = params[c][j]
    <3>1. params[c][j].token = params[k][i].token
      BY <1>3, <2>1
    <3> QED
      BY <2>1, <3>1 DEF CriticalIsConfirmed
  <2>2. ASSUME NEW r \in Requests, Insert(r), k = req[r].key, i = Len(params[k]) + 1, params'[k][i] = NewRow(r),
               j \in 2..Len(params[c]), params'[c][j] = params[c][j]
        PROVE  FALSE
    <3>1. params'[k][i].token = req[r].token /\ ~Used(req[r].token)
      BY <1>1, <2>2
    <3> QED
      BY <1>3, <2>2, <3>1 DEF Used
  <2>3. ASSUME NEW r \in Requests, Insert(r), c = req[r].key, j = Len(params[c]) + 1, params'[c][j] = NewRow(r),
               i \in 2..Len(params[k]), params'[k][i] = params[k][i]
        PROVE  FALSE
    <3>1. params'[c][j].token = req[r].token /\ ~Used(req[r].token)
      BY <1>1, <2>3
    <3> QED
      BY <1>3, <2>3, <3>1 DEF Used
  <2>4. ASSUME NEW r \in Requests, Insert(r), k = req[r].key, i = Len(params[k]) + 1, params'[k][i] = NewRow(r),
               NEW s \in Requests, Insert(s), c = req[s].key, j = Len(params[c]) + 1, params'[c][j] = NewRow(s)
        PROVE  c = k /\ j = i
    <3>1. params'[k][i].token = req[r].token /\ params'[c][j].token = req[s].token
      BY <1>1, <2>4
    <3>2. Critical(r) /\ Critical(s)
      BY <2>4 DEF Critical, Insert, Is
    <3>3. req[r].token = req[s].token
      BY <1>3, <3>1
    <3>4. r = s
      BY <3>2, <3>3 DEF TokensOnce
    <3> QED
      BY <2>4, <3>4
  <2> QED
    BY <1>0, <2>1, <2>2, <2>3, <2>4, RowOrigin
<1>4. \A k \in critical : \A i \in 2..Len(params'[k]) : Previewed(k, i)'
  BY <1>2 DEF Previewed
<1> QED
  BY <1>0, <1>3, <1>4 DEF CriticalIsConfirmed

-----------------------------------------------------------------------------
(* How many versions there can be, and that nobody is ahead of them. *)

Begins(r) ==
  \E p \in Procs, k \in Keys, v \in Values, i \in Idems \cup {None} :
    \E n \in 0..Len(params[k]) : Begin(r, p, k, v, n, i)

\* What takes from the bounds: an apply, or the end of a process.
LEMMA CountersMove ==
  ASSUME [Next]_vars
  PROVE  \/ UNCHANGED <<applies, stops>>
         \/ applies < MaxApplies /\ applies' = applies + 1 /\ UNCHANGED <<stops, params>>
            /\ \E r \in Requests : Begins(r)
         \/ stops < MaxStops /\ stops' = stops + 1 /\ UNCHANGED applies
<1>1. ASSUME NEW p \in Procs, Run(p) \/ Seed(p) \/ FirstSnapshot(p)
      PROVE  UNCHANGED <<applies, stops>>
  BY <1>1 DEF Run, configVars, Seed, FirstSnapshot
<1>2. ASSUME NEW p \in Procs, Exit(p)
      PROVE  stops < MaxStops /\ stops' = stops + 1 /\ UNCHANGED applies
  BY <1>2 DEF Exit
<1>3. ASSUME NEW r \in Requests, Apply(r) PROVE UNCHANGED <<applies, stops>>
  BY <1>3 DEF Apply, CheckIdempotency, SelectCurrent, Insert, LoadAgain, StoreSnapshot, Refused, Fails
<1>4. ASSUME NEW p \in Procs,
             \/ \E c \in Keys, v \in Values : Preview(p, c, v)
             \/ \E t \in Tokens : Expire(p, t)
      PROVE  UNCHANGED <<applies, stops>>
  BY <1>4 DEF Preview, Expire
<1>5. ASSUME NEW r \in Requests, Begins(r)
      PROVE  applies < MaxApplies /\ applies' = applies + 1 /\ UNCHANGED <<stops, params>>
  BY <1>5 DEF Begins, Begin
<1>6. CASE UNCHANGED vars
  BY <1>6 DEF vars, configVars
<1> QED
  BY <1>1, <1>2, <1>3, <1>4, <1>5, <1>6 DEF Next, Begins

\* Only a request that begins is added to those that wait.
LEMMA WaitingFrom ==
  ASSUME Typed, [Next]_vars, NEW k \in Keys, NEW r \in Waiting(k)', r \notin Waiting(k)
  PROVE  Begins(r)
<1>1. r \in Requests /\ req'[r] # None /\ req'[r].key = k /\ req'[r].pc \in {"check", "select", "locked"}
  BY DEF Waiting
<1>2. ~(req'[r] = req[r])
  BY <1>1 DEF Waiting
<1>3. ASSUME req[r] # None, req'[r] = [req[r] EXCEPT !.pc = req'[r].pc, !.cur = req'[r].cur, !.values = req'[r].values],
             Is(r, "check") \/ SelectCurrent(r)
      PROVE  FALSE
  <2>1. req[r] \in IRequest
    BY <1>1, <1>3 DEF Typed
  <2>2. req[r].key = k
    BY <1>1, <1>3, <2>1 DEF IRequest
  <2>3. req[r].pc \in {"check", "select"}
    BY <1>3 DEF SelectCurrent, Is
  <2> QED
    BY <1>1, <1>3, <2>2, <2>3 DEF Waiting
<1> QED
  BY <1>1, <1>2, <1>3, RequestsMove DEF Begins

LEMMA OneBegins ==
  ASSUME Typed, NEW r \in Requests, Begins(r), NEW s \in Requests, Begins(s)
  PROVE  r = s \/ req' = req
<1>0. req \in [Requests -> IRequest \cup {None}]
  BY DEF Typed
<1>1. \A q \in Requests : q # r => req'[q] = req[q]
  BY <1>0 DEF Begins, Begin
<1>2. \A q \in Requests : q # s => req'[q] = req[q]
  BY <1>0 DEF Begins, Begin
<1>3. \E x : req' = req \/ req' = [req EXCEPT ![r] = x]
  BY DEF Begins, Begin
<1>4. req' \in [Requests -> IRequest \cup {None, req'[r]}]
  BY <1>0, <1>3
<1> QED
  BY <1>0, <1>1, <1>2, <1>4

LEMMA CountedStep ==
  ASSUME Typed, PickedRow, Counted, [Next]_vars
  PROVE  Counted'
<1>0. applies \in Nat /\ stops \in Nat /\ applies' \in 0..MaxApplies /\ stops' \in 0..MaxStops
  BY CountersMove, ConfigAssumption DEF Counted
<1> SUFFICES ASSUME NEW k \in Keys
             PROVE  /\ IsFiniteSet(Waiting(k)') /\ Cardinality(Waiting(k)') <= applies'
                    /\ Len(params'[k]) + Cardinality(Waiting(k)') <= applies' + 1
  BY <1>0 DEF Counted
<1>1. /\ IsFiniteSet(Waiting(k)) /\ Cardinality(Waiting(k)) \in Nat /\ Cardinality(Waiting(k)) <= applies
      /\ Len(params[k]) + Cardinality(Waiting(k)) <= applies + 1
  BY FS_CardinalityType DEF Counted
<1>2. Len(params[k]) \in Nat /\ Len(params'[k]) \in Nat
  BY VersionsStay
<1>3. ASSUME NEW r \in Requests, Begins(r) PROVE
        /\ IsFiniteSet(Waiting(k)') /\ Cardinality(Waiting(k)') <= applies'
        /\ Len(params'[k]) + Cardinality(Waiting(k)') <= applies' + 1
  <2>1. applies' = applies + 1 /\ params' = params
    BY <1>3 DEF Begins, Begin
  <2>2. Waiting(k)' \subseteq Waiting(k) \cup {r}
    <3> SUFFICES ASSUME NEW s \in Waiting(k)', s \notin Waiting(k) PROVE s = r
      OBVIOUS
    <3>1. s \in Requests /\ Begins(s)
      BY WaitingFrom DEF Waiting
    <3>2. req' # req
      BY DEF Waiting
    <3> QED
      BY <1>3, <3>1, <3>2, OneBegins
  <2>3. /\ IsFiniteSet(Waiting(k) \cup {r})
        /\ Cardinality(Waiting(k) \cup {r}) <= Cardinality(Waiting(k)) + 1
    <3>1. /\ IsFiniteSet(Waiting(k) \cup {r})
          /\ Cardinality(Waiting(k) \cup {r}) =
               IF r \in Waiting(k) THEN Cardinality(Waiting(k)) ELSE Cardinality(Waiting(k)) + 1
      BY <1>1, FS_AddElement
    <3> QED
      BY <1>1, <3>1
  <2>4. /\ IsFiniteSet(Waiting(k)') /\ Cardinality(Waiting(k)') \in Nat
        /\ Cardinality(Waiting(k)') <= Cardinality(Waiting(k) \cup {r})
    BY <2>2, <2>3, FS_Subset, FS_CardinalityType
  <2>5. Cardinality(Waiting(k) \cup {r}) \in Nat
    BY <2>3, FS_CardinalityType
  <2>6. Cardinality(Waiting(k)') <= Cardinality(Waiting(k)) + 1
    BY <1>1, <2>3, <2>4, <2>5
  <2> QED
    BY <1>0, <1>1, <1>2, <2>1, <2>4, <2>6
<1>4. CASE \A r \in Requests : ~Begins(r)
  <2>1. applies' = applies
    BY <1>4, CountersMove
  <2>2. Waiting(k)' \subseteq Waiting(k)
    BY <1>4, WaitingFrom DEF Waiting
  <2>3. /\ IsFiniteSet(Waiting(k)') /\ Cardinality(Waiting(k)') \in Nat
        /\ Cardinality(Waiting(k)') <= Cardinality(Waiting(k))
    BY <1>1, <2>2, FS_Subset, FS_CardinalityType
  <2>4. CASE params'[k] = params[k]
    BY <1>0, <1>1, <1>2, <2>1, <2>3, <2>4
  <2>5. CASE Len(params'[k]) = 1
    BY <1>0, <1>1, <2>1, <2>3, <2>5
  <2>6. ASSUME NEW r \in Requests, Insert(r), k = req[r].key
        PROVE  Len(params'[k]) + Cardinality(Waiting(k)') <= applies' + 1
    <3>1. params'[k] = Append(params[k], NewRow(r))
      BY <2>6, InsertAdds
    <3>2. Len(params'[k]) = Len(params[k]) + 1
      BY <3>1 DEF Typed
    <3>3. req[r] # None /\ req[r].pc = "locked" /\ req' = [req EXCEPT ![r].pc = "load"] /\ req[r] \in IRequest
      BY <2>6 DEF Insert, Is, Step, Typed
    <3>4. req'[r].pc = "load"
      BY <3>3 DEF Typed, IRequest
    <3>5. r \in Waiting(k) /\ r \notin Waiting(k)'
      BY <2>6, <3>3, <3>4 DEF Waiting
    <3>6. Waiting(k)' \subseteq Waiting(k) \ {r}
      BY <2>2, <3>5
    <3>7. IsFiniteSet(Waiting(k) \ {r}) /\ Cardinality(Waiting(k) \ {r}) = Cardinality(Waiting(k)) - 1
      BY <1>1, <3>5, FS_RemoveElement
    <3>8. Cardinality(Waiting(k)') <= Cardinality(Waiting(k)) - 1
      BY <3>6, <3>7, FS_Subset
    <3> QED
      BY <1>0, <1>1, <1>2, <2>1, <2>3, <3>2, <3>8
  <2>7. \/ params'[k] = params[k] \/ Len(params'[k]) = 1
        \/ \E r \in Requests : Insert(r) /\ k = req[r].key
    BY VersionsMove, SeedingAdds, SeededRow, InsertAdds DEF VersionsKept
  <2>8. Len(params'[k]) + Cardinality(Waiting(k)') <= applies' + 1
    BY <1>0, <1>1, <1>2, <2>1, <2>3, <2>4, <2>5, <2>6, <2>7
  <2> QED
    BY <1>0, <1>1, <2>1, <2>3, <2>8
<1> QED
  BY <1>3, <1>4

\* What was written stays written.
WrittenThen(f) == \A k \in Keys : f[k] <= Len(params'[k])

LEMMA WrittenKept ==
  ASSUME Typed, PickedRow, [Next]_vars, NEW f \in [Keys -> Nat], Written(f)
  PROVE  WrittenThen(f)
<1>1. \A k \in Keys : f[k] <= Len(params'[k])
  <2> SUFFICES ASSUME NEW k \in Keys PROVE f[k] <= Len(params'[k])
    OBVIOUS
  <2>1. f[k] \in Nat /\ f[k] <= Len(params[k])
    BY DEF Written
  <2> QED
    BY <2>1, VersionsStay
<1> QED
  BY <1>1 DEF WrittenThen

\* The snapshot that is loaded is of versions that are there.
LEMMA LoadedIsWritten ==
  ASSUME Typed
  PROVE  LoadConfigValues \in [Keys -> Nat] /\ Written(LoadConfigValues)
<1>1. \A k \in Keys : Len(params[k]) \in Nat
  BY DEF Typed
<1>2. \A k \in Keys : Effective(k) <= Len(params[k])
  BY <1>1 DEF Effective
<1> QED
  BY <1>2, EffectiveNat DEF LoadConfigValues, Written

\* What a step does to the snapshots.
LEMMA SnapshotsMove ==
  ASSUME [Next]_vars
  PROVE  \/ UNCHANGED snap
         \/ \E p \in Procs : \/ snap' = [snap EXCEPT ![p] = LoadConfigValues]
                             \/ snap' = [snap EXCEPT ![p] = None]
         \/ \E r \in Requests : req[r] # None /\ snap' = [snap EXCEPT ![req[r].proc] = req[r].values]
<1>1. ASSUME NEW p \in Procs, Run(p) \/ Seed(p) PROVE UNCHANGED snap
  BY <1>1 DEF Run, configVars, Seed
<1>2. ASSUME NEW p \in Procs, FirstSnapshot(p) PROVE snap' = [snap EXCEPT ![p] = LoadConfigValues]
  BY <1>2 DEF FirstSnapshot
<1>3. ASSUME NEW p \in Procs, Exit(p) PROVE snap' = [snap EXCEPT ![p] = None]
  BY <1>3 DEF Exit
<1>4. ASSUME NEW r \in Requests, Apply(r)
      PROVE  UNCHANGED snap \/ (req[r] # None /\ snap' = [snap EXCEPT ![req[r].proc] = req[r].values])
  BY <1>4 DEF Apply, CheckIdempotency, SelectCurrent, Insert, LoadAgain, StoreSnapshot, Refused, Fails, Is
<1>5. ASSUME NEW p \in Procs,
             \/ \E c \in Keys, v \in Values : Preview(p, c, v)
             \/ \E t \in Tokens : Expire(p, t)
             \/ \E r \in Requests, c \in Keys, v \in Values, i \in Idems \cup {None} :
                  \E n \in 0..Len(params[c]) : Begin(r, p, c, v, n, i)
      PROVE  UNCHANGED snap
  BY <1>5, ZenonT(60) DEF Preview, Expire, Begin
<1>6. CASE UNCHANGED vars
  BY <1>6 DEF vars, configVars
<1> QED
  BY <1>1, <1>2, <1>3, <1>4, <1>5, <1>6 DEF Next

\* A request that moves has seen what it had seen, its row or a new snapshot.
LEMMA RequestSees ==
  ASSUME Typed, [Next]_vars, NEW r \in Requests, req'[r] # None, req'[r] # req[r]
  PROVE  \/ /\ req[r] # None /\ req[r] \in IRequest
            /\ req'[r].key = req[r].key /\ req'[r].expected = req[r].expected
            /\ req'[r].cur = req[r].cur \/ req'[r].cur = Len(params[req[r].key])
            /\ req'[r].values = req[r].values \/ req'[r].values = LoadConfigValues
         \/ /\ req'[r].key \in Keys /\ req'[r].expected \in 0..Len(params[req'[r].key])
            /\ req'[r].cur = 0 /\ req'[r].values = None
<1>0. req \in [Requests -> IRequest \cup {None}]
  BY DEF Typed
<1>1. CASE Begins(r)
  <2>1. PICK p \in Procs, k \in Keys, v \in Values, i \in Idems \cup {None} :
               \E n \in 0..Len(params[k]) : Begin(r, p, k, v, n, i)
    BY <1>1 DEF Begins
  <2>2. PICK n \in 0..Len(params[k]) : Begin(r, p, k, v, n, i)
    BY <2>1
  <2> DEFINE new(t) == [pc |-> "check", proc |-> p, key |-> k, value |-> v, expected |-> n,
                        idem |-> i, token |-> t, cur |-> 0, values |-> None]
  <2>3. \E t : req' = [req EXCEPT ![r] = new(t)]
    BY <1>0, <2>2 DEF Begin
  <2>4. PICK t : req'[r] = new(t)
    BY <1>0, <2>3
  <2> QED
    BY <2>4
<1>2. ASSUME NEW s \in Requests, Apply(s)
      PROVE  /\ req[r] # None /\ req[r] \in IRequest
             /\ req'[r].key = req[r].key /\ req'[r].expected = req[r].expected
             /\ req'[r].cur = req[r].cur \/ req'[r].cur = Len(params[req[r].key])
             /\ req'[r].values = req[r].values \/ req'[r].values = LoadConfigValues
  <2>1. CASE CheckIdempotency(s)
    <3>1. PICK pc \in {"load", "select"} : req' = [req EXCEPT ![s].pc = pc] /\ req[s] # None
      BY <2>1 DEF CheckIdempotency, Step, Is
    <3>2. r = s /\ req[r] \in IRequest
      BY <1>0, <3>1
    <3> QED
      BY <1>0, <3>1, <3>2 DEF IRequest
  <2>2. CASE SelectCurrent(s)
    <3> DEFINE x == [req[s] EXCEPT !.pc = "locked", !.cur = Len(params[req[s].key])]
    <3>1. req' = [req EXCEPT ![s] = x] /\ req[s] # None
      BY <1>0, <2>2 DEF SelectCurrent, Is
    <3>2. r = s /\ req[r] \in IRequest
      BY <1>0, <3>1
    <3>3. req'[r] = x
      BY <1>0, <3>1, <3>2
    <3> QED
      BY <3>1, <3>2, <3>3 DEF IRequest
  <2>3. CASE Insert(s)
    <3>1. req' = [req EXCEPT ![s].pc = "load"] /\ req[s] # None
      BY <2>3 DEF Insert, Step, Is
    <3>2. r = s /\ req[r] \in IRequest
      BY <1>0, <3>1
    <3> QED
      BY <1>0, <3>1, <3>2 DEF IRequest
  <2>4. CASE LoadAgain(s)
    <3> DEFINE x == [req[s] EXCEPT !.pc = "store", !.values = LoadConfigValues]
    <3>1. req' = [req EXCEPT ![s] = x] /\ req[s] # None
      BY <1>0, <2>4 DEF LoadAgain, Is
    <3>2. r = s /\ req[r] \in IRequest
      BY <1>0, <3>1
    <3>3. req'[r] = x
      BY <1>0, <3>1, <3>2
    <3> QED
      BY <3>1, <3>2, <3>3 DEF IRequest
  <2>5. CASE StoreSnapshot(s) \/ Refused(s) \/ Fails(s)
    <3>1. req' = [req EXCEPT ![s] = None]
      BY <2>5 DEF StoreSnapshot, Refused, Fails, End
    <3> QED
      BY <1>0, <3>1
  <2> QED
    BY <1>2, <2>1, <2>2, <2>3, <2>4, <2>5 DEF Apply
<1>3. ASSUME NEW p \in Procs, Run(p) \/ Seed(p) \/ FirstSnapshot(p) \/ Exit(p)
      PROVE  FALSE
  BY <1>0, <1>3 DEF Run, configVars, Seed, FirstSnapshot, Exit
<1>4. ASSUME NEW p \in Procs,
             \/ \E c \in Keys, v \in Values : Preview(p, c, v)
             \/ \E t \in Tokens : Expire(p, t)
      PROVE  FALSE
  BY <1>4 DEF Preview, Expire
<1>5. ASSUME NEW s \in Requests, s # r, Begins(s) PROVE FALSE
  BY <1>0, <1>5 DEF Begins, Begin
<1>6. CASE UNCHANGED vars
  BY <1>6 DEF vars, configVars
<1> QED
  BY <1>1, <1>2, <1>3, <1>4, <1>5, <1>6 DEF Next, Begins

\* What a step does to the tokens' history.
LEMMA PreviewsMove ==
  ASSUME [Next]_vars
  PROVE  \/ UNCHANGED previews
         \/ \E k \in Keys, v \in Values :
              /\ previews' = Append(previews, [key |-> k, value |-> v, version |-> Len(params[k])])
              /\ UNCHANGED params
<1>1. ASSUME NEW p \in Procs, Run(p) \/ Seed(p) \/ FirstSnapshot(p) \/ Exit(p) PROVE UNCHANGED previews
  BY <1>1 DEF Run, configVars, Seed, FirstSnapshot, Exit
<1>2. ASSUME NEW r \in Requests, Apply(r) \/ Begins(r) PROVE UNCHANGED previews
  BY <1>2 DEF Apply, CheckIdempotency, SelectCurrent, Insert, LoadAgain, StoreSnapshot, Refused, Fails, Begins, Begin
<1>3. ASSUME NEW p \in Procs, NEW k \in Keys, NEW v \in Values, Preview(p, k, v)
      PROVE  /\ previews' = Append(previews, [key |-> k, value |-> v, version |-> Len(params[k])])
             /\ UNCHANGED params
  BY <1>3 DEF Preview
<1>4. ASSUME NEW p \in Procs, NEW t \in Tokens, Expire(p, t) PROVE UNCHANGED previews
  BY <1>4 DEF Expire
<1>5. CASE UNCHANGED vars
  BY <1>5 DEF vars, configVars
<1> QED
  BY <1>1, <1>2, <1>3, <1>4, <1>5 DEF Next, Begins

LEMMA SeenStep ==
  ASSUME Typed, PickedRow, SeenIsWritten, [Next]_vars
  PROVE  SeenIsWritten'
<1>w. \A f \in [Keys -> Nat] : Written(f) => WrittenThen(f)
  BY WrittenKept
<1>0. LoadConfigValues \in [Keys -> Nat] /\ WrittenThen(LoadConfigValues)
  BY <1>w, LoadedIsWritten
<1>1. \A r \in Requests : req[r] # None => req[r] \in IRequest /\ req[r].key \in Keys
  BY DEF Typed, IRequest
<1>2. \A r \in Requests : req[r] # None /\ req[r].values # None =>
        req[r].values \in [Keys -> Nat] /\ WrittenThen(req[r].values)
  <2> SUFFICES ASSUME NEW r \in Requests, req[r] # None, req[r].values # None
               PROVE  req[r].values \in [Keys -> Nat] /\ WrittenThen(req[r].values)
    OBVIOUS
  <2>1. req[r].values \in [Keys -> Nat] /\ Written(req[r].values)
    BY <1>1 DEF IRequest, SeenIsWritten
  <2> QED
    BY <1>w, <2>1
<1>3. /\ snap' \in [Procs -> [Keys -> Nat] \cup {None}]
      /\ \A p \in Procs : snap'[p] # None => WrittenThen(snap'[p])
  <2> DEFINE Good(f) == f = None \/ (f \in [Keys -> Nat] /\ WrittenThen(f))
  <2>1. \A f \in [Keys -> Nat] : Written(f) => Good(f)
    BY <1>w
  <2>2. \A p \in Procs : Good(snap[p])
    <3> SUFFICES ASSUME NEW p \in Procs PROVE Good(snap[p])
      OBVIOUS
    <3>1. snap[p] # None => snap[p] \in [Keys -> Nat] /\ Written(snap[p])
      BY DEF SeenIsWritten
    <3> QED
      BY <2>1, <3>1
  <2>3. Good(LoadConfigValues) /\ Good(None)
    BY <1>0
  <2>4. \A r \in Requests : req[r] # None => Good(req[r].values)
    BY <1>2
  <2> HIDE DEF Good
  <2>5. \E g \in [Procs -> {snap[p] : p \in Procs} \cup {LoadConfigValues, None}
                   \cup {req[r].values : r \in {q \in Requests : req[q] # None}}] : snap' = g
    <3>1. snap \in [Procs -> {snap[p] : p \in Procs}]
      BY DEF SeenIsWritten
    <3> QED
      BY <3>1, SnapshotsMove
  <2>6. DOMAIN snap' = Procs /\ snap' = [p \in Procs |-> snap'[p]] /\ \A p \in Procs : Good(snap'[p])
    BY <2>2, <2>3, <2>4, <2>5
  <2>7. \A p \in Procs : snap'[p] \in [Keys -> Nat] \cup {None} /\ (snap'[p] # None => WrittenThen(snap'[p]))
    BY <2>6 DEF Good
  <2> QED
    BY <2>6, <2>7
<1>4. \A i \in 1..Len(previews') : previews'[i].version <= Len(params'[previews'[i].key])
  <2>1. \A i \in 1..Len(previews) :
          previews[i] \in IDiff /\ previews[i].key \in Keys /\ previews[i].version <= Len(params'[previews[i].key])
    <3> SUFFICES ASSUME NEW i \in 1..Len(previews)
                 PROVE  previews[i] \in IDiff /\ previews[i].key \in Keys
                        /\ previews[i].version <= Len(params'[previews[i].key])
      OBVIOUS
    <3>1. previews[i] \in IDiff
      BY DEF Typed
    <3>2. previews[i].key \in Keys /\ previews[i].version \in Nat
      BY <3>1 DEF IDiff
    <3> QED
      BY <3>1, <3>2, VersionsStay DEF SeenIsWritten
  <2>2. CASE UNCHANGED previews
    BY <2>1, <2>2
  <2>3. ASSUME NEW k \in Keys, NEW v \in Values, UNCHANGED params,
               previews' = Append(previews, [key |-> k, value |-> v, version |-> Len(params[k])])
        PROVE  \A i \in 1..Len(previews') : previews'[i].version <= Len(params'[previews'[i].key])
    <3> DEFINE d == [key |-> k, value |-> v, version |-> Len(params[k])]
    <3>1. d.version = Len(params[k]) /\ d.key = k /\ Len(params[k]) \in Nat
      BY DEF Typed
    <3>2. previews' = Append(previews, d) /\ previews \in Seq(IDiff)
      BY <2>3 DEF Typed
    <3> HIDE DEF d
    <3>3. /\ Len(previews') = Len(previews) + 1 /\ previews'[Len(previews) + 1] = d /\ Len(previews) \in Nat
          /\ \A i \in 1..Len(previews) : previews'[i] = previews[i]
      BY <3>2
    <3> QED
      BY <2>1, <2>3, <3>1, <3>3
  <2> QED
    BY <2>2, <2>3, PreviewsMove
<1>5. ASSUME NEW r \in Requests, req'[r] # None
      PROVE  /\ req'[r].expected <= Len(params'[req'[r].key]) /\ req'[r].cur <= Len(params'[req'[r].key])
             /\ req'[r].values # None => WrittenThen(req'[r].values)
  <2>1. CASE req'[r] = req[r]
    <3>1. req[r].expected \in Nat /\ req[r].cur \in Nat /\ req[r].key \in Keys
      BY <1>1, <1>5, <2>1 DEF IRequest
    <3> QED
      BY <1>2, <1>5, <2>1, <3>1, VersionsStay DEF SeenIsWritten
  <2>2. CASE /\ req[r] # None /\ req[r] \in IRequest
             /\ req'[r].key = req[r].key /\ req'[r].expected = req[r].expected
             /\ req'[r].cur = req[r].cur \/ req'[r].cur = Len(params[req[r].key])
             /\ req'[r].values = req[r].values \/ req'[r].values = LoadConfigValues
    <3>1. req[r].expected \in Nat /\ req[r].cur \in Nat /\ req[r].key \in Keys
      BY <2>2 DEF IRequest
    <3>2. req'[r].expected <= Len(params'[req'[r].key]) /\ req'[r].cur <= Len(params'[req'[r].key])
      BY <2>2, <3>1, VersionsStay DEF SeenIsWritten
    <3>3. req'[r].values # None => WrittenThen(req'[r].values)
      BY <1>0, <1>2, <2>2
    <3> QED
      BY <3>2, <3>3
  <2>3. CASE /\ req'[r].key \in Keys /\ req'[r].expected \in 0..Len(params[req'[r].key])
             /\ req'[r].cur = 0 /\ req'[r].values = None
    BY <2>3, VersionsStay
  <2> QED
    BY <1>5, <2>1, <2>2, <2>3, RequestSees
<1>6. \A f : WrittenThen(f) => \A k \in Keys : f[k] <= Len(params'[k])
  BY DEF WrittenThen
<1> QED
  BY <1>3, <1>4, <1>5, <1>6 DEF SeenIsWritten, Written

-----------------------------------------------------------------------------
(* The inductive invariant and the theorems. *)

IInv ==
  /\ Typed /\ Phases /\ SecretsSurvive
  /\ PickedRow /\ VersionsChain /\ AppliedOnce
  /\ TokensOnce /\ CriticalIsConfirmed
  /\ Counted /\ SeenIsWritten

LEMMA InitIInv == Init => IInv
<1> SUFFICES ASSUME Init PROVE IInv
  OBVIOUS
<1>1. Typed
  BY InitTyped
<1>2. Phases
  BY DEF Init, MigrationInit, Phases, At, Down
<1>3. SecretsSurvive
  <2>1. ledger[DropPlaintext] = None
    BY DEF Init, MigrationInit, Files, Tables, DropPlaintext
  <2> QED
    BY <2>1 DEF Init, MigrationInit, SecretsSurvive, Exists
<1>4. \A k \in Keys : params[k] = <<>>
  BY DEF Init
<1>5. PickedRow /\ VersionsChain /\ AppliedOnce
  BY <1>4 DEF Init, PickedRow, Is, VersionsChain, AppliedOnce
<1>6. TokensOnce /\ CriticalIsConfirmed
  BY <1>1, <1>4 DEF Init, Typed, TokensOnce, CriticalIsConfirmed, Critical
<1>7. Counted
  <2>1. \A k \in Keys : Waiting(k) = {}
    BY DEF Init, Waiting
  <2>2. \A k \in Keys : IsFiniteSet(Waiting(k)) /\ Cardinality(Waiting(k)) = 0
    BY <2>1, FS_EmptySet
  <2> QED
    BY <1>4, <2>2, ConfigAssumption DEF Init, Counted
<1>8. SeenIsWritten
  BY DEF Init, SeenIsWritten
<1> QED
  BY <1>1, <1>2, <1>3, <1>5, <1>6, <1>7, <1>8 DEF IInv

LEMMA NextIInv == IInv /\ [Next]_vars => IInv'
BY NextTyped, PhasesStep, SecretsStep, PickedRowStep, ChainStep, OnceStep, TokensOnceStep, ConfirmedStep,
   CountedStep, SeenStep DEF IInv

\* IInv is an invariant.
LEMMA AlwaysIInv == Spec => []IInv
BY InitIInv, NextIInv, PTL DEF Spec

(* The advisory lock is enough: a process that serves and may write found or
   made each file of its own build, and every key has a value, however many
   processes start, stop and are killed at once.  (migrate.go:95-193,
   bootstrap.go:30-53) *)
THEOREM ServesItsSchema == Spec => []UpIsMigrated
<1>1. IInv => UpIsMigrated
  BY DEF IInv, Phases, UpIsMigrated, Ready
<1> QED
  BY <1>1, AlwaysIInv, PTL

(* No credential is lost between the plaintext columns and the ciphertext
   columns, and none stays in plain text once 035 is recorded.
   (credential_migration.go:30-121) *)
THEOREM NoSecretLost == Spec => []SecretsSurvive
<1>1. IInv => SecretsSurvive
  BY DEF IInv
<1> QED
  BY <1>1, AlwaysIInv, PTL

(* The versions of a key are a chain: what a version says it replaced is what
   the one before it holds, for any number of concurrent changes.
   (config_write.go:72-103) *)
THEOREM HistoryIsAChain == Spec => []VersionsChain
<1>1. IInv => VersionsChain
  BY DEF IInv
<1> QED
  BY <1>1, AlwaysIInv, PTL

(* A change that is delivered many times takes effect once.
   (config_write.go:55-68) *)
THEOREM EffectOnce == Spec => []AppliedOnce
<1>1. IInv => AppliedOnce
  BY DEF IInv
<1> QED
  BY <1>1, AlwaysIInv, PTL

(* Every version of a critical key was previewed, as that value and on the
   version it replaced, with a token no other version used.
   (confirm.go:42-86, config_api.go:351-367) *)
THEOREM ConfirmedFirst == Spec => []CriticalIsConfirmed
<1>1. IInv => CriticalIsConfirmed
  BY DEF IInv
<1> QED
  BY <1>1, AlwaysIInv, PTL

(* The types, with the bound they put on what a process can know: no request,
   token or snapshot names a version that was not written, and no key has more
   versions than its seed and one for each change that was asked for.
   (config_write.go:55-103, config_read.go, seed.go) *)
THEOREM TypeCorrect == Spec => []TypeOK
<1>1. IInv => TypeOK
  <2> SUFFICES ASSUME IInv PROVE TypeOK
    OBVIOUS
  <2>0. Typed /\ Counted /\ SeenIsWritten /\ applies \in Nat /\ MaxApplies \in Nat /\ applies <= MaxApplies
    BY ConfigAssumption DEF IInv, Counted
  <2>1. \A k \in Keys : Len(params[k]) \in Nat /\ Len(params[k]) <= MaxApplies + 1
    <3> SUFFICES ASSUME NEW k \in Keys PROVE Len(params[k]) \in Nat /\ Len(params[k]) <= MaxApplies + 1
      OBVIOUS
    <3>1. Cardinality(Waiting(k)) \in Nat /\ Len(params[k]) + Cardinality(Waiting(k)) <= applies + 1
      BY <2>0, FS_CardinalityType DEF Counted
    <3>2. Len(params[k]) \in Nat
      BY <2>0 DEF Typed
    <3> QED
      BY <2>0, <3>1, <3>2
  <2>2. \A k \in Keys, n \in Nat : n <= Len(params[k]) => n \in Versions
    BY <2>0, <2>1 DEF Versions
  <2>3. \A k \in Keys : Len(params[k]) \in Versions /\ \A i \in 1..Len(params[k]) : params[k][i] \in Row
    BY <2>0, <2>1, <2>2 DEF Typed
  <2>4. \A f \in [Keys -> Nat] : Written(f) => f \in Loaded
    BY <2>2 DEF Written, Loaded
  <2>5. \A i \in 1..Len(previews) : previews[i] \in Diff
    <3> SUFFICES ASSUME NEW i \in 1..Len(previews) PROVE previews[i] \in Diff
      OBVIOUS
    <3>1. previews[i] \in IDiff
      BY <2>0 DEF Typed
    <3>2. previews[i].version \in Versions
      BY <2>0, <2>2, <3>1 DEF IDiff, SeenIsWritten
    <3> QED
      BY <3>1, <3>2 DEF IDiff, Diff
  <2>6. \A r \in Requests : req[r] # None => req[r] \in Request
    <3> SUFFICES ASSUME NEW r \in Requests, req[r] # None PROVE req[r] \in Request
      OBVIOUS
    <3>1. req[r] \in IRequest
      BY <2>0 DEF Typed
    <3>2. req[r].expected \in Versions /\ req[r].cur \in Versions
      BY <2>0, <2>2, <3>1 DEF IRequest, SeenIsWritten
    <3>3. req[r].values \in Loaded \cup {None}
      BY <2>0, <2>4, <3>1 DEF IRequest, SeenIsWritten
    <3> QED
      BY <3>1, <3>2, <3>3 DEF IRequest, Request
  <2>7. req \in [Requests -> Request \cup {None}]
    BY <2>0, <2>6 DEF Typed
  <2>8. snap \in [Procs -> Loaded \cup {None}]
    BY <2>0, <2>4 DEF SeenIsWritten
  <2> QED
    BY <2>0, <2>3, <2>5, <2>7, <2>8 DEF Typed, TypeOK, Counted
<1> QED
  BY <1>1, AlwaysIInv, PTL
=============================================================================
